--------------------------- MODULE DownloadProofs ---------------------------
(***************************************************************************)
(* Theorems about Download, for every number of peers and every height of  *)
(* the chain.                                                              *)
(***************************************************************************)
EXTENDS Download, FiniteSetTheorems, SequenceTheorems, WellFoundedInduction,
        NaturalsInduction, TLAPS

-----------------------------------------------------------------------------
(* Recursion over the numbers up to n. *)

LEMMA LeastNat ==
    ASSUME NEW S \in SUBSET Nat, S # {}
    PROVE  \E x \in S : \A y \in S : x <= y
<1>1. PICK x \in S : \A y \in S : ~(<<y, x>> \in OpToRel(<, Nat))
  BY NatLessThanWellFounded, WFMin
<1>2. ASSUME NEW y \in S, y < x PROVE FALSE
  <2>1. <<y, x>> \in OpToRel(<, Nat)
    BY <1>2 DEF OpToRel
  <2> QED
    BY <1>1, <2>1
<1>3. \A y \in S : x <= y
  BY <1>2
<1> QED
  BY <1>3

\* Induction up to a number, with a set for the predicate.
LEMMA UpTo ==
    ASSUME NEW N \in Nat, NEW G, 0 \in G, \A n \in 1..N : n - 1 \in G => n \in G
    PROVE  0..N \subseteq G
<1>1. SUFFICES ASSUME 0..N \ G # {} PROVE FALSE
  OBVIOUS
<1> DEFINE T == 0..N \ G
<1>2. T \in SUBSET Nat
  OBVIOUS
<1> HIDE DEF T
<1>3. PICK n \in T : \A m \in T : n <= m
  BY <1>1, <1>2, LeastNat DEF T
<1>4. n \in 1..N /\ n - 1 \in Nat
  BY <1>3 DEF T
<1>5. n - 1 \in G
  BY <1>3, <1>4 DEF T
<1> QED
  BY <1>3, <1>4, <1>5 DEF T

\* f is computed step by step from x: the i-th step is g[i].
Steps(f, x, g, n) == f = [i \in 0..n |-> IF i = 0 THEN x ELSE g[i][f[i - 1]]]

LEMMA StepsExist ==
    ASSUME NEW V, NEW x \in V, NEW n \in Nat, NEW g \in [1..n -> [V -> V]]
    PROVE  \E f \in [0..n -> V] : Steps(f, x, g, n)
<1> DEFINE T == {k \in 0..n : ~\E f \in [0..k -> V] : Steps(f, x, g, k)}
<1>1. T = {}
  <2>1. SUFFICES ASSUME T # {} PROVE FALSE
    OBVIOUS
  <2> T \in SUBSET Nat
    OBVIOUS
  <2> HIDE DEF T
  <2>2. PICK k \in T : \A j \in T : k <= j
    BY <2>1, LeastNat
  <2> USE DEF T
  <2>3. CASE k = 0
    <3>1. Steps([i \in 0..0 |-> x], x, g, 0) /\ [i \in 0..0 |-> x] \in [0..0 -> V]
      BY DEF Steps
    <3> QED
      BY <2>2, <2>3, <3>1
  <2>4. CASE k # 0
    <3>1. k - 1 \in 0..n /\ k - 1 \notin T /\ k \in 1..n
      BY <2>2, <2>4
    <3>2. PICK f \in [0 .. k - 1 -> V] : Steps(f, x, g, k - 1)
      BY <3>1
    <3> DEFINE h == [i \in 0..k |-> IF i = k THEN g[k][f[k - 1]] ELSE f[i]]
    <3>3. \A i \in 0 .. k - 1 : f[i] = IF i = 0 THEN x ELSE g[i][f[i - 1]]
      BY <3>2 DEF Steps
    <3>4. \A i \in 0..k : h[i] = IF i = 0 THEN x ELSE g[i][h[i - 1]]
      <4> TAKE i \in 0..k
      <4>1. CASE i = k
        <5>1. k - 1 \in 0..k /\ k - 1 # k
          BY <3>1
        <5> QED
          BY <2>4, <4>1, <5>1
      <4>2. CASE i # k /\ i # 0
        <5>1. i - 1 \in 0..k /\ i - 1 # k /\ i \in 0 .. k - 1
          BY <3>1, <4>2
        <5> QED
          BY <3>3, <4>2, <5>1
      <4>3. CASE i # k /\ i = 0
        <5>1. i \in 0 .. k - 1
          BY <3>1, <4>3
        <5> QED
          BY <3>3, <4>3, <5>1
      <4> QED
        BY <4>1, <4>2, <4>3
    <3>5. h \in [0..k -> V]
      <4>1. k - 1 \in 0 .. k - 1 /\ f[k - 1] \in V
        BY <3>1, <3>2
      <4>2. g[k][f[k - 1]] \in V
        BY <4>1
      <4>3. \A i \in 0..k : i # k => i \in 0 .. k - 1
        BY <3>1
      <4> QED
        BY <4>2, <4>3
    <3>6. h = [i \in 0..k |-> h[i]]
      OBVIOUS
    <3> HIDE DEF h
    <3>7. Steps(h, x, g, k)
      BY <3>4, <3>6 DEF Steps
    <3> QED
      BY <2>2, <3>5, <3>7
  <2> QED
    BY <2>3, <2>4
<1>2. n \in 0..n
  OBVIOUS
<1> QED
  BY <1>1, <1>2

-----------------------------------------------------------------------------
(* Kept and Unsent: what is in them, and in what order. *)

LEMMA SeqRange ==
    ASSUME NEW X, NEW q \in Seq(X)
    PROVE  /\ Range(q) \subseteq X /\ q \in Seq(Range(q))
           /\ \A y : y \in Range(q) <=> \E i \in 1 .. Len(q) : q[i] = y
BY DEF Range

\* part is the first n elements of q that are in S; p gives their places in q.
PicksFrom(part, q, S, p, n) ==
    /\ p \in [1 .. Len(part) -> 1..n]
    /\ \A j \in 1 .. Len(part) : part[j] = q[p[j]]
    /\ \A j, k \in 1 .. Len(part) : j < k => p[j] < p[k]
    /\ \A i \in 1..n : q[i] \in S <=> \E j \in 1 .. Len(part) : p[j] = i

LEMMA PicksMore ==
    ASSUME NEW X, NEW q \in Seq(X), NEW S, NEW n \in 1 .. Len(q), NEW v \in Seq(X), NEW p,
           PicksFrom(v, q, S, p, n - 1)
    PROVE  \E r : PicksFrom(IF q[n] \in S THEN Append(v, q[n]) ELSE v, q, S, r, n)
<1> DEFINE M == Len(v)
<1>1. M \in Nat /\ n \in Nat /\ q[n] \in X
  OBVIOUS
<1>2. /\ p \in [1..M -> 1 .. n - 1]
      /\ \A j \in 1..M : v[j] = q[p[j]]
      /\ \A j, k \in 1..M : j < k => p[j] < p[k]
      /\ \A i \in 1 .. n - 1 : q[i] \in S <=> \E j \in 1..M : p[j] = i
  BY DEF PicksFrom
<1>3. CASE q[n] \notin S
  <2>1. p \in [1..M -> 1..n]
    BY <1>1, <1>2
  <2>2. \A i \in 1..n : q[i] \in S <=> \E j \in 1..M : p[j] = i
    <3> TAKE i \in 1..n
    <3>1. CASE i = n
      <4>1. \A j \in 1..M : p[j] \in 1 .. n - 1
        BY <1>2
      <4> QED
        BY <1>1, <1>3, <3>1, <4>1
    <3>2. CASE i # n
      BY <1>1, <1>2, <3>2
    <3> QED
      BY <3>1, <3>2
  <2> QED
    BY <1>2, <1>3, <2>1, <2>2 DEF PicksFrom
<1>4. CASE q[n] \in S
  <2> DEFINE w == Append(v, q[n])
             r == [j \in 1 .. M + 1 |-> IF j = M + 1 THEN n ELSE p[j]]
  <2>1. Len(w) = M + 1 /\ w[M + 1] = q[n] /\ \A j \in 1..M : w[j] = v[j]
    BY <1>1
  <2>2. \A j \in 1 .. M + 1 : j \in 1..M \/ j = M + 1
    BY <1>1
  <2>3. \A j \in 1..M : j # M + 1 /\ j \in 1 .. M + 1 /\ p[j] \in 1 .. n - 1
    BY <1>1, <1>2
  <2> HIDE DEF w, M
  <2>4. r \in [1 .. M + 1 -> 1..n]
    BY <1>1, <2>2, <2>3
  <2>5. \A j \in 1 .. M + 1 : w[j] = q[r[j]]
    BY <1>2, <2>1, <2>2, <2>3
  <2>6. \A j, k \in 1 .. M + 1 : j < k => r[j] < r[k]
    <3> TAKE j, k \in 1 .. M + 1
    <3>1. CASE k = M + 1
      BY <1>1, <2>2, <2>3, <3>1
    <3>2. CASE k # M + 1
      <4>1. j < k => j \in 1..M /\ k \in 1..M
        BY <1>1, <2>2, <3>2
      <4> QED
        BY <1>2, <2>3, <3>2, <4>1
    <3> QED
      BY <3>1, <3>2
  <2>7. \A i \in 1..n : q[i] \in S <=> \E j \in 1 .. M + 1 : r[j] = i
    <3> TAKE i \in 1..n
    <3>1. CASE i = n
      <4>1. M + 1 \in 1 .. M + 1 /\ r[M + 1] = n
        BY <1>1
      <4> QED
        BY <1>4, <3>1, <4>1
    <3>2. CASE i # n
      <4>1. i \in 1 .. n - 1
        BY <1>1, <3>2
      <4>2. (\E j \in 1..M : p[j] = i) <=> \E j \in 1 .. M + 1 : r[j] = i
        BY <2>2, <2>3, <3>2
      <4> QED
        BY <1>2, <4>1, <4>2
    <3> QED
      BY <3>1, <3>2
  <2> HIDE DEF r
  <2>8. PicksFrom(w, q, S, r, n)
    BY <2>1, <2>4, <2>5, <2>6, <2>7 DEF PicksFrom
  <2> QED
    BY <1>4, <2>8 DEF w
<1> QED
  BY <1>3, <1>4

LEMMA KeptPicks ==
    ASSUME NEW X, NEW q \in Seq(X), NEW S
    PROVE  Kept(q, S) \in Seq(X) /\ \E p : PicksFrom(Kept(q, S), q, S, p, Len(q))
<1> DEFINE N == Len(q)
           g == [i \in 1..N |-> [v \in Seq(X) |-> IF q[i] \in S THEN Append(v, q[i]) ELSE v]]
           Eq(f) == f = [n \in 0..N |-> IF n = 0 THEN <<>>
                                        ELSE IF q[n] \in S THEN Append(f[n - 1], q[n]) ELSE f[n - 1]]
           f == CHOOSE h : Eq(h)
<1>1. N \in Nat /\ <<>> \in Seq(X) /\ \A i \in 1..N : q[i] \in X
  OBVIOUS
<1>2. Kept(q, S) = f[N]
  BY DEF Kept
<1>3. \E h \in [0..N -> Seq(X)] : Eq(h)
  <2>1. g \in [1..N -> [Seq(X) -> Seq(X)]]
    BY <1>1
  <2>2. PICK h \in [0..N -> Seq(X)] : Steps(h, <<>>, g, N)
    BY <1>1, <2>1, StepsExist
  <2>3. \A n \in 0..N : h[n] = IF n = 0 THEN <<>>
                               ELSE IF q[n] \in S THEN Append(h[n - 1], q[n]) ELSE h[n - 1]
    <3> TAKE n \in 0..N
    <3>1. h[n] = IF n = 0 THEN <<>> ELSE g[n][h[n - 1]]
      BY <2>2 DEF Steps
    <3>2. n # 0 => n \in 1..N /\ n - 1 \in 0..N /\ h[n - 1] \in Seq(X)
      BY <1>1
    <3> QED
      BY <3>1, <3>2
  <2>4. h = [n \in 0..N |-> h[n]]
    OBVIOUS
  <2>5. Eq(h)
    BY <2>3, <2>4
  <2> QED
    BY <2>5
<1>4. Eq(f)
  BY <1>3
<1> HIDE DEF f, g
<1>5. \A n \in 0..N : f[n] = IF n = 0 THEN <<>>
                             ELSE IF q[n] \in S THEN Append(f[n - 1], q[n]) ELSE f[n - 1]
  BY <1>4
<1> HIDE DEF Eq
<1> DEFINE G == {n \in 0..N : f[n] \in Seq(X) /\ \E p : PicksFrom(f[n], q, S, p, n)}
<1> HIDE DEF N
<1>6. 0 \in G
  <2>1. f[0] = <<>> /\ 0 \in 0..N
    BY <1>1, <1>5
  <2>2. <<>> \in [1 .. Len(<<>>) -> 1..0] /\ 1 .. Len(<<>>) = {}
    OBVIOUS
  <2>3. PicksFrom(<<>>, q, S, <<>>, 0)
    BY <2>2 DEF PicksFrom
  <2> QED
    BY <1>1, <2>1, <2>3
<1>7. ASSUME NEW n \in 1..N, n - 1 \in G PROVE n \in G
  <2>1. PICK p : PicksFrom(f[n - 1], q, S, p, n - 1)
    BY <1>7
  <2>2. f[n - 1] \in Seq(X) /\ n \in 0..N /\ q[n] \in X
    BY <1>1, <1>7
  <2>3. f[n] = IF q[n] \in S THEN Append(f[n - 1], q[n]) ELSE f[n - 1]
    BY <1>5, <2>2
  <2>4. \E r : PicksFrom(f[n], q, S, r, n)
    BY <2>1, <2>2, <2>3, PicksMore DEF N
  <2>5. f[n] \in Seq(X)
    BY <2>2, <2>3
  <2> QED
    BY <2>2, <2>4, <2>5
<1> HIDE DEF G
<1>8. 0..N \subseteq G
  BY <1>1, <1>6, <1>7, UpTo
<1>9. N \in G
  BY <1>1, <1>8
<1> QED
  BY <1>2, <1>9 DEF G, N

\* What is kept is in S, and stands behind all that was kept from before it.
LEMMA KeptFacts ==
    ASSUME NEW X, NEW q \in Seq(X), NEW S
    PROVE  /\ Kept(q, S) \in Seq(X) /\ Range(Kept(q, S)) = Range(q) \cap S
           /\ \A j \in 1 .. Len(Kept(q, S)) : \E i \in 1 .. Len(q) :
                /\ Kept(q, S)[j] = q[i]
                /\ \A h \in 1 .. i - 1 : q[h] \in S => \E k \in 1 .. j - 1 : Kept(q, S)[k] = q[h]
<1> DEFINE K == Kept(q, S)
<1>1. K \in Seq(X) /\ Len(K) \in Nat /\ Len(q) \in Nat
  BY KeptPicks
<1>2. PICK p : PicksFrom(K, q, S, p, Len(q))
  BY KeptPicks
<1> HIDE DEF K
<1>3. /\ \A j \in 1 .. Len(K) : p[j] \in 1 .. Len(q) /\ K[j] = q[p[j]]
      /\ \A j, k \in 1 .. Len(K) : j < k => p[j] < p[k]
      /\ \A i \in 1 .. Len(q) : q[i] \in S <=> \E j \in 1 .. Len(K) : p[j] = i
  BY <1>2 DEF PicksFrom
<1>4. Range(K) = Range(q) \cap S
  <2>1. \A y : y \in Range(K) <=> \E j \in 1 .. Len(K) : K[j] = y
    BY <1>1, SeqRange
  <2>2. \A y : y \in Range(q) <=> \E i \in 1 .. Len(q) : q[i] = y
    BY SeqRange
  <2> QED
    BY <1>3, <2>1, <2>2
<1>5. ASSUME NEW j \in 1 .. Len(K), NEW h \in 1 .. p[j] - 1, q[h] \in S
      PROVE  \E k \in 1 .. j - 1 : K[k] = q[h]
  <2>1. h \in 1 .. Len(q)
    BY <1>1, <1>3
  <2>2. PICK k \in 1 .. Len(K) : p[k] = h
    BY <1>3, <1>5, <2>1
  <2>3. p[k] < p[j]
    BY <1>3, <2>2
  <2>4. ~(j < k) /\ j # k
    BY <1>3, <2>3
  <2>5. k \in 1 .. j - 1
    BY <1>1, <2>4
  <2> QED
    BY <1>3, <2>2, <2>5
<1> QED
  BY <1>1, <1>3, <1>4, <1>5 DEF K

\* What the first n elements of q leave to be sent: each of those not known, once, and
\* behind all that came before it.
SentFrom(part, q, S, n) ==
    /\ \A y : y \in Range(part) <=> y \notin S /\ \E i \in 1..n : q[i] = y
    /\ \A j, k \in 1 .. Len(part) : part[j] = part[k] => j = k
    /\ \A j \in 1 .. Len(part) : \E i \in 1..n :
         /\ part[j] = q[i]
         /\ \A h \in 1 .. i - 1 : q[h] \notin S => \E k \in 1 .. j - 1 : part[k] = q[h]

LEMMA SentMore ==
    ASSUME NEW X, NEW q \in Seq(X), NEW S, NEW n \in 1 .. Len(q), NEW v \in Seq(X),
           SentFrom(v, q, S, n - 1)
    PROVE  SentFrom(IF q[n] \in S \cup Range(v) THEN v ELSE Append(v, q[n]), q, S, n)
<1> DEFINE M == Len(v)
<1>1. /\ M \in Nat /\ n \in Nat /\ n - 1 \in Nat /\ q[n] \in X
      /\ \A i \in 1..n : i = n \/ i \in 1 .. n - 1
      /\ n \in 1..n /\ 1 .. n - 1 \subseteq 1..n
  OBVIOUS
<1>2. /\ \A y : y \in Range(v) <=> y \notin S /\ \E i \in 1 .. n - 1 : q[i] = y
      /\ \A j, k \in 1..M : v[j] = v[k] => j = k
      /\ \A j \in 1..M : \E i \in 1 .. n - 1 :
           /\ v[j] = q[i]
           /\ \A h \in 1 .. i - 1 : q[h] \notin S => \E k \in 1 .. j - 1 : v[k] = q[h]
  BY DEF SentFrom
<1>3. CASE q[n] \in S \cup Range(v)
  <2>1. ASSUME NEW y
        PROVE  y \in Range(v) <=> y \notin S /\ \E i \in 1..n : q[i] = y
    <3>1. (\E i \in 1..n : q[i] = y) <=> q[n] = y \/ \E i \in 1 .. n - 1 : q[i] = y
      BY <1>1
    <3> QED
      BY <1>2, <1>3, <3>1
  <2>2. \A j \in 1..M : \E i \in 1..n :
           /\ v[j] = q[i]
           /\ \A h \in 1 .. i - 1 : q[h] \notin S => \E k \in 1 .. j - 1 : v[k] = q[h]
    BY <1>1, <1>2
  <2> QED
    BY <1>2, <1>3, <2>1, <2>2 DEF SentFrom
<1>4. CASE q[n] \notin S \cup Range(v)
  <2> DEFINE w == Append(v, q[n])
  <2>1. w \in Seq(X) /\ Len(w) = M + 1 /\ w[M + 1] = q[n] /\ \A j \in 1..M : w[j] = v[j]
    BY <1>1
  <2>2. \A j \in 1 .. M + 1 : j \in 1..M \/ j = M + 1
    BY <1>1
  <2>3. \A y : y \in Range(v) <=> \E j \in 1..M : v[j] = y
    BY SeqRange
  <2> HIDE DEF w
  <2>4. \A y : y \in Range(w) <=> \E j \in 1 .. M + 1 : w[j] = y
    <3>1. \A y : y \in Range(w) <=> \E j \in 1 .. Len(w) : w[j] = y
      <4>1. w \in Seq(X)
        BY <2>1
      <4> QED
        BY <4>1, SeqRange
    <3>2. Len(w) = M + 1
      BY <2>1
    <3> QED
      BY <3>1, <3>2
  <2>5. 1..M \subseteq 1 .. M + 1 /\ M + 1 \in 1 .. M + 1
    BY <1>1
  <2> HIDE DEF M
  <2>6. \A y : y \in Range(w) <=> y \in Range(v) \/ y = q[n]
    BY <2>1, <2>2, <2>3, <2>4, <2>5
  <2>7. \A y : y \in Range(w) <=> y \notin S /\ \E i \in 1..n : q[i] = y
    BY <1>1, <1>2, <1>4, <2>6
  <2>8. ASSUME NEW j \in 1 .. M + 1, NEW k \in 1 .. M + 1, w[j] = w[k]
        PROVE  j = k
    <3>1. \A i \in 1..M : w[i] # w[M + 1]
      BY <1>4, <2>1, <2>3
    <3>2. CASE j \in 1..M /\ k \in 1..M
      BY <1>2, <2>1, <2>8, <3>2
    <3> QED
      BY <2>2, <2>8, <3>1, <3>2
  <2>9. ASSUME NEW j \in 1 .. M + 1
        PROVE  \E i \in 1..n :
                 /\ w[j] = q[i]
                 /\ \A h \in 1 .. i - 1 : q[h] \notin S => \E k \in 1 .. j - 1 : w[k] = q[h]
    <3>1. CASE j \in 1..M
      <4>1. PICK i \in 1 .. n - 1 :
              /\ v[j] = q[i]
              /\ \A h \in 1 .. i - 1 : q[h] \notin S => \E k \in 1 .. j - 1 : v[k] = q[h]
        BY <1>2, <3>1
      <4>2. 1 .. j - 1 \subseteq 1..M
        BY <1>1, <3>1
      <4> QED
        BY <1>1, <2>1, <3>1, <4>1, <4>2
    <3>2. CASE j = M + 1
      <4>1. 1 .. j - 1 = 1..M
        BY <1>1, <3>2
      <4>2. \A h \in 1 .. n - 1 : q[h] \notin S => \E k \in 1..M : w[k] = q[h]
        BY <1>2, <2>1, <2>3
      <4> QED
        BY <1>1, <2>1, <3>2, <4>1, <4>2
    <3> QED
      BY <2>2, <3>1, <3>2
  <2>10. SentFrom(w, q, S, n)
    BY <2>1, <2>7, <2>8, <2>9 DEF SentFrom
  <2> QED
    BY <1>4, <2>10 DEF w
<1> QED
  BY <1>3, <1>4

LEMMA UnsentFacts ==
    ASSUME NEW X, NEW q \in Seq(X), NEW S
    PROVE  Unsent(q, S) \in Seq(X) /\ SentFrom(Unsent(q, S), q, S, Len(q))
<1> DEFINE N == Len(q)
           g == [i \in 1..N |-> [v \in Seq(X) |->
                   IF q[i] \in S \cup Range(v) THEN v ELSE Append(v, q[i])]]
           Eq(f) == f = [n \in 0..N |-> IF n = 0 THEN <<>>
                                        ELSE IF q[n] \in S \cup Range(f[n - 1]) THEN f[n - 1]
                                             ELSE Append(f[n - 1], q[n])]
           f == CHOOSE h : Eq(h)
<1>1. N \in Nat /\ <<>> \in Seq(X) /\ \A i \in 1..N : q[i] \in X
  OBVIOUS
<1>2. Unsent(q, S) = f[N]
  BY DEF Unsent
<1>3. \E h \in [0..N -> Seq(X)] : Eq(h)
  <2>1. g \in [1..N -> [Seq(X) -> Seq(X)]]
    BY <1>1
  <2>2. PICK h \in [0..N -> Seq(X)] : Steps(h, <<>>, g, N)
    BY <1>1, <2>1, StepsExist
  <2>3. \A n \in 0..N : h[n] = IF n = 0 THEN <<>>
                               ELSE IF q[n] \in S \cup Range(h[n - 1]) THEN h[n - 1]
                                    ELSE Append(h[n - 1], q[n])
    <3> TAKE n \in 0..N
    <3>1. h[n] = IF n = 0 THEN <<>> ELSE g[n][h[n - 1]]
      BY <2>2 DEF Steps
    <3>2. n # 0 => n \in 1..N /\ n - 1 \in 0..N /\ h[n - 1] \in Seq(X)
      BY <1>1
    <3> QED
      BY <3>1, <3>2
  <2>4. h = [n \in 0..N |-> h[n]]
    OBVIOUS
  <2>5. Eq(h)
    BY <2>3, <2>4
  <2> QED
    BY <2>5
<1>4. Eq(f)
  BY <1>3
<1> HIDE DEF f, g
<1>5. \A n \in 0..N : f[n] = IF n = 0 THEN <<>>
                             ELSE IF q[n] \in S \cup Range(f[n - 1]) THEN f[n - 1]
                                  ELSE Append(f[n - 1], q[n])
  BY <1>4
<1> HIDE DEF Eq
<1> DEFINE G == {n \in 0..N : f[n] \in Seq(X) /\ SentFrom(f[n], q, S, n)}
<1> HIDE DEF N
<1>6. 0 \in G
  <2>1. f[0] = <<>> /\ 0 \in 0..N
    BY <1>1, <1>5
  <2>2. SentFrom(<<>>, q, S, 0)
    BY DEF SentFrom, Range
  <2> QED
    BY <1>1, <2>1, <2>2
<1>7. ASSUME NEW n \in 1..N, n - 1 \in G PROVE n \in G
  <2>1. SentFrom(f[n - 1], q, S, n - 1)
    BY <1>7
  <2>2. f[n - 1] \in Seq(X) /\ n \in 0..N /\ q[n] \in X
    BY <1>1, <1>7
  <2>3. f[n] = IF q[n] \in S \cup Range(f[n - 1]) THEN f[n - 1] ELSE Append(f[n - 1], q[n])
    BY <1>5, <2>2
  <2>4. SentFrom(f[n], q, S, n)
    BY <2>1, <2>2, <2>3, SentMore DEF N
  <2>5. f[n] \in Seq(X)
    BY <2>2, <2>3
  <2> QED
    BY <2>2, <2>4, <2>5
<1> HIDE DEF G
<1>8. 0..N \subseteq G
  BY <1>1, <1>6, <1>7, UpTo
<1>9. N \in G
  BY <1>1, <1>8
<1> QED
  BY <1>2, <1>9 DEF G, N

\* Appending and removing.
LEMMA RangeConcat ==
    ASSUME NEW X, NEW p \in Seq(X), NEW q \in Seq(X)
    PROVE  Range(p \o q) = Range(p) \cup Range(q)
<1>1. /\ p \o q \in Seq(X) /\ Len(p) \in Nat /\ Len(q) \in Nat /\ Len(p \o q) = Len(p) + Len(q)
      /\ \A i \in 1 .. Len(p) + Len(q) : (p \o q)[i] = IF i <= Len(p) THEN p[i] ELSE q[i - Len(p)]
  OBVIOUS
<1>2. /\ \A y : y \in Range(p) <=> \E i \in 1 .. Len(p) : p[i] = y
      /\ \A y : y \in Range(q) <=> \E i \in 1 .. Len(q) : q[i] = y
      /\ \A y : y \in Range(p \o q) <=> \E i \in 1 .. Len(p \o q) : (p \o q)[i] = y
  BY <1>1, SeqRange
<1>3. ASSUME NEW y \in Range(p) PROVE y \in Range(p \o q)
  <2>1. PICK i \in 1 .. Len(p) : p[i] = y
    BY <1>2, <1>3
  <2>2. i \in 1 .. Len(p) + Len(q) /\ i <= Len(p)
    BY <1>1
  <2> QED
    BY <1>1, <1>2, <2>1, <2>2
<1>4. ASSUME NEW y \in Range(q) PROVE y \in Range(p \o q)
  <2>1. PICK i \in 1 .. Len(q) : q[i] = y
    BY <1>2, <1>4
  <2>2. i + Len(p) \in 1 .. Len(p) + Len(q) /\ ~(i + Len(p) <= Len(p)) /\ i + Len(p) - Len(p) = i
    BY <1>1
  <2> QED
    BY <1>1, <1>2, <2>1, <2>2
<1>5. ASSUME NEW y \in Range(p \o q) PROVE y \in Range(p) \cup Range(q)
  <2>1. PICK i \in 1 .. Len(p) + Len(q) : (p \o q)[i] = y
    BY <1>1, <1>2, <1>5
  <2>2. CASE i <= Len(p)
    BY <1>1, <1>2, <2>1, <2>2
  <2>3. CASE ~(i <= Len(p))
    <3>1. i - Len(p) \in 1 .. Len(q)
      BY <1>1, <2>3
    <3> QED
      BY <1>1, <1>2, <2>1, <2>3, <3>1
  <2> QED
    BY <2>2, <2>3
<1> QED
  BY <1>3, <1>4, <1>5

LEMMA RangeTail ==
    ASSUME NEW X, NEW q \in Seq(X), q # <<>>
    PROVE  /\ Tail(q) \in Seq(X) /\ Head(q) \in X /\ Head(q) \in Range(q)
           /\ Range(q) = {Head(q)} \cup Range(Tail(q))
<1>1. /\ Tail(q) \in Seq(X) /\ Head(q) = q[1] /\ Len(q) \in Nat \ {0} /\ Len(Tail(q)) = Len(q) - 1
      /\ \A i \in 1 .. Len(q) - 1 : Tail(q)[i] = q[i + 1]
  BY EmptySeq
<1>2. /\ \A y : y \in Range(q) <=> \E i \in 1 .. Len(q) : q[i] = y
      /\ \A y : y \in Range(Tail(q)) <=> \E i \in 1 .. Len(Tail(q)) : Tail(q)[i] = y
  <2>1. Tail(q) \in Seq(X)
    BY <1>1
  <2> QED
    BY <2>1, SeqRange
<1>3. Head(q) \in Range(q)
  BY <1>1, <1>2
<1>4. ASSUME NEW y \in Range(Tail(q)) PROVE y \in Range(q)
  <2>1. PICK i \in 1 .. Len(q) - 1 : Tail(q)[i] = y
    BY <1>1, <1>2, <1>4
  <2>2. i + 1 \in 1 .. Len(q)
    BY <1>1
  <2> QED
    BY <1>1, <1>2, <2>1, <2>2
<1>5. ASSUME NEW y \in Range(q), y # Head(q) PROVE y \in Range(Tail(q))
  <2>1. PICK i \in 1 .. Len(q) : q[i] = y
    BY <1>2, <1>5
  <2>2. i - 1 \in 1 .. Len(q) - 1 /\ i - 1 + 1 = i
    BY <1>1, <1>5, <2>1
  <2> QED
    BY <1>1, <1>2, <2>1, <2>2
<1> QED
  BY <1>1, <1>3, <1>4, <1>5

-----------------------------------------------------------------------------
(* What the client asks of a peer for one message. *)

GetBlocks == [type : {"getblocks"}, locator : Block, hashStop : Block]

\* Of a peer that has the blocks of B.
AskingType(B) == [already : [Block -> Int], askFor : Seq(Nat \X B),
                  last : {<<>>} \cup Block \X Block, out : Seq(GetBlocks)]

LEMMA BlockFacts ==
    /\ MaxHeight \in Nat /\ Fork \in Main /\ SideLength \in Nat /\ nLimit \in Nat \ {0}
    /\ Main \subseteq Nat /\ Main \subseteq Block /\ Block \subseteq Int /\ 0 \in Main
    /\ \A b \in Block : /\ nHeight(b) \in Nat
                        /\ b \in Main <=> b >= 0
                        /\ b \in Main => b <= MaxHeight /\ nHeight(b) = b
                        /\ b \in Main /\ b # 0 => Prev(b) = b - 1 /\ b - 1 \in Main
                        /\ b \notin Main => b < 0 /\ nHeight(b) <= Fork + SideLength
BY DownloadAssumption DEF Main, Side, Block, nHeight, Prev

\* The orphans are blocks of the main chain above genesis.
LEMMA RootExists ==
    ASSUME NEW S, S \subseteq Main \ {0}, NEW b \in S
    PROVE  LET r == GetOrphanRoot(S, b)
           IN  r \in S /\ r <= b /\ r - 1 \notin S /\ r..b \subseteq S
<1> DEFINE T == {n \in Nat : n <= b /\ n..b \subseteq S}
<1>1. S \subseteq Nat /\ 0 \notin S /\ b \in Nat
  BY BlockFacts
<1>2. b \in T /\ T \in SUBSET Nat
  <2>1. b..b = {b}
    BY <1>1
  <2> QED
    BY <1>1, <2>1
<1>3. PICK r \in T : \A n \in T : r <= n
  <2> HIDE DEF T
  <2> QED
    BY <1>2, LeastNat
<1>4. r \in S /\ r <= b /\ r..b \subseteq S /\ r \in Nat
  BY <1>1, <1>3
<1>5. r - 1 \notin S
  <2>1. SUFFICES ASSUME r - 1 \in S PROVE FALSE
    OBVIOUS
  <2>2. r - 1 \in Nat /\ r - 1 <= b
    BY <1>1, <1>4, <2>1
  <2>3. r - 1 .. b \subseteq {r - 1} \cup r..b
    BY <1>1, <1>4
  <2>4. r - 1 \in T
    BY <1>4, <2>1, <2>2, <2>3
  <2> QED
    BY <1>3, <1>4, <2>4
<1>6. \E x \in S : x <= b /\ x - 1 \notin S /\ \A c \in x..b : c \in S
  BY <1>4, <1>5
<1> QED
  BY <1>6 DEF GetOrphanRoot

\* The blocks that are to be asked for.
Wanted(a) == {e[2] : e \in Range(a.askFor)}

LEMMA AskingFields ==
    ASSUME NEW B, B \subseteq Block, NEW a \in AskingType(B)
    PROVE  /\ a.already \in [Block -> Int] /\ a.askFor \in Seq(Nat \X B)
           /\ a.last \in {<<>>} \cup Block \X Block /\ a.out \in Seq(GetBlocks)
BY DEF AskingType

\* What AskFor does.
Requested(B, a, b) ==
    /\ Later(a.already[b] + 1, 0) \in Nat
    /\ AskFor(a, b) \in AskingType(B)
    /\ AskFor(a, b).already = [a.already EXCEPT ![b] = Later(a.already[b] + 1, 0)]
    /\ Range(AskFor(a, b).askFor) = Range(a.askFor) \cup {<<Later(a.already[b] + 1, 0), b>>}
    /\ AskFor(a, b).last = a.last /\ AskFor(a, b).out = a.out
    /\ Wanted(AskFor(a, b)) = Wanted(a) \cup {b}

LEMMA AskForType ==
    ASSUME NEW B, B \subseteq Block, NEW a \in AskingType(B), NEW b \in B
    PROVE  Requested(B, a, b)
<1> DEFINE t == Later(a.already[b] + 1, 0)
           before == Kept(a.askFor, (0..t) \X Block)
           after == Kept(a.askFor, (Nat \ (0..t)) \X Block)
<1>1. /\ a.already \in [Block -> Int] /\ a.askFor \in Seq(Nat \X B)
      /\ a.last \in {<<>>} \cup Block \X Block /\ a.out \in Seq(GetBlocks)
  BY AskingFields
<1>2. t \in Nat /\ b \in Block
  BY <1>1 DEF Later
<1>3. /\ before \in Seq(Nat \X B) /\ after \in Seq(Nat \X B)
      /\ Range(before) = Range(a.askFor) \cap ((0..t) \X Block)
      /\ Range(after) = Range(a.askFor) \cap ((Nat \ (0..t)) \X Block)
  BY <1>1, KeptFacts
<1>4. AskFor(a, b) = [already |-> [a.already EXCEPT ![b] = t],
                      askFor |-> before \o <<<<t, b>>>> \o after,
                      last |-> a.last, out |-> a.out]
  BY DEF AskFor
<1> HIDE DEF t, before, after
<1>5. /\ <<<<t, b>>>> \in Seq(Nat \X B) /\ before \o <<<<t, b>>>> \in Seq(Nat \X B)
      /\ before \o <<<<t, b>>>> \o after \in Seq(Nat \X B)
  BY <1>2, <1>3
<1>6. AskFor(a, b) \in AskingType(B)
  BY <1>1, <1>2, <1>4, <1>5 DEF AskingType
<1>7. Range(a.askFor) \subseteq Nat \X Block
  <2>1. Range(a.askFor) \subseteq Nat \X B
    BY <1>1, SeqRange
  <2> QED
    BY <2>1
<1>8. Range(<<<<t, b>>>>) = {<<t, b>>}
  BY DEF Range
<1>9. Range(before \o <<<<t, b>>>> \o after) = Range(before) \cup {<<t, b>>} \cup Range(after)
  <2> DEFINE P == Nat \X B
             one == <<<<t, b>>>>
             both == before \o one
  <2>1. before \in Seq(P) /\ after \in Seq(P) /\ one \in Seq(P) /\ both \in Seq(P)
    BY <1>3, <1>5
  <2>2. Range(one) = {<<t, b>>}
    BY <1>8
  <2> HIDE DEF P, one
  <2>3. Range(both) = Range(before) \cup Range(one)
    BY <2>1, RangeConcat
  <2> HIDE DEF both
  <2>4. Range(both \o after) = Range(both) \cup Range(after)
    BY <2>1, RangeConcat
  <2>5. Range(both \o after) = Range(before) \cup {<<t, b>>} \cup Range(after)
    BY <2>2, <2>3, <2>4
  <2> QED
    BY <2>5 DEF both, one
<1>10. Range(before) \cup Range(after) = Range(a.askFor)
  BY <1>2, <1>3, <1>7
<1>11. Range(AskFor(a, b).askFor) = Range(a.askFor) \cup {<<t, b>>}
  <2>1. AskFor(a, b).askFor = before \o <<<<t, b>>>> \o after
    BY <1>4
  <2> QED
    BY <1>9, <1>10, <2>1, Zenon
<1>12. Wanted(AskFor(a, b)) = Wanted(a) \cup {b}
  <2>1. <<t, b>>[2] = b
    OBVIOUS
  <2> QED
    BY <1>11, <2>1, Zenon DEF Wanted
<1>13. AskFor(a, b).already = [a.already EXCEPT ![b] = t] /\ AskFor(a, b).last = a.last /\ AskFor(a, b).out = a.out
  BY <1>4
<1> QED
  BY <1>2, <1>6, <1>11, <1>12, <1>13 DEF Requested, t

\* What PushGetBlocks does.
GetsBlocks(B, a, begin, end) ==
    /\ PushGetBlocks(a, begin, end) \in AskingType(B)
    /\ PushGetBlocks(a, begin, end).already = a.already
    /\ PushGetBlocks(a, begin, end).askFor = a.askFor
    /\ PushGetBlocks(a, begin, end).last = <<begin, end>>
    /\ PushGetBlocks(a, begin, end).out =
         IF a.last = <<begin, end>> THEN a.out
         ELSE Append(a.out, [type |-> "getblocks", locator |-> begin, hashStop |-> end])

LEMMA PushGetBlocksType ==
    ASSUME NEW B, B \subseteq Block, NEW a \in AskingType(B), NEW begin \in Block, NEW end \in Block
    PROVE  GetsBlocks(B, a, begin, end)
<1>1. /\ a.already \in [Block -> Int] /\ a.askFor \in Seq(Nat \X B)
      /\ a.last \in {<<>>} \cup Block \X Block /\ a.out \in Seq(GetBlocks)
  BY AskingFields
<1> DEFINE m == [type |-> "getblocks", locator |-> begin, hashStop |-> end]
<1>2. m \in GetBlocks
  BY DEF GetBlocks
<1>3. CASE a.last = <<begin, end>>
  BY <1>1, <1>3 DEF PushGetBlocks, GetsBlocks
<1>4. CASE a.last # <<begin, end>>
  <2>1. PushGetBlocks(a, begin, end) =
          [already |-> a.already, askFor |-> a.askFor, last |-> <<begin, end>>, out |-> Append(a.out, m)]
    BY <1>4 DEF PushGetBlocks
  <2> HIDE DEF m
  <2>2. Append(a.out, m) \in Seq(GetBlocks)
    BY <1>1, <1>2
  <2>3. <<begin, end>> \in Block \X Block
    OBVIOUS
  <2> QED
    BY <1>1, <1>4, <2>1, <2>2, <2>3 DEF AskingType, m, GetsBlocks
<1> QED
  BY <1>3, <1>4

LEMMA EraseType ==
    ASSUME NEW B, B \subseteq Block, NEW a \in AskingType(B), NEW b \in Block
    PROVE  /\ Erase(a, b) \in AskingType(B)
           /\ Erase(a, b).already = [a.already EXCEPT ![b] = Never]
           /\ Erase(a, b).askFor = a.askFor /\ Erase(a, b).last = a.last /\ Erase(a, b).out = a.out
BY AskingFields DEF Erase, AskingType, Never

-----------------------------------------------------------------------------
(* The invariant. *)

\* Every block of the index but genesis follows on another of it, the best is a highest
\* one, and an orphan's previous block is missing.
ChainIsLinked ==
    /\ 0 \in index /\ mapOrphanBlocks \subseteq Main
    /\ \A b \in index : (b # 0 => Prev(b) \in index) /\ nHeight(b) <= nHeight(pindexBest)
    /\ \A b \in mapOrphanBlocks : b - 1 \notin index

\* What a server has of the main chain, and the messages between the client and it.
Has(s) == 1 .. height[s]
ToServer(s) == [type : {"inv"}, vInv : Seq(Block)]
                 \cup [type : {"getdata"}, vInv : Seq(Has(s)) \ {<<>>}] \cup GetBlocks
ToClient(s) == [type : {"inv"}, vInv : Seq(Has(s))] \cup [type : {"block"}, block : Has(s)]

\* A peer is asked only for blocks that it has, and announces and sends no others.
OnlyWhatItHas ==
    \A s \in Server :
        /\ mapAskFor[s] \in Seq(Nat \X Has(s)) /\ toServer[s] \in Seq(ToServer(s))
        /\ toSend[s] \in Seq(Has(s)) /\ toClient[s] \in Seq(ToClient(s))

\* getblocks is sent of the client's own accord at most once to a peer that it has
\* shaken hands with.
AskedAreGreeted == nAskedForBlocks <= Cardinality(Server \ (connected \ greeted))

\* The client announces what it has.
AnnouncesWhatItHas == \A s \in Server : Range(vInventoryToSend[s]) \subseteq Had

\* The parts of TypeOK, as the actions leave them alone.
ChainType ==
    index \subseteq Block /\ pindexBest \in index /\ mapOrphanBlocks \subseteq Block \ index
AskingType2 ==
    /\ mapAlreadyAskedFor \in [Block -> Int] /\ mapAskFor \in [Server -> Seq(Nat \X Block)]
    /\ lastGetBlocks \in [Server -> {<<>>} \cup Block \X Block]
RelayType ==
    /\ setInventoryKnown \in [Server -> SUBSET Block]
    /\ vInventoryToSend \in [Server -> Seq(Block)]
ServerType ==
    /\ height \in [Server -> Main] /\ known \in [Server -> SUBSET Block]
    /\ toSend \in [Server -> Seq(Block)] /\ hashContinue \in [Server -> Main]
NetType == greeted \subseteq connected /\ connected \subseteq Server
WireType == toServer \in [Server -> Seq(Message)] /\ toClient \in [Server -> Seq(Message)]

LEMMA TypeParts ==
    TypeOK <=> /\ ChainType /\ AskingType2 /\ RelayType /\ ServerType /\ NetType /\ WireType
               /\ nAskedForBlocks \in 0 .. Cardinality(Server) /\ fresh \subseteq Main
BY DEF TypeOK, ChainType, AskingType2, RelayType, ServerType, NetType, WireType

LEMMA TypePartsNext ==
    TypeOK' <=> /\ ChainType' /\ AskingType2' /\ RelayType' /\ ServerType' /\ NetType' /\ WireType'
                /\ nAskedForBlocks' \in 0 .. Cardinality(Server) /\ fresh' \subseteq Main
BY DEF TypeOK, ChainType, AskingType2, RelayType, ServerType, NetType, WireType

DownloadInv ==
    TypeOK /\ ChainIsLinked /\ OnlyWhatItHas /\ AskedAreGreeted /\ AnnouncesWhatItHas

LEMMA SeqMonotone ==
    ASSUME NEW X, NEW Y, X \subseteq Y
    PROVE  Seq(X) \subseteq Seq(Y)
OBVIOUS

LEMMA HasFacts ==
    ASSUME TypeOK, NEW s \in Server
    PROVE  /\ Has(s) \subseteq Main /\ Has(s) \subseteq Block /\ Has(s) \subseteq Main \ {0}
           /\ Seq(Has(s)) \subseteq Seq(Block) /\ Seq(Nat \X Has(s)) \subseteq Seq(Nat \X Block)
           /\ ToServer(s) \subseteq Message /\ ToClient(s) \subseteq Message
           /\ Seq(ToServer(s)) \subseteq Seq(Message) /\ Seq(ToClient(s)) \subseteq Seq(Message)
           /\ Seq(GetBlocks) \subseteq Seq(ToServer(s))
<1>1. Has(s) \subseteq Main \ {0}
  BY DownloadAssumption DEF TypeOK, Has, Main
<1>2. Has(s) \subseteq Block
  BY <1>1, BlockFacts
<1>3. Seq(Has(s)) \subseteq Seq(Block) /\ Seq(Nat \X Has(s)) \subseteq Seq(Nat \X Block)
  <2>1. Nat \X Has(s) \subseteq Nat \X Block
    BY <1>2
  <2> QED
    BY <1>2, <2>1, SeqMonotone
<1>4. ToServer(s) \subseteq Message /\ ToClient(s) \subseteq Message
  <2> HIDE DEF Has
  <2>1. [type : {"getdata"}, vInv : Seq(Has(s)) \ {<<>>}] \subseteq Message
    BY <1>3 DEF Message
  <2>2. [type : {"inv"}, vInv : Seq(Has(s))] \subseteq Message
    BY <1>3 DEF Message
  <2>3. [type : {"block"}, block : Has(s)] \subseteq Message
    BY <1>2 DEF Message
  <2>4. [type : {"inv"}, vInv : Seq(Block)] \subseteq Message
    BY DEF Message
  <2>5. GetBlocks \subseteq Message
    BY DEF Message, GetBlocks
  <2> QED
    BY <2>1, <2>2, <2>3, <2>4, <2>5 DEF ToServer, ToClient
<1>5. GetBlocks \subseteq ToServer(s)
  BY DEF ToServer
<1> QED
  BY <1>1, <1>2, <1>3, <1>4, <1>5, SeqMonotone

LEMMA AskingFacts ==
    ASSUME DownloadInv
    PROVE  /\ mapOrphanBlocks \subseteq Main \ {0} /\ pindexBest \in Block
           /\ \A b \in mapOrphanBlocks : GetOrphanRoot(mapOrphanBlocks, b) \in Main \ {0}
           /\ \A s \in Server : /\ Asking(s) \in AskingType(Has(s)) /\ Asking(s).out = <<>>
                                /\ Asking(s).askFor = mapAskFor[s]
                                /\ Asking(s).already = mapAlreadyAskedFor
<1>1. mapOrphanBlocks \subseteq Main \ {0} /\ pindexBest \in Block
  BY DEF DownloadInv, TypeOK, ChainIsLinked
<1>2. \A b \in mapOrphanBlocks : GetOrphanRoot(mapOrphanBlocks, b) \in Main \ {0}
  BY <1>1, RootExists
<1>3. ASSUME NEW s \in Server
      PROVE  /\ Asking(s) \in AskingType(Has(s)) /\ Asking(s).out = <<>>
             /\ Asking(s).askFor = mapAskFor[s] /\ Asking(s).already = mapAlreadyAskedFor
  <2>1. /\ mapAskFor[s] \in Seq(Nat \X Has(s)) /\ mapAlreadyAskedFor \in [Block -> Int]
        /\ lastGetBlocks[s] \in {<<>>} \cup Block \X Block
    BY DEF DownloadInv, TypeOK, OnlyWhatItHas
  <2> QED
    BY <2>1 DEF Asking, AskingType
<1> QED
  BY <1>1, <1>2, <1>3

LEMMA GotInventoryType ==
    ASSUME DownloadInv, NEW B, B \subseteq Block, NEW a \in AskingType(B), NEW b \in B, NEW l
    PROVE  /\ GotInventory(a, b, l) \in AskingType(B)
           /\ Wanted(a) \subseteq Wanted(GotInventory(a, b, l))
           /\ AlreadyHave(b) \/ b \in Wanted(GotInventory(a, b, l))
<1>1. mapOrphanBlocks \subseteq Block /\ 0 \in Block /\ Main \subseteq Block /\ pindexBest \in Block /\ b \in Block
  BY BlockFacts, AskingFacts
<1>2. b \in mapOrphanBlocks => GetOrphanRoot(mapOrphanBlocks, b) \in Block
  BY <1>1, AskingFacts
<1>3. CASE ~AlreadyHave(b)
  <2>1. GotInventory(a, b, l) = AskFor(a, b)
    BY <1>3 DEF GotInventory
  <2>2. AskFor(a, b) \in AskingType(B) /\ Wanted(AskFor(a, b)) = Wanted(a) \cup {b}
    <3>1. Requested(B, a, b)
      BY AskForType
    <3> QED
      BY <3>1 DEF Requested
  <2> QED
    BY <2>1, <2>2
<1>4. CASE AlreadyHave(b)
  <2>1. \/ GotInventory(a, b, l) = a
        \/ \E x, y \in Block : GotInventory(a, b, l) = PushGetBlocks(a, x, y)
    BY <1>1, <1>2, <1>4 DEF GotInventory
  <2>2. ASSUME NEW x \in Block, NEW y \in Block
        PROVE  /\ PushGetBlocks(a, x, y) \in AskingType(B)
               /\ Wanted(PushGetBlocks(a, x, y)) = Wanted(a)
    <3>1. GetsBlocks(B, a, x, y)
      BY PushGetBlocksType
    <3> QED
      BY <3>1 DEF GetsBlocks, Wanted
  <2> QED
    BY <1>4, <2>1, <2>2
<1> QED
  BY <1>3, <1>4

\* What an inventory makes the client ask: all that it does not have.
LEMMA AskedSteps ==
    ASSUME DownloadInv, NEW s \in Server, NEW B, B \subseteq Block, NEW vInv \in Seq(B),
           Asking(s) \in AskingType(B)
    PROVE  /\ Asked(s, vInv) \in [0 .. Len(vInv) -> AskingType(B)]
           /\ Asked(s, vInv)[0] = Asking(s)
           /\ \A n \in 1 .. Len(vInv) :
                Asked(s, vInv)[n] = GotInventory(Asked(s, vInv)[n - 1], vInv[n], n = Len(vInv))
<1> DEFINE N == Len(vInv)
           A == AskingType(B)
           g == [n \in 1..N |-> [a \in A |-> GotInventory(a, vInv[n], n = N)]]
           Eq(f) == f = [n \in 0..N |-> IF n = 0 THEN Asking(s)
                                        ELSE GotInventory(f[n - 1], vInv[n], n = N)]
           f == CHOOSE h : Eq(h)
<1>1. N \in Nat /\ Asking(s) \in A /\ \A n \in 1..N : vInv[n] \in B
  OBVIOUS
<1>2. Asked(s, vInv) = f
  BY DEF Asked
<1>3. ASSUME NEW a \in A, NEW n \in 1..N PROVE GotInventory(a, vInv[n], n = N) \in A
  BY <1>1, GotInventoryType
<1> HIDE DEF A
<1>4. PICK h \in [0..N -> A] : Eq(h)
  <2>1. g \in [1..N -> [A -> A]]
    BY <1>3
  <2> HIDE DEF N
  <2>2. PICK h \in [0..N -> A] : Steps(h, Asking(s), g, N)
    BY <1>1, <2>1, StepsExist
  <2>3. \A n \in 0..N : h[n] = IF n = 0 THEN Asking(s) ELSE GotInventory(h[n - 1], vInv[n], n = N)
    <3> TAKE n \in 0..N
    <3>1. h[n] = IF n = 0 THEN Asking(s) ELSE g[n][h[n - 1]]
      BY <2>2 DEF Steps
    <3>2. n # 0 => n \in 1..N /\ n - 1 \in 0..N /\ h[n - 1] \in A
      BY <1>1
    <3>3. n # 0 => g[n][h[n - 1]] = GotInventory(h[n - 1], vInv[n], n = N)
      BY <3>2
    <3> QED
      BY <3>1, <3>3
  <2>4. h = [n \in 0..N |-> h[n]]
    OBVIOUS
  <2>5. Eq(h)
    BY <2>3, <2>4
  <2> QED
    BY <2>5
<1>5. Eq(f)
  BY <1>4
<1> HIDE DEF f, g, N
<1>6. \A n \in 0..N : f[n] = IF n = 0 THEN Asking(s) ELSE GotInventory(f[n - 1], vInv[n], n = N)
  BY <1>5
<1>7. 0 \in 0..N /\ 1..N \subseteq 0..N
  BY <1>1
<1> DEFINE G == {n \in 0..N : f[n] \in A}
<1>8. 0 \in G
  BY <1>1, <1>6, <1>7
<1>9. ASSUME NEW n \in 1..N, n - 1 \in G PROVE n \in G
  BY <1>1, <1>3, <1>6, <1>7, <1>9
<1> HIDE DEF G
<1>10. 0..N \subseteq G
  BY <1>1, <1>8, <1>9, UpTo
<1>11. f = [n \in 0..N |-> f[n]]
  BY <1>5
<1>12. f \in [0..N -> A]
  BY <1>10, <1>11 DEF G
<1> QED
  BY <1>2, <1>6, <1>7, <1>12 DEF N, A

LEMMA AskedAll ==
    ASSUME DownloadInv, NEW s \in Server, NEW B, B \subseteq Block, NEW vInv \in Seq(B),
           Asking(s) \in AskingType(B)
    PROVE  LET a == Asked(s, vInv)[Len(vInv)]
           IN  /\ a \in AskingType(B) /\ Wanted(Asking(s)) \subseteq Wanted(a)
               /\ \A b \in Range(vInv) : AlreadyHave(b) \/ b \in Wanted(a)
<1> DEFINE N == Len(vInv)
           f == Asked(s, vInv)
           G == {n \in 0..N : /\ Wanted(Asking(s)) \subseteq Wanted(f[n])
                              /\ \A i \in 1..n : AlreadyHave(vInv[i]) \/ vInv[i] \in Wanted(f[n])}
<1>1. /\ N \in Nat /\ f \in [0..N -> AskingType(B)] /\ f[0] = Asking(s)
      /\ \A n \in 1..N : f[n] = GotInventory(f[n - 1], vInv[n], n = N) /\ vInv[n] \in B
  BY AskedSteps
<1> HIDE DEF f, N
<1>2. 0 \in G
  BY <1>1
<1>3. ASSUME NEW n \in 1..N, n - 1 \in G PROVE n \in G
  <2>1. n - 1 \in 0..N /\ n \in 0..N /\ f[n - 1] \in AskingType(B) /\ \A i \in 1..n : i = n \/ i \in 1 .. n - 1
    BY <1>1
  <2>2. /\ Wanted(f[n - 1]) \subseteq Wanted(f[n])
        /\ AlreadyHave(vInv[n]) \/ vInv[n] \in Wanted(f[n])
    BY <1>1, <2>1, GotInventoryType
  <2> QED
    BY <1>3, <2>1, <2>2
<1> HIDE DEF G
<1>4. 0..N \subseteq G
  BY <1>1, <1>2, <1>3, UpTo
<1>5. N \in G /\ N \in 0..N
  BY <1>1, <1>4
<1>6. \A b \in Range(vInv) : \E i \in 1..N : vInv[i] = b
  BY SeqRange DEF N
<1> QED
  BY <1>1, <1>5, <1>6 DEF G, f, N

\* Answered: a block for each entry, and the best one after the end of a batch.
LEMMA AnsweredSteps ==
    ASSUME DownloadInv, NEW s \in Server, NEW vInv \in Seq(Has(s)), vInv # <<>>
    PROVE  LET f == Answered(s, vInv)
               block(n) == [type |-> "block", block |-> vInv[n]]
           IN  /\ f \in [0 .. Len(vInv) -> Seq(ToClient(s))]
               /\ f[0] = toClient[s]
               /\ \A n \in 1 .. Len(vInv) :
                    f[n] = IF vInv[n] = hashContinue[s] /\ \A j \in 1 .. n - 1 : vInv[j] # vInv[n]
                           THEN f[n - 1] \o <<block(n), [type |-> "inv", vInv |-> <<height[s]>>]>>
                           ELSE Append(f[n - 1], block(n))
<1> DEFINE N == Len(vInv)
           M == ToClient(s)
           block(n) == [type |-> "block", block |-> vInv[n]]
           best == [type |-> "inv", vInv |-> <<height[s]>>]
           C(n) == vInv[n] = hashContinue[s] /\ \A j \in 1 .. n - 1 : vInv[j] # vInv[n]
           g == [n \in 1..N |-> [a \in Seq(M) |->
                   IF C(n) THEN a \o <<block(n), best>> ELSE Append(a, block(n))]]
           Eq(f) == f = [n \in 0..N |-> IF n = 0 THEN toClient[s]
                                        ELSE f[n - 1] \o <<block(n)>>
                                               \o inv(IF C(n) THEN <<height[s]>> ELSE <<>>)]
           f == CHOOSE h : Eq(h)
<1>1. N \in Nat /\ toClient[s] \in Seq(M) /\ \A n \in 1..N : block(n) \in M
  <2>1. \A n \in 1..N : vInv[n] \in Has(s)
    OBVIOUS
  <2>2. toClient[s] \in Seq(M)
    BY DEF DownloadInv, OnlyWhatItHas
  <2>3. \A b \in Has(s) : [type |-> "block", block |-> b] \in M
    BY DEF ToClient
  <2> HIDE DEF M
  <2> QED
    BY <2>1, <2>2, <2>3
<1>2. best \in M
  <2>1. vInv[1] \in Has(s) /\ height[s] \in Main
    BY EmptySeq DEF DownloadInv, TypeOK
  <2>2. height[s] \in Has(s)
    BY <2>1 DEF Has, Main
  <2>3. <<height[s]>> \in Seq(Has(s))
    BY <2>2
  <2> QED
    BY <2>3 DEF ToClient
<1>3. Answered(s, vInv) = f
  BY DEF Answered
<1>4. inv(<<height[s]>>) = <<best>> /\ inv(<<>>) = <<>>
  BY DEF inv
<1>5. ASSUME NEW a \in Seq(M), NEW n \in 1..N
      PROVE  a \o <<block(n)>> \o inv(IF C(n) THEN <<height[s]>> ELSE <<>>)
               = IF C(n) THEN a \o <<block(n), best>> ELSE Append(a, block(n))
  <2> HIDE DEF C, best, block, M
  <2>1. CASE C(n)
    <3>1. inv(IF C(n) THEN <<height[s]>> ELSE <<>>) = <<best>>
      BY <1>4, <2>1
    <3>2. a \o <<block(n)>> \o <<best>> = a \o <<block(n), best>>
      BY <1>1, <1>2
    <3> QED
      BY <2>1, <3>1, <3>2
  <2>2. CASE ~C(n)
    <3>1. inv(IF C(n) THEN <<height[s]>> ELSE <<>>) = <<>>
      BY <1>4, <2>2
    <3>2. a \o <<block(n)>> \o <<>> = Append(a, block(n))
      BY <1>1
    <3> QED
      BY <2>2, <3>1, <3>2
  <2> QED
    BY <2>1, <2>2
<1>6. ASSUME NEW a \in Seq(M), NEW n \in 1..N
      PROVE  (IF C(n) THEN a \o <<block(n), best>> ELSE Append(a, block(n))) \in Seq(M)
  <2> HIDE DEF C, best, block, M
  <2> QED
    BY <1>1, <1>2
<1> HIDE DEF C, best, block, M
<1>7. PICK h \in [0..N -> Seq(M)] : Eq(h)
  <2>1. g \in [1..N -> [Seq(M) -> Seq(M)]]
    BY <1>6
  <2> HIDE DEF N
  <2>2. PICK h \in [0..N -> Seq(M)] : Steps(h, toClient[s], g, N)
    BY <1>1, <2>1, StepsExist
  <2>3. \A n \in 0..N : h[n] = IF n = 0 THEN toClient[s]
                               ELSE h[n - 1] \o <<block(n)>>
                                      \o inv(IF C(n) THEN <<height[s]>> ELSE <<>>)
    <3> TAKE n \in 0..N
    <3>1. h[n] = IF n = 0 THEN toClient[s] ELSE g[n][h[n - 1]]
      BY <2>2 DEF Steps
    <3>2. n # 0 => n \in 1..N /\ n - 1 \in 0..N /\ h[n - 1] \in Seq(M)
      BY <1>1
    <3>3. n # 0 => g[n][h[n - 1]] =
                     IF C(n) THEN h[n - 1] \o <<block(n), best>> ELSE Append(h[n - 1], block(n))
      BY <3>2
    <3>4. CASE n = 0
      BY <3>1, <3>4
    <3>5. CASE n # 0
      <4>1. h[n - 1] \o <<block(n)>> \o inv(IF C(n) THEN <<height[s]>> ELSE <<>>)
              = IF C(n) THEN h[n - 1] \o <<block(n), best>> ELSE Append(h[n - 1], block(n))
        BY <1>5, <3>2, <3>5
      <4>2. h[n] = IF C(n) THEN h[n - 1] \o <<block(n), best>> ELSE Append(h[n - 1], block(n))
        BY <3>1, <3>3, <3>5
      <4> QED
        BY <3>5, <4>1, <4>2
    <3> QED
      BY <3>4, <3>5
  <2>4. h = [n \in 0..N |-> h[n]]
    OBVIOUS
  <2>5. Eq(h)
    BY <2>3, <2>4
  <2> QED
    BY <2>5
<1>8. Eq(f)
  BY <1>7
<1> HIDE DEF f, g, N
<1>9. \A n \in 0..N : f[n] = IF n = 0 THEN toClient[s]
                             ELSE f[n - 1] \o <<block(n)>>
                                    \o inv(IF C(n) THEN <<height[s]>> ELSE <<>>)
  BY <1>8
<1>10. 0 \in 0..N /\ 1..N \subseteq 0..N
  BY <1>1
<1> DEFINE G == {n \in 0..N : f[n] \in Seq(M)}
<1>11. 0 \in G
  BY <1>1, <1>9, <1>10
<1>12. ASSUME NEW n \in 1..N, n - 1 \in G
       PROVE  /\ n \in G
              /\ f[n] = IF C(n) THEN f[n - 1] \o <<block(n), best>> ELSE Append(f[n - 1], block(n))
  <2>1. f[n - 1] \in Seq(M) /\ n \in 0..N /\ n # 0
    BY <1>1, <1>10, <1>12
  <2>2. f[n] = IF C(n) THEN f[n - 1] \o <<block(n), best>> ELSE Append(f[n - 1], block(n))
    BY <1>5, <1>9, <2>1
  <2> QED
    BY <1>6, <2>1, <2>2
<1> HIDE DEF G
<1>13. 0..N \subseteq G
  BY <1>1, <1>11, <1>12, UpTo
<1>14. f = [n \in 0..N |-> f[n]]
  BY <1>8
<1>15. f \in [0..N -> Seq(M)]
  BY <1>13, <1>14 DEF G
<1>16. \A n \in 1..N : n - 1 \in G
  BY <1>1, <1>13
<1> QED
  BY <1>3, <1>9, <1>10, <1>12, <1>15, <1>16 DEF N, M, C, block, best
LEMMA AnsweredAll ==
    ASSUME DownloadInv, NEW s \in Server, NEW vInv \in Seq(Has(s)), vInv # <<>>
    PROVE  LET f == Answered(s, vInv)
           IN  /\ f[Len(vInv)] \in Seq(ToClient(s)) /\ Range(toClient[s]) \subseteq Range(f[Len(vInv)])
               /\ \A b \in Range(vInv) :
                    \E m \in Range(f[Len(vInv)]) : m.type = "block" /\ m.block = b
<1> DEFINE N == Len(vInv)
           M == ToClient(s)
           f == Answered(s, vInv)
           block(n) == [type |-> "block", block |-> vInv[n]]
           best == [type |-> "inv", vInv |-> <<height[s]>>]
           C(n) == vInv[n] = hashContinue[s] /\ \A j \in 1 .. n - 1 : vInv[j] # vInv[n]
           G == {n \in 0..N : /\ Range(toClient[s]) \subseteq Range(f[n])
                              /\ \A i \in 1..n : block(i) \in Range(f[n])}
<1>1. /\ N \in Nat /\ f \in [0..N -> Seq(M)] /\ f[0] = toClient[s]
      /\ \A n \in 1..N : f[n] = IF C(n) THEN f[n - 1] \o <<block(n), best>> ELSE Append(f[n - 1], block(n))
  BY AnsweredSteps
<1> HIDE DEF f, N, C, block, best, M
<1>2. 0 \in G
  BY <1>1
<1>3. ASSUME NEW n \in 1..N, n - 1 \in G PROVE n \in G
  <2>1. /\ n - 1 \in 0..N /\ n \in 0..N /\ f[n - 1] \in Seq(M) /\ f[n] \in Seq(M)
        /\ \A i \in 1..n : i = n \/ i \in 1 .. n - 1
    BY <1>1
  <2> DEFINE p == f[n - 1]
             L == Len(p)
  <2>2. /\ L \in Nat /\ f[n][L + 1] = block(n) /\ L + 1 \in 1 .. Len(f[n])
        /\ \A i \in 1..L : f[n][i] = p[i] /\ i \in 1 .. Len(f[n])
    <3>1. CASE C(n)
      <4>1. f[n] = p \o <<block(n), best>>
        BY <1>1, <3>1
      <4> QED
        BY <2>1, <4>1
    <3>2. CASE ~C(n)
      <4>1. f[n] = Append(p, block(n))
        BY <1>1, <3>2
      <4> QED
        BY <2>1, <4>1
    <3> QED
      BY <3>1, <3>2
  <2>3. /\ \A y : y \in Range(p) <=> \E i \in 1..L : p[i] = y
        /\ \A y : y \in Range(f[n]) <=> \E i \in 1 .. Len(f[n]) : f[n][i] = y
    BY <2>1, SeqRange
  <2> HIDE DEF L
  <2>4. Range(p) \subseteq Range(f[n]) /\ block(n) \in Range(f[n])
    BY <2>2, <2>3
  <2> QED
    BY <1>3, <2>1, <2>4
<1> HIDE DEF G
<1>4. 0..N \subseteq G
  BY <1>1, <1>2, <1>3, UpTo
<1>5. N \in G /\ N \in 0..N
  BY <1>1, <1>4
<1>6. \A b \in Range(vInv) : \E i \in 1..N : vInv[i] = b
  BY SeqRange DEF N
<1>7. \A i \in 1..N : block(i).type = "block" /\ block(i).block = vInv[i]
  BY DEF block
<1> QED
  BY <1>1, <1>5, <1>6, <1>7 DEF G, f, N, M

LEMMA GreatestNat ==
    ASSUME NEW n \in Nat, NEW S, S \subseteq 0..n, S # {}
    PROVE  \E x \in S : \A y \in S : y <= x
<1> DEFINE T == {n - x : x \in S}
<1>1. T \in SUBSET Nat /\ T # {} /\ \A x \in S : x \in Nat
  <2>1. \A x \in S : x \in Nat /\ n - x \in Nat
    OBVIOUS
  <2>2. PICK x \in S : TRUE
    OBVIOUS
  <2>3. n - x \in T
    BY <2>2
  <2> QED
    BY <2>1, <2>3
<1>2. PICK t \in T : \A u \in T : t <= u
  <2> HIDE DEF T
  <2> QED
    BY <1>1, LeastNat
<1>3. PICK x \in S : t = n - x
  BY <1>2
<1>4. ASSUME NEW y \in S PROVE y <= x
  <2>1. n - x <= n - y
    BY <1>2, <1>3
  <2>2. x \in Int /\ y \in Int /\ n \in Int
    BY <1>1
  <2> HIDE DEF T
  <2> QED
    BY <2>1, <2>2
<1> QED
  BY <1>4

LEMMA GetBlockIndexFacts ==
    ASSUME TypeOK, NEW s \in Server, NEW locator \in Block
    PROVE  LET begin == GetBlockIndex(s, locator)
               top == Earlier(height[s], IF locator < 0 THEN Fork ELSE locator)
           IN  /\ begin \in 0 .. height[s] /\ begin \in 0..top
               /\ begin = 0 \/ nHeight(locator) - begin \in vHave
               /\ \A h \in 0..top : nHeight(locator) - h \in vHave => h <= begin
<1> DEFINE top == Earlier(height[s], IF locator < 0 THEN Fork ELSE locator)
           common == {h \in 0..top : h = 0 \/ nHeight(locator) - h \in vHave}
<1>1. top \in Nat /\ top <= height[s] /\ height[s] \in Nat
  <2>1. height[s] \in Nat
    BY BlockFacts DEF TypeOK
  <2>2. (IF locator < 0 THEN Fork ELSE locator) \in Nat
    BY BlockFacts
  <2> QED
    BY <2>1, <2>2 DEF Earlier
<1>2. common \subseteq 0..top /\ 0 \in common
  BY <1>1
<1>3. GetBlockIndex(s, locator) = CHOOSE h \in common : \A c \in common : c <= h
  BY DEF GetBlockIndex
<1>4. \E h \in common : \A c \in common : c <= h
  <2> HIDE DEF common, top
  <2> QED
    BY <1>1, <1>2, GreatestNat
<1>5. GetBlockIndex(s, locator) \in common /\ \A c \in common : c <= GetBlockIndex(s, locator)
  <2> HIDE DEF common
  <2> QED
    BY <1>3, <1>4
<1> HIDE DEF top
<1>6. \A h \in 0..top : nHeight(locator) - h \in vHave => h \in common
  OBVIOUS
<1>7. GetBlockIndex(s, locator) \in 0 .. height[s]
  BY <1>1, <1>2, <1>5
<1> QED
  BY <1>2, <1>5, <1>6, <1>7 DEF top

-----------------------------------------------------------------------------
(* The client's steps. *)

\* What it asks of s for a message of s's.
AskDoes(s, a) ==
    /\ AskingType2' /\ toServer' \in [Server -> Seq(Message)]
    /\ mapAskFor'[s] = a.askFor /\ mapAlreadyAskedFor' = a.already
    /\ \A t \in Server : /\ mapAskFor'[t] \in Seq(Nat \X Has(t))
                         /\ toServer'[t] \in Seq(ToServer(t))
                         /\ Range(toServer[t]) \subseteq Range(toServer'[t])
                         /\ t # s => mapAskFor'[t] = mapAskFor[t]

LEMMA AskFacts ==
    ASSUME DownloadInv, NEW s \in Server, NEW a \in AskingType(Has(s)), Ask(s, a)
    PROVE  AskDoes(s, a)
<1>1. /\ a.already \in [Block -> Int] /\ a.askFor \in Seq(Nat \X Has(s))
      /\ a.last \in {<<>>} \cup Block \X Block /\ a.out \in Seq(ToServer(s))
      /\ a.askFor \in Seq(Nat \X Block)
  BY HasFacts, AskingFields DEF DownloadInv
<1>2. AskingType2 /\ WireType /\ OnlyWhatItHas
  BY TypeParts DEF DownloadInv
<1>3. /\ mapAlreadyAskedFor' = a.already
      /\ mapAskFor' = [mapAskFor EXCEPT ![s] = a.askFor]
      /\ lastGetBlocks' = [lastGetBlocks EXCEPT ![s] = a.last]
      /\ toServer' = [toServer EXCEPT ![s] = toServer[s] \o a.out]
  BY DEF Ask
<1>4. AskingType2' /\ mapAskFor'[s] = a.askFor /\ \A t \in Server : t # s => mapAskFor'[t] = mapAskFor[t]
  BY <1>1, <1>2, <1>3 DEF AskingType2
<1> DEFINE T == ToServer(s)
           out == a.out
           q == toServer[s]
<1>5. q \in Seq(T) /\ out \in Seq(T)
  BY <1>1, <1>2 DEF OnlyWhatItHas
<1>6. T \subseteq Message
  BY HasFacts DEF DownloadInv
<1> HIDE DEF T, out
<1>7. q \o out \in Seq(T) /\ Range(q) \subseteq Range(q \o out)
  <2> HIDE DEF q
  <2>1. Range(q \o out) = Range(q) \cup Range(out)
    BY <1>5, RangeConcat
  <2> QED
    BY <1>5, <2>1
<1>8. q \o out \in Seq(Message)
  BY <1>6, <1>7, SeqMonotone
<1>9. toServer' = [toServer EXCEPT ![s] = q \o out]
  BY <1>3 DEF out
<1>10. /\ toServer' \in [Server -> Seq(Message)]
       /\ \A t \in Server : toServer'[t] = IF t = s THEN q \o out ELSE toServer[t]
  BY <1>2, <1>8, <1>9 DEF WireType
<1>11. \A t \in Server : toServer'[t] \in Seq(ToServer(t)) /\ Range(toServer[t]) \subseteq Range(toServer'[t])
  BY <1>2, <1>7, <1>10 DEF OnlyWhatItHas, T
<1>12. \A t \in Server : mapAskFor'[t] \in Seq(Nat \X Has(t))
  BY <1>1, <1>2, <1>4 DEF OnlyWhatItHas
<1> QED
  BY <1>3, <1>4, <1>10, <1>11, <1>12 DEF AskDoes

\* Of two conditions on the sets in the invariant only the client's own matter: height
\* stays, and so does what the servers send.
LEMMA ClientKeeps ==
    ASSUME DownloadInv, UNCHANGED server,
           AskingType2', ChainType', ChainIsLinked', RelayType', AnnouncesWhatItHas',
           WireType', NetType', AskedAreGreeted', nAskedForBlocks' \in 0 .. Cardinality(Server),
           fresh' = fresh,
           \A t \in Server : /\ mapAskFor'[t] \in Seq(Nat \X Has(t))
                             /\ toServer'[t] \in Seq(ToServer(t)) /\ toClient'[t] \in Seq(ToClient(t))
    PROVE  DownloadInv'
<1>1. height' = height /\ toSend' = toSend
  BY DEF server
<1>2. ServerType' /\ fresh' \subseteq Main
  BY TypeParts DEF DownloadInv, ServerType, server
<1>3. OnlyWhatItHas'
  <2>1. \A t \in Server : Has(t)' = Has(t) /\ ToServer(t)' = ToServer(t) /\ ToClient(t)' = ToClient(t)
    BY <1>1 DEF Has, ToServer, ToClient, GetBlocks
  <2> QED
    BY <1>1, <2>1 DEF OnlyWhatItHas, DownloadInv
<1> QED
  BY <1>2, <1>3, TypePartsNext DEF DownloadInv

LEMMA UnderwayStays ==
    ASSUME NEW s, NEW b, Underway(s, b),
           {e[2] : e \in Range(mapAskFor[s])} \subseteq {e[2] : e \in Range(mapAskFor'[s])},
           Range(toServer[s]) \subseteq Range(toServer'[s]),
           Range(toClient[s]) \subseteq Range(toClient'[s])
    PROVE  Underway(s, b)'
<1>1. (\E e \in Range(mapAskFor[s]) : e[2] = b) => \E e \in Range(mapAskFor'[s]) : e[2] = b
  OBVIOUS
<1> QED
  BY <1>1 DEF Underway

LEMMA CardinalityGrows ==
    ASSUME NEW S \in SUBSET Server, NEW T \in SUBSET Server, S \subseteq T
    PROVE  /\ Cardinality(S) \in Nat /\ Cardinality(S) <= Cardinality(T)
           /\ Cardinality(T) \in Nat /\ Cardinality(T) <= Cardinality(Server)
           /\ S # T => Cardinality(S) + 1 <= Cardinality(T)
<1>1. IsFiniteSet(Server) /\ IsFiniteSet(S) /\ IsFiniteSet(T)
  BY DownloadAssumption, FS_Subset
<1>2. /\ Cardinality(S) <= Cardinality(T) /\ (Cardinality(S) = Cardinality(T) => S = T)
      /\ Cardinality(T) <= Cardinality(Server)
  BY <1>1, FS_Subset
<1>3. Cardinality(S) \in Nat /\ Cardinality(T) \in Nat
  BY <1>1, FS_CardinalityType
<1> QED
  BY <1>2, <1>3

LEMMA VersionKeeps ==
    ASSUME DownloadInv, NEW s \in Server, Version(s)
    PROVE  DownloadInv' /\ (NothingForgotten => NothingForgotten')
<1>1. /\ s \in connected \ greeted /\ greeted' = greeted \cup {s}
      /\ UNCHANGED <<chain, relay, server, connected, toClient, fresh>>
  BY DEF Version
<1>2. ChainType' /\ ChainIsLinked' /\ RelayType' /\ AnnouncesWhatItHas'
  BY <1>1, TypeParts
     DEF DownloadInv, ChainType, ChainIsLinked, RelayType, AnnouncesWhatItHas, chain, relay, Had
<1>3. NetType'
  BY <1>1, TypeParts DEF DownloadInv, NetType
<1>4. /\ nAskedForBlocks' \in {nAskedForBlocks, nAskedForBlocks + 1}
      /\ AskedAreGreeted' /\ nAskedForBlocks' \in 0 .. Cardinality(Server)
  <2> DEFINE S == Server \ (connected \ greeted)
             T == Server \ (connected' \ greeted')
  <2>1. S \subseteq T /\ s \in T \ S /\ S \in SUBSET Server /\ T \in SUBSET Server
    BY <1>1
  <2>2. nAskedForBlocks' \in {nAskedForBlocks, nAskedForBlocks + 1}
    BY DEF Version, asking
  <2>3. nAskedForBlocks \in Nat /\ nAskedForBlocks <= Cardinality(S)
    BY DEF DownloadInv, TypeOK, AskedAreGreeted
  <2> HIDE DEF S, T
  <2>4. /\ Cardinality(S) + 1 <= Cardinality(T) /\ Cardinality(T) <= Cardinality(Server)
        /\ Cardinality(S) \in Nat /\ Cardinality(T) \in Nat
    BY <2>1, CardinalityGrows
  <2>5. nAskedForBlocks' <= Cardinality(T) /\ nAskedForBlocks' \in 0 .. Cardinality(T)
    BY <2>2, <2>3, <2>4
  <2>6. nAskedForBlocks' \in 0 .. Cardinality(Server)
    BY <2>4, <2>5, FS_CardinalityType, DownloadAssumption
  <2>7. AskedAreGreeted'
    BY <2>5 DEF AskedAreGreeted, T
  <2> QED
    BY <2>2, <2>6, <2>7
<1>5. /\ AskingType2' /\ toServer' \in [Server -> Seq(Message)]
      /\ \A t \in Server : /\ mapAskFor'[t] \in Seq(Nat \X Has(t))
                           /\ toServer'[t] \in Seq(ToServer(t))
                           /\ Range(toServer[t]) \subseteq Range(toServer'[t])
                           /\ mapAskFor'[t] = mapAskFor[t]
  <2>1. CASE UNCHANGED <<asking, toServer>>
    BY <2>1, TypeParts DEF DownloadInv, AskingType2, WireType, OnlyWhatItHas, asking
  <2>2. CASE Ask(s, PushGetBlocks(Asking(s), pindexBest, 0))
    <3>1. Asking(s) \in AskingType(Has(s)) /\ Has(s) \subseteq Block /\ pindexBest \in Block /\ 0 \in Block
      BY AskingFacts, HasFacts, BlockFacts DEF DownloadInv
    <3>2. /\ PushGetBlocks(Asking(s), pindexBest, 0) \in AskingType(Has(s))
          /\ PushGetBlocks(Asking(s), pindexBest, 0).askFor = mapAskFor[s]
      <4>1. GetsBlocks(Has(s), Asking(s), pindexBest, 0)
        BY <3>1, PushGetBlocksType
      <4> QED
        BY <4>1, AskingFacts DEF GetsBlocks
    <3> QED
      <4> DEFINE a == PushGetBlocks(Asking(s), pindexBest, 0)
      <4>1. a \in AskingType(Has(s)) /\ Ask(s, a) /\ a.askFor = mapAskFor[s]
        BY <2>2, <3>2
      <4> HIDE DEF a
      <4>2. AskDoes(s, a)
        BY <4>1, AskFacts
      <4> QED
        BY <4>1, <4>2 DEF AskDoes
  <2> QED
    BY <2>1, <2>2 DEF Version
<1>6. WireType' /\ \A t \in Server : toClient'[t] \in Seq(ToClient(t))
  BY <1>1, <1>5, TypeParts DEF DownloadInv, WireType, OnlyWhatItHas
<1>7. DownloadInv'
  BY <1>1, <1>2, <1>3, <1>4, <1>5, <1>6, ClientKeeps
<1>8. ASSUME NothingForgotten PROVE NothingForgotten'
  <2>1. \A t \in Server : \A b \in setInventoryKnown[t] : AlreadyHave(b) \/ Underway(t, b)'
    BY <1>1, <1>5, <1>8, UnderwayStays DEF NothingForgotten
  <2> QED
    BY <1>1, <2>1 DEF NothingForgotten, AlreadyHave, Had, relay, chain
<1> QED
  BY <1>7, <1>8

LEMMA LastExists ==
    ASSUME NEW S, S \subseteq Main, NEW b \in Main
    PROVE  \E c \in {b} \cup S : b <= c /\ b + 1 .. c \subseteq S /\ c + 1 \notin S
<1> DEFINE T == {n \in Nat : n >= b /\ n + 1 \notin S}
<1>1. b \in Nat /\ b <= MaxHeight /\ MaxHeight \in Nat /\ \A c \in S : c \in Nat /\ c <= MaxHeight
  BY BlockFacts
<1>2. MaxHeight \in T /\ T \in SUBSET Nat
  BY <1>1
<1>3. PICK c \in T : \A n \in T : c <= n
  <2> HIDE DEF T
  <2> QED
    BY <1>2, LeastNat
<1>4. \A i \in b + 1 .. c : i \in S
  <2> TAKE i \in b + 1 .. c
  <2>1. i - 1 \in Nat /\ i - 1 >= b /\ i - 1 < c /\ i - 1 + 1 = i
    BY <1>1, <1>3
  <2> QED
    BY <1>3, <2>1
<1>5. c = b \/ c \in b + 1 .. c
  BY <1>1, <1>3
<1> QED
  BY <1>3, <1>4, <1>5

\* A block that comes with its previous one known, and the orphans that wait for it.
LEMMA AcceptKeeps ==
    ASSUME DownloadInv, NEW s \in Server, NEW b \in Has(s), b \notin Had, Prev(b) \in index,
           setInventoryKnown' \in [Server -> SUBSET Block], Accept(s, b)
    PROVE  /\ ChainType' /\ ChainIsLinked' /\ RelayType' /\ AnnouncesWhatItHas'
           /\ Had \subseteq Had' /\ b \in Had' /\ Ask(s, Erase(Asking(s), b))
<1> DEFINE Ends(c) == b <= c /\ b + 1 .. c \subseteq mapOrphanBlocks /\ c + 1 \notin mapOrphanBlocks
           last == CHOOSE c \in {b} \cup mapOrphanBlocks :
                     b <= c /\ b + 1 .. c \subseteq mapOrphanBlocks /\ c + 1 \notin mapOrphanBlocks
           before == Later(b - 1, nHeight(pindexBest))
           becomeBest == [i \in 1 .. Later(last, before) - before |-> before + i]
           queue(t) == IF t \in connected
                       THEN Pushed(vInventoryToSend[t], setInventoryKnown'[t], becomeBest)
                       ELSE <<>>
<1>1. /\ ChainType /\ ChainIsLinked /\ RelayType /\ AnnouncesWhatItHas
      /\ b \in Main \ {0} /\ b \in Block /\ Main \subseteq Block /\ Main \subseteq Nat
      /\ Prev(b) = b - 1 /\ b - 1 \in index /\ b \in Nat /\ nHeight(b) = b
  <2>1. b \in Main \ {0} /\ TypeOK
    BY HasFacts DEF DownloadInv
  <2> QED
    BY <2>1, TypeParts, BlockFacts DEF DownloadInv
<1>2. last \in {b} \cup mapOrphanBlocks /\ Ends(last)
  <2>1. \E c \in {b} \cup mapOrphanBlocks : Ends(c)
    BY <1>1, LastExists DEF ChainIsLinked
  <2> QED
    BY <2>1
<1>3. /\ index' = index \cup b..last
      /\ mapOrphanBlocks' = mapOrphanBlocks \ (b..last)
      /\ pindexBest' = (IF before < last THEN last ELSE pindexBest)
      /\ vInventoryToSend' = [t \in Server |-> queue(t)]
      /\ Ask(s, Erase(Asking(s), b))
  BY DEF Accept, OrphansLeft
<1> HIDE DEF last
<1>4. /\ last \in Main /\ last \in Nat /\ b <= last /\ last + 1 \notin mapOrphanBlocks
      /\ \A c \in b..last : c \in Main \ {0} /\ (c = b \/ c \in mapOrphanBlocks)
  <2>1. last \in Main /\ last \in Nat /\ b <= last /\ last + 1 \notin mapOrphanBlocks
    BY <1>1, <1>2 DEF ChainIsLinked
  <2>2. ASSUME NEW c \in b..last PROVE c \in Main \ {0} /\ (c = b \/ c \in mapOrphanBlocks)
    <3>1. c = b \/ c \in b + 1 .. last
      BY <1>1, <2>1
    <3>2. c = b \/ c \in mapOrphanBlocks
      BY <1>2, <3>1
    <3>3. 0 \notin mapOrphanBlocks
      BY <1>1 DEF ChainIsLinked, ChainType
    <3> QED
      BY <1>1, <3>2, <3>3 DEF ChainIsLinked
  <2> QED
    BY <2>1, <2>2
<1>5. before = nHeight(pindexBest) /\ before \in Nat /\ b - 1 <= before
  <2>1. nHeight(pindexBest) \in Nat /\ b - 1 \in Main
    BY <1>1, BlockFacts DEF ChainType
  <2>2. nHeight(b - 1) = b - 1 /\ nHeight(b - 1) <= nHeight(pindexBest)
    BY <1>1, <2>1, BlockFacts DEF ChainIsLinked
  <2> QED
    BY <1>1, <2>1, <2>2 DEF Later
<1>6. nHeight(pindexBest') = Later(last, before) /\ pindexBest' \in index'
  <2>1. nHeight(last) = last /\ last \in b..last
    BY <1>1, <1>4, BlockFacts
  <2> QED
    BY <1>1, <1>3, <1>4, <1>5, <2>1 DEF Later, ChainType
<1>7. ChainType'
  <2>1. index' \subseteq Block
    BY <1>1, <1>3, <1>4 DEF ChainType
  <2>2. mapOrphanBlocks' \subseteq Block \ index'
    BY <1>1, <1>3 DEF ChainType
  <2> QED
    BY <1>6, <2>1, <2>2 DEF ChainType
<1>8. ChainIsLinked'
  <2>1. 0 \in index' /\ mapOrphanBlocks' \subseteq Main
    BY <1>1, <1>3 DEF ChainIsLinked
  <2>2. ASSUME NEW c \in index' PROVE (c # 0 => Prev(c) \in index') /\ nHeight(c) <= nHeight(pindexBest')
    <3>1. CASE c \in index
      <4>1. (c # 0 => Prev(c) \in index) /\ nHeight(c) <= before /\ nHeight(c) \in Nat
        BY <1>1, <1>5, <3>1, BlockFacts DEF ChainIsLinked, ChainType
      <4> QED
        BY <1>3, <1>4, <1>5, <1>6, <4>1 DEF Later
    <3>2. CASE c \in b..last
      <4>1. nHeight(c) = c /\ Prev(c) = c - 1 /\ c \in Nat
        BY <1>1, <1>4, <3>2, BlockFacts
      <4>2. c - 1 = b - 1 \/ c - 1 \in b..last
        BY <1>1, <1>4, <3>2, <4>1
      <4>3. c <= Later(last, before)
        BY <1>4, <1>5, <3>2 DEF Later
      <4> QED
        BY <1>1, <1>3, <1>6, <4>1, <4>2, <4>3
    <3> QED
      BY <1>3, <3>1, <3>2
  <2>3. ASSUME NEW c \in mapOrphanBlocks', c - 1 \in index' PROVE FALSE
    <3>1. c \in mapOrphanBlocks /\ c \notin b..last /\ c \in Nat /\ c - 1 \notin index
      BY <1>1, <1>3, <2>3 DEF ChainIsLinked
    <3>2. c - 1 \in b..last
      BY <1>3, <2>3, <3>1
    <3>3. c = last + 1
      BY <1>1, <1>4, <3>1, <3>2
    <3> QED
      BY <1>4, <3>1, <3>3
  <2> QED
    BY <2>1, <2>2, <2>3 DEF ChainIsLinked
<1>9. Had \subseteq Had' /\ b..last \subseteq Had' /\ b \in b..last
  BY <1>1, <1>3, <1>4 DEF Had
<1>10. becomeBest \in Seq(Block) /\ Range(becomeBest) \subseteq b..last
  <2> DEFINE n == Later(last, before) - before
  <2>1. n \in Nat /\ \A i \in 1..n : before + i \in b..last
    BY <1>1, <1>4, <1>5 DEF Later
  <2>2. \A i \in 1..n : before + i \in Block
    BY <1>1, <1>4, <2>1
  <2> HIDE DEF n, before
  <2>3. [i \in 1..n |-> before + i] \in Seq(Block)
    BY <2>1, <2>2
  <2>4. Range([i \in 1..n |-> before + i]) \subseteq b..last
    BY <2>1 DEF Range
  <2> QED
    BY <2>3, <2>4 DEF n
<1> HIDE DEF becomeBest
<1>11. ASSUME NEW t \in Server
       PROVE  queue(t) \in Seq(Block) /\ Range(queue(t)) \subseteq Had'
  <2>1. CASE t \in connected
    <3> DEFINE new == Kept(becomeBest, Block \ setInventoryKnown'[t])
               old == vInventoryToSend[t]
    <3>1. old \in Seq(Block) /\ Range(old) \subseteq Had
      BY <1>1 DEF RelayType, AnnouncesWhatItHas
    <3>2. new \in Seq(Block) /\ Range(new) \subseteq Range(becomeBest)
      <4> DEFINE S == Block \ setInventoryKnown'[t]
      <4> HIDE DEF S
      <4>1. Kept(becomeBest, S) \in Seq(Block) /\ Range(Kept(becomeBest, S)) = Range(becomeBest) \cap S
        BY <1>10, KeptFacts
      <4> QED
        BY <4>1 DEF S
    <3>3. queue(t) = old \o new
      BY <2>1 DEF Pushed
    <3> HIDE DEF old, new
    <3>4. Range(old \o new) = Range(old) \cup Range(new)
      BY <3>1, <3>2, RangeConcat
    <3> HIDE DEF queue
    <3>5. old \o new \in Seq(Block)
      BY <3>1, <3>2
    <3>6. Range(queue(t)) = Range(old) \cup Range(new)
      BY <3>3, <3>4
    <3> QED
      BY <1>9, <1>10, <3>1, <3>2, <3>3, <3>5, <3>6
  <2>2. CASE t \notin connected
    <3>1. queue(t) = <<>>
      BY <2>2
    <3>2. <<>> \in Seq(Block) /\ Range(<<>>) = {}
      BY DEF Range
    <3> QED
      BY <3>1, <3>2
  <2> QED
    BY <2>1, <2>2
<1> HIDE DEF queue
<1>12. RelayType' /\ AnnouncesWhatItHas'
  BY <1>3, <1>11 DEF RelayType, AnnouncesWhatItHas
<1> QED
  BY <1>3, <1>7, <1>8, <1>9, <1>12

\* The messages that may carry b to the client: to be asked for, asked for, sent.
Carries(m, b) == (m.type = "getdata" /\ b \in Range(m.vInv)) \/ (m.type = "block" /\ m.block = b)

LEMMA UnderwayMoves ==
    ASSUME NEW s, NEW b, Underway(s, b),
           b \in {e[2] : e \in Range(mapAskFor[s])} => b \in {e[2] : e \in Range(mapAskFor'[s])},
           \A m \in Range(toServer[s]) : Carries(m, b) => m \in Range(toServer'[s]),
           \A m \in Range(toClient[s]) : Carries(m, b) => m \in Range(toClient'[s])
    PROVE  Underway(s, b)'
BY DEF Underway, Carries

LEMMA ReceiveInvKeeps ==
    ASSUME DownloadInv, NEW s \in Server, NEW vInv \in Seq(Has(s)), ReceiveInv(s, vInv)
    PROVE  /\ ChainType' /\ ChainIsLinked' /\ RelayType' /\ AnnouncesWhatItHas' /\ Had' = Had
           /\ UNCHANGED nAskedForBlocks
           /\ \E a \in AskingType(Has(s)) :
                /\ AskDoes(s, a) /\ Wanted(Asking(s)) \subseteq Wanted(a)
                /\ \A b \in setInventoryKnown'[s] \ setInventoryKnown[s] : b \in Had' \/ b \in Wanted(a)
           /\ \A t \in Server : t # s => setInventoryKnown'[t] = setInventoryKnown[t]
<1>1. /\ Ask(s, Asked(s, vInv)[Len(vInv)])
      /\ setInventoryKnown' = [setInventoryKnown EXCEPT ![s] = @ \cup Range(vInv)]
      /\ UNCHANGED <<chain, nAskedForBlocks, vInventoryToSend>>
  BY DEF ReceiveInv
<1>2. Had' = Had
  BY <1>1 DEF Had, chain
<1>3. ChainType' /\ ChainIsLinked' /\ AnnouncesWhatItHas'
  BY <1>1, <1>2, TypeParts DEF DownloadInv, ChainType, ChainIsLinked, AnnouncesWhatItHas, chain
<1>4. Has(s) \subseteq Block /\ Range(vInv) \subseteq Has(s)
  BY HasFacts, SeqRange DEF DownloadInv
<1>5. RelayType' /\ setInventoryKnown'[s] = setInventoryKnown[s] \cup Range(vInv)
  BY <1>1, <1>4, TypeParts DEF DownloadInv, RelayType
<1> DEFINE a == Asked(s, vInv)[Len(vInv)]
<1>6. /\ a \in AskingType(Has(s)) /\ Wanted(Asking(s)) \subseteq Wanted(a)
      /\ \A b \in Range(vInv) : AlreadyHave(b) \/ b \in Wanted(a)
  BY <1>4, AskingFacts, AskedAll
<1> HIDE DEF a
<1>7. AskDoes(s, a)
  BY <1>1, <1>6, AskFacts DEF a
<1>8. \A t \in Server : t # s => setInventoryKnown'[t] = setInventoryKnown[t]
  BY <1>1, TypeParts DEF DownloadInv, RelayType
<1>9. \A b \in setInventoryKnown'[s] \ setInventoryKnown[s] : b \in Had' \/ b \in Wanted(a)
  BY <1>2, <1>5, <1>6 DEF AlreadyHave
<1> QED
  BY <1>1, <1>2, <1>3, <1>5, <1>6, <1>7, <1>8, <1>9

LEMMA ReceiveBlockKeeps ==
    ASSUME DownloadInv, NEW s \in Server, NEW b \in Has(s), ReceiveBlock(s, b)
    PROVE  /\ ChainType' /\ ChainIsLinked' /\ RelayType' /\ AnnouncesWhatItHas'
           /\ Had \subseteq Had' /\ b \in Had' /\ UNCHANGED nAskedForBlocks
           /\ \E a \in AskingType(Has(s)) : AskDoes(s, a) /\ Wanted(a) = Wanted(Asking(s))
           /\ setInventoryKnown'[s] \subseteq setInventoryKnown[s] \cup {b}
           /\ \A t \in Server : t # s => setInventoryKnown'[t] = setInventoryKnown[t]
<1>1. /\ b \in Main \ {0} /\ b \in Block /\ Has(s) \subseteq Block /\ pindexBest \in Block
      /\ Asking(s) \in AskingType(Has(s)) /\ Main \subseteq Block
      /\ ChainType /\ ChainIsLinked /\ RelayType /\ AnnouncesWhatItHas /\ TypeOK
  <2>1. b \in Main \ {0} /\ b \in Block /\ Has(s) \subseteq Block
    BY HasFacts DEF DownloadInv
  <2> QED
    BY <2>1, AskingFacts, TypeParts, BlockFacts DEF DownloadInv
<1>2. /\ setInventoryKnown' = [setInventoryKnown EXCEPT ![s] = @ \cup {b}]
      /\ UNCHANGED nAskedForBlocks
  BY DEF ReceiveBlock
<1>3. /\ setInventoryKnown' \in [Server -> SUBSET Block]
      /\ setInventoryKnown'[s] \subseteq setInventoryKnown[s] \cup {b}
      /\ \A t \in Server : t # s => setInventoryKnown'[t] = setInventoryKnown[t]
  BY <1>1, <1>2 DEF RelayType
<1>4. ASSUME NEW a \in AskingType(Has(s))
      PROVE  Erase(a, b) \in AskingType(Has(s)) /\ Wanted(Erase(a, b)) = Wanted(a)
  BY <1>1, EraseType DEF Wanted
<1>5. CASE /\ AlreadyHave(b)
           /\ UNCHANGED <<chain, mapAlreadyAskedFor, mapAskFor, lastGetBlocks, vInventoryToSend, toServer>>
  <2>1. Had' = Had /\ b \in Had
    BY <1>5 DEF Had, chain, AlreadyHave
  <2>2. AskDoes(s, Asking(s))
    BY <1>5, AskingFacts, TypeParts
       DEF AskDoes, DownloadInv, OnlyWhatItHas, AskingType2, WireType
  <2>3. ChainType' /\ ChainIsLinked' /\ RelayType' /\ AnnouncesWhatItHas'
    BY <1>1, <1>3, <1>5, <2>1 DEF ChainType, ChainIsLinked, RelayType, AnnouncesWhatItHas, chain
  <2> QED
    BY <1>1, <1>2, <1>3, <2>1, <2>2, <2>3
<1>6. CASE ~AlreadyHave(b) /\ Prev(b) \in index /\ Accept(s, b)
  <2>1. b \notin Had
    BY <1>6 DEF AlreadyHave
  <2>2. /\ ChainType' /\ ChainIsLinked' /\ RelayType' /\ AnnouncesWhatItHas'
        /\ Had \subseteq Had' /\ b \in Had' /\ Ask(s, Erase(Asking(s), b))
    BY <1>3, <1>6, <2>1, AcceptKeeps
  <2>3. AskDoes(s, Erase(Asking(s), b))
    BY <1>1, <1>4, <2>2, AskFacts
  <2> QED
    BY <1>1, <1>2, <1>3, <1>4, <2>2, <2>3
<1>7. CASE ~AlreadyHave(b) /\ Prev(b) \notin index /\ AddOrphanBlock(s, b)
  <2> DEFINE orphans == mapOrphanBlocks \cup {b}
             root == GetOrphanRoot(orphans, b)
             a == PushGetBlocks(Asking(s), pindexBest, root)
  <2>1. /\ mapOrphanBlocks' = orphans /\ Ask(s, Erase(a, b))
        /\ UNCHANGED <<index, pindexBest, vInventoryToSend>>
    BY <1>7 DEF AddOrphanBlock
  <2>2. b \notin index /\ b - 1 \notin index
    BY <1>1, <1>7, BlockFacts DEF AlreadyHave, Had
  <2>3. root \in Block
    <3>1. orphans \subseteq Main \ {0}
      BY <1>1, AskingFacts
    <3> QED
      BY <1>1, <3>1, RootExists
  <2>4. a \in AskingType(Has(s)) /\ Wanted(a) = Wanted(Asking(s))
    <3> HIDE DEF root
    <3>1. GetsBlocks(Has(s), Asking(s), pindexBest, root)
      BY <1>1, <2>3, PushGetBlocksType
    <3> QED
      BY <3>1 DEF GetsBlocks, Wanted
  <2> HIDE DEF a
  <2>5. AskDoes(s, Erase(a, b))
    BY <1>4, <2>1, <2>4, AskFacts
  <2>6. ChainType' /\ ChainIsLinked'
    BY <1>1, <2>1, <2>2 DEF ChainType, ChainIsLinked
  <2>7. Had \subseteq Had' /\ b \in Had'
    BY <2>1 DEF Had
  <2>8. RelayType' /\ AnnouncesWhatItHas'
    BY <1>1, <1>3, <2>1, <2>7 DEF RelayType, AnnouncesWhatItHas
  <2> QED
    BY <1>2, <1>3, <1>4, <2>4, <2>5, <2>6, <2>7, <2>8
<1> QED
  BY <1>5, <1>6, <1>7 DEF ReceiveBlock

LEMMA ClientReceiveKeeps ==
    ASSUME DownloadInv, NEW s \in Server, ClientReceive(s)
    PROVE  DownloadInv' /\ (NothingForgotten => NothingForgotten')
<1> DEFINE q == toClient[s]
           m == Head(q)
<1>1. /\ s \in greeted /\ q # <<>> /\ toClient' = [toClient EXCEPT ![s] = Tail(q)]
      /\ (m.type = "inv" /\ ReceiveInv(s, m.vInv)) \/ (m.type = "block" /\ ReceiveBlock(s, m.block))
      /\ UNCHANGED <<server, net, fresh>>
  BY DEF ClientReceive
<1>2. q \in Seq(ToClient(s)) /\ WireType /\ RelayType /\ NetType
  BY TypeParts DEF DownloadInv, OnlyWhatItHas
<1>3. Tail(q) \in Seq(ToClient(s)) /\ m \in ToClient(s) /\ Range(q) = {m} \cup Range(Tail(q))
  <2> HIDE DEF q
  <2> QED
    BY <1>1, <1>2, RangeTail
<1> HIDE DEF q, m
<1>4. WireType' <=> toServer' \in [Server -> Seq(Message)]
  <2>1. Tail(q) \in Seq(Message)
    BY <1>3, HasFacts DEF DownloadInv
  <2> QED
    BY <1>1, <1>2, <2>1 DEF WireType
<1>5. \A t \in Server : toClient'[t] = IF t = s THEN Tail(q) ELSE toClient[t]
  BY <1>1, <1>2 DEF WireType
<1>6. \A t \in Server : toClient'[t] \in Seq(ToClient(t))
  BY <1>3, <1>5 DEF DownloadInv, OnlyWhatItHas
<1>7. NetType' /\ fresh' = fresh /\ UNCHANGED server /\ connected' = connected /\ greeted' = greeted
  BY <1>1, <1>2 DEF NetType, net
<1> DEFINE Rest ==
             /\ ChainType' /\ ChainIsLinked' /\ RelayType' /\ AnnouncesWhatItHas'
             /\ Had \subseteq Had' /\ UNCHANGED nAskedForBlocks
             /\ \E a \in AskingType(Has(s)) :
                  /\ AskDoes(s, a) /\ Wanted(Asking(s)) \subseteq Wanted(a)
                  /\ \A b \in setInventoryKnown'[s] \ setInventoryKnown[s] : b \in Had' \/ b \in Wanted(a)
             /\ \A t \in Server : t # s => setInventoryKnown'[t] = setInventoryKnown[t]
             /\ \A b \in Block : Carries(m, b) => b \in Had'
<1>8. Rest
  <2>1. CASE m.type = "inv" /\ ReceiveInv(s, m.vInv)
    <3>1. m.vInv \in Seq(Has(s)) /\ \A b \in Block : ~Carries(m, b)
      BY <1>3, <2>1 DEF ToClient, Carries
    <3> QED
      BY <2>1, <3>1, ReceiveInvKeeps
  <2>2. CASE m.type = "block" /\ ReceiveBlock(s, m.block)
    <3>1. m.block \in Has(s) /\ \A b \in Block : Carries(m, b) => b = m.block
      BY <1>3, <2>2 DEF ToClient, Carries
    <3> DEFINE c == m.block
    <3> HIDE DEF c
    <3>2. c \in Has(s) /\ ReceiveBlock(s, c)
      BY <2>2, <3>1 DEF c
    <3>3. /\ ChainType' /\ ChainIsLinked' /\ RelayType' /\ AnnouncesWhatItHas'
          /\ Had \subseteq Had' /\ c \in Had' /\ UNCHANGED nAskedForBlocks
          /\ \E a \in AskingType(Has(s)) : AskDoes(s, a) /\ Wanted(a) = Wanted(Asking(s))
          /\ setInventoryKnown'[s] \subseteq setInventoryKnown[s] \cup {c}
          /\ \A t \in Server : t # s => setInventoryKnown'[t] = setInventoryKnown[t]
      BY <3>2, ReceiveBlockKeeps
    <3> QED
      BY <3>1, <3>3 DEF c
  <2> QED
    BY <1>1, <2>1, <2>2
<1>9. PICK a \in AskingType(Has(s)) :
        /\ AskDoes(s, a) /\ Wanted(Asking(s)) \subseteq Wanted(a)
        /\ \A b \in setInventoryKnown'[s] \ setInventoryKnown[s] : b \in Had' \/ b \in Wanted(a)
  BY <1>8
<1>10. DownloadInv'
  <2>1. /\ nAskedForBlocks' \in 0 .. Cardinality(Server) /\ AskedAreGreeted'
    BY <1>7, <1>8 DEF DownloadInv, TypeOK, AskedAreGreeted
  <2>2. /\ AskingType2' /\ toServer' \in [Server -> Seq(Message)]
        /\ \A t \in Server : mapAskFor'[t] \in Seq(Nat \X Has(t)) /\ toServer'[t] \in Seq(ToServer(t))
    BY <1>9 DEF AskDoes
  <2> QED
    BY <1>4, <1>6, <1>7, <1>8, <2>1, <2>2, ClientKeeps
<1>11. ASSUME NothingForgotten PROVE NothingForgotten'
  <2>1. ASSUME NEW t \in Server, NEW b \in setInventoryKnown'[t], b \notin Had'
        PROVE  Underway(t, b)'
    <3>1. b \notin Had /\ b \in Block
      BY <1>8, <2>1 DEF RelayType
    <3>2. Wanted(Asking(s)) = {e[2] : e \in Range(mapAskFor[s])}
      BY AskingFacts DEF Wanted
    <3>3. Wanted(a) = {e[2] : e \in Range(mapAskFor'[s])}
      BY <1>9 DEF Wanted, AskDoes
    <3>4. CASE b \in setInventoryKnown[t]
      <4>1. Underway(t, b)
        BY <1>11, <3>1, <3>4 DEF NothingForgotten, AlreadyHave
      <4>2. {e[2] : e \in Range(mapAskFor[t])} \subseteq {e[2] : e \in Range(mapAskFor'[t])}
        BY <1>9, <3>2, <3>3 DEF AskDoes
      <4>3. \A n \in Range(toServer[t]) : n \in Range(toServer'[t])
        BY <1>9 DEF AskDoes
      <4>4. \A n \in Range(toClient[t]) : Carries(n, b) => n \in Range(toClient'[t])
        BY <1>3, <1>5, <1>8, <2>1, <3>1 DEF q
      <4> QED
        BY <4>1, <4>2, <4>3, <4>4, UnderwayMoves
    <3>5. CASE b \notin setInventoryKnown[t]
      <4>1. t = s /\ b \in Wanted(a)
        BY <1>8, <1>9, <2>1, <3>5
      <4> QED
        BY <3>3, <4>1 DEF Underway
    <3> QED
      BY <3>4, <3>5
  <2> QED
    BY <2>1 DEF NothingForgotten, AlreadyHave
<1> QED
  BY <1>10, <1>11

LEMMA BlocksOf ==
    ASSUME NEW B, NEW q \in Seq(Nat \X B)
    PROVE  LET blocks == [i \in DOMAIN q |-> q[i][2]]
           IN  blocks \in Seq(B) /\ Range(blocks) = {e[2] : e \in Range(q)}
<1> DEFINE blocks == [i \in DOMAIN q |-> q[i][2]]
<1>1. DOMAIN q = 1 .. Len(q) /\ Len(q) \in Nat /\ \A i \in 1 .. Len(q) : q[i] \in Nat \X B
  OBVIOUS
<1>2. \A i \in 1 .. Len(q) : q[i][2] \in B
  BY <1>1
<1>3. blocks \in Seq(B)
  BY <1>1, <1>2
<1>4. Range(blocks) = {e[2] : e \in Range(q)}
  BY DEF Range
<1> QED
  BY <1>3, <1>4

\* What is asked for when requests are due: the blocks that are still missing.
LEMMA DueFacts ==
    ASSUME DownloadInv, NEW s \in Server
    PROVE  LET due == Kept(mapAskFor[s], {0} \X Block)
               wanted == Kept([i \in DOMAIN due |-> due[i][2]], Block \ Had)
               rest == Kept(mapAskFor[s], (Nat \ {0}) \X Block)
           IN  /\ wanted \in Seq(Has(s)) /\ rest \in Seq(Nat \X Has(s))
               /\ Range(wanted) = {b \in Block \ Had : <<0, b>> \in Range(mapAskFor[s])}
               /\ Range(rest) = {e \in Range(mapAskFor[s]) : e[1] # 0}
<1> DEFINE P == Nat \X Has(s)
           q == mapAskFor[s]
           due == Kept(q, {0} \X Block)
           blocks == [i \in DOMAIN due |-> due[i][2]]
           wanted == Kept(blocks, Block \ Had)
           rest == Kept(q, (Nat \ {0}) \X Block)
<1>1. q \in Seq(P) /\ Has(s) \subseteq Block
  BY HasFacts DEF DownloadInv, OnlyWhatItHas
<1> HIDE DEF q
<1>2. Range(q) \subseteq Nat \X Block
  <2>1. Range(q) \subseteq P
    BY <1>1, SeqRange
  <2> QED
    BY <1>1, <2>1
<1>3. due \in Seq(P) /\ Range(due) = Range(q) \cap ({0} \X Block)
  <2> HIDE DEF P
  <2> QED
    BY <1>1, KeptFacts
<1>4. rest \in Seq(P) /\ Range(rest) = Range(q) \cap ((Nat \ {0}) \X Block)
  <2> HIDE DEF P
  <2> QED
    BY <1>1, KeptFacts
<1> HIDE DEF due, rest
<1>5. blocks \in Seq(Has(s)) /\ Range(blocks) = {e[2] : e \in Range(due)}
  BY <1>3, BlocksOf
<1> HIDE DEF blocks
<1>6. wanted \in Seq(Has(s)) /\ Range(wanted) = Range(blocks) \cap (Block \ Had)
  BY <1>5, KeptFacts
<1>7. ASSUME NEW b \in Block
      PROVE  (\E e \in Range(due) : e[2] = b) <=> <<0, b>> \in Range(q)
  <2>1. \A e \in Range(due) : e = <<0, e[2]>>
    BY <1>3
  <2>2. <<0, b>>[2] = b /\ <<0, b>> \in {0} \X Block
    OBVIOUS
  <2> QED
    BY <1>3, <2>1, <2>2
<1>8. Range(wanted) = {b \in Block \ Had : <<0, b>> \in Range(q)}
  <2> HIDE DEF wanted
  <2> QED
    BY <1>5, <1>6, <1>7
<1>9. Range(rest) = {e \in Range(q) : e[1] # 0}
  BY <1>2, <1>4
<1> QED
  BY <1>4, <1>6, <1>8, <1>9 DEF q, due, blocks, rest

LEMMA ClientSendKeeps ==
    ASSUME DownloadInv, NEW s \in Server, ClientSend(s)
    PROVE  DownloadInv' /\ (NothingForgotten => NothingForgotten')
<1> DEFINE vInv == Unsent(vInventoryToSend[s], setInventoryKnown[s])
           due == Kept(mapAskFor[s], {0} \X Block)
           wanted == Kept([i \in DOMAIN due |-> due[i][2]], Block \ Had)
           rest == Kept(mapAskFor[s], (Nat \ {0}) \X Block)
           q == toServer[s]
           T == ToServer(s)
<1>1. /\ s \in greeted
      /\ setInventoryKnown' = [setInventoryKnown EXCEPT ![s] = @ \cup Range(vInv)]
      /\ vInventoryToSend' = [vInventoryToSend EXCEPT ![s] = <<>>]
      /\ mapAskFor' = [mapAskFor EXCEPT ![s] = rest]
      /\ mapAlreadyAskedFor' =
           [b \in Block |-> IF b \in Range(wanted) THEN 0 ELSE mapAlreadyAskedFor[b]]
      /\ toServer' = [toServer EXCEPT ![s] = q \o inv(vInv) \o getdata(wanted)]
      /\ UNCHANGED <<chain, nAskedForBlocks, lastGetBlocks, server, net, toClient, fresh>>
  BY DEF ClientSend
<1>2. /\ ChainType /\ ChainIsLinked /\ AskingType2 /\ RelayType /\ NetType /\ WireType
      /\ AskedAreGreeted /\ AnnouncesWhatItHas /\ OnlyWhatItHas /\ Has(s) \subseteq Block
      /\ T \subseteq Message /\ nAskedForBlocks \in 0 .. Cardinality(Server)
      /\ Seq(Nat \X Has(s)) \subseteq Seq(Nat \X Block)
  <2>1. Has(s) \subseteq Block /\ T \subseteq Message /\ Seq(Nat \X Has(s)) \subseteq Seq(Nat \X Block)
    BY HasFacts DEF DownloadInv
  <2> QED
    BY <2>1, TypeParts DEF DownloadInv
<1>3. /\ wanted \in Seq(Has(s)) /\ rest \in Seq(Nat \X Has(s))
      /\ Range(wanted) = {b \in Block \ Had : <<0, b>> \in Range(mapAskFor[s])}
      /\ Range(rest) = {e \in Range(mapAskFor[s]) : e[1] # 0}
  BY DueFacts
<1>4. vInv \in Seq(Block) /\ Range(vInv) \subseteq Had
  <2> DEFINE queue == vInventoryToSend[s]
  <2>1. queue \in Seq(Block) /\ Range(queue) \subseteq Had
    BY <1>2 DEF RelayType, AnnouncesWhatItHas
  <2>2. \A y : y \in Range(queue) <=> \E i \in 1 .. Len(queue) : queue[i] = y
    BY <2>1, SeqRange
  <2> HIDE DEF queue
  <2>3. vInv \in Seq(Block) /\ SentFrom(vInv, queue, setInventoryKnown[s], Len(queue))
    BY <2>1, UnsentFacts DEF queue
  <2> QED
    BY <2>1, <2>2, <2>3 DEF SentFrom
<1> HIDE DEF vInv, due, wanted, rest, T
<1>5. inv(vInv) \in Seq(T)
  <2>1. CASE vInv = <<>>
    BY <2>1 DEF inv
  <2>2. CASE vInv # <<>>
    <3>1. [type |-> "inv", vInv |-> vInv] \in T
      BY <1>4 DEF T, ToServer
    <3>2. inv(vInv) = <<[type |-> "inv", vInv |-> vInv]>>
      BY <2>2 DEF inv
    <3> QED
      BY <3>1, <3>2
  <2> QED
    BY <2>1, <2>2
<1>6. /\ getdata(wanted) \in Seq(T)
      /\ wanted # <<>> => [type |-> "getdata", vInv |-> wanted] \in Range(getdata(wanted))
  <2>1. CASE wanted = <<>>
    BY <2>1 DEF getdata
  <2>2. CASE wanted # <<>>
    <3>1. [type |-> "getdata", vInv |-> wanted] \in T
      BY <1>3, <2>2 DEF T, ToServer
    <3>2. getdata(wanted) = <<[type |-> "getdata", vInv |-> wanted]>>
      BY <2>2 DEF getdata
    <3> DEFINE m == [type |-> "getdata", vInv |-> wanted]
    <3> HIDE DEF m
    <3>3. <<m>> \in Seq(T) /\ m \in Range(<<m>>)
      BY <3>1 DEF m, Range
    <3> QED
      BY <3>2, <3>3 DEF m
  <2> QED
    BY <2>1, <2>2
<1> DEFINE out == q \o inv(vInv) \o getdata(wanted)
<1>7. /\ out \in Seq(T) /\ Range(q) \subseteq Range(out)
      /\ Range(getdata(wanted)) \subseteq Range(out)
  <2> DEFINE both == q \o inv(vInv)
             x == inv(vInv)
             y == getdata(wanted)
  <2>1. q \in Seq(T)
    BY <1>2 DEF OnlyWhatItHas, T
  <2>2. x \in Seq(T) /\ y \in Seq(T)
    BY <1>5, <1>6
  <2> HIDE DEF q, x, y
  <2>3. (q \o x) \in Seq(T) /\ Range(q \o x) = Range(q) \cup Range(x)
    BY <2>1, <2>2, RangeConcat
  <2> DEFINE z == q \o x
  <2>4. z \in Seq(T) /\ Range(q) \subseteq Range(z)
    BY <2>3
  <2> HIDE DEF z
  <2>5. (z \o y) \in Seq(T) /\ Range(z \o y) = Range(z) \cup Range(y)
    BY <2>2, <2>4, RangeConcat
  <2>6. out = z \o y
    BY DEF z, x, y
  <2> QED
    BY <2>4, <2>5, <2>6 DEF y
<1> HIDE DEF out, q
<1>8. out \in Seq(Message)
  BY <1>2, <1>7, SeqMonotone
<1>9. /\ toServer' \in [Server -> Seq(Message)]
      /\ \A t \in Server : toServer'[t] = IF t = s THEN out ELSE toServer[t]
  BY <1>1, <1>2, <1>8 DEF WireType, out, q
<1>10. /\ mapAskFor' \in [Server -> Seq(Nat \X Block)]
       /\ \A t \in Server : mapAskFor'[t] = IF t = s THEN rest ELSE mapAskFor[t]
  BY <1>1, <1>2, <1>3 DEF AskingType2
<1>11. mapAlreadyAskedFor' \in [Block -> Int]
  BY <1>1, <1>2 DEF AskingType2
<1>12. /\ setInventoryKnown' \in [Server -> SUBSET Block]
       /\ \A t \in Server : setInventoryKnown'[t] =
            IF t = s THEN setInventoryKnown[s] \cup Range(vInv) ELSE setInventoryKnown[t]
  <2>1. Range(vInv) \subseteq Block
    BY <1>4, SeqRange
  <2> QED
    BY <1>1, <1>2, <2>1 DEF RelayType
<1>13. Had' = Had
  BY <1>1 DEF Had, chain
<1>14. RelayType' /\ AnnouncesWhatItHas'
  <2>1. \A t \in Server : vInventoryToSend'[t] = IF t = s THEN <<>> ELSE vInventoryToSend[t]
    BY <1>1, <1>2 DEF RelayType
  <2>2. vInventoryToSend' \in [Server -> Seq(Block)]
    BY <1>1, <1>2 DEF RelayType
  <2>3. Range(<<>>) = {}
    BY DEF Range
  <2> QED
    BY <1>2, <1>12, <1>13, <2>1, <2>2, <2>3 DEF RelayType, AnnouncesWhatItHas
<1>15. DownloadInv'
  <2>1. ChainType' /\ ChainIsLinked' /\ NetType' /\ AskedAreGreeted'
    BY <1>1, <1>2 DEF ChainType, ChainIsLinked, NetType, AskedAreGreeted, chain, net
  <2>2. AskingType2'
    BY <1>1, <1>2, <1>10, <1>11 DEF AskingType2
  <2>3. WireType'
    BY <1>1, <1>2, <1>9 DEF WireType
  <2>4. \A t \in Server : /\ mapAskFor'[t] \in Seq(Nat \X Has(t))
                          /\ toServer'[t] \in Seq(ToServer(t)) /\ toClient'[t] \in Seq(ToClient(t))
    BY <1>1, <1>2, <1>3, <1>7, <1>9, <1>10 DEF OnlyWhatItHas, T
  <2> QED
    BY <1>1, <1>2, <1>14, <2>1, <2>2, <2>3, <2>4, ClientKeeps
<1>16. ASSUME NothingForgotten PROVE NothingForgotten'
  <2>1. ASSUME NEW t \in Server, NEW b \in setInventoryKnown'[t], b \notin Had'
        PROVE  Underway(t, b)'
    <3>1. b \notin Had /\ b \in Block /\ Underway(t, b)
      BY <1>4, <1>12, <1>13, <1>16, <2>1 DEF NothingForgotten, AlreadyHave
    <3>2. CASE t = s /\ b \in Range(wanted)
      <4> DEFINE m == [type |-> "getdata", vInv |-> wanted]
      <4>1. wanted # <<>>
        BY <3>2 DEF Range
      <4>2. m \in Range(toServer'[s])
        BY <1>6, <1>7, <1>9, <4>1
      <4>3. m.type = "getdata" /\ b \in Range(m.vInv)
        BY <3>2
      <4> QED
        BY <3>2, <4>2, <4>3 DEF Underway
    <3>3. CASE t = s /\ b \notin Range(wanted)
      <4>1. <<0, b>> \notin Range(mapAskFor[s])
        BY <1>3, <3>1, <3>3
      <4>2. ASSUME b \in {e[2] : e \in Range(mapAskFor[s])}
            PROVE  b \in {e[2] : e \in Range(mapAskFor'[s])}
        <5>1. PICK e \in Range(mapAskFor[s]) : e[2] = b
          BY <4>2
        <5>2. Range(mapAskFor[s]) \subseteq Nat \X Block
          <6>1. mapAskFor[s] \in Seq(Nat \X Block)
            BY <1>2 DEF AskingType2
          <6> QED
            BY <6>1, SeqRange
        <5>3. e[1] # 0
          BY <4>1, <5>1, <5>2
        <5>4. e \in Range(rest)
          BY <1>3, <5>1, <5>3
        <5> QED
          BY <1>10, <5>1, <5>4
      <4>3. Range(toServer[s]) \subseteq Range(toServer'[s]) /\ toClient' = toClient
        BY <1>1, <1>7, <1>9 DEF q
      <4> QED
        BY <3>1, <3>3, <4>2, <4>3, UnderwayMoves
    <3>4. CASE t # s
      <4>1. mapAskFor'[t] = mapAskFor[t] /\ toServer'[t] = toServer[t] /\ toClient' = toClient
        BY <1>1, <1>9, <1>10, <3>4
      <4> QED
        BY <3>1, <4>1, UnderwayMoves
    <3> QED
      BY <3>2, <3>3, <3>4
  <2> QED
    BY <2>1 DEF NothingForgotten, AlreadyHave
<1> QED
  BY <1>15, <1>16

-----------------------------------------------------------------------------
(* The servers' steps. *)

LEMMA EmptyIn ==
    ASSUME NEW X
    PROVE  <<>> \in Seq(X) /\ Range(<<>>) = {}
BY DEF Range

LEMMA ServerKeeps ==
    ASSUME DownloadInv, UNCHANGED <<chain, asking, relay, net, fresh>>, height' = height,
           ServerType', WireType',
           \A t \in Server : /\ toServer'[t] \in Seq(ToServer(t)) /\ toSend'[t] \in Seq(Has(t))
                             /\ toClient'[t] \in Seq(ToClient(t))
    PROVE  DownloadInv' /\ Had' = Had
<1>1. /\ ChainType' /\ AskingType2' /\ RelayType' /\ NetType' /\ fresh' \subseteq Main
      /\ nAskedForBlocks' \in 0 .. Cardinality(Server)
  BY TypeParts DEF DownloadInv, ChainType, AskingType2, RelayType, NetType, chain, asking, relay, net
<1>2. Had' = Had /\ ChainIsLinked' /\ AskedAreGreeted' /\ AnnouncesWhatItHas'
  BY DEF DownloadInv, Had, ChainIsLinked, AskedAreGreeted, AnnouncesWhatItHas, chain, asking, relay, net
<1>3. OnlyWhatItHas'
  <2>1. \A t \in Server : Has(t)' = Has(t) /\ ToServer(t)' = ToServer(t) /\ ToClient(t)' = ToClient(t)
    BY DEF Has, ToServer, ToClient, GetBlocks
  <2>2. mapAskFor' = mapAskFor
    BY DEF asking
  <2> QED
    BY <2>1, <2>2 DEF OnlyWhatItHas, DownloadInv
<1> QED
  BY <1>1, <1>2, <1>3, TypePartsNext DEF DownloadInv

LEMMA PushedFacts ==
    ASSUME NEW X, NEW q \in Seq(X), NEW p \in Seq(X), NEW S
    PROVE  Pushed(q, S, p) \in Seq(X)
<1> DEFINE T == Block \ S
<1> HIDE DEF T
<1>1. Kept(p, T) \in Seq(X)
  BY KeptFacts
<1> HIDE DEF T
<1>2. q \o Kept(p, T) \in Seq(X)
  BY <1>1
<1> QED
  BY <1>2 DEF Pushed, T

LEMMA ReceiveGetBlocksKeeps ==
    ASSUME DownloadInv, NEW s \in Server, NEW m \in GetBlocks, ReceiveGetBlocks(s, m)
    PROVE  ServerType' /\ \A t \in Server : toSend'[t] \in Seq(Has(t))
<1> DEFINE begin == GetBlockIndex(s, m.locator)
           end == IF m.hashStop > begin THEN Earlier(m.hashStop - 1, height[s]) ELSE height[s]
           limited == begin + nLimit <= end
           n == IF limited THEN nLimit ELSE end - begin
           sent == [i \in 1..n |-> begin + i]
<1>1. /\ toSend' = [toSend EXCEPT ![s] = Pushed(@, known[s], sent)]
      /\ hashContinue' = [hashContinue EXCEPT ![s] = IF limited THEN begin + nLimit ELSE @]
      /\ UNCHANGED <<height, known>>
  BY DEF ReceiveGetBlocks
<1>2. m.locator \in Block /\ m.hashStop \in Int /\ nLimit \in Nat \ {0}
  BY BlockFacts DEF GetBlocks
<1>3. begin \in 0 .. height[s] /\ height[s] \in Main /\ height[s] \in Nat
  BY <1>2, GetBlockIndexFacts, BlockFacts DEF DownloadInv, TypeOK
<1> HIDE DEF begin
<1>4. end \in Nat /\ begin <= end /\ end <= height[s]
  BY <1>2, <1>3 DEF Earlier
<1> HIDE DEF end
<1>5. n \in Nat /\ \A i \in 1..n : begin + i \in Has(s)
  BY <1>2, <1>3, <1>4 DEF Has
<1> HIDE DEF n
<1>6. sent \in Seq(Has(s))
  BY <1>5
<1>7. limited => begin + nLimit \in Main
  BY <1>2, <1>3, <1>4, BlockFacts DEF Main
<1> HIDE DEF sent, limited
<1>8. ServerType /\ (\A t \in Server : toSend[t] \in Seq(Has(t))) /\ Has(s) \subseteq Block
  BY TypeParts, HasFacts DEF DownloadInv, OnlyWhatItHas
<1>9. Pushed(toSend[s], known[s], sent) \in Seq(Has(s))
  BY <1>6, <1>8, PushedFacts
<1>10. Pushed(toSend[s], known[s], sent) \in Seq(Block)
  BY <1>8, <1>9, SeqMonotone
<1>11. \A t \in Server : toSend'[t] = IF t = s THEN Pushed(toSend[s], known[s], sent) ELSE toSend[t]
  BY <1>1, <1>8 DEF ServerType
<1>12. toSend' \in [Server -> Seq(Block)] /\ hashContinue' \in [Server -> Main]
  BY <1>1, <1>7, <1>8, <1>10 DEF ServerType
<1> QED
  BY <1>1, <1>8, <1>9, <1>11, <1>12 DEF ServerType

LEMMA ServerReceiveKeeps ==
    ASSUME DownloadInv, NEW s \in Server, ServerReceive(s)
    PROVE  DownloadInv' /\ (NothingForgotten => NothingForgotten')
<1> DEFINE q == toServer[s]
           m == Head(q)
<1>1. /\ q # <<>> /\ toServer' = [toServer EXCEPT ![s] = Tail(q)]
      /\ \/ m.type = "getblocks" /\ ReceiveGetBlocks(s, m)
         \/ m.type = "getdata" /\ ReceiveGetData(s, m.vInv)
         \/ /\ m.type = "inv" /\ known' = [known EXCEPT ![s] = @ \cup Range(m.vInv)]
            /\ UNCHANGED <<height, toSend, hashContinue, toClient>>
      /\ UNCHANGED <<chain, asking, relay, net, fresh>>
  BY DEF ServerReceive
<1>2. /\ ServerType /\ WireType /\ OnlyWhatItHas /\ Has(s) \subseteq Block
      /\ ToServer(s) \subseteq Message /\ ToClient(s) \subseteq Message
  BY TypeParts, HasFacts DEF DownloadInv
<1>3. Tail(q) \in Seq(ToServer(s)) /\ m \in ToServer(s) /\ Range(q) = {m} \cup Range(Tail(q))
  <2>1. q \in Seq(ToServer(s)) /\ q # <<>>
    BY <1>1, <1>2 DEF OnlyWhatItHas
  <2> HIDE DEF q
  <2> QED
    BY <2>1, RangeTail
<1> HIDE DEF q, m
<1>4. Tail(q) \in Seq(Message)
  BY <1>2, <1>3, SeqMonotone
<1>5. /\ toServer' \in [Server -> Seq(Message)]
      /\ \A t \in Server : /\ toServer'[t] = IF t = s THEN Tail(q) ELSE toServer[t]
                           /\ toServer'[t] \in Seq(ToServer(t))
  BY <1>1, <1>2, <1>3, <1>4 DEF WireType, OnlyWhatItHas
<1> DEFINE Answers ==
             /\ height' = height /\ ServerType' /\ toClient' \in [Server -> Seq(Message)]
             /\ \A t \in Server : /\ toSend'[t] \in Seq(Has(t)) /\ toClient'[t] \in Seq(ToClient(t))
                                  /\ Range(toClient[t]) \subseteq Range(toClient'[t])
             /\ \A b \in Block : Carries(m, b) =>
                  \E n \in Range(toClient'[s]) : n.type = "block" /\ n.block = b
<1>6. Answers
  <2>1. CASE m.type = "getblocks" /\ ReceiveGetBlocks(s, m)
    <3>1. m \in GetBlocks /\ \A b \in Block : ~Carries(m, b)
      BY <1>3, <2>1 DEF ToServer, Carries
    <3>2. height' = height /\ toClient' = toClient
      BY <2>1 DEF ReceiveGetBlocks
    <3>3. ServerType' /\ \A t \in Server : toSend'[t] \in Seq(Has(t))
      BY <2>1, <3>1, ReceiveGetBlocksKeeps
    <3> QED
      BY <1>2, <3>1, <3>2, <3>3 DEF WireType, OnlyWhatItHas
  <2>2. CASE m.type = "getdata" /\ ReceiveGetData(s, m.vInv)
    <3> DEFINE v == m.vInv
               all == Answered(s, v)[Len(v)]
    <3>1. v \in Seq(Has(s)) /\ v # <<>> /\ \A b \in Block : Carries(m, b) => b \in Range(v)
      BY <1>3, <2>2 DEF ToServer, GetBlocks, Carries
    <3>2. /\ toClient' = [toClient EXCEPT ![s] = all]
          /\ hashContinue' = [hashContinue EXCEPT ![s] = IF @ \in Range(v) THEN 0 ELSE @]
          /\ UNCHANGED <<height, known, toSend>>
      BY <2>2 DEF ReceiveGetData
    <3> HIDE DEF v
    <3>3. /\ all \in Seq(ToClient(s)) /\ Range(toClient[s]) \subseteq Range(all)
          /\ \A b \in Range(v) : \E n \in Range(all) : n.type = "block" /\ n.block = b
      BY <3>1, AnsweredAll
    <3> HIDE DEF all
    <3>4. all \in Seq(Message)
      BY <1>2, <3>3, SeqMonotone
    <3>5. ServerType'
      BY <1>2, <3>2, BlockFacts DEF ServerType
    <3>6. /\ toClient' \in [Server -> Seq(Message)]
          /\ \A t \in Server : toClient'[t] = IF t = s THEN all ELSE toClient[t]
      BY <1>2, <3>2, <3>4 DEF WireType
    <3> QED
      BY <1>2, <3>1, <3>2, <3>3, <3>5, <3>6 DEF OnlyWhatItHas
  <2>3. CASE /\ m.type = "inv" /\ known' = [known EXCEPT ![s] = @ \cup Range(m.vInv)]
             /\ UNCHANGED <<height, toSend, hashContinue, toClient>>
    <3> DEFINE v == m.vInv
    <3>1. v \in Seq(Block) /\ \A b \in Block : ~Carries(m, b)
      BY <1>3, <2>3 DEF ToServer, GetBlocks, Carries
    <3> HIDE DEF v
    <3>2. Range(v) \subseteq Block
      BY <3>1, SeqRange
    <3>3. ServerType'
      BY <1>2, <2>3, <3>2 DEF ServerType, v
    <3> QED
      BY <1>2, <2>3, <3>1, <3>3 DEF WireType, OnlyWhatItHas
  <2> QED
    BY <1>1, <2>1, <2>2, <2>3
<1>7. DownloadInv' /\ Had' = Had
  <2>1. WireType'
    BY <1>5, <1>6 DEF WireType
  <2> QED
    BY <1>1, <1>5, <1>6, <2>1, ServerKeeps
<1>8. ASSUME NothingForgotten PROVE NothingForgotten'
  <2>1. setInventoryKnown' = setInventoryKnown /\ mapAskFor' = mapAskFor
    BY <1>1 DEF relay, asking
  <2>2. ASSUME NEW t \in Server, NEW b \in setInventoryKnown'[t], b \notin Had'
        PROVE  Underway(t, b)'
    <3>1. Underway(t, b) /\ b \in Block
      BY <1>7, <1>8, <2>1, <2>2 DEF NothingForgotten, AlreadyHave, DownloadInv, TypeOK
    <3>2. CASE t = s /\ Carries(m, b)
      BY <1>6, <3>1, <3>2 DEF Underway
    <3>3. CASE ~(t = s /\ Carries(m, b))
      <4>1. \A n \in Range(toServer[t]) : Carries(n, b) => n \in Range(toServer'[t])
        BY <1>3, <1>5, <3>3 DEF q
      <4>2. \A n \in Range(toClient[t]) : Carries(n, b) => n \in Range(toClient'[t])
        BY <1>6
      <4> QED
        BY <2>1, <3>1, <4>1, <4>2, UnderwayMoves
    <3> QED
      BY <3>2, <3>3
  <2> QED
    BY <2>2 DEF NothingForgotten, AlreadyHave
<1> QED
  BY <1>7, <1>8

LEMMA ServerSendKeeps ==
    ASSUME DownloadInv, NEW s \in Server, ServerSend(s)
    PROVE  DownloadInv' /\ (NothingForgotten => NothingForgotten')
<1> DEFINE vInv == Unsent(toSend[s], known[s])
           q == toClient[s]
           x == inv(vInv)
           T == ToClient(s)
<1>1. /\ toClient' = [toClient EXCEPT ![s] = q \o x]
      /\ known' = [known EXCEPT ![s] = @ \cup Range(vInv)]
      /\ toSend' = [toSend EXCEPT ![s] = <<>>]
      /\ UNCHANGED <<chain, asking, relay, height, hashContinue, net, toServer, fresh>>
  BY DEF ServerSend
<1>2. /\ ServerType /\ WireType /\ OnlyWhatItHas /\ Has(s) \subseteq Block /\ T \subseteq Message
  BY TypeParts, HasFacts DEF DownloadInv
<1>3. vInv \in Seq(Has(s))
  BY <1>2, UnsentFacts DEF OnlyWhatItHas
<1> HIDE DEF vInv
<1>4. x \in Seq(T)
  <2>1. CASE vInv = <<>>
    BY <2>1 DEF inv
  <2>2. CASE vInv # <<>>
    <3>1. [type |-> "inv", vInv |-> vInv] \in T
      BY <1>3 DEF ToClient
    <3>2. x = <<[type |-> "inv", vInv |-> vInv]>>
      BY <2>2 DEF inv
    <3> HIDE DEF T, x
    <3> QED
      BY <3>1, <3>2
  <2> QED
    BY <2>1, <2>2
<1>5. q \in Seq(T)
  BY <1>2 DEF OnlyWhatItHas
<1> HIDE DEF q, x, T
<1>6. q \o x \in Seq(T) /\ Range(q) \subseteq Range(q \o x)
  <2>1. Range(q \o x) = Range(q) \cup Range(x)
    BY <1>4, <1>5, RangeConcat
  <2> QED
    BY <1>4, <1>5, <2>1
<1>7. q \o x \in Seq(Message)
  BY <1>2, <1>6, SeqMonotone
<1>8. /\ toClient' \in [Server -> Seq(Message)]
      /\ \A t \in Server : toClient'[t] = IF t = s THEN q \o x ELSE toClient[t]
  BY <1>1, <1>2, <1>7 DEF WireType
<1>9. ServerType' /\ \A t \in Server : toSend'[t] \in Seq(Has(t))
  <2>1. Range(vInv) \subseteq Block
    BY <1>2, <1>3, SeqRange
  <2>2. ServerType'
    BY <1>1, <1>2, <2>1 DEF ServerType
  <2>3. \A t \in Server : toSend'[t] = IF t = s THEN <<>> ELSE toSend[t]
    BY <1>1, <1>2 DEF ServerType
  <2>4. ASSUME NEW t \in Server PROVE toSend'[t] \in Seq(Has(t))
    <3>1. toSend[t] \in Seq(Has(t)) /\ <<>> \in Seq(Has(t))
      BY <1>2, EmptyIn DEF OnlyWhatItHas
    <3> QED
      BY <2>3, <3>1
  <2> QED
    BY <2>2, <2>4
<1>10. DownloadInv' /\ Had' = Had
  <2>1. WireType' /\ \A t \in Server : toServer'[t] \in Seq(ToServer(t))
    BY <1>1, <1>2, <1>8 DEF WireType, OnlyWhatItHas
  <2>2. \A t \in Server : toClient'[t] \in Seq(ToClient(t))
    BY <1>2, <1>6, <1>8 DEF OnlyWhatItHas, T
  <2> QED
    BY <1>1, <1>9, <2>1, <2>2, ServerKeeps
<1>11. ASSUME NothingForgotten PROVE NothingForgotten'
  <2>1. UNCHANGED <<setInventoryKnown, mapAskFor, toServer>>
    BY <1>1 DEF relay, asking
  <2>2. \A t \in Server : Range(toClient[t]) \subseteq Range(toClient'[t])
    BY <1>6, <1>8 DEF q
  <2>3. ASSUME NEW t \in Server, NEW b \in setInventoryKnown'[t], b \notin Had'
        PROVE  Underway(t, b)'
    <3>1. Underway(t, b)
      BY <1>10, <1>11, <2>1, <2>3 DEF NothingForgotten, AlreadyHave
    <3> QED
      BY <2>1, <2>2, <3>1, UnderwayStays
  <2> QED
    BY <2>3 DEF NothingForgotten, AlreadyHave
<1> QED
  BY <1>10, <1>11

LEMMA NewBlockKeeps ==
    ASSUME DownloadInv, NEW s \in Server, NewBlock(s)
    PROVE  DownloadInv' /\ (NothingForgotten => NothingForgotten')
<1> DEFINE b == height[s] + 1
           q == toSend[s]
           queue == Pushed(q, known[s], <<b>>)
<1>1. /\ b <= MaxHeight /\ height' = [height EXCEPT ![s] = b]
      /\ toSend' = [toSend EXCEPT ![s] = queue]
      /\ fresh' \in {fresh, fresh \cup {nHeight(pindexBest)}}
      /\ nHeight(pindexBest) < b \/ fresh' = fresh
      /\ UNCHANGED <<chain, asking, relay, known, hashContinue, net, toServer, toClient>>
  BY DEF NewBlock
<1>2. /\ ChainType /\ AskingType2 /\ RelayType /\ ServerType /\ NetType /\ WireType /\ fresh \subseteq Main
      /\ nAskedForBlocks \in 0 .. Cardinality(Server) /\ OnlyWhatItHas
  BY TypeParts DEF DownloadInv
<1>3. height[s] \in Nat /\ b \in Main /\ b \in Nat
  BY <1>1, <1>2, BlockFacts DEF ServerType, Main
<1>4. /\ height' \in [Server -> Main]
      /\ \A t \in Server : height'[t] = IF t = s THEN b ELSE height[t]
  BY <1>1, <1>2, <1>3 DEF ServerType
<1>5. \A t \in Server : Has(t) \subseteq Has(t)'
  <2> TAKE t \in Server
  <2>1. height[t] \in Nat /\ height'[t] \in Nat /\ height[t] <= height'[t]
    <3>1. height[t] \in Nat /\ height'[t] \in Nat
      BY <1>2, <1>4, BlockFacts DEF ServerType
    <3>2. CASE t = s
      BY <1>3, <1>4, <3>1, <3>2
    <3>3. CASE t # s
      BY <1>4, <3>1, <3>3
    <3> QED
      BY <3>1, <3>2, <3>3
  <2> QED
    BY <2>1 DEF Has
<1>6. ASSUME NEW t \in Server
      PROVE  /\ Seq(Nat \X Has(t)) \subseteq Seq(Nat \X Has(t)')
             /\ Seq(Has(t)) \subseteq Seq(Has(t)')
             /\ Seq(ToServer(t)) \subseteq Seq(ToServer(t)')
             /\ Seq(ToClient(t)) \subseteq Seq(ToClient(t)')
  <2> DEFINE H == Has(t)
             K == Has(t)'
  <2>1. H \subseteq K
    BY <1>5
  <2> HIDE DEF H, K
  <2>2. Seq(H) \subseteq Seq(K) /\ Nat \X H \subseteq Nat \X K
    BY <2>1, SeqMonotone
  <2>3. Seq(Nat \X H) \subseteq Seq(Nat \X K)
    BY <2>2, SeqMonotone
  <2>4. [type : {"getdata"}, vInv : Seq(H) \ {<<>>}] \subseteq [type : {"getdata"}, vInv : Seq(K) \ {<<>>}]
    BY <2>2
  <2>5. [type : {"inv"}, vInv : Seq(H)] \subseteq [type : {"inv"}, vInv : Seq(K)]
    BY <2>2
  <2>6. [type : {"block"}, block : H] \subseteq [type : {"block"}, block : K]
    BY <2>1
  <2>7. ToServer(t) \subseteq ToServer(t)'
    BY <2>4 DEF ToServer, GetBlocks, H, K
  <2>8. ToClient(t) \subseteq ToClient(t)'
    BY <2>5, <2>6 DEF ToClient, H, K
  <2>9. Seq(ToServer(t)) \subseteq Seq(ToServer(t)') /\ Seq(ToClient(t)) \subseteq Seq(ToClient(t)')
    BY <2>7, <2>8, SeqMonotone
  <2> QED
    BY <2>2, <2>3, <2>9 DEF H, K
<1>7. queue \in Seq(Has(s)')
  <2> DEFINE K == Has(s)'
  <2>1. q \in Seq(Has(s)) /\ Seq(Has(s)) \subseteq Seq(K)
    BY <1>2, <1>6 DEF OnlyWhatItHas
  <2>2. b \in K
    BY <1>3, <1>4 DEF Has
  <2> HIDE DEF K, q, b
  <2>3. q \in Seq(K) /\ <<b>> \in Seq(K)
    BY <2>1, <2>2
  <2>4. Pushed(q, known[s], <<b>>) \in Seq(K)
    BY <2>3, PushedFacts
  <2> QED
    BY <2>4 DEF K, q, b
<1>8. queue \in Seq(Block)
  <2>1. Has(s)' \subseteq Block
    BY <1>3, <1>4, BlockFacts DEF Has, Main
  <2> QED
    BY <1>7, <2>1, SeqMonotone
<1> HIDE DEF queue
<1>9. /\ toSend' \in [Server -> Seq(Block)]
      /\ \A t \in Server : toSend'[t] = IF t = s THEN queue ELSE toSend[t]
  BY <1>1, <1>2, <1>8 DEF ServerType
<1>10. OnlyWhatItHas'
  <2>1. UNCHANGED <<mapAskFor, toServer, toClient>>
    BY <1>1 DEF asking
  <2>2. ASSUME NEW t \in Server
        PROVE  /\ mapAskFor[t] \in Seq(Nat \X Has(t)') /\ toServer[t] \in Seq(ToServer(t)')
               /\ toSend'[t] \in Seq(Has(t)') /\ toClient[t] \in Seq(ToClient(t)')
    <3>1. /\ mapAskFor[t] \in Seq(Nat \X Has(t)) /\ toServer[t] \in Seq(ToServer(t))
          /\ toSend[t] \in Seq(Has(t)) /\ toClient[t] \in Seq(ToClient(t))
      BY <1>2 DEF OnlyWhatItHas
    <3>2. toSend[t] \in Seq(Has(t)')
      BY <1>6, <3>1
    <3>3. toSend'[t] \in Seq(Has(t)')
      BY <1>7, <1>9, <3>2
    <3> QED
      BY <1>6, <3>1, <3>3
  <2> QED
    BY <2>1, <2>2 DEF OnlyWhatItHas
<1>11. fresh' \subseteq Main
  <2>1. nHeight(pindexBest) \in Nat
    BY <1>2, BlockFacts DEF ChainType
  <2> QED
    BY <1>1, <1>2, <1>3, <2>1, BlockFacts DEF Main
<1>12. DownloadInv'
  <2>1. ChainType' /\ AskingType2' /\ RelayType' /\ NetType' /\ WireType'
    BY <1>1, <1>2 DEF ChainType, AskingType2, RelayType, NetType, WireType, chain, asking, relay, net
  <2>2. ServerType'
    BY <1>1, <1>2, <1>4, <1>9 DEF ServerType
  <2>3. ChainIsLinked' /\ AskedAreGreeted' /\ AnnouncesWhatItHas'
    BY <1>1
       DEF DownloadInv, ChainIsLinked, AskedAreGreeted, AnnouncesWhatItHas, Had, chain, asking, relay, net
  <2>4. nAskedForBlocks' \in 0 .. Cardinality(Server)
    BY <1>1, <1>2 DEF asking
  <2> QED
    BY <1>10, <1>11, <2>1, <2>2, <2>3, <2>4, TypePartsNext DEF DownloadInv
<1>13. ASSUME NothingForgotten PROVE NothingForgotten'
  BY <1>1, <1>13 DEF NothingForgotten, AlreadyHave, Had, Underway, chain, asking, relay
<1> QED
  BY <1>12, <1>13

LEMMA DisconnectKeeps ==
    ASSUME DownloadInv, NEW s \in Server, Disconnect(s)
    PROVE  DownloadInv' /\ (NothingForgotten => NothingForgotten')
<1>1. /\ connected' = connected \ {s} /\ greeted' = greeted \ {s}
      /\ toServer' = [toServer EXCEPT ![s] = <<>>] /\ toClient' = [toClient EXCEPT ![s] = <<>>]
      /\ mapAskFor' = [mapAskFor EXCEPT ![s] = <<>>]
      /\ lastGetBlocks' = [lastGetBlocks EXCEPT ![s] = <<>>]
      /\ setInventoryKnown' = [setInventoryKnown EXCEPT ![s] = {}]
      /\ vInventoryToSend' = [vInventoryToSend EXCEPT ![s] = <<>>]
      /\ known' = [known EXCEPT ![s] = {}] /\ toSend' = [toSend EXCEPT ![s] = <<>>]
      /\ hashContinue' = [hashContinue EXCEPT ![s] = 0]
      /\ UNCHANGED <<chain, nAskedForBlocks, mapAlreadyAskedFor, height, fresh>>
  BY DEF Disconnect
<1>2. /\ ChainType /\ AskingType2 /\ RelayType /\ ServerType /\ NetType /\ WireType /\ fresh \subseteq Main
      /\ nAskedForBlocks \in 0 .. Cardinality(Server) /\ OnlyWhatItHas /\ AskedAreGreeted
  BY TypeParts DEF DownloadInv
<1>3. ChainType' /\ ChainIsLinked' /\ Had' = Had /\ fresh' \subseteq Main
  BY <1>1, <1>2 DEF DownloadInv, ChainType, ChainIsLinked, Had, chain
<1>4. AskingType2' /\ \A t \in Server : mapAskFor'[t] = IF t = s THEN <<>> ELSE mapAskFor[t]
  BY <1>1, <1>2 DEF AskingType2
<1>5. /\ RelayType' /\ \A t \in Server : vInventoryToSend'[t] = IF t = s THEN <<>> ELSE vInventoryToSend[t]
      /\ \A t \in Server : setInventoryKnown'[t] = IF t = s THEN {} ELSE setInventoryKnown[t]
  BY <1>1, <1>2 DEF RelayType
<1>6. ServerType' /\ \A t \in Server : toSend'[t] = IF t = s THEN <<>> ELSE toSend[t]
  BY <1>1, <1>2, BlockFacts DEF ServerType
<1>7. /\ WireType' /\ \A t \in Server : /\ toServer'[t] = IF t = s THEN <<>> ELSE toServer[t]
                                        /\ toClient'[t] = IF t = s THEN <<>> ELSE toClient[t]
  BY <1>1, <1>2 DEF WireType
<1>8. NetType' /\ AskedAreGreeted' /\ nAskedForBlocks' \in 0 .. Cardinality(Server)
  <2> DEFINE S == Server \ (connected \ greeted)
             T == Server \ (connected' \ greeted')
  <2>1. S \subseteq T /\ S \in SUBSET Server /\ T \in SUBSET Server
    BY <1>1
  <2>2. nAskedForBlocks <= Cardinality(S) /\ nAskedForBlocks \in Nat
    BY <1>2 DEF AskedAreGreeted
  <2> HIDE DEF S, T
  <2>3. Cardinality(S) \in Nat /\ Cardinality(T) \in Nat /\ Cardinality(S) <= Cardinality(T)
    BY <2>1, CardinalityGrows
  <2>4. nAskedForBlocks' <= Cardinality(T)
    BY <1>1, <2>2, <2>3
  <2> QED
    BY <1>1, <1>2, <2>4 DEF NetType, AskedAreGreeted, T
<1>9. OnlyWhatItHas'
  <2>1. \A t \in Server : Has(t)' = Has(t) /\ ToServer(t)' = ToServer(t) /\ ToClient(t)' = ToClient(t)
    BY <1>1 DEF Has, ToServer, ToClient, GetBlocks
  <2>2. ASSUME NEW t \in Server
        PROVE  /\ mapAskFor'[t] \in Seq(Nat \X Has(t)) /\ toServer'[t] \in Seq(ToServer(t))
               /\ toSend'[t] \in Seq(Has(t)) /\ toClient'[t] \in Seq(ToClient(t))
    <3>1. /\ mapAskFor[t] \in Seq(Nat \X Has(t)) /\ toServer[t] \in Seq(ToServer(t))
          /\ toSend[t] \in Seq(Has(t)) /\ toClient[t] \in Seq(ToClient(t))
      BY <1>2 DEF OnlyWhatItHas
    <3>2. CASE t = s
      <4>1. mapAskFor'[t] = <<>> /\ toServer'[t] = <<>> /\ toSend'[t] = <<>> /\ toClient'[t] = <<>>
        BY <1>4, <1>6, <1>7, <3>2
      <4> QED
        BY <4>1, EmptyIn
    <3>3. CASE t # s
      BY <1>4, <1>6, <1>7, <3>1, <3>3
    <3> QED
      BY <3>2, <3>3
  <2> QED
    BY <2>1, <2>2 DEF OnlyWhatItHas
<1>10. AnnouncesWhatItHas'
  <2>1. Range(<<>>) = {}
    BY DEF Range
  <2> QED
    BY <1>3, <1>5, <2>1 DEF DownloadInv, AnnouncesWhatItHas
<1>11. DownloadInv'
  BY <1>3, <1>4, <1>5, <1>6, <1>7, <1>8, <1>9, <1>10, TypePartsNext DEF DownloadInv
<1>12. ASSUME NothingForgotten PROVE NothingForgotten'
  <2>1. ASSUME NEW t \in Server, NEW b \in setInventoryKnown'[t], b \notin Had'
        PROVE  Underway(t, b)'
    <3>1. t # s
      BY <1>5, <2>1
    <3>2. Underway(t, b)
      BY <1>3, <1>5, <1>12, <2>1, <3>1 DEF NothingForgotten, AlreadyHave
    <3> QED
      BY <1>4, <1>7, <3>1, <3>2 DEF Underway
  <2> QED
    BY <2>1 DEF NothingForgotten, AlreadyHave
<1> QED
  BY <1>11, <1>12

LEMMA TickKeeps ==
    ASSUME DownloadInv, Tick
    PROVE  DownloadInv' /\ (NothingForgotten => NothingForgotten')
<1> DEFINE queue(t) == [i \in DOMAIN mapAskFor[t] |->
                          <<Later(mapAskFor[t][i][1] - 1, 0), mapAskFor[t][i][2]>>]
<1>1. /\ mapAlreadyAskedFor' = [b \in Block |-> Later(mapAlreadyAskedFor[b] - 1, Never)]
      /\ mapAskFor' = [s \in Server |-> queue(s)]
      /\ UNCHANGED <<chain, nAskedForBlocks, lastGetBlocks, relay, server, net, toServer, toClient, fresh>>
  BY DEF Tick
<1>2. /\ AskingType2 /\ ChainType /\ RelayType /\ NetType /\ WireType /\ OnlyWhatItHas
      /\ nAskedForBlocks \in 0 .. Cardinality(Server)
  BY TypeParts DEF DownloadInv
<1>3. ASSUME NEW t \in Server
      PROVE  /\ queue(t) \in Seq(Nat \X Has(t)) /\ queue(t) \in Seq(Nat \X Block)
             /\ {e[2] : e \in Range(queue(t))} = {e[2] : e \in Range(mapAskFor[t])}
  <2> DEFINE q == mapAskFor[t]
             H == Has(t)
  <2>1. q \in Seq(Nat \X H) /\ Seq(Nat \X H) \subseteq Seq(Nat \X Block)
    BY <1>2, HasFacts DEF DownloadInv, OnlyWhatItHas
  <2> HIDE DEF q, H
  <2>2. DOMAIN q = 1 .. Len(q) /\ Len(q) \in Nat /\ \A i \in 1 .. Len(q) : q[i] \in Nat \X H
    BY <2>1
  <2>3. \A i \in 1 .. Len(q) : <<Later(q[i][1] - 1, 0), q[i][2]>> \in Nat \X H
    BY <2>2 DEF Later
  <2> DEFINE r == [i \in DOMAIN q |-> <<Later(q[i][1] - 1, 0), q[i][2]>>]
  <2>4. r \in Seq(Nat \X H)
    BY <2>2, <2>3
  <2>5. DOMAIN r = DOMAIN q /\ \A i \in DOMAIN q : r[i][2] = q[i][2]
    OBVIOUS
  <2> HIDE DEF r
  <2>6. {e[2] : e \in Range(r)} = {e[2] : e \in Range(q)}
    BY <2>5 DEF Range
  <2>7. queue(t) = r
    BY DEF r, q
  <2> HIDE DEF queue
  <2> QED
    BY <2>1, <2>4, <2>6, <2>7 DEF q, H
<1> HIDE DEF queue
<1>4. AskingType2'
  <2>1. \A b \in Block : Later(mapAlreadyAskedFor[b] - 1, Never) \in Int
    BY <1>2 DEF AskingType2, Later, Never
  <2> QED
    BY <1>1, <1>2, <1>3, <2>1 DEF AskingType2
<1>5. DownloadInv'
  <2>1. ChainType' /\ ChainIsLinked' /\ RelayType' /\ AnnouncesWhatItHas' /\ WireType' /\ NetType'
    BY <1>1, <1>2
       DEF DownloadInv, ChainType, ChainIsLinked, RelayType, AnnouncesWhatItHas, WireType, NetType, Had,
           chain, relay, net
  <2>2. AskedAreGreeted' /\ nAskedForBlocks' \in 0 .. Cardinality(Server)
    BY <1>1, <1>2 DEF DownloadInv, AskedAreGreeted, net
  <2>3. \A t \in Server : /\ mapAskFor'[t] \in Seq(Nat \X Has(t))
                          /\ toServer'[t] \in Seq(ToServer(t)) /\ toClient'[t] \in Seq(ToClient(t))
    BY <1>1, <1>2, <1>3 DEF OnlyWhatItHas
  <2> QED
    BY <1>1, <1>4, <2>1, <2>2, <2>3, ClientKeeps
<1>6. ASSUME NothingForgotten PROVE NothingForgotten'
  <2>1. ASSUME NEW t \in Server, NEW b \in setInventoryKnown'[t], b \notin Had'
        PROVE  Underway(t, b)'
    <3>1. Underway(t, b)
      BY <1>1, <1>6, <2>1 DEF NothingForgotten, AlreadyHave, Had, chain, relay
    <3>2. mapAskFor'[t] = queue(t) /\ toServer' = toServer /\ toClient' = toClient
      BY <1>1
    <3> QED
      BY <1>3, <3>1, <3>2, UnderwayStays
  <2> QED
    BY <2>1 DEF NothingForgotten, AlreadyHave
<1> QED
  BY <1>5, <1>6

-----------------------------------------------------------------------------
(* The theorems. *)

LEMMA DownloadInit ==
    ASSUME Init
    PROVE  DownloadInv /\ NothingForgotten
<1>1. /\ index = 0 .. Fork \cup Side
      /\ pindexBest = (IF SideLength = 0 THEN Fork ELSE -SideLength)
      /\ mapOrphanBlocks = {} /\ nAskedForBlocks = 0
      /\ mapAlreadyAskedFor = [b \in Block |-> Never]
      /\ mapAskFor = [s \in Server |-> <<>>] /\ lastGetBlocks = [s \in Server |-> <<>>]
      /\ setInventoryKnown = [s \in Server |-> {}] /\ vInventoryToSend = [s \in Server |-> <<>>]
      /\ height = Tip /\ hashContinue = [s \in Server |-> 0]
      /\ known = [s \in Server |-> {}] /\ toSend = [s \in Server |-> <<>>]
      /\ connected = Server /\ greeted = {}
      /\ toServer = [s \in Server |-> <<>>] /\ toClient = [s \in Server |-> <<>>]
      /\ fresh = {}
  BY DEF Init
<1>2. /\ Fork \in Nat /\ SideLength \in Nat /\ MaxHeight \in Nat /\ Fork <= MaxHeight
      /\ Tip \in [Server -> 1 .. MaxHeight]
  BY DownloadAssumption
<1>3. ChainType
  <2>1. Side \subseteq Block /\ 0 .. Fork \subseteq Block
    BY <1>2 DEF Block, Main
  <2>2. SideLength # 0 => -SideLength \in Side
    BY <1>2 DEF Side
  <2>3. Fork \in 0 .. Fork
    BY <1>2
  <2> QED
    BY <1>1, <2>1, <2>2, <2>3 DEF ChainType
<1>4. ChainIsLinked
  <2>1. nHeight(pindexBest) = Fork + SideLength
    BY <1>1, <1>2 DEF nHeight
  <2>2. ASSUME NEW b \in index PROVE (b # 0 => Prev(b) \in index) /\ nHeight(b) <= Fork + SideLength
    <3>1. CASE b \in 0 .. Fork
      BY <1>1, <1>2, <3>1 DEF Prev, nHeight
    <3>2. CASE b \in Side
      <4>1. PICK i \in 1 .. SideLength : b = -i
        BY <3>2 DEF Side
      <4>2. nHeight(b) <= Fork + SideLength
        BY <1>2, <4>1 DEF nHeight
      <4>3. CASE i = 1
        BY <1>1, <1>2, <4>1, <4>2, <4>3 DEF Prev
      <4>4. CASE i # 1
        <5>1. i - 1 \in 1 .. SideLength /\ Prev(b) = -(i - 1)
          BY <1>2, <4>1, <4>4 DEF Prev
        <5> QED
          BY <1>1, <4>2, <5>1 DEF Side
      <4> QED
        BY <4>3, <4>4
    <3> QED
      BY <1>1, <3>1, <3>2
  <2> QED
    BY <1>1, <1>2, <2>1, <2>2 DEF ChainIsLinked
<1>5. AskingType2 /\ RelayType /\ NetType /\ WireType
  BY <1>1 DEF AskingType2, RelayType, NetType, WireType, Never
<1>6. ServerType
  BY <1>1, <1>2, BlockFacts DEF ServerType, Main
<1>7. OnlyWhatItHas
  BY <1>1 DEF OnlyWhatItHas
<1>8. AskedAreGreeted /\ nAskedForBlocks \in 0 .. Cardinality(Server)
  <2>1. Server \ (connected \ greeted) \in SUBSET Server /\ Server \in SUBSET Server
    OBVIOUS
  <2>2. Cardinality(Server \ (connected \ greeted)) \in Nat /\ Cardinality(Server) \in Nat
    BY <2>1, CardinalityGrows
  <2> QED
    BY <1>1, <2>2 DEF AskedAreGreeted
<1>9. AnnouncesWhatItHas
  <2>1. Range(<<>>) = {}
    BY DEF Range
  <2> QED
    BY <1>1, <2>1 DEF AnnouncesWhatItHas
<1>10. NothingForgotten
  BY <1>1 DEF NothingForgotten
<1> QED
  BY <1>1, <1>3, <1>4, <1>5, <1>6, <1>7, <1>8, <1>9, <1>10, TypeParts DEF DownloadInv

LEMMA DownloadNext ==
    ASSUME DownloadInv, [Next]_vars
    PROVE  DownloadInv' /\ (NothingForgotten => NothingForgotten')
<1>1. CASE Tick
  BY <1>1, TickKeeps
<1>2. ASSUME NEW s \in Server, Version(s) PROVE DownloadInv' /\ (NothingForgotten => NothingForgotten')
  BY <1>2, VersionKeeps
<1>3. ASSUME NEW s \in Server, ClientReceive(s)
      PROVE DownloadInv' /\ (NothingForgotten => NothingForgotten')
  BY <1>3, ClientReceiveKeeps
<1>4. ASSUME NEW s \in Server, ClientSend(s) PROVE DownloadInv' /\ (NothingForgotten => NothingForgotten')
  BY <1>4, ClientSendKeeps
<1>5. ASSUME NEW s \in Server, ServerReceive(s)
      PROVE DownloadInv' /\ (NothingForgotten => NothingForgotten')
  BY <1>5, ServerReceiveKeeps
<1>6. ASSUME NEW s \in Server, ServerSend(s) PROVE DownloadInv' /\ (NothingForgotten => NothingForgotten')
  BY <1>6, ServerSendKeeps
<1>7. ASSUME NEW s \in Server, NewBlock(s) PROVE DownloadInv' /\ (NothingForgotten => NothingForgotten')
  BY <1>7, NewBlockKeeps
<1>8. ASSUME NEW s \in Server, Disconnect(s) PROVE DownloadInv' /\ (NothingForgotten => NothingForgotten')
  BY <1>8, DisconnectKeeps
<1>9. CASE UNCHANGED vars
  <2>1. /\ UNCHANGED <<index, pindexBest, mapOrphanBlocks>>
        /\ UNCHANGED <<nAskedForBlocks, mapAlreadyAskedFor, mapAskFor, lastGetBlocks>>
        /\ UNCHANGED <<setInventoryKnown, vInventoryToSend, height, known, toSend, hashContinue>>
        /\ UNCHANGED <<connected, greeted, toServer, toClient, fresh>>
    BY <1>9 DEF vars, chain, asking, relay, server, net
  <2>2. TypeOK'
    BY <2>1 DEF DownloadInv, TypeOK
  <2>3. ChainIsLinked' /\ AskedAreGreeted' /\ AnnouncesWhatItHas'
    BY <2>1 DEF DownloadInv, ChainIsLinked, AskedAreGreeted, AnnouncesWhatItHas, Had
  <2>4. OnlyWhatItHas'
    BY <2>1 DEF DownloadInv, OnlyWhatItHas, Has, ToServer, ToClient, GetBlocks
  <2>5. NothingForgotten => NothingForgotten'
    BY <2>1 DEF NothingForgotten, AlreadyHave, Had, Underway
  <2> QED
    BY <2>2, <2>3, <2>4, <2>5 DEF DownloadInv
<1> QED
  BY <1>1, <1>2, <1>3, <1>4, <1>5, <1>6, <1>7, <1>8, <1>9 DEF Next, Work

\* The inductive invariant, together with NothingForgotten, which no step breaks
\* where it holds: ProcessMessage, SendMessages, AskFor, PushGetBlocks and
\* ProcessBlock, the answers of the peers, new blocks, lost connections and the clock.
THEOREM DownloadInvariant == Spec => [](DownloadInv /\ NothingForgotten)
<1>1. Init => DownloadInv /\ NothingForgotten
  BY DownloadInit
<1>2. DownloadInv /\ NothingForgotten /\ [Next]_vars => (DownloadInv /\ NothingForgotten)'
  BY DownloadNext
<1> QED
  BY <1>1, <1>2, PTL DEF Spec

\* Every variable has its type: the maps of mapBlockIndex and mapOrphanBlocks stay
\* disjoint, getblocks is sent unasked no more often than there are peers, and no
\* queue of a connection outlives it.
THEOREM DownloadTypeCorrect == Spec => []TypeOK
<1>1. DownloadInv => TypeOK
  BY DEF DownloadInv
<1> QED
  BY <1>1, DownloadInvariant, PTL

\* What a peer announced (setInventoryKnown) the client has, or the peer is going to
\* be asked for it, was asked, or has sent it: AskFor's delays, the block asked of
\* another peer, and SendMessages leaving out what it has lose none of it.
THEOREM NothingIsForgotten == Spec => []NothingForgotten
BY DownloadInvariant, PTL

\* mapAskFor, getdata, inv and block name no block that the peer on that connection
\* does not have, although requests wait while other peers and blocks come and go.
THEOREM PeersAreAskedForWhatTheyHave == Spec => []OnlyWhatItHas
<1>1. DownloadInv => OnlyWhatItHas
  BY DEF DownloadInv
<1> QED
  BY <1>1, DownloadInvariant, PTL

\* ProcessBlock and its orphans keep mapBlockIndex closed under pprev, pindexBest the
\* heaviest of it, and in mapOrphanBlocks only blocks whose previous one is missing:
\* accepting a block takes along every orphan that waits for it.
THEOREM BestIsHighest == Spec => []ChainIsLinked
<1>1. DownloadInv => ChainIsLinked
  BY DEF DownloadInv
<1> QED
  BY <1>1, DownloadInvariant, PTL
=============================================================================
