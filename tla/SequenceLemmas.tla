--------------------------- MODULE SequenceLemmas ---------------------------
(***************************************************************************)
(* What erasing and writing an element do to a sequence: the steps of the  *)
(* program on its std::vector, its table and its combo box.                *)
(***************************************************************************)
EXTENDS Naturals, Sequences, SequencesExt, SequenceTheorems, WellFoundedInduction,
        Filter, TLAPS

\* std::vector::erase and removeRow: what is left is one shorter, the same
\* before the place k and moved down by one from there on.
LEMMA RemoveAtProperties ==
    ASSUME NEW S, NEW s \in Seq(S), NEW k \in 1 .. Len(s)
    PROVE  /\ RemoveAt(s, k) \in Seq(S)
           /\ Len(RemoveAt(s, k)) = Len(s) - 1
           /\ \A i \in 1 .. Len(s) - 1 :
                 RemoveAt(s, k)[i] = IF i < k THEN s[i] ELSE s[i + 1]
<1> DEFINE a == SubSeq(s, 1, k - 1)
           b == SubSeq(s, k + 1, Len(s))
<1>1. /\ a \in Seq(S)
      /\ Len(a) = k - 1
      /\ \A i \in 1 .. k - 1 : a[i] = s[i]
  BY SubSeqProperties
<1>2. /\ b \in Seq(S)
      /\ Len(b) = Len(s) - k
      /\ \A i \in 1 .. Len(s) - k : b[i] = s[k + i]
  BY SubSeqProperties
<1> HIDE DEF a, b
<1>3. /\ a \o b \in Seq(S)
      /\ Len(a \o b) = Len(a) + Len(b)
      /\ \A i \in 1 .. Len(a) + Len(b) :
            (a \o b)[i] = IF i <= Len(a) THEN a[i] ELSE b[i - Len(a)]
  BY <1>1, <1>2, ConcatProperties, Zenon
<1>4. k \in Nat /\ Len(s) \in Nat /\ Len(a) + Len(b) = Len(s) - 1
  BY <1>1, <1>2
<1>5. ASSUME NEW i \in 1 .. Len(s) - 1
      PROVE  (a \o b)[i] = IF i < k THEN s[i] ELSE s[i + 1]
  <2>1. CASE i < k
    BY <1>1, <1>3, <1>4, <2>1
  <2>2. CASE ~(i < k)
    <3>1. (a \o b)[i] = b[i - (k - 1)]
      BY <1>1, <1>3, <1>4, <2>2
    <3>2. i - (k - 1) \in 1 .. Len(s) - k /\ k + (i - (k - 1)) = i + 1
      BY <1>4, <2>2
    <3>3. QED
      BY <1>2, <2>2, <3>1, <3>2
  <2>3. QED
    BY <2>1, <2>2
<1>6. RemoveAt(s, k) = a \o b
  BY DEF RemoveAt, a, b
<1>7. QED
  BY <1>3, <1>4, <1>5, <1>6

\* What is left after RemoveAt, as places of the original sequence.
LEMMA RemoveAtPlaces ==
    ASSUME NEW S, NEW s \in Seq(S), NEW k \in 1 .. Len(s)
    PROVE  /\ \A i, j \in DOMAIN RemoveAt(s, k) : i < j =>
                 \E p, q \in DOMAIN s : /\ p < q
                                        /\ RemoveAt(s, k)[i] = s[p]
                                        /\ RemoveAt(s, k)[j] = s[q]
           /\ \A i \in DOMAIN RemoveAt(s, k) :
                 \E p \in DOMAIN s : p # k /\ RemoveAt(s, k)[i] = s[p]
           /\ \A p \in DOMAIN s : p # k =>
                 \E i \in DOMAIN RemoveAt(s, k) : RemoveAt(s, k)[i] = s[p]
           /\ \A i \in DOMAIN RemoveAt(s, k) :
                 i < k => i \in DOMAIN s /\ RemoveAt(s, k)[i] = s[i]
<1> DEFINE r == RemoveAt(s, k)
           At(i) == IF i < k THEN i ELSE i + 1
<1>1. /\ r \in Seq(S)
      /\ DOMAIN r = 1 .. Len(s) - 1
      /\ \A i \in 1 .. Len(s) - 1 : r[i] = s[At(i)]
  BY RemoveAtProperties
<1>2. Len(s) \in Nat /\ DOMAIN s = 1 .. Len(s) /\ k \in Nat
  OBVIOUS
<1> HIDE DEF r
<1>3. \A i \in DOMAIN r : At(i) \in DOMAIN s /\ At(i) # k
  BY <1>1, <1>2
<1>4. \A i, j \in DOMAIN r : i < j => At(i) < At(j)
  BY <1>1, <1>2
<1>5. ASSUME NEW p \in DOMAIN s, p # k
      PROVE  \E i \in DOMAIN r : r[i] = s[p]
  <2>1. CASE p < k
    BY <1>1, <1>2, <2>1
  <2>2. CASE p > k
    <3>1. p - 1 \in DOMAIN r /\ At(p - 1) = p
      BY <1>1, <1>2, <2>2
    <3>2. QED
      BY <1>1, <3>1
  <2>3. QED
    BY <1>2, <1>5, <2>1, <2>2
<1>6. \A i \in DOMAIN r : i < k => At(i) = i
  BY <1>1, <1>2
<1>7. QED
  <2>1. \A i, j \in DOMAIN r : i < j =>
          \E p, q \in DOMAIN s : p < q /\ r[i] = s[p] /\ r[j] = s[q]
    BY <1>1, <1>3, <1>4
  <2>2. \A i \in DOMAIN r : \E p \in DOMAIN s : p # k /\ r[i] = s[p]
    BY <1>1, <1>3
  <2>3. \A i \in DOMAIN r : i < k => i \in DOMAIN s /\ r[i] = s[i]
    BY <1>1, <1>2, <1>6
  <2>4. QED
    BY <1>5, <2>1, <2>2, <2>3 DEF r

\* Writing one element of a sequence, in or out of its range, keeps its shape.
LEMMA SeqWrite ==
    ASSUME NEW S, NEW s \in Seq(S), NEW k, NEW e \in S
    PROVE  /\ [s EXCEPT ![k] = e] \in Seq(S)
           /\ Len([s EXCEPT ![k] = e]) = Len(s)
           /\ DOMAIN [s EXCEPT ![k] = e] = DOMAIN s
<1>1. CASE k \in 1 .. Len(s)
  BY <1>1, ExceptSeq
<1>2. CASE k \notin 1 .. Len(s)
  <2>1. [s EXCEPT ![k] = e] = s
    BY <1>2
  <2>2. QED
    BY <2>1
<1>3. QED
  BY <1>1, <1>2

-----------------------------------------------------------------------------
(***************************************************************************)
(* Induction and recursion.  The theorems of the library take the formula, *)
(* or the definition, as an operator; here they are a set of numbers and a *)
(* function, which any prover can instantiate.                             *)
(***************************************************************************)
\* Induction over the natural numbers: to prove a formula of every number,
\* take S to be the numbers it is true of.
LEMMA SetInduction ==
    ASSUME NEW S \in SUBSET Nat, 0 \in S, \A n \in S : n + 1 \in S
    PROVE  S = Nat
<1> DEFINE R == {p \in Nat \X Nat : p[1] < p[2]}
           T == Nat \ S
<1>1. IsWellFoundedOn(R, Nat)
  <2>1. IsWellFoundedOn(OpToRel(<, Nat), Nat)
    BY NatLessThanWellFounded
  <2>2. R = OpToRel(<, Nat)
    BY DEF OpToRel
  <2>3. QED
    BY <2>1, <2>2
<1> SUFFICES ASSUME T # {}
             PROVE  FALSE
  OBVIOUS
<1>2. PICK m \in T : \A y \in T : ~(<<y, m>> \in R)
  <2>1. T \subseteq Nat
    OBVIOUS
  <2> HIDE DEF R, T
  <2>2. QED
    BY <1>1, <2>1, WFMin, Zenon
<1>3. m # 0 /\ m - 1 \in Nat /\ (m - 1) + 1 = m
  OBVIOUS
<1>4. m - 1 \notin T
  <2>1. <<m - 1, m>> \in R
    BY <1>3
  <2> HIDE DEF R, T
  <2>2. QED
    BY <1>2, <2>1
<1>5. QED
  BY <1>3, <1>4

\* f starts with first, and step[n] makes f[n + 1] of f[n].
Steps(V) == [Nat -> [V -> V]]

IsIteration(f, V, first, step) ==
    f \in [Nat -> V] /\ f[0] = first /\ \A n \in Nat : f[n + 1] = step[n][f[n]]

\* Primitive recursion defines a function.
LEMMA NatRecursion ==
    ASSUME NEW V, NEW first \in V, NEW step \in Steps(V)
    PROVE  \E f : IsIteration(f, V, first, step)
<1> USE DEF Steps
<1> DEFINE Upto(g, n) ==
               /\ g \in [0 .. n -> V]
               /\ g[0] = first
               /\ \A i \in 0 .. n - 1 : g[i + 1] = step[i][g[i]]
           Reached == {n \in Nat : \E g : Upto(g, n)}
<1>1. ASSUME NEW n \in Nat, NEW g, Upto(g, n)
      PROVE  \E h : Upto(h, n + 1)
  <2> DEFINE h == [i \in 0 .. n + 1 |-> IF i = n + 1 THEN step[n][g[n]] ELSE g[i]]
  <2>1. g[n] \in V /\ step[n] \in [V -> V] /\ step[n][g[n]] \in V
    BY <1>1
  <2>2. h \in [0 .. n + 1 -> V]
    BY <1>1, <2>1
  <2>3. h[0] = first
    BY <1>1
  <2>4. ASSUME NEW i \in 0 .. n
        PROVE  h[i + 1] = step[i][h[i]]
    <3>1. CASE i = n
      BY <3>1
    <3>2. CASE i # n
      <4>1. i \in 0 .. n - 1 /\ i + 1 \in 0 .. n
        BY <3>2
      <4>2. h[i + 1] = g[i + 1] /\ h[i] = g[i]
        BY <4>1
      <4>3. QED
        BY <1>1, <4>1, <4>2
    <3>3. QED
      BY <3>1, <3>2
  <2>5. (n + 1) - 1 = n
    OBVIOUS
  <2> HIDE DEF h
  <2>6. Upto(h, n + 1)
    BY <2>2, <2>3, <2>4, <2>5
  <2>7. QED
    BY <2>6
<1>2. Reached = Nat
  <2>1. Upto([i \in 0 .. 0 |-> first], 0)
    OBVIOUS
  <2>2. 0 \in Reached
    BY <2>1
  <2>3. ASSUME NEW n \in Reached
        PROVE  n + 1 \in Reached
    <3>1. PICK g : Upto(g, n)
      OBVIOUS
    <3>2. \E h : Upto(h, n + 1)
      <4> HIDE DEF Upto
      <4>1. QED
        BY <1>1, <3>1
    <3>3. QED
      BY <3>2
  <2> HIDE DEF Reached
  <2>4. Reached \in SUBSET Nat
    BY DEF Reached
  <2>5. QED
    BY <2>2, <2>3, <2>4, SetInduction
<1>3. ASSUME NEW m \in Nat, NEW g, Upto(g, m), NEW n \in Nat, NEW h, Upto(h, n)
      PROVE  \A i \in Nat : i <= m /\ i <= n => g[i] = h[i]
  <2> DEFINE Same == {i \in Nat : i <= m /\ i <= n => g[i] = h[i]}
  <2>1. 0 \in Same
    BY <1>3
  <2>2. ASSUME NEW i \in Same
        PROVE  i + 1 \in Same
    <3> SUFFICES ASSUME i + 1 <= m, i + 1 <= n
                 PROVE  g[i + 1] = h[i + 1]
      OBVIOUS
    <3>1. i \in 0 .. m - 1 /\ i \in 0 .. n - 1
      OBVIOUS
    <3>2. g[i] = h[i]
      BY <3>1
    <3>3. QED
      BY <1>3, <3>1, <3>2
  <2> HIDE DEF Same
  <2>3. Same = Nat
    <3>1. Same \in SUBSET Nat
      BY DEF Same
    <3>2. QED
      BY <2>1, <2>2, <3>1, SetInduction
  <2>4. QED
    BY <2>3 DEF Same
<1> DEFINE part == [n \in Nat |-> CHOOSE g : Upto(g, n)]
           f == [n \in Nat |-> part[n][n]]
<1>4. \A n \in Nat : Upto(part[n], n)
  BY <1>2
<1> HIDE DEF part
<1>5. f \in [Nat -> V]
  BY <1>4
<1>6. f[0] = first
  BY <1>4
<1>7. ASSUME NEW n \in Nat
      PROVE  f[n + 1] = step[n][f[n]]
  <2>1. n \in 0 .. (n + 1) - 1 /\ n + 1 \in Nat
    OBVIOUS
  <2>2. part[n + 1][n + 1] = step[n][part[n + 1][n]]
    BY <1>4, <2>1
  <2>3. part[n + 1][n] = part[n][n]
    <3>1. Upto(part[n + 1], n + 1) /\ Upto(part[n], n)
      BY <1>4, <2>1
    <3> HIDE DEF Upto
    <3>2. \A i \in Nat : i <= n + 1 /\ i <= n => part[n + 1][i] = part[n][i]
      BY <1>3, <2>1, <3>1
    <3>3. QED
      BY <3>2
  <2>4. QED
    BY <2>1, <2>2, <2>3
<1> HIDE DEF f
<1>8. QED
  BY <1>5, <1>6, <1>7 DEF IsIteration

\* f takes x to base[x], or joins x to what it makes of the rest of x.
IsRecursion(f, S, V, size, rest, base, join) ==
    /\ f \in [S -> V]
    /\ \A x \in S : f[x] = IF size[x] = 0 THEN base[x] ELSE join[x][f[rest[x]]]

\* Recursion over anything that has a size and becomes smaller with each call.
LEMMA SizeRecursion ==
    ASSUME NEW S, NEW V, NEW size \in [S -> Nat], NEW rest \in [S -> S],
           NEW base \in [S -> V], NEW join \in [S -> [V -> V]],
           \A x \in S : size[x] # 0 => size[rest[x]] < size[x]
    PROVE  \E f : IsRecursion(f, S, V, size, rest, base, join)
<1> DEFINE Round(g) == [x \in S |-> IF size[x] = 0 THEN base[x]
                                    ELSE join[x][g[rest[x]]]]
           step == [n \in Nat |-> [g \in [S -> V] |-> Round(g)]]
<1>1. PICK h \in [Nat -> [S -> V]] :
          h[0] = base /\ \A n \in Nat : h[n + 1] = step[n][h[n]]
  <2>1. \A g \in [S -> V] : Round(g) \in [S -> V]
    OBVIOUS
  <2>2. step \in [Nat -> [[S -> V] -> [S -> V]]]
    BY <2>1
  <2> DEFINE T == [S -> V]
  <2>3. base \in T /\ step \in Steps(T)
    BY <2>2 DEF Steps
  <2> HIDE DEF step, T
  <2>4. \E h : IsIteration(h, T, base, step)
    BY <2>3, NatRecursion
  <2>5. QED
    BY <2>4 DEF IsIteration, T
<1>2. \A n \in Nat : h[n + 1] = Round(h[n])
  BY <1>1
<1>3. ASSUME NEW n \in Nat, NEW x \in S
      PROVE  /\ h[n][x] \in V /\ rest[x] \in S
             /\ h[n + 1][x] = IF size[x] = 0 THEN base[x] ELSE join[x][h[n][rest[x]]]
  <2>1. h[n + 1] = Round(h[n])
    BY <1>2
  <2>2. Round(h[n])[x] = IF size[x] = 0 THEN base[x] ELSE join[x][h[n][rest[x]]]
    OBVIOUS
  <2> HIDE DEF Round
  <2>3. QED
    BY <2>1, <2>2
<1> HIDE DEF step, Round
<1>4. \A n \in Nat : \A x \in S : size[x] <= n => h[n + 1][x] = h[n][x]
  <2> DEFINE Stable == {n \in Nat : \A x \in S : size[x] <= n => h[n + 1][x] = h[n][x]}
  <2>1. 0 \in Stable
    <3>1. \A x \in S : size[x] <= 0 => size[x] = 0
      OBVIOUS
    <3>2. 0 + 1 = 1
      OBVIOUS
    <3>3. QED
      BY <1>1, <1>3, <3>1
  <2>2. ASSUME NEW n \in Stable
        PROVE  n + 1 \in Stable
    <3>1. ASSUME NEW x \in S, size[x] <= n + 1
          PROVE  h[(n + 1) + 1][x] = h[n + 1][x]
      <4>1. /\ h[n + 1][x] = IF size[x] = 0 THEN base[x] ELSE join[x][h[n][rest[x]]]
            /\ h[(n + 1) + 1][x] =
                   IF size[x] = 0 THEN base[x] ELSE join[x][h[n + 1][rest[x]]]
        <5>1. n \in Nat /\ n + 1 \in Nat
          OBVIOUS
        <5>2. QED
          BY <1>3, <5>1, Zenon
      <4>2. CASE size[x] = 0
        BY <4>1, <4>2
      <4>3. CASE size[x] # 0
        <5>1. rest[x] \in S /\ size[rest[x]] <= n
          BY <3>1, <4>3
        <5>2. h[n + 1][rest[x]] = h[n][rest[x]]
          BY <5>1
        <5>3. QED
          BY <4>1, <5>2
      <4>4. QED
        BY <4>2, <4>3
    <3>2. QED
      BY <3>1
  <2> HIDE DEF Stable
  <2>3. Stable \in SUBSET Nat
    BY DEF Stable
  <2>4. Stable = Nat
    BY <2>1, <2>2, <2>3, SetInduction
  <2>5. QED
    BY <2>4 DEF Stable
<1>5. \A n \in Nat : \A x \in S : size[x] <= n => h[n][x] = h[size[x]][x]
  <2> DEFINE Stable == {n \in Nat : \A x \in S : size[x] <= n => h[n][x] = h[size[x]][x]}
  <2>1. 0 \in Stable
    <3>1. \A x \in S : size[x] <= 0 => size[x] = 0
      OBVIOUS
    <3>2. QED
      BY <3>1
  <2>2. ASSUME NEW n \in Stable
        PROVE  n + 1 \in Stable
    <3>1. ASSUME NEW x \in S, size[x] <= n + 1
          PROVE  h[n + 1][x] = h[size[x]][x]
      <4>1. CASE size[x] = n + 1
        BY <4>1
      <4>2. CASE size[x] # n + 1
        <5>1. size[x] <= n
          BY <3>1, <4>2
        <5>2. h[n + 1][x] = h[n][x] /\ h[n][x] = h[size[x]][x]
          BY <1>4, <5>1
        <5>3. QED
          BY <5>2
      <4>3. QED
        BY <4>1, <4>2
    <3>2. QED
      BY <3>1
  <2> HIDE DEF Stable
  <2>3. Stable \in SUBSET Nat
    BY DEF Stable
  <2>4. Stable = Nat
    BY <2>1, <2>2, <2>3, SetInduction
  <2>5. QED
    BY <2>4 DEF Stable
<1> DEFINE f == [x \in S |-> h[size[x]][x]]
<1>6. f \in [S -> V]
  BY <1>3
<1>7. ASSUME NEW x \in S
      PROVE  f[x] = IF size[x] = 0 THEN base[x] ELSE join[x][f[rest[x]]]
  <2>1. CASE size[x] = 0
    BY <1>1, <2>1
  <2>2. CASE size[x] # 0
    <3> DEFINE n == size[x] - 1
    <3>1. n \in Nat /\ n + 1 = size[x] /\ rest[x] \in S /\ size[rest[x]] <= n
      <4>1. size[x] \in Nat /\ rest[x] \in S /\ size[rest[x]] \in Nat
        OBVIOUS
      <4>2. size[rest[x]] < size[x]
        BY <2>2
      <4>3. QED
        BY <2>2, <4>1, <4>2
    <3> HIDE DEF n
    <3>2. h[n + 1][x] = join[x][h[n][rest[x]]]
      BY <1>3, <2>2, <3>1
    <3>3. h[n][rest[x]] = h[size[rest[x]]][rest[x]]
      BY <1>5, <3>1
    <3>4. QED
      BY <2>2, <3>1, <3>2, <3>3
  <2>3. QED
    BY <2>1, <2>2
<1> HIDE DEF f
<1>8. IsRecursion(f, S, V, size, rest, base, join)
  BY <1>6, <1>7 DEF IsRecursion
<1>9. QED
  BY <1>8

\* Induction over the sequences of a set, by their last elements.
LEMMA SeqSetInduction ==
    ASSUME NEW S, NEW G \in SUBSET Seq(S),
           <<>> \in G, \A s \in G, e \in S : Append(s, e) \in G
    PROVE  G = Seq(S)
<1> DEFINE N == {n \in Nat : \A s \in Seq(S) : Len(s) = n => s \in G}
<1>1. 0 \in N
  BY EmptySeq
<1>2. ASSUME NEW n \in N
      PROVE  n + 1 \in N
  <2>1. ASSUME NEW s \in Seq(S), Len(s) = n + 1
        PROVE  s \in G
    <3> DEFINE front == SubSeq(s, 1, n)
               e == s[n + 1]
               t == Append(front, e)
    <3>1. /\ front \in Seq(S) /\ Len(front) = n /\ e \in S /\ n \in Nat
          /\ \A i \in 1 .. n : front[i] = s[i]
      BY <2>1
    <3> HIDE DEF front, e
    <3>2. /\ t \in Seq(S) /\ Len(t) = n + 1
          /\ \A i \in 1 .. n : t[i] = front[i]
          /\ t[n + 1] = e
      BY <3>1, AppendProperties
    <3> HIDE DEF t
    <3>3. \A i \in 1 .. n + 1 : t[i] = s[i]
      <4>1. \A i \in 1 .. n + 1 : i \in 1 .. n \/ i = n + 1
        BY <3>1
      <4>2. QED
        BY <3>1, <3>2, <4>1 DEF e
    <3>4. s = t
      BY <2>1, <3>2, <3>3, SeqEqual
    <3>5. front \in G
      BY <3>1
    <3>6. QED
      BY <3>1, <3>4, <3>5 DEF t
  <2>2. QED
    BY <2>1
<1> HIDE DEF N
<1>3. N \in SUBSET Nat
  BY DEF N
<1>4. N = Nat
  BY <1>1, <1>2, <1>3, SetInduction
<1>5. ASSUME NEW s \in Seq(S)
      PROVE  s \in G
  <2>1. Len(s) \in Nat
    OBVIOUS
  <2>2. QED
    BY <1>4, <2>1 DEF N
<1>6. QED
  BY <1>5

\* (s \o t) with one more element, as the induction over t needs it.
LEMMA ConcatAppend ==
    ASSUME NEW S, NEW s \in Seq(S), NEW t \in Seq(S), NEW e \in S
    PROVE  s \o Append(t, e) = Append(s \o t, e)
<1> DEFINE a == s \o Append(t, e)
           b == Append(s \o t, e)
<1>1. Len(s) \in Nat /\ Len(t) \in Nat
  OBVIOUS
<1>2. /\ Append(t, e) \in Seq(S) /\ Len(Append(t, e)) = Len(t) + 1
      /\ \A i \in 1 .. Len(t) : Append(t, e)[i] = t[i]
      /\ Append(t, e)[Len(t) + 1] = e
  BY AppendProperties
<1>3. /\ a \in Seq(S) /\ Len(a) = Len(s) + Len(t) + 1
      /\ \A i \in 1 .. Len(s) + Len(t) + 1 :
             a[i] = IF i <= Len(s) THEN s[i] ELSE Append(t, e)[i - Len(s)]
  BY <1>1, <1>2, ConcatProperties
<1>4. /\ s \o t \in Seq(S) /\ Len(s \o t) = Len(s) + Len(t)
      /\ \A i \in 1 .. Len(s) + Len(t) :
             (s \o t)[i] = IF i <= Len(s) THEN s[i] ELSE t[i - Len(s)]
  BY <1>1, ConcatProperties
<1>5. /\ b \in Seq(S) /\ Len(b) = Len(s) + Len(t) + 1
      /\ \A i \in 1 .. Len(s) + Len(t) : b[i] = (s \o t)[i]
      /\ b[Len(s) + Len(t) + 1] = e
  BY <1>1, <1>4, AppendProperties
<1> HIDE DEF a, b
<1>6. ASSUME NEW i \in 1 .. Len(s) + Len(t) + 1
      PROVE  a[i] = b[i]
  <2>1. CASE i <= Len(s)
    BY <1>1, <1>3, <1>4, <1>5, <2>1
  <2>2. CASE i > Len(s) /\ i <= Len(s) + Len(t)
    <3>1. i - Len(s) \in 1 .. Len(t) /\ i \in 1 .. Len(s) + Len(t) /\ ~(i <= Len(s))
      BY <1>1, <2>2
    <3>2. QED
      BY <1>2, <1>3, <1>4, <1>5, <3>1
  <2>3. CASE i = Len(s) + Len(t) + 1
    <3>1. i - Len(s) = Len(t) + 1 /\ ~(i <= Len(s))
      BY <1>1, <2>3
    <3>2. QED
      BY <1>2, <1>3, <1>5, <2>3, <3>1
  <2>4. QED
    BY <1>1, <2>1, <2>2, <2>3
<1>7. a = b
  BY <1>3, <1>5, <1>6, SeqEqual
<1>8. QED
  BY <1>7 DEF a, b

-----------------------------------------------------------------------------
(***************************************************************************)
(* Only, the filter of Filter, by the rounds of its loop.                  *)
(***************************************************************************)
\* The loop of Only, round by round.
IsOnly(f, s, T) ==
    f = [i \in 0 .. Len(s) |->
            IF i = 0 THEN <<>>
            ELSE IF s[i] \in T THEN Append(f[i - 1], s[i]) ELSE f[i - 1]]

LEMMA OnlyExists ==
    ASSUME NEW S, NEW s \in Seq(S), NEW T
    PROVE  \E f : IsOnly(f, s, T) /\ Only(s, T) = f[Len(s)]
<1> DEFINE V == Seq(S)
           step == [n \in Nat |-> [v \in V |->
               IF n + 1 \in 1 .. Len(s) /\ s[n + 1] \in T THEN Append(v, s[n + 1])
               ELSE v]]
<1>1. step \in Steps(V)
  <2>1. \A n \in Nat : \A v \in V : n + 1 \in 1 .. Len(s) => Append(v, s[n + 1]) \in V
    OBVIOUS
  <2>2. QED
    BY <2>1 DEF Steps
<1>2. <<>> \in V
  OBVIOUS
<1>3. PICK g : IsIteration(g, V, <<>>, step)
  <2> HIDE DEF V, step
  <2>1. QED
    BY <1>1, <1>2, NatRecursion
<1> DEFINE f == [i \in 0 .. Len(s) |-> g[i]]
<1>4. ASSUME NEW i \in 1 .. Len(s)
      PROVE  g[i] = IF s[i] \in T THEN Append(g[i - 1], s[i]) ELSE g[i - 1]
  <2>1. i - 1 \in Nat /\ (i - 1) + 1 = i
    OBVIOUS
  <2>2. g[i - 1] \in V /\ g[i] = step[i - 1][g[i - 1]]
    <3>1. g[(i - 1) + 1] = step[i - 1][g[i - 1]] /\ g[i - 1] \in V
      BY <1>3, <2>1 DEF IsIteration
    <3>2. QED
      BY <2>1, <3>1
  <2>3. QED
    BY <2>1, <2>2
<1>5. IsOnly(f, s, T)
  <2>1. g[0] = <<>>
    BY <1>3 DEF IsIteration
  <2>2. \A i \in 0 .. Len(s) : i # 0 => i \in 1 .. Len(s) /\ i - 1 \in 0 .. Len(s)
    OBVIOUS
  <2>3. QED
    BY <1>4, <2>1, <2>2 DEF IsOnly
<1> HIDE DEF f
<1>6. IsOnly(CHOOSE h : IsOnly(h, s, T), s, T)
  BY <1>5
<1>7. Only(s, T) = (CHOOSE h : IsOnly(h, s, T))[Len(s)]
  BY DEF Only, IsOnly
<1>8. QED
  BY <1>6, <1>7

\* The loop is determined by what it has read: two loops agree as far as
\* their sequences do.
LEMMA OnlyAgrees ==
    ASSUME NEW S, NEW s \in Seq(S), NEW t \in Seq(S), NEW T,
           NEW f, IsOnly(f, s, T), NEW g, IsOnly(g, t, T),
           NEW n \in Nat, n <= Len(s), n <= Len(t), \A i \in 1 .. n : s[i] = t[i]
    PROVE  f[n] = g[n]
<1> DEFINE Same == {i \in Nat : i <= n => f[i] = g[i]}
<1>1. 0 \in Same
  BY DEF IsOnly
<1>2. ASSUME NEW i \in Same
      PROVE  i + 1 \in Same
  <2> SUFFICES ASSUME i + 1 <= n
               PROVE  f[i + 1] = g[i + 1]
    OBVIOUS
  <2>1. /\ i \in Nat /\ Len(s) \in Nat /\ Len(t) \in Nat
        /\ i + 1 \in 0 .. Len(s) /\ i + 1 \in 0 .. Len(t) /\ i + 1 # 0
        /\ (i + 1) - 1 = i /\ i + 1 \in 1 .. n
    OBVIOUS
  <2>2. f[i] = g[i] /\ s[i + 1] = t[i + 1]
    BY <2>1
  <2> HIDE DEF Same
  <2>3. f[i + 1] = IF s[i + 1] \in T THEN Append(f[i], s[i + 1]) ELSE f[i]
    BY <2>1 DEF IsOnly
  <2>4. g[i + 1] = IF t[i + 1] \in T THEN Append(g[i], t[i + 1]) ELSE g[i]
    BY <2>1 DEF IsOnly
  <2>5. QED
    BY <2>2, <2>3, <2>4
<1> HIDE DEF Same
<1>3. Same \in SUBSET Nat
  BY DEF Same
<1>4. Same = Nat
  BY <1>1, <1>2, <1>3, SetInduction
<1>5. QED
  BY <1>4 DEF Same

\* Nothing is left of nothing.
LEMMA OnlyEmpty == ASSUME NEW T PROVE Only(<<>>, T) = <<>>
<1>1. PICK f : IsOnly(f, <<>>, T) /\ Only(<<>>, T) = f[Len(<<>>)]
  <2>1. <<>> \in Seq(T)
    OBVIOUS
  <2>2. QED
    BY <2>1, OnlyExists
<1>2. QED
  BY <1>1 DEF IsOnly

\* The last element stays or goes.
LEMMA OnlyAppend ==
    ASSUME NEW S, NEW s \in Seq(S), NEW e \in S, NEW T
    PROVE  Only(Append(s, e), T) = IF e \in T THEN Append(Only(s, T), e) ELSE Only(s, T)
<1> DEFINE t == Append(s, e)
           n == Len(s)
<1>1. /\ t \in Seq(S) /\ Len(t) = n + 1 /\ n \in Nat
      /\ \A i \in 1 .. n : t[i] = s[i]
      /\ t[n + 1] = e
  BY AppendProperties
<1> HIDE DEF t
<1>2. PICK f : IsOnly(f, s, T) /\ Only(s, T) = f[n]
  BY OnlyExists
<1>3. PICK g : IsOnly(g, t, T) /\ Only(t, T) = g[n + 1]
  <2>1. PICK g : IsOnly(g, t, T) /\ Only(t, T) = g[Len(t)]
    BY <1>1, OnlyExists
  <2>2. QED
    BY <1>1, <2>1
<1> HIDE DEF n
<1>4. f[n] = g[n]
  <2>1. n <= Len(s) /\ n <= Len(t) /\ \A i \in 1 .. n : s[i] = t[i]
    BY <1>1 DEF n
  <2>2. QED
    BY <1>1, <1>2, <1>3, <2>1, OnlyAgrees
<1>5. g[n + 1] = IF t[n + 1] \in T THEN Append(g[n], t[n + 1]) ELSE g[n]
  <2>1. n + 1 \in 0 .. Len(t) /\ n + 1 # 0 /\ (n + 1) - 1 = n
    BY <1>1
  <2>2. QED
    BY <1>3, <2>1 DEF IsOnly
<1>6. QED
  BY <1>1, <1>2, <1>3, <1>4, <1>5 DEF t

\* What is left is in the set.
LEMMA OnlyType ==
    ASSUME NEW S, NEW s \in Seq(S), NEW T
    PROVE  Only(s, T) \in Seq(S \cap T)
<1> DEFINE G == {q \in Seq(S) : Only(q, T) \in Seq(S \cap T)}
<1>1. <<>> \in G
  <2>1. <<>> \in Seq(S) /\ <<>> \in Seq(S \cap T)
    OBVIOUS
  <2>2. QED
    BY <2>1, OnlyEmpty
<1>2. ASSUME NEW q \in G, NEW e \in S
      PROVE  Append(q, e) \in G
  <2>1. q \in Seq(S) /\ Append(q, e) \in Seq(S) /\ Only(q, T) \in Seq(S \cap T)
    OBVIOUS
  <2>2. Only(Append(q, e), T) = IF e \in T THEN Append(Only(q, T), e) ELSE Only(q, T)
    BY <2>1, OnlyAppend
  <2>3. e \in T => Append(Only(q, T), e) \in Seq(S \cap T)
    BY <2>1
  <2>4. QED
    BY <2>1, <2>2, <2>3
<1> HIDE DEF G
<1>3. G \in SUBSET Seq(S)
  BY DEF G
<1>4. G = Seq(S)
  BY <1>1, <1>2, <1>3, SeqSetInduction
<1>5. QED
  BY <1>4 DEF G

\* A sequence of nothing else is left as it is.
LEMMA OnlyAll ==
    ASSUME NEW T, NEW s \in Seq(T)
    PROVE  Only(s, T) = s
<1> DEFINE G == {q \in Seq(T) : Only(q, T) = q}
<1>1. <<>> \in G
  BY OnlyEmpty
<1>2. ASSUME NEW q \in G, NEW e \in T
      PROVE  Append(q, e) \in G
  <2>1. q \in Seq(T) /\ Append(q, e) \in Seq(T) /\ Only(q, T) = q
    OBVIOUS
  <2>2. Only(Append(q, e), T) = IF e \in T THEN Append(Only(q, T), e) ELSE Only(q, T)
    BY <2>1, OnlyAppend
  <2>3. QED
    BY <2>1, <2>2
<1> HIDE DEF G
<1>3. G \in SUBSET Seq(T)
  BY DEF G
<1>4. G = Seq(T)
  BY <1>1, <1>2, <1>3, SeqSetInduction
<1>5. QED
  BY <1>4 DEF G

\* What is left of two sequences, one after the other.
LEMMA OnlyConcat ==
    ASSUME NEW S, NEW s \in Seq(S), NEW t \in Seq(S), NEW T
    PROVE  Only(s \o t, T) = Only(s, T) \o Only(t, T)
<1> DEFINE G == {q \in Seq(S) : Only(s \o q, T) = Only(s, T) \o Only(q, T)}
<1>0. Only(s, T) \in Seq(S)
  <2>1. Only(s, T) \in Seq(S \cap T)
    BY OnlyType
  <2>2. QED
    BY <2>1
<1>1. <<>> \in G
  BY <1>0, OnlyEmpty
<1>2. ASSUME NEW q \in G, NEW e \in S
      PROVE  Append(q, e) \in G
  <2>1. /\ q \in Seq(S) /\ Append(q, e) \in Seq(S) /\ s \o q \in Seq(S)
        /\ Only(s \o q, T) = Only(s, T) \o Only(q, T)
    OBVIOUS
  <2>2. Only(q, T) \in Seq(S)
    <3>1. Only(q, T) \in Seq(S \cap T)
      BY <2>1, OnlyType
    <3>2. QED
      BY <3>1
  <2>3. s \o Append(q, e) = Append(s \o q, e)
    BY <2>1, ConcatAppend
  <2>4. Only(Append(s \o q, e), T) =
            IF e \in T THEN Append(Only(s \o q, T), e) ELSE Only(s \o q, T)
    <3> DEFINE p == s \o q
    <3>1. p \in Seq(S)
      BY <2>1
    <3> HIDE DEF p
    <3>2. Only(Append(p, e), T) = IF e \in T THEN Append(Only(p, T), e) ELSE Only(p, T)
      BY <3>1, OnlyAppend
    <3>3. QED
      BY <3>2 DEF p
  <2>5. Only(Append(q, e), T) = IF e \in T THEN Append(Only(q, T), e) ELSE Only(q, T)
    BY <2>1, OnlyAppend
  <2>6. Only(s, T) \o Append(Only(q, T), e) = Append(Only(s, T) \o Only(q, T), e)
    BY <1>0, <2>2, ConcatAppend
  <2>7. Only(s \o Append(q, e), T) = Only(s, T) \o Only(Append(q, e), T)
    BY <2>1, <2>3, <2>4, <2>5, <2>6
  <2>8. QED
    BY <2>1, <2>7
<1> HIDE DEF G
<1>3. G \in SUBSET Seq(S)
  BY DEF G
<1>4. G = Seq(S)
  BY <1>1, <1>2, <1>3, SeqSetInduction
<1>5. QED
  BY <1>4 DEF G

-----------------------------------------------------------------------------
(***************************************************************************)
(* FlattenSeq of the community modules, by the rounds of its loop.         *)
(***************************************************************************)
IsFlatten(f, s) ==
    f = [i \in 1 .. Len(s) |-> IF i = 1 THEN s[i] ELSE f[i - 1] \o s[i]]

\* The loop ends with the whole sequence, and FlattenSeq is its last round.
LEMMA FlattenExists ==
    ASSUME NEW S, NEW s, s # <<>>, Len(s) \in Nat \ {0},
           \A i \in 1 .. Len(s) : s[i] \in Seq(S)
    PROVE  \E f : /\ IsFlatten(f, s) /\ FlattenSeq(s) = f[Len(s)]
                  /\ \A i \in 1 .. Len(s) : f[i] \in Seq(S)
<1> DEFINE V == Seq(S)
           n == Len(s)
           step == [k \in Nat |-> [v \in V |-> IF k + 1 \in 1 .. n THEN v \o s[k + 1] ELSE v]]
           Loop(h) == h = [i \in 1 .. n |-> IF i = 1 THEN s[i] ELSE h[i - 1] \o s[i]]
<1>1. step \in Steps(V)
  <2>1. \A v, w \in V : v \o w \in V
    OBVIOUS
  <2>2. \A k \in Nat : \A v \in V : k + 1 \in 1 .. n => v \o s[k + 1] \in V
    BY <2>1
  <2> HIDE DEF V, n
  <2>3. QED
    BY <2>2 DEF Steps
<1>2. <<>> \in V
  OBVIOUS
<1>3. PICK g : IsIteration(g, V, <<>>, step)
  <2> HIDE DEF V, step
  <2>1. QED
    BY <1>1, <1>2, NatRecursion
<1> DEFINE f == [i \in 1 .. n |-> g[i]]
<1>4. ASSUME NEW i \in 1 .. n
      PROVE  g[i] = g[i - 1] \o s[i] /\ g[i] \in V
  <2>1. i - 1 \in Nat /\ (i - 1) + 1 = i
    OBVIOUS
  <2>2. g[i - 1] \in V /\ g[i] \in V /\ g[i] = step[i - 1][g[i - 1]]
    <3>1. i \in Nat
      OBVIOUS
    <3> HIDE DEF V, step
    <3>2. g[(i - 1) + 1] = step[i - 1][g[i - 1]] /\ g[i - 1] \in V /\ g[i] \in V
      BY <1>3, <2>1, <3>1 DEF IsIteration
    <3>3. QED
      BY <2>1, <3>2
  <2> HIDE DEF V
  <2>3. QED
    BY <2>1, <2>2
<1>5. Loop(f)
  <2>1. 1 \in 1 .. n /\ 1 - 1 = 0
    OBVIOUS
  <2>2. g[1] = s[1]
    <3>1. s[1] \in V /\ \A v \in V : <<>> \o v = v
      BY <2>1
    <3>2. g[0] = <<>>
      BY <1>3 DEF IsIteration
    <3>3. g[1] = g[0] \o s[1]
      BY <1>4, <2>1
    <3> HIDE DEF V
    <3>4. QED
      BY <3>1, <3>2, <3>3
  <2>3. \A i \in 1 .. n : i # 1 => i - 1 \in 1 .. n
    OBVIOUS
  <2>4. QED
    BY <1>4, <2>2, <2>3
<1> HIDE DEF f
<1>6. Loop(CHOOSE h : Loop(h))
  BY <1>5
<1> DEFINE c == CHOOSE h : Loop(h)
<1>7. FlattenSeq(s) = c[n]
  BY DEF FlattenSeq
<1>8. \A i \in 1 .. n : c[i] \in V
  <2> DEFINE Good == {i \in Nat : i + 1 \in 1 .. n => c[i + 1] \in V}
  <2> HIDE DEF c
  <2>0. Loop(c)
    BY <1>6 DEF c
  <2>1. 0 \in Good
    BY <2>0
  <2>2. ASSUME NEW i \in Good
        PROVE  i + 1 \in Good
    <3> SUFFICES ASSUME (i + 1) + 1 \in 1 .. n
                 PROVE  c[(i + 1) + 1] \in V
      OBVIOUS
    <3>1. i + 1 \in 1 .. n /\ (i + 1) + 1 # 1 /\ ((i + 1) + 1) - 1 = i + 1
      OBVIOUS
    <3>2. c[i + 1] \in V
      BY <3>1
    <3>3. c[(i + 1) + 1] = c[i + 1] \o s[(i + 1) + 1]
      BY <2>0, <3>1
    <3>4. s[(i + 1) + 1] \in V
      OBVIOUS
    <3>5. QED
      BY <3>2, <3>3, <3>4
  <2> HIDE DEF Good
  <2>3. Good \in SUBSET Nat
    BY DEF Good
  <2>4. Good = Nat
    BY <2>1, <2>2, <2>3, SetInduction
  <2>5. \A i \in 1 .. n : i - 1 \in Nat /\ (i - 1) + 1 = i
    OBVIOUS
  <2>6. QED
    BY <2>4, <2>5 DEF Good
<1> HIDE DEF c
<1>9. IsFlatten(c, s)
  BY <1>6 DEF IsFlatten, c
<1>10. QED
  BY <1>7, <1>8, <1>9
=============================================================================
