---------------------------- MODULE FormatProofs ----------------------------
(***************************************************************************)
(* Format: every format means what its pieces say.  The characters of a    *)
(* piece are taken apart by vprintfmt one by one; the proof follows it     *)
(* through them with FmtInv, which says where in which piece it is, what   *)
(* of the meaning is printed, and which arguments are left.  And a number  *)
(* that was printed is read back.                                          *)
(***************************************************************************)
EXTENDS LibraryProofs, FiniteSetTheorems

----------------------------------------------------------------------------
\* Sequences that are put together.

\* Sequences with the same elements are the same.
LEMMA SameSeq ==
  ASSUME NEW s, NEW t, IsSeq(s), IsSeq(t), Len(s) = Len(t), \A i \in 1 .. Len(s) : s[i] = t[i]
  PROVE  s = t
<1>1. PICK S : s \in Seq(S) /\ t \in Seq(S)
  BY SeqOver
<1> QED
  BY <1>1, SeqEqual

\* What is where in s \o t.
LEMMA ConcatAt ==
  ASSUME NEW s, NEW t, IsSeq(s), IsSeq(t)
  PROVE  /\ IsSeq(s \o t) /\ Len(s) \in Nat /\ Len(t) \in Nat /\ Len(s \o t) = Len(s) + Len(t)
         /\ \A i \in 1 .. Len(s) : (s \o t)[i] = s[i]
         /\ \A i \in 1 .. Len(t) : (s \o t)[Len(s) + i] = t[i]
<1>1. PICK S : s \in Seq(S) /\ t \in Seq(S)
  BY SeqOver
<1> QED
  BY <1>1, ConcatFacts

LEMMA EmptySeqs ==
  /\ IsSeq(<<>>) /\ Len(<<>>) = 0
  /\ \A s : IsSeq(s) => s \o <<>> = s /\ <<>> \o s = s /\ (Len(s) = 0 <=> s = <<>>)
<1>1. IsSeq(<<>>)
  <2>1. <<>> \in Seq({0})
    OBVIOUS
  <2> QED
    BY <2>1 DEF IsSeq
<1>2. ASSUME NEW s, IsSeq(s) PROVE s \o <<>> = s /\ <<>> \o s = s /\ (Len(s) = 0 <=> s = <<>>)
  <2>1. PICK S : s \in Seq(S)
    BY <1>2 DEF IsSeq
  <2> QED
    BY <2>1
<1> QED
  BY <1>1, <1>2

LEMMA SingleIs == ASSUME NEW c PROVE IsSeq(<<c>>) /\ Len(<<c>>) = 1 /\ <<c>>[1] = c /\ \A i \in 1 .. 1 : <<c>>[i] = c
<1>1. <<c>> \in Seq({c}) /\ Len(<<c>>) = 1 /\ <<c>>[1] = c
  OBVIOUS
<1> DEFINE e == <<c>>
<1> HIDE DEF e
<1>2. \A i \in 1 .. 1 : e[i] = c
  BY <1>1 DEF e
<1> QED
  BY <1>1, <1>2 DEF IsSeq, e

\* s is t with one element more.
Longer(s, t, c) ==
    /\ IsSeq(s) /\ Len(t) \in Nat /\ Len(s) = Len(t) + 1
    /\ s[Len(t) + 1] = c /\ \A i \in 1 .. Len(t) : s[i] = t[i]

LEMMA AppendAt ==
  ASSUME NEW t, IsSeq(t), NEW c, NEW s, s = t \o <<c>>
  PROVE  Longer(s, t, c)
<1> DEFINE e == <<c>>
<1>1. IsSeq(e)
  BY SingleIs
<1>2. s = t \o e
  OBVIOUS
<1>5. Len(e) = 1 /\ e[1] = c
  BY SingleIs
<1>6. IsSeq(t)
  OBVIOUS
<1> HIDE DEF e
<1>3. /\ IsSeq(t \o e) /\ Len(t) \in Nat /\ Len(e) \in Nat /\ Len(t \o e) = Len(t) + Len(e)
      /\ \A i \in 1 .. Len(t) : (t \o e)[i] = t[i]
      /\ \A i \in 1 .. Len(e) : (t \o e)[Len(t) + i] = e[i]
  BY ONLY <1>1, <1>6, ConcatAt
<1>4. /\ IsSeq(s) /\ Len(t) \in Nat /\ Len(s) = Len(t) + Len(e)
      /\ \A i \in 1 .. Len(t) : s[i] = t[i]
      /\ \A i \in 1 .. Len(e) : s[Len(t) + i] = e[i]
  BY ONLY <1>2, <1>3, <1>6, Zenon
<1> QED
  BY ONLY <1>5, <1>4 DEF Longer

LEMMA ConcatAssoc ==
  ASSUME NEW s, NEW t, NEW u, IsSeq(s), IsSeq(t), IsSeq(u)
  PROVE  (s \o t) \o u = s \o (t \o u)
<1>1. PICK S : s \in Seq(S) /\ t \in Seq(S)
  BY SeqOver
<1>2. PICK T : s \o t \in Seq(T) /\ u \in Seq(T)
  BY ConcatFacts, SeqOver
<1>3. PICK S1 : s \in Seq(S1)
  BY DEF IsSeq
<1>4. PICK U : t \in Seq(U) /\ u \in Seq(U)
  BY SeqOver
<1>5. ASSUME NEW A, NEW B, A \subseteq B, NEW q \in Seq(A) PROVE q \in Seq(B)
  <2>1. Len(q) \in Nat /\ q \in [1 .. Len(q) -> A]
    OBVIOUS
  <2>2. q \in [1 .. Len(q) -> B]
    BY <1>5, <2>1
  <2> QED
    BY <2>1, <2>2
<1> DEFINE V == S \cup U
<1>6. s \in Seq(V) /\ t \in Seq(V) /\ u \in Seq(V)
  BY <1>1, <1>4, <1>5
<1> HIDE DEF V
<1> QED
  BY ONLY <1>6, ConcatAssociative

\* A part of a sequence.
LEMMA PartAtPlace ==
  ASSUME NEW s, IsSeq(s), NEW a \in Nat, NEW b \in Nat, a <= b, b <= Len(s)
  PROVE  LET w == SubSeq(s, a + 1, b)
         IN  IsSeq(w) /\ Len(w) = b - a /\ \A i \in 1 .. b - a : w[i] = s[a + i]
<1>1. PICK S : s \in Seq(S)
  BY DEF IsSeq
<1> DEFINE w == SubSeq(s, a + 1, b)
           n == b - a
<1>2. w = [i \in 1 .. n |-> s[a + i]] /\ n \in Nat
  <2>1. b - (a + 1) + 1 = n /\ \A i \in 1 .. n : (a + 1) + i - 1 = a + i
    OBVIOUS
  <2> QED
    BY <1>1
<1>3. \A i \in 1 .. n : a + i \in 1 .. Len(s) /\ s[a + i] \in S
  BY <1>1
<1>4. w \in Seq(S)
  BY <1>2, <1>3
<1> HIDE DEF w
<1>5. Len(w) = n /\ \A i \in 1 .. n : w[i] = s[a + i]
  BY <1>2
<1> QED
  BY <1>4, <1>5 DEF IsSeq, w, n

\* The first k of the sequences in g, joined.
IsJoin(f, g, n) ==
    /\ f[0] = <<>> /\ \A k \in 1 .. n : f[k] = f[k - 1] \o g[k]
    /\ \A k \in 0 .. n : IsSeq(f[k])

LEMMA JoinExists ==
  ASSUME NEW n \in Nat, NEW g, \A k \in 1 .. n : IsSeq(g[k])
  PROVE  \E f : IsJoin(f, g, n)
<1> DEFINE T == {m \in Nat : m <= n => \E f : IsJoin(f, g, m)}
<1>1. 0 \in T
  <2> DEFINE f == [k \in 0 .. 0 |-> <<>>]
  <2>1. IsJoin(f, g, 0)
    BY EmptySeqs DEF IsJoin
  <2> QED
    BY <2>1
<1>2. ASSUME NEW m \in T PROVE m + 1 \in T
  <2>1. SUFFICES ASSUME m + 1 <= n PROVE \E f : IsJoin(f, g, m + 1)
    OBVIOUS
  <2>2. m \in Nat /\ m <= n /\ m + 1 \in 1 .. n
    BY <2>1
  <2>3. PICK f : IsJoin(f, g, m)
    BY <2>2
  <2> HIDE DEF T
  <2> DEFINE h == [k \in 0 .. m + 1 |-> IF k <= m THEN f[k] ELSE f[m] \o g[m + 1]]
  <2>4. \A k \in 0 .. m : h[k] = f[k]
    BY <2>2
  <2>5. h[m + 1] = f[m] \o g[m + 1]
    BY <2>2
  <2> HIDE DEF h
  <2>6. h[0] = <<>>
    BY <2>2, <2>3, <2>4 DEF IsJoin
  <2>7. ASSUME NEW k \in 1 .. m + 1 PROVE h[k] = h[k - 1] \o g[k]
    <3>1. CASE k \in 1 .. m
      <4>1. k \in 0 .. m /\ k - 1 \in 0 .. m
        BY <2>2, <3>1
      <4>2. f[k] = f[k - 1] \o g[k]
        BY <2>3, <3>1, Zenon DEF IsJoin
      <4>3. h[k] = f[k] /\ h[k - 1] = f[k - 1]
        BY <2>4, <4>1
      <4> QED
        BY ONLY <4>2, <4>3, Zenon
    <3>2. CASE k = m + 1
      <4>1. k - 1 = m /\ h[m] = f[m]
        BY <2>2, <2>4, <3>2
      <4> QED
        BY ONLY <2>5, <3>2, <4>1, Zenon
    <3>3. k \in 1 .. m \/ k = m + 1
      BY <2>2
    <3> QED
      BY ONLY <3>1, <3>2, <3>3
  <2>8. ASSUME NEW k \in 0 .. m + 1 PROVE IsSeq(h[k])
    <3>1. CASE k \in 0 .. m
      BY <2>3, <2>4, <3>1 DEF IsJoin
    <3>2. CASE k = m + 1
      <4>1. IsSeq(f[m]) /\ IsSeq(g[m + 1])
        BY <2>2, <2>3 DEF IsJoin
      <4> QED
        BY <2>5, <3>2, <4>1, ConcatFacts
    <3> QED
      BY <2>2, <3>1, <3>2
  <2> QED
    BY <2>6, <2>7, <2>8 DEF IsJoin
<1>3. T = Nat
  <2> HIDE DEF T
  <2> QED
    BY <1>1, <1>2, SetInduction DEF T
<1> QED
  BY <1>3

\* FlattenSeq is what is joined of all of them.
LEMMA FlattenIs ==
  ASSUME NEW g, IsSeq(g), \A k \in 1 .. Len(g) : IsSeq(g[k]), NEW f, IsJoin(f, g, Len(g))
  PROVE  FlattenSeq(g) = f[Len(g)]
<1> DEFINE n == Len(g)
           Flat(h) == h = [i \in 1 .. n |-> IF i = 1 THEN g[i] ELSE h[i - 1] \o g[i]]
           flatten == CHOOSE h : Flat(h)
<1>1. n \in Nat
  BY SeqFacts
<1>2. CASE n = 0
  <2>1. g = <<>> /\ f[0] = <<>>
    BY <1>2, EmptySeqs DEF IsJoin
  <2> QED
    BY <1>2, <2>1 DEF FlattenSeq
<1>3. CASE n # 0
  <2>1. FlattenSeq(g) = flatten[n]
    BY <1>3 DEF FlattenSeq
  <2> DEFINE h == [i \in 1 .. n |-> f[i]]
  <2>2. Flat(h)
    <3>1. ASSUME NEW i \in 1 .. n PROVE h[i] = IF i = 1 THEN g[i] ELSE h[i - 1] \o g[i]
      <4>1. f[i] = f[i - 1] \o g[i] /\ IsSeq(g[i])
        BY DEF IsJoin
      <4>2. CASE i = 1
        <5>1. f[i - 1] = <<>>
          BY <4>2 DEF IsJoin
        <5>2. f[i] = g[i]
          BY <4>1, <5>1, EmptySeqs
        <5> QED
          BY <4>2, <5>2
      <4>3. CASE i # 1
        <5>1. i - 1 \in 1 .. n
          BY <1>1, <4>3
        <5> QED
          BY <4>1, <4>3, <5>1
      <4> QED
        BY <4>2, <4>3
    <3> DEFINE r == [i \in 1 .. n |-> IF i = 1 THEN g[i] ELSE h[i - 1] \o g[i]]
    <3>2. h = r
      <4>1. \A i \in 1 .. n : h[i] = r[i]
        <5> HIDE DEF h
        <5> QED
          BY <3>1
      <4>2. DOMAIN h = 1 .. n /\ h = [i \in DOMAIN h |-> h[i]]
        OBVIOUS
      <4>3. DOMAIN r = 1 .. n /\ r = [i \in DOMAIN r |-> r[i]]
        OBVIOUS
      <4> HIDE DEF h, r
      <4> QED
        BY <4>1, <4>2, <4>3
    <3> QED
      BY <3>2
  <2>3. Flat(flatten)
    <3> HIDE DEF h, Flat
    <3> QED
      BY <2>2
  <2> HIDE DEF flatten
  <2> DEFINE T == {i \in Nat : i + 1 <= n => flatten[i + 1] = f[i + 1]}
  <2>4. \A i \in 1 .. n : flatten[i] = IF i = 1 THEN g[i] ELSE flatten[i - 1] \o g[i]
    BY <2>3
  <2> HIDE DEF Flat
  <2>5. \A i \in 1 .. n : f[i] = IF i = 1 THEN g[i] ELSE f[i - 1] \o g[i]
    <3> TAKE i \in 1 .. n
    <3>1. f[i] = f[i - 1] \o g[i] /\ IsSeq(g[i]) /\ f[0] = <<>>
      BY DEF IsJoin
    <3>2. i = 1 => i - 1 = 0
      OBVIOUS
    <3> QED
      BY <3>1, <3>2, EmptySeqs
  <2>6. 0 \in T
    BY <1>1, <1>3, <2>4, <2>5
  <2>7. ASSUME NEW i \in T PROVE i + 1 \in T
    <3>1. SUFFICES ASSUME i + 1 + 1 <= n PROVE flatten[i + 1 + 1] = f[i + 1 + 1]
      OBVIOUS
    <3>2. i \in Nat /\ i + 1 <= n /\ i + 1 + 1 \in 1 .. n /\ i + 1 + 1 # 1 /\ i + 1 + 1 - 1 = i + 1
      BY <1>1, <3>1
    <3>3. flatten[i + 1] = f[i + 1]
      BY <3>2
    <3> DEFINE k == i + 1 + 1
    <3>4. flatten[k] = flatten[k - 1] \o g[k] /\ f[k] = f[k - 1] \o g[k] /\ k - 1 = i + 1
      <4> HIDE DEF k
      <4>1. k \in 1 .. n /\ k # 1 /\ k - 1 = i + 1
        BY <3>2 DEF k
      <4> QED
        BY <2>4, <2>5, <4>1, Zenon
    <3> HIDE DEF k
    <3>5. flatten[k] = f[k]
      BY ONLY <3>3, <3>4, Zenon
    <3> QED
      BY <3>5 DEF k
  <2>8. T = Nat
    <3> HIDE DEF T
    <3> QED
      BY <2>6, <2>7, SetInduction DEF T
  <2>9. flatten[n] = f[n]
    <3>1. n - 1 \in T
      <4> HIDE DEF T, n
      <4> QED
        BY <1>1, <1>3, <2>8
    <3>2. n - 1 + 1 = n
      BY <1>1
    <3> QED
      BY <1>1, <3>1, <3>2
  <2> QED
    BY <2>1, <2>9
<1> QED
  BY <1>2, <1>3

\* Where the parts are in what is joined.
JoinPlaces(f, g, n) ==
    /\ \A k \in 0 .. n : Len(f[k]) \in Nat /\ Len(f[k]) <= Len(f[n])
    /\ \A k \in 1 .. n : Len(g[k]) \in Nat /\ Len(f[k]) = Len(f[k - 1]) + Len(g[k])
    /\ \A k \in 1 .. n : \A i \in 1 .. Len(g[k]) : f[n][Len(f[k - 1]) + i] = g[k][i]

LEMMA JoinAt ==
  ASSUME NEW n \in Nat, NEW g, NEW f, IsJoin(f, g, n), \A k \in 1 .. n : IsSeq(g[k])
  PROVE  JoinPlaces(f, g, n)
<1>1. ASSUME NEW k \in 1 .. n
      PROVE  /\ Len(f[k - 1]) \in Nat /\ Len(g[k]) \in Nat /\ Len(f[k]) = Len(f[k - 1]) + Len(g[k])
             /\ \A i \in 1 .. Len(f[k - 1]) : f[k][i] = f[k - 1][i]
             /\ \A i \in 1 .. Len(g[k]) : f[k][Len(f[k - 1]) + i] = g[k][i]
  <2>1. k - 1 \in 0 .. n
    OBVIOUS
  <2>2. f[k] = f[k - 1] \o g[k] /\ IsSeq(f[k - 1]) /\ IsSeq(g[k])
    BY <2>1 DEF IsJoin
  <2> DEFINE a == f[k - 1]
             b == g[k]
             c == f[k]
  <2> HIDE DEF a, b, c
  <2>3. c = a \o b /\ IsSeq(a) /\ IsSeq(b)
    BY <2>2 DEF a, b, c
  <2>4. /\ Len(a) \in Nat /\ Len(b) \in Nat /\ Len(c) = Len(a) + Len(b)
        /\ \A i \in 1 .. Len(a) : c[i] = a[i]
        /\ \A i \in 1 .. Len(b) : c[Len(a) + i] = b[i]
    BY ONLY <2>3, ConcatAt
  <2> QED
    BY <2>4 DEF a, b, c
<1>2. \A k \in 0 .. n : Len(f[k]) \in Nat
  BY SeqFacts DEF IsJoin
<1> DEFINE In(k) == Len(f[k]) <= Len(f[n]) /\ \A i \in 1 .. Len(f[k]) : f[n][i] = f[k][i]
           T == {m \in Nat : m <= n => In(n - m)}
<1>3. 0 \in T
  <2>1. n - 0 = n /\ Len(f[n]) \in Nat
    BY <1>2
  <2> QED
    BY <2>1
<1>4. ASSUME NEW m \in T PROVE m + 1 \in T
  <2>1. SUFFICES ASSUME m + 1 <= n PROVE In(n - (m + 1))
    OBVIOUS
  <2> DEFINE k == n - m
  <2>2. m \in Nat /\ k \in 1 .. n /\ k - 1 = n - (m + 1) /\ k \in 0 .. n /\ k - 1 \in 0 .. n /\ n \in 0 .. n
    BY <2>1
  <2>3. In(k)
    BY <2>1
  <2> HIDE DEF k
  <2>4. In(k - 1)
    <3>1. /\ Len(f[k - 1]) \in Nat /\ Len(g[k]) \in Nat /\ Len(f[k]) = Len(f[k - 1]) + Len(g[k])
          /\ \A i \in 1 .. Len(f[k - 1]) : f[k][i] = f[k - 1][i]
      BY <1>1, <2>2
    <3>2. Len(f[k]) <= Len(f[n]) /\ Len(f[n]) \in Nat /\ \A i \in 1 .. Len(f[k]) : f[n][i] = f[k][i]
      BY <1>2, <2>2, <2>3
    <3> DEFINE a == f[k - 1]
               b == f[k]
               c == f[n]
               l == Len(g[k])
    <3>3. /\ Len(a) \in Nat /\ l \in Nat /\ Len(b) = Len(a) + l /\ \A i \in 1 .. Len(a) : b[i] = a[i]
          /\ Len(b) <= Len(c) /\ Len(c) \in Nat /\ \A i \in 1 .. Len(b) : c[i] = b[i]
      BY <3>1, <3>2
    <3> HIDE DEF a, b, c, l
    <3>4. Len(a) <= Len(c) /\ \A i \in 1 .. Len(a) : c[i] = a[i]
      BY ONLY <3>3
    <3> QED
      BY <3>4 DEF a, c
  <2> QED
    BY <2>2, <2>4
<1>5. T = Nat
  <2> HIDE DEF T
  <2> QED
    BY <1>3, <1>4, SetInduction DEF T
<1>6. ASSUME NEW k \in 0 .. n PROVE In(k)
  <2>1. n - k \in T /\ n - k <= n /\ n - (n - k) = k
    BY <1>5
  <2> HIDE DEF In
  <2> QED
    BY <2>1
<1>7. ASSUME NEW k \in 1 .. n, NEW i \in 1 .. Len(g[k]) PROVE f[n][Len(f[k - 1]) + i] = g[k][i]
  <2>1. k \in 0 .. n
    OBVIOUS
  <2>2. \A j \in 1 .. Len(f[k]) : f[n][j] = f[k][j]
    BY <1>6, <2>1
  <2>3. Len(f[k - 1]) + i \in 1 .. Len(f[k]) /\ f[k][Len(f[k - 1]) + i] = g[k][i]
    <3>1. /\ Len(f[k - 1]) \in Nat /\ Len(g[k]) \in Nat /\ Len(f[k]) = Len(f[k - 1]) + Len(g[k])
          /\ f[k][Len(f[k - 1]) + i] = g[k][i]
      BY <1>1
    <3> DEFINE a == Len(f[k - 1])
               b == Len(f[k])
               l == Len(g[k])
    <3>2. a \in Nat /\ l \in Nat /\ b = a + l /\ i \in 1 .. l
      BY <3>1
    <3> HIDE DEF a, b, l
    <3>3. a + i \in 1 .. b
      BY ONLY <3>2
    <3> QED
      BY <3>1, <3>3 DEF a, b
  <2> QED
    BY <2>2, <2>3
<1> QED
  BY <1>1, <1>2, <1>6, <1>7 DEF JoinPlaces

----------------------------------------------------------------------------
\* Digits.

\* A quotient is the number of times that the divisor goes into a number.
LEMMA QuotientIs ==
  ASSUME NEW a \in Nat, NEW n \in Nat \ {0}, NEW q \in Nat, NEW r \in 0 .. n - 1, a = n * q + r
  PROVE  a \div n = q /\ a % n = r
<1> DEFINE p == a \div n
           s == a % n
<1>1. p \in Nat /\ s \in 0 .. n - 1 /\ a = n * p + s
  BY DivFacts
<1> HIDE DEF p, s
<1>2. n * (p - q) = r - s
  BY <1>1
<1>3. ~(p - q >= 1)
  <2>1. SUFFICES ASSUME p - q >= 1 PROVE FALSE
    OBVIOUS
  <2>2. n * (p - q) >= n
    BY <1>1, <2>1
  <2> QED
    BY <1>1, <1>2, <2>2
<1>4. ~(p - q <= -1)
  <2>1. SUFFICES ASSUME p - q <= -1 PROVE FALSE
    OBVIOUS
  <2>2. n * (p - q) <= -n
    BY <1>1, <2>1
  <2> QED
    BY <1>1, <1>2, <2>2
<1>5. p = q
  BY <1>1, <1>3, <1>4
<1> QED
  BY <1>1, <1>5 DEF p, s

LEMMA DivDiv ==
  ASSUME NEW a \in Nat, NEW b \in Nat \ {0}, NEW c \in Nat \ {0}
  PROVE  /\ (a \div b) \div c = a \div (b * c)
         /\ a \div b = c * (a \div (b * c)) + ((a \div b) % c)
<1> DEFINE q == a \div b
           r == a % b
           p == q \div c
           s == q % c
           d == b * c
           t == b * s + r
<1>1. q \in Nat /\ r \in 0 .. b - 1 /\ a = b * q + r
  BY DivFacts
<1>2. p \in Nat /\ s \in 0 .. c - 1 /\ q = c * p + s
  <2> HIDE DEF q
  <2> QED
    BY <1>1, DivFacts
<1> HIDE DEF q, r, p, s
<1>3. d \in Nat \ {0}
  BY <1>1
<1>4. t \in 0 .. d - 1
  <2>1. b * s \in Nat /\ b * s <= b * (c - 1)
    <3>1. s <= c - 1 /\ s \in Nat /\ c - 1 \in Nat
      BY <1>2
    <3> DEFINE e == c - 1 - s
    <3>2. e \in Nat /\ c - 1 = s + e
      BY <3>1
    <3> HIDE DEF e
    <3>3. b * (s + e) = b * s + b * e /\ b * e \in Nat /\ b * s \in Nat
      BY <3>1, <3>2
    <3> QED
      BY <3>2, <3>3
  <2>2. b * (c - 1) = b * c - b
    OBVIOUS
  <2> QED
    BY <1>1, <2>1, <2>2
<1>5. a = d * p + t
  <2>1. b * (c * p + s) = (b * c) * p + b * s
    BY <1>2
  <2> QED
    BY <1>1, <1>2, <2>1
<1> HIDE DEF d, t
<1>6. a \div d = p
  BY ONLY <1>2, <1>3, <1>4, <1>5, a \in Nat, QuotientIs
<1> QED
  BY <1>2, <1>6 DEF p, d, q, s

\* Powers, by their recursion.
LEMMA PowerRounds ==
  ASSUME NEW base \in Nat, base >= 2, NEW n \in Nat
  PROVE  \E f : /\ f \in [0 .. n -> Nat] /\ f[0] = 1 /\ \A k \in 1 .. n : f[k] = base * f[k - 1]
                /\ \A k \in 0 .. n : Power(base, k) = f[k]
<1> DEFINE F == [k \in Nat |-> [v \in Nat |-> base * v]]
           one == 1
<1>1. Rounds(F, Nat) /\ one \in Nat
  <2>1. \A v \in Nat : base * v \in Nat
    OBVIOUS
  <2> QED
    BY <2>1 DEF Rounds
<1>2. \A k \in Nat : \A v \in Nat : F[k][v] = base * v
  OBVIOUS
<1> HIDE DEF F, one
<1>3. PICK f : Iterates(f, n, Nat, one, F)
  BY ONLY <1>1, n \in Nat, IterationExists
<1>4. f \in [0 .. n -> Nat] /\ f[0] = 1 /\ \A k \in 1 .. n : f[k] = base * f[k - 1]
  <2>1. f \in [0 .. n -> Nat] /\ f[0] = one /\ \A k \in 1 .. n : f[k] = F[k][f[k - 1]]
    BY <1>3 DEF Iterates
  <2>2. ASSUME NEW k \in 1 .. n PROVE f[k] = base * f[k - 1]
    <3>1. k \in Nat /\ k - 1 \in 0 .. n
      OBVIOUS
    <3>2. f[k - 1] \in Nat
      BY <2>1, <3>1
    <3> QED
      BY <1>2, <2>1, <3>1, <3>2
  <2> QED
    BY <2>1, <2>2 DEF one
<1>5. ASSUME NEW k \in 0 .. n PROVE Power(base, k) = f[k]
  <2> DEFINE Rec(p) == p = [j \in 0 .. k |-> IF j = 0 THEN 1 ELSE base * p[j - 1]]
             power == CHOOSE p : Rec(p)
             g == [j \in 0 .. k |-> f[j]]
             h == [j \in 0 .. k |-> IF j = 0 THEN 1 ELSE base * g[j - 1]]
  <2>0. Power(base, k) = power[k]
    BY DEF Power
  <2>1. \A j \in 0 .. k : g[j] = h[j]
    BY <1>4
  <2>2. g = h
    BY <2>1
  <2>3. Rec(g)
    BY <2>2
  <2>4. Rec(power)
    <3> HIDE DEF Rec, g
    <3> QED
      BY <2>3
  <2> HIDE DEF power, g, h
  <2>5. \A j \in 0 .. k : power[j] = IF j = 0 THEN 1 ELSE base * power[j - 1]
    BY <2>4
  <2> HIDE DEF Rec
  <2> DEFINE T == {j \in Nat : j <= k => power[j] = f[j]}
  <2>6. 0 \in T
    BY <1>4, <2>5
  <2>7. ASSUME NEW j \in T PROVE j + 1 \in T
    <3>1. SUFFICES ASSUME j + 1 <= k PROVE power[j + 1] = f[j + 1]
      OBVIOUS
    <3>2. j \in Nat /\ j <= k /\ j + 1 \in 0 .. k /\ j + 1 \in 1 .. n /\ j + 1 # 0 /\ j + 1 - 1 = j
      BY <3>1
    <3>3. power[j] = f[j]
      BY <3>2
    <3>4. power[j + 1] = base * power[j] /\ f[j + 1] = base * f[j]
      BY <1>4, <2>5, <3>2
    <3> QED
      BY <3>3, <3>4
  <2>8. T = Nat
    <3> HIDE DEF T
    <3> QED
      BY <2>6, <2>7, SetInduction DEF T
  <2>9. power[k] = f[k]
    BY <2>8
  <2> QED
    BY <2>0, <2>9
<1> QED
  BY <1>4, <1>5

LEMMA PowerFacts ==
  ASSUME NEW base \in Nat, base >= 2
  PROVE  /\ Power(base, 0) = 1
         /\ \A k \in Nat : /\ Power(base, k) \in Nat \ {0} /\ k < Power(base, k)
                           /\ Power(base, k + 1) = base * Power(base, k)
         /\ \A j, k \in Nat : j <= k => Power(base, j) <= Power(base, k)
<1>1. ASSUME NEW k \in Nat PROVE Power(base, 0) = 1 /\ Power(base, k) \in Nat /\ Power(base, k + 1) = base * Power(base, k)
  <2>1. k + 1 \in Nat /\ k \in 0 .. k + 1 /\ k + 1 \in 0 .. k + 1 /\ 0 \in 0 .. k + 1 /\ k + 1 \in 1 .. k + 1 /\ k + 1 - 1 = k
    OBVIOUS
  <2> DEFINE n == k + 1
  <2> HIDE DEF n
  <2>2. PICK f : /\ f \in [0 .. n -> Nat] /\ f[0] = 1 /\ \A i \in 1 .. n : f[i] = base * f[i - 1]
                 /\ \A i \in 0 .. n : Power(base, i) = f[i]
    BY ONLY <2>1, base \in Nat, base >= 2, PowerRounds DEF n
  <2> QED
    BY <2>1, <2>2 DEF n
<1> DEFINE P(k) == Power(base, k)
           T == {k \in Nat : k < P(k)}
<1> HIDE DEF P
<1>2. P(0) = 1 /\ \A k \in Nat : P(k) \in Nat /\ P(k + 1) = base * P(k)
  BY <1>1 DEF P
<1>3. 0 \in T
  BY <1>2
<1>4. ASSUME NEW k \in T PROVE k + 1 \in T
  <2>1. k \in Nat /\ k < P(k) /\ P(k) \in Nat /\ P(k + 1) = base * P(k)
    BY <1>2
  <2> DEFINE p == P(k)
  <2> HIDE DEF p
  <2>2. p \in Nat /\ k < p
    BY <2>1 DEF p
  <2>3. base * p >= 2 * p
    <3> DEFINE e == base - 2
    <3>1. e \in Nat /\ base = 2 + e
      OBVIOUS
    <3> HIDE DEF e
    <3>2. (2 + e) * p = 2 * p + e * p /\ e * p \in Nat
      BY <2>2, <3>1
    <3> QED
      BY <2>2, <3>1, <3>2
  <2> DEFINE m == base * p
  <2>4. m = P(k + 1)
    BY <2>1 DEF p
  <2>5. m \in Nat
    BY <2>2
  <2> HIDE DEF m
  <2>6. k + 1 < m
    BY <2>1, <2>2, <2>3, <2>5 DEF m
  <2> QED
    BY <2>1, <2>4, <2>6
<1>5. T = Nat
  <2> HIDE DEF T
  <2> QED
    BY <1>3, <1>4, SetInduction DEF T
<1>6. ASSUME NEW k \in Nat PROVE k < P(k) /\ P(k) \in Nat \ {0}
  <2>1. k \in T
    BY <1>5
  <2>2. k < P(k) /\ P(k) \in Nat
    BY <1>2, <2>1
  <2> QED
    BY <2>2
<1>7. ASSUME NEW j \in Nat, NEW k \in Nat, j <= k PROVE P(j) <= P(k)
  <2> DEFINE U == {i \in Nat : P(j) <= P(j + i)}
  <2>1. 0 \in U
    BY <1>2
  <2>2. ASSUME NEW i \in U PROVE i + 1 \in U
    <3>1. i \in Nat /\ P(j) <= P(j + i) /\ j + i \in Nat /\ j + (i + 1) = (j + i) + 1
      OBVIOUS
    <3> DEFINE p == P(j + i)
               q == P(j)
               r == P(j + (i + 1))
    <3>2. p \in Nat /\ q \in Nat /\ r = base * p /\ q <= p
      BY <1>2, <3>1
    <3> HIDE DEF p, q, r
    <3>3. base * p >= p
      <4> DEFINE e == base - 1
      <4>1. e \in Nat /\ base = 1 + e
        OBVIOUS
      <4> HIDE DEF e
      <4>2. (1 + e) * p = p + e * p /\ e * p \in Nat
        BY <3>2, <4>1
      <4> QED
        BY <3>2, <4>1, <4>2
    <3>4. r \in Nat
      BY <3>2
    <3>5. q <= r
      BY <3>2, <3>3, <3>4
    <3> QED
      BY <3>1, <3>5 DEF q, r
  <2>3. U = Nat
    <3> HIDE DEF U
    <3> QED
      BY <2>1, <2>2, SetInduction DEF U
  <2>4. k - j \in U
    <3>1. k - j \in Nat
      BY <1>7
    <3> HIDE DEF U
    <3> QED
      BY <2>3, <3>1
  <2>5. j + (k - j) = k
    OBVIOUS
  <2>6. P(j) <= P(j + (k - j))
    BY <2>4
  <2> QED
    BY <2>5, <2>6
<1> QED
  BY <1>2, <1>6, <1>7 DEF P

----------------------------------------------------------------------------
\* How a number is written.

\* How many digits n has.
HasDigits(n, base, k) == k \in 1 .. n + 1 /\ n < Power(base, k) /\ (k = 1 \/ n >= Power(base, k - 1))

LEMMA DigitsExist ==
  ASSUME NEW n \in Nat, NEW base \in Nat, base >= 2
  PROVE  \E k : HasDigits(n, base, k)
<1> DEFINE P(k) == Power(base, k)
           S == {k \in Nat : k >= 1 /\ n < P(k)}
<1>1. \A k \in Nat : P(k) \in Nat /\ k < P(k)
  BY PowerFacts
<1> HIDE DEF P
<1>2. n + 1 \in S
  <2>1. n + 1 \in Nat /\ n + 1 < P(n + 1) /\ P(n + 1) \in Nat
    BY <1>1
  <2> QED
    BY <2>1
<1>3. PICK k \in S : \A j \in S : k <= j
  <2>1. S # {} /\ S \subseteq Nat
    BY <1>2
  <2> HIDE DEF S
  <2> QED
    BY ONLY <2>1, LeastNat
<1>4. k \in 1 .. n + 1
  BY <1>2, <1>3
<1>5. k # 1 => n >= P(k - 1)
  <2>1. SUFFICES ASSUME k # 1, ~(n >= P(k - 1)) PROVE FALSE
    OBVIOUS
  <2>2. k - 1 \in Nat /\ k - 1 >= 1 /\ P(k - 1) \in Nat
    BY <1>1, <1>4, <2>1
  <2>3. k - 1 \in S
    BY <2>1, <2>2
  <2>4. k <= k - 1
    BY <1>3, <2>3
  <2> QED
    BY <1>4, <2>4
<1> QED
  BY <1>3, <1>4, <1>5 DEF P, HasDigits

LEMMA DigitsUnique ==
  ASSUME NEW n \in Nat, NEW base \in Nat, base >= 2, NEW k, HasDigits(n, base, k), NEW j, HasDigits(n, base, j)
  PROVE  k = j
<1>1. ASSUME NEW a \in Nat \ {0}, NEW b \in Nat \ {0}, HasDigits(n, base, a), HasDigits(n, base, b) PROVE ~(a < b)
  <2>1. SUFFICES ASSUME a < b PROVE FALSE
    OBVIOUS
  <2>2. b # 1 /\ b - 1 \in Nat /\ a <= b - 1
    BY <2>1
  <2>3. n < Power(base, a) /\ n >= Power(base, b - 1)
    BY <1>1, <2>2 DEF HasDigits
  <2>4. Power(base, a) <= Power(base, b - 1) /\ Power(base, a) \in Nat /\ Power(base, b - 1) \in Nat
    BY <2>2, PowerFacts
  <2> QED
    BY <2>3, <2>4
<1>2. k \in Nat \ {0} /\ j \in Nat \ {0}
  BY DEF HasDigits
<1>3. ~(k < j) /\ ~(j < k)
  BY <1>1, <1>2
<1> QED
  BY <1>2, <1>3

LEMMA NumeralIs ==
  ASSUME NEW n \in Nat, NEW base \in Nat, base >= 2, NEW len, HasDigits(n, base, len)
  PROVE  /\ Numeral(n, base) = [k \in 1 .. len |-> Digit[((n \div Power(base, len - k)) % base) + 1]]
         /\ len \in Nat \ {0}
<1> DEFINE l == CHOOSE k \in 1 .. n + 1 : n < Power(base, k) /\ (k = 1 \/ n >= Power(base, k - 1))
<1>1. HasDigits(n, base, l)
  <2>1. \E k \in 1 .. n + 1 : n < Power(base, k) /\ (k = 1 \/ n >= Power(base, k - 1))
    BY DEF HasDigits
  <2> QED
    BY <2>1 DEF HasDigits
<1>2. Numeral(n, base) = [k \in 1 .. l |-> Digit[((n \div Power(base, l - k)) % base) + 1]]
  BY DEF Numeral
<1> HIDE DEF l
<1>3. l = len
  BY <1>1, DigitsUnique
<1> QED
  BY <1>2, <1>3 DEF HasDigits

\* The number of one digit, and the number with one digit more.
LEMMA NumeralRounds ==
  ASSUME NEW n \in Nat, NEW base \in Nat, base >= 2
  PROVE  /\ IsSeq(Numeral(n, base)) /\ Len(Numeral(n, base)) \in Nat \ {0}
         /\ n < base => Numeral(n, base) = <<Digit[n + 1]>>
         /\ n >= base => Numeral(n, base) = Numeral(n \div base, base) \o <<Digit[(n % base) + 1]>>
<1>1. PICK len : HasDigits(n, base, len)
  BY DigitsExist
<1> DEFINE s == Numeral(n, base)
           At1(k) == Digit[((n \div Power(base, len - k)) % base) + 1]
<1>2. s = [k \in 1 .. len |-> At1(k)] /\ len \in Nat \ {0}
  BY <1>1, NumeralIs
<1>3. IsSeq(s) /\ Len(s) = len /\ \A k \in 1 .. len : s[k] = At1(k)
  <2> DEFINE S == {At1(k) : k \in 1 .. len}
  <2>1. \A k \in 1 .. len : At1(k) \in S
    OBVIOUS
  <2> HIDE DEF S, At1, s
  <2>2. s \in Seq(S) /\ Len(s) = len /\ \A k \in 1 .. len : s[k] = At1(k)
    BY <1>2, <2>1
  <2> QED
    BY <2>2 DEF IsSeq
<1>4. Power(base, 0) = 1 /\ n \div 1 = n
  <2>1. Power(base, 0) = 1
    BY PowerFacts
  <2>2. n \div 1 = n
    OBVIOUS
  <2> QED
    BY <2>1, <2>2
<1>5. At1(len) = Digit[(n % base) + 1]
  <2>1. len - len = 0
    BY <1>2
  <2> QED
    BY <1>4, <2>1
<1>6. Power(base, 1) = base
  <2>1. Power(base, 0 + 1) = base * Power(base, 0)
    BY PowerFacts
  <2> QED
    BY <1>4, <2>1
<1>7. ASSUME n < base PROVE s = <<Digit[n + 1]>>
  <2>1. HasDigits(n, base, 1)
    BY <1>6, <1>7 DEF HasDigits
  <2>2. len = 1
    BY <1>1, <2>1, DigitsUnique
  <2>3. n % base = n
    <3>1. base \in Nat \ {0} /\ 0 \in Nat /\ n \in 0 .. base - 1 /\ n = base * 0 + n
      BY <1>7
    <3> DEFINE z == 0
    <3> HIDE DEF z
    <3>2. base \in Nat \ {0} /\ z \in Nat /\ n \in 0 .. base - 1 /\ n = base * z + n
      BY <3>1 DEF z
    <3> QED
      BY ONLY <3>2, n \in Nat, QuotientIs
  <2>4. s[1] = Digit[n + 1]
    BY <1>3, <1>5, <2>2, <2>3
  <2> DEFINE c == Digit[n + 1]
  <2> HIDE DEF c
  <2>5. IsSeq(<<c>>) /\ Len(<<c>>) = 1 /\ <<c>>[1] = c
    <3>1. <<c>> \in Seq({c})
      OBVIOUS
    <3> QED
      BY <3>1 DEF IsSeq
  <2> DEFINE t == <<c>>
  <2> HIDE DEF s, t
  <2>6. IsSeq(s) /\ IsSeq(t) /\ Len(s) = Len(t) /\ \A i \in 1 .. Len(s) : s[i] = t[i]
    BY <1>3, <2>2, <2>4, <2>5 DEF c, t
  <2>7. s = t
    BY ONLY <2>6, SameSeq
  <2> QED
    BY <2>7 DEF t, c
<1>8. ASSUME n >= base PROVE s = Numeral(n \div base, base) \o <<Digit[(n % base) + 1]>>
  <2> DEFINE q == n \div base
             r == n % base
  <2>1. q \in Nat /\ r \in 0 .. base - 1 /\ n = base * q + r /\ q <= n - 1
    <3>1. base \in Nat \ {0}
      OBVIOUS
    <3>2. q \in 0 .. n - 1
      BY <1>8, Smaller
    <3> QED
      BY <3>1, <3>2, DivFacts
  <2>2. PICK L : HasDigits(q, base, L)
    BY <2>1, DigitsExist
  <2>3. /\ Numeral(q, base) = [k \in 1 .. L |-> Digit[((q \div Power(base, L - k)) % base) + 1]]
        /\ L \in Nat \ {0}
    <3> HIDE DEF q
    <3> QED
      BY <2>1, <2>2, NumeralIs
  <2>4. HasDigits(n, base, L + 1)
    <3> DEFINE p == Power(base, L)
               pm == Power(base, L - 1)
               pp == Power(base, L + 1)
    <3> HIDE DEF q, r
    <3>1. q < p /\ (L = 1 \/ q >= pm) /\ L <= q + 1
      BY <2>1, <2>2 DEF HasDigits
    <3>2. pp = base * p /\ p = base * pm /\ p \in Nat /\ pm \in Nat /\ (L = 1 => p = base)
      <4>1. L - 1 \in Nat /\ L \in Nat /\ (L - 1) + 1 = L
        BY <2>3
      <4>2. Power(base, (L - 1) + 1) = base * pm /\ pp = base * p /\ p \in Nat /\ pm \in Nat
        BY <4>1, PowerFacts
      <4> QED
        BY <1>6, <4>1, <4>2
    <3> HIDE DEF p, pm, pp
    <3>3. n < pp
      <4>1. base * q + base <= base * p
        <5>1. base \in Nat \ {0} /\ q \in Int /\ p \in Int
          BY <2>1, <3>2
        <5>2. q * base + base <= p * base
          BY ONLY <3>1, <5>1, MulOrder
        <5>3. q * base = base * q /\ p * base = base * p
          BY <5>1
        <5> QED
          BY <5>2, <5>3
      <4> DEFINE x == base * q
                 y == base * p
      <4>2. x \in Nat /\ y \in Nat
        BY <2>1, <3>2
      <4> HIDE DEF x, y
      <4>3. x + base <= y /\ n = x + r /\ pp = y
        BY <2>1, <3>2, <4>1 DEF x, y
      <4> QED
        BY <2>1, <4>2, <4>3
    <3>4. n >= p
      <4>1. CASE L = 1
        BY <1>8, <3>2, <4>1
      <4>2. CASE L # 1
        <5>1. base \in Nat \ {0} /\ q \in Int /\ pm \in Int /\ pm <= q
          BY <2>1, <3>1, <3>2, <4>2
        <5>2. pm * base <= q * base
          BY ONLY <5>1, MulOrder
        <5>3. q * base = base * q /\ pm * base = base * pm
          BY <5>1
        <5> DEFINE x == base * q
                   y == base * pm
        <5>4. x \in Nat /\ y \in Nat
          BY <2>1, <3>2
        <5> HIDE DEF x, y
        <5>5. y <= x /\ n = x + r /\ p = y
          BY <2>1, <3>2, <5>2, <5>3 DEF x, y
        <5> QED
          BY <2>1, <5>4, <5>5
      <4> QED
        BY <4>1, <4>2
    <3>5. L + 1 \in 1 .. n + 1 /\ (L + 1) - 1 = L
      BY <2>1, <2>3, <3>1
    <3> QED
      BY <3>3, <3>4, <3>5 DEF HasDigits, p, pp
  <2>5. len = L + 1
    BY <1>1, <2>4, DigitsUnique
  <2>6. ASSUME NEW k \in 1 .. L PROVE At1(k) = Digit[((q \div Power(base, L - k)) % base) + 1]
    <3>1. L - k \in Nat /\ len - k = (L - k) + 1
      BY <2>3, <2>5
    <3> DEFINE p == Power(base, L - k)
    <3>2. p \in Nat \ {0} /\ Power(base, (L - k) + 1) = base * p
      BY <3>1, PowerFacts
    <3> HIDE DEF p
    <3>3. (n \div base) \div p = n \div (base * p)
      <4>1. base \in Nat \ {0}
        OBVIOUS
      <4> QED
        BY ONLY <3>2, <4>1, n \in Nat, DivDiv
    <3>4. n \div Power(base, len - k) = q \div p
      BY <3>1, <3>2, <3>3
    <3> QED
      BY <3>4 DEF p
  <2> DEFINE t == Numeral(q, base)
             c == Digit[r + 1]
             D(k) == Digit[((q \div Power(base, L - k)) % base) + 1]
  <2>7. IsSeq(t) /\ Len(t) = L /\ \A k \in 1 .. L : t[k] = D(k)
    <3> DEFINE S == {D(k) : k \in 1 .. L}
    <3>1. \A k \in 1 .. L : D(k) \in S
      OBVIOUS
    <3> HIDE DEF S, D, t
    <3>2. t \in Seq(S) /\ Len(t) = L /\ \A k \in 1 .. L : t[k] = D(k)
      BY <2>3, <3>1 DEF D, t
    <3> QED
      BY <3>2 DEF IsSeq
  <2>8. \A k \in 1 .. L : s[k] = t[k]
    <3>1. \A k \in 1 .. L : s[k] = At1(k)
      BY <1>3, <2>3, <2>5
    <3> QED
      BY <2>6, <2>7, <3>1
  <2>9. s[len] = c
    BY <1>2, <1>3, <1>5
  <2> DEFINE w == t \o <<c>>
  <2>12. IsSeq(w) /\ Len(w) = L + 1 /\ (\A i \in 1 .. L : w[i] = t[i]) /\ w[L + 1] = c
    <3> HIDE DEF t, c
    <3>0. w = t \o <<c>>
      OBVIOUS
    <3> HIDE DEF w
    <3>2. IsSeq(t)
      BY <2>7
    <3>1. Longer(w, t, c)
      BY ONLY <3>2, <3>0, AppendAt, Zenon
    <3> QED
      BY <2>7, <3>1 DEF Longer
  <2> HIDE DEF w, s, t, c
  <2>13. IsSeq(s) /\ IsSeq(w) /\ Len(s) = Len(w) /\ \A i \in 1 .. Len(s) : s[i] = w[i]
    <3>1. Len(s) = L + 1 /\ L \in Nat
      BY <1>3, <2>3, <2>5
    <3>2. \A i \in 1 .. L + 1 : i \in 1 .. L \/ i = L + 1
      BY <3>1
    <3>3. \A i \in 1 .. L + 1 : s[i] = w[i]
      BY <2>5, <2>8, <2>9, <2>12, <3>2
    <3> QED
      BY <1>3, <2>12, <3>1, <3>3
  <2>14. s = w
    BY ONLY <2>13, SameSeq
  <2> QED
    BY <2>14 DEF w, t, c
<1> QED
  BY <1>2, <1>3, <1>7, <1>8 DEF s

\* What holds for the digits, and for a number if it does for all but its last
\* digit, holds for all numbers.
LEMMA ByDigits ==
  ASSUME NEW base \in Nat, base >= 2, NEW S \in SUBSET Nat,
         \A n \in 0 .. base - 1 : n \in S,
         \A n \in Nat : n >= base /\ n \div base \in S => n \in S
  PROVE  S = Nat
<1> DEFINE T == {i \in Nat : \A n \in 0 .. i : n \in S}
<1>1. 0 \in T
  BY 0 \in 0 .. base - 1
<1>2. ASSUME NEW i \in T PROVE i + 1 \in T
  <2>1. i \in Nat /\ \A n \in 0 .. i : n \in S
    OBVIOUS
  <2>2. ASSUME NEW n \in 0 .. i + 1 PROVE n \in S
    <3>1. CASE n < base
      <4>1. n \in 0 .. base - 1
        BY <2>1, <3>1
      <4> QED
        BY <4>1
    <3>2. CASE n >= base
      <4>1. n \in Nat
        BY <2>1
      <4>2. n \div base \in 0 .. n - 1
        BY ONLY <3>2, <4>1, base \in Nat, base >= 2, Smaller
      <4> DEFINE q == n \div base
      <4> HIDE DEF q
      <4>3. q \in S
        BY <2>1, <4>2 DEF q
      <4> QED
        BY <3>2, <4>1, <4>3 DEF q
    <3> QED
      BY <2>1, <3>1, <3>2
  <2> QED
    BY <2>1, <2>2
<1>3. T = Nat
  <2> HIDE DEF T
  <2> QED
    BY <1>1, <1>2, SetInduction DEF T
<1>4. ASSUME NEW n \in Nat PROVE n \in S
  <2>1. n \in T /\ n \in 0 .. n
    BY <1>3
  <2> QED
    BY <2>1
<1> QED
  BY <1>4

----------------------------------------------------------------------------
\* What the characters are.

Symbols == {"%", "NUL", "-", ".", "#", "l", "*", "s", "u", "o", "p", "x", " ", "+"}

LEMMA DigitFacts ==
  /\ \A d \in 1 .. 16 : /\ DigitValue(Digit[d]) = d - 1 /\ Digit[d] \notin Symbols
  /\ \A c \in Symbols : DigitValue(c) = 99
  /\ DigitValue("d") = 13 /\ DigitValue("c") = 12 /\ DigitValue("0") = 0
<1>1. DOMAIN Digit = 1 .. 16
  BY DEF Digit
<1>2. /\ Digit[1] = "0" /\ Digit[2] = "1" /\ Digit[3] = "2" /\ Digit[4] = "3" /\ Digit[5] = "4" /\ Digit[6] = "5" /\ Digit[7] = "6" /\ Digit[8] = "7"
      /\ Digit[9] = "8" /\ Digit[10] = "9" /\ Digit[11] = "a" /\ Digit[12] = "b" /\ Digit[13] = "c" /\ Digit[14] = "d" /\ Digit[15] = "e" /\ Digit[16] = "f"
  BY DEF Digit
<1>3. \A d \in 1 .. 16 : \/ d = 1 \/ d = 2 \/ d = 3 \/ d = 4 \/ d = 5 \/ d = 6 \/ d = 7 \/ d = 8
                         \/ d = 9 \/ d = 10 \/ d = 11 \/ d = 12 \/ d = 13 \/ d = 14 \/ d = 15 \/ d = 16
  OBVIOUS
<1>8. \A d \in 1 .. 16 : Digit[d] \notin Symbols
  <2> TAKE d \in 1 .. 16
  <2> QED
    BY <1>2, <1>3 DEF Symbols
<1>9. \A d, e \in 1 .. 16 : Digit[d] = Digit[e] => d = e
  <2>1. \A d, e \in 1 .. 16 : d < e => Digit[d] # Digit[e]
    <3> TAKE d, e \in 1 .. 16
    <3>1. CASE d = 1
      <4>1. Digit[d] = "0" /\ (d < e => \/ e = 2 \/ e = 3 \/ e = 4 \/ e = 5 \/ e = 6 \/ e = 7 \/ e = 8 \/ e = 9 \/ e = 10 \/ e = 11 \/ e = 12 \/ e = 13 \/ e = 14 \/ e = 15 \/ e = 16)
        BY <1>2, <3>1
      <4> QED
        BY ONLY <1>2, <4>1
    <3>2. CASE d = 2
      <4>1. Digit[d] = "1" /\ (d < e => \/ e = 3 \/ e = 4 \/ e = 5 \/ e = 6 \/ e = 7 \/ e = 8 \/ e = 9 \/ e = 10 \/ e = 11 \/ e = 12 \/ e = 13 \/ e = 14 \/ e = 15 \/ e = 16)
        BY <1>2, <3>2
      <4> QED
        BY ONLY <1>2, <4>1
    <3>3. CASE d = 3
      <4>1. Digit[d] = "2" /\ (d < e => \/ e = 4 \/ e = 5 \/ e = 6 \/ e = 7 \/ e = 8 \/ e = 9 \/ e = 10 \/ e = 11 \/ e = 12 \/ e = 13 \/ e = 14 \/ e = 15 \/ e = 16)
        BY <1>2, <3>3
      <4> QED
        BY ONLY <1>2, <4>1
    <3>4. CASE d = 4
      <4>1. Digit[d] = "3" /\ (d < e => \/ e = 5 \/ e = 6 \/ e = 7 \/ e = 8 \/ e = 9 \/ e = 10 \/ e = 11 \/ e = 12 \/ e = 13 \/ e = 14 \/ e = 15 \/ e = 16)
        BY <1>2, <3>4
      <4> QED
        BY ONLY <1>2, <4>1
    <3>5. CASE d = 5
      <4>1. Digit[d] = "4" /\ (d < e => \/ e = 6 \/ e = 7 \/ e = 8 \/ e = 9 \/ e = 10 \/ e = 11 \/ e = 12 \/ e = 13 \/ e = 14 \/ e = 15 \/ e = 16)
        BY <1>2, <3>5
      <4> QED
        BY ONLY <1>2, <4>1
    <3>6. CASE d = 6
      <4>1. Digit[d] = "5" /\ (d < e => \/ e = 7 \/ e = 8 \/ e = 9 \/ e = 10 \/ e = 11 \/ e = 12 \/ e = 13 \/ e = 14 \/ e = 15 \/ e = 16)
        BY <1>2, <3>6
      <4> QED
        BY ONLY <1>2, <4>1
    <3>7. CASE d = 7
      <4>1. Digit[d] = "6" /\ (d < e => \/ e = 8 \/ e = 9 \/ e = 10 \/ e = 11 \/ e = 12 \/ e = 13 \/ e = 14 \/ e = 15 \/ e = 16)
        BY <1>2, <3>7
      <4> QED
        BY ONLY <1>2, <4>1
    <3>8. CASE d = 8
      <4>1. Digit[d] = "7" /\ (d < e => \/ e = 9 \/ e = 10 \/ e = 11 \/ e = 12 \/ e = 13 \/ e = 14 \/ e = 15 \/ e = 16)
        BY <1>2, <3>8
      <4> QED
        BY ONLY <1>2, <4>1
    <3>9. CASE d = 9
      <4>1. Digit[d] = "8" /\ (d < e => \/ e = 10 \/ e = 11 \/ e = 12 \/ e = 13 \/ e = 14 \/ e = 15 \/ e = 16)
        BY <1>2, <3>9
      <4> QED
        BY ONLY <1>2, <4>1
    <3>10. CASE d = 10
      <4>1. Digit[d] = "9" /\ (d < e => \/ e = 11 \/ e = 12 \/ e = 13 \/ e = 14 \/ e = 15 \/ e = 16)
        BY <1>2, <3>10
      <4> QED
        BY ONLY <1>2, <4>1
    <3>11. CASE d = 11
      <4>1. Digit[d] = "a" /\ (d < e => \/ e = 12 \/ e = 13 \/ e = 14 \/ e = 15 \/ e = 16)
        BY <1>2, <3>11
      <4> QED
        BY ONLY <1>2, <4>1
    <3>12. CASE d = 12
      <4>1. Digit[d] = "b" /\ (d < e => \/ e = 13 \/ e = 14 \/ e = 15 \/ e = 16)
        BY <1>2, <3>12
      <4> QED
        BY ONLY <1>2, <4>1
    <3>13. CASE d = 13
      <4>1. Digit[d] = "c" /\ (d < e => \/ e = 14 \/ e = 15 \/ e = 16)
        BY <1>2, <3>13
      <4> QED
        BY ONLY <1>2, <4>1
    <3>14. CASE d = 14
      <4>1. Digit[d] = "d" /\ (d < e => \/ e = 15 \/ e = 16)
        BY <1>2, <3>14
      <4> QED
        BY ONLY <1>2, <4>1
    <3>15. CASE d = 15
      <4>1. Digit[d] = "e" /\ (d < e => \/ e = 16)
        BY <1>2, <3>15
      <4> QED
        BY ONLY <1>2, <4>1
    <3>16. CASE d = 16
      <4>1. Digit[d] = "f" /\ (d < e => \/ FALSE)
        BY <1>2, <3>16
      <4> QED
        BY ONLY <1>2, <4>1
    <3> QED
      BY <1>3, <3>1, <3>2, <3>3, <3>4, <3>5, <3>6, <3>7, <3>8, <3>9, <3>10, <3>11, <3>12, <3>13, <3>14, <3>15, <3>16
  <2> QED
    BY <2>1
<1>4. ASSUME NEW d \in 1 .. 16 PROVE DigitValue(Digit[d]) = d - 1
  <2>1. \E e \in DOMAIN Digit : Digit[e] = Digit[d]
    BY <1>1
  <2> DEFINE e == CHOOSE e \in DOMAIN Digit : Digit[e] = Digit[d]
  <2>2. e \in 1 .. 16 /\ Digit[e] = Digit[d]
    BY <1>1, <2>1
  <2>3. DigitValue(Digit[d]) = e - 1
    BY <2>1 DEF DigitValue
  <2> HIDE DEF e
  <2>4. e = d
    BY <1>9, <2>2
  <2> QED
    BY <2>3, <2>4
<1>5. \A c \in Symbols : DigitValue(c) = 99
  <2> TAKE c \in Symbols
  <2>1. ~\E d \in DOMAIN Digit : Digit[d] = c
    BY <1>1, <1>8
  <2> QED
    BY <2>1 DEF DigitValue
<1>6. Digit[14] = "d" /\ Digit[13] = "c" /\ Digit[1] = "0"
  BY <1>2
<1>7. DigitValue("d") = 13 /\ DigitValue("c") = 12 /\ DigitValue("0") = 0
  <2>1. DigitValue(Digit[14]) = 14 - 1 /\ DigitValue(Digit[13]) = 13 - 1 /\ DigitValue(Digit[1]) = 1 - 1
    <3>1. 14 \in 1 .. 16 /\ 13 \in 1 .. 16 /\ 1 \in 1 .. 16
      OBVIOUS
    <3> QED
      BY <1>4, <3>1
  <2> QED
    BY <1>6, <2>1
<1> QED
  BY <1>8, <1>4, <1>5, <1>7

LEMMA LastDigit ==
  ASSUME NEW n \in Nat, NEW base \in Nat, base >= 2
  PROVE  n % base \in 0 .. base - 1 /\ (n % base) + 1 \in 1 .. base /\ (n < base => n % base = n)
<1>1. base \in Nat \ {0}
  OBVIOUS
<1>2. n % base \in 0 .. base - 1
  BY <1>1, DivFacts
<1>3. ASSUME n < base PROVE n % base = n
  <2> DEFINE z == 0
  <2>1. z \in Nat /\ n \in 0 .. base - 1 /\ n = base * z + n
    BY <1>3
  <2> HIDE DEF z
  <2> QED
    BY ONLY <1>1, <2>1, n \in Nat, QuotientIs
<1> QED
  BY <1>2, <1>3

\* The digits of a number are below the base, and the first is not 0.
LEMMA NumeralDigits ==
  ASSUME NEW base \in 2 .. 16, NEW n \in Nat
  PROVE  /\ \A i \in 1 .. Len(Numeral(n, base)) : \E d \in 1 .. base : Numeral(n, base)[i] = Digit[d]
         /\ n > 0 => \E d \in 2 .. base : Numeral(n, base)[1] = Digit[d]
<1> DEFINE N(k) == Numeral(k, base)
           Good(k) == /\ \A i \in 1 .. Len(N(k)) : \E d \in 1 .. base : N(k)[i] = Digit[d]
                      /\ k > 0 => \E d \in 2 .. base : N(k)[1] = Digit[d]
           S == {k \in Nat : Good(k)}
<1>0. base \in Nat /\ base >= 2
  OBVIOUS
<1>1. ASSUME NEW k \in 0 .. base - 1 PROVE Good(k)
  <2>0. k \in Nat /\ k < base
    BY <1>0
  <2>1. N(k) = <<Digit[k + 1]>>
    BY ONLY <1>0, <2>0, NumeralRounds
  <2> DEFINE c == Digit[k + 1]
  <2> HIDE DEF N
  <2>2. Len(N(k)) = 1 /\ N(k)[1] = c
    <3> HIDE DEF c
    <3> QED
      BY <2>1, SingleIs DEF c
  <2>3. k + 1 \in 1 .. base /\ (k > 0 => k + 1 \in 2 .. base)
    OBVIOUS
  <2> QED
    BY <2>2, <2>3
<1>2. ASSUME NEW k \in Nat, k >= base, Good(k \div base) PROVE Good(k)
  <2> DEFINE q == k \div base
             r == k % base
             t == N(q)
             c == Digit[r + 1]
  <2>1. q \in 0 .. k - 1
    BY ONLY <1>0, <1>2, Smaller
  <2>2. r \in 0 .. base - 1
    BY ONLY <1>0, k \in Nat, LastDigit
  <2>3. q > 0
    <3>1. base \in Nat \ {0}
      OBVIOUS
    <3>2. k = base * q + r
      BY <3>1, DivFacts
    <3> HIDE DEF q, r
    <3>3. q # 0
      <4>1. q = 0 => base * q = 0
        OBVIOUS
      <4> QED
        BY <1>2, <2>2, <3>2, <4>1
    <3> QED
      BY <2>1, <3>3
  <2>4. N(k) = t \o <<c>>
    BY <1>0, <1>2, NumeralRounds
  <2>5. IsSeq(t) /\ Len(t) \in Nat \ {0}
    <3>1. q \in Nat
      BY <2>1
    <3> HIDE DEF q
    <3> QED
      BY <1>0, <3>1, NumeralRounds
  <2>6. Good(q)
    BY <1>2
  <2> DEFINE s == t \o <<c>>
  <2>7. IsSeq(s) /\ Len(s) = Len(t) + 1 /\ s[Len(t) + 1] = c /\ \A i \in 1 .. Len(t) : s[i] = t[i]
    <3> HIDE DEF t, c
    <3>1. s = t \o <<c>>
      OBVIOUS
    <3> HIDE DEF s
    <3>2. IsSeq(t)
      BY <2>5
    <3>3. Longer(s, t, c)
      BY ONLY <3>1, <3>2, AppendAt, Zenon
    <3> QED
      BY <3>3 DEF Longer
  <2>8. /\ \A i \in 1 .. Len(t) : \E d \in 1 .. base : t[i] = Digit[d]
        /\ \E d \in 2 .. base : t[1] = Digit[d]
    BY <2>3, <2>6
  <2> HIDE DEF s, t, N, q
  <2>9. /\ \A i \in 1 .. Len(s) : \E d \in 1 .. base : s[i] = Digit[d]
        /\ \E d \in 2 .. base : s[1] = Digit[d]
    <3>1. r + 1 \in 1 .. base
      BY <2>2
    <3>2. \A i \in 1 .. Len(s) : i \in 1 .. Len(t) \/ i = Len(t) + 1
      BY <2>5, <2>7
    <3>3. s[1] = t[1]
      BY <2>5, <2>7
    <3> HIDE DEF r
    <3> QED
      BY <2>7, <2>8, <3>1, <3>2, <3>3
  <2>10. N(k) = s
    BY <2>4 DEF s
  <2> QED
    BY <2>9, <2>10
<1>3. S = Nat
  <2>1. S \in SUBSET Nat /\ (\A k \in 0 .. base - 1 : k \in S) /\ (\A k \in Nat : k >= base /\ k \div base \in S => k \in S)
    <3> HIDE DEF Good
    <3> QED
      BY <1>1, <1>2
  <2> HIDE DEF S
  <2> QED
    BY ONLY <1>0, <2>1, ByDigits
<1>4. Good(n)
  <2> HIDE DEF Good
  <2> QED
    BY <1>3
<1> QED
  BY <1>4

\* printnum writes the number, with the padding before it.
LEMMA PrintnumIs ==
  ASSUME NEW num \in Nat, NEW base \in Nat, base >= 2, NEW width \in Int, NEW padc
  PROVE  printnum(num, base, width, padc) = Padded(Numeral(num, base), width, padc)
<1> DEFINE print == CHOOSE f : PrintRun(f, num, base, padc)
           N(n) == Numeral(n, base)
           S == {n \in Nat : n <= num => \A w \in Int : print[n][w] = Padded(N(n), w, padc)}
<1>1. printnum(num, base, width, padc) = print[num][width]
  BY DEF printnum, PrintRun, Digits
<1>2. PrintRun(print, num, base, padc)
  BY PrintRuns
<1> HIDE DEF print
<1>3. ASSUME NEW n \in 0 .. num, NEW w \in Int
      PROVE  /\ n >= base => print[n][w] = print[n \div base][w - 1] \o <<Digit[(n % base) + 1]>>
             /\ ~(n >= base) => print[n][w] = Pad(w - 1, padc) \o <<Digit[(n % base) + 1]>>
  <2>1. print[n] = [v \in Int |-> Digits(print, n, v, base, padc)]
    BY <1>2 DEF PrintRun
  <2>2. print[n][w] = Digits(print, n, w, base, padc)
    BY <2>1
  <2> QED
    BY <2>2, Zenon DEF Digits
<1>4. ASSUME NEW n \in 0 .. base - 1 PROVE n \in S
  <2>1. SUFFICES ASSUME n <= num, NEW w \in Int PROVE print[n][w] = Padded(N(n), w, padc)
    OBVIOUS
  <2>2. n \in Nat /\ ~(n >= base) /\ n % base = n /\ n \in 0 .. num
    BY <2>1, LastDigit
  <2> DEFINE c == Digit[n + 1]
  <2>3. N(n) = <<c>>
    <3>1. n \in Nat /\ n < base /\ base \in Nat /\ base >= 2
      BY <2>2
    <3> QED
      BY ONLY <3>1, NumeralRounds
  <2>4. print[n][w] = Pad(w - 1, padc) \o <<c>>
    BY <1>3, <2>2
  <2> HIDE DEF c, N
  <2>5. Len(N(n)) = 1
    BY <2>3, SingleIs
  <2>6. Padded(N(n), w, padc) = Pad(w - 1, padc) \o <<c>>
    BY <2>3, <2>5, Zenon DEF Padded
  <2> QED
    BY <2>4, <2>6
<1>5. ASSUME NEW n \in Nat, n >= base, n \div base \in S PROVE n \in S
  <2>1. SUFFICES ASSUME n <= num, NEW w \in Int PROVE print[n][w] = Padded(N(n), w, padc)
    OBVIOUS
  <2> DEFINE q == n \div base
             c == Digit[(n % base) + 1]
             t == N(q)
             p == Pad((w - 1) - Len(t), padc)
             v == w - 1
  <2>2. q \in 0 .. n - 1
    BY ONLY <1>5, base \in Nat, base >= 2, Smaller
  <2>3. IsSeq(t) /\ Len(t) \in Nat
    <3>1. q \in Nat
      BY <2>2
    <3> HIDE DEF q
    <3> QED
      BY <3>1, NumeralRounds
  <2>4. print[q][v] = Padded(t, v, padc)
    <3>1. q <= num /\ v \in Int
      BY <2>1, <2>2
    <3>2. \A u \in Int : print[q][u] = Padded(N(q), u, padc)
      BY <1>5, <3>1
    <3> HIDE DEF v, q, N
    <3> QED
      BY <3>1, <3>2
  <2>5. print[n][w] = print[q][v] \o <<c>>
    <3>1. n \in 0 .. num
      BY <2>1
    <3> QED
      BY <1>3, <1>5, <3>1
  <2>6. N(n) = t \o <<c>>
    BY <1>5, NumeralRounds
  <2>7. Len(t \o <<c>>) = Len(t) + 1
    <3> HIDE DEF t, c
    <3> DEFINE u == t \o <<c>>
    <3>1. u = t \o <<c>>
      OBVIOUS
    <3> HIDE DEF u
    <3>2. Longer(u, t, c)
      BY ONLY <2>3, <3>1, AppendAt, Zenon
    <3> QED
      BY <3>2 DEF u, Longer
  <2>8. w - Len(N(n)) = (w - 1) - Len(t)
    <3> HIDE DEF t, c, N
    <3> QED
      BY <2>3, <2>6, <2>7
  <2>9. Padded(t, v, padc) = p \o t
    BY Zenon DEF Padded
  <2> DEFINE e == <<c>>
  <2>10. (p \o t) \o e = p \o (t \o e)
    <3>1. IsSeq(p)
      <4>1. (w - 1) - Len(t) \in Int
        <5> HIDE DEF t
        <5> QED
          BY <2>3
      <4> QED
        BY <4>1, PadIsSeq
    <3>2. IsSeq(e)
      <4> HIDE DEF c
      <4> QED
        BY SingleIs
    <3> HIDE DEF p, t, e
    <3> QED
      BY ONLY <2>3, <3>1, <3>2, ConcatAssoc
  <2>11. Padded(N(n), w, padc) = p \o N(n)
    <3>1. Padded(N(n), w, padc) = Pad(w - Len(N(n)), padc) \o N(n)
      BY Zenon DEF Padded
    <3>2. Pad(w - Len(N(n)), padc) = p
      BY ONLY <2>8, Zenon
    <3> QED
      BY ONLY <3>1, <3>2, Zenon
  <2> HIDE DEF p, t, q, c, N, v
  <2> QED
    BY ONLY <2>4, <2>5, <2>6, <2>9, <2>10, <2>11, Zenon DEF e
<1>6. S = Nat
  <2>1. S \in SUBSET Nat /\ (\A k \in 0 .. base - 1 : k \in S) /\ (\A k \in Nat : k >= base /\ k \div base \in S => k \in S)
    <3>1. S \in SUBSET Nat
      OBVIOUS
    <3> HIDE DEF S
    <3> QED
      BY <1>4, <1>5, <3>1
  <2> HIDE DEF S
  <2> QED
    BY ONLY base \in Nat, base >= 2, <2>1, ByDigits
<1>7. print[num][width] = Padded(N(num), width, padc)
  <2>1. num \in S
    <3> HIDE DEF S
    <3> QED
      BY <1>6
  <2>2. num <= num
    OBVIOUS
  <2> QED
    BY <2>1, <2>2
<1> QED
  BY <1>1, <1>7

----------------------------------------------------------------------------
\* Numbers that are read.

LEMMA ValueRounds ==
  ASSUME NEW s, NEW n \in Nat, NEW f, ValueRun(f, n, s)
  PROVE  f[0] = 0 /\ \A k \in 0 .. n - 1 : f[k + 1] = f[k] * 10 + DigitValue(s[k + 1])
<1>1. f[0] = 0 /\ \A k \in 1 .. n : f[k] = f[k - 1] * 10 + DigitValue(s[k])
  BY DEF ValueRun
<1>2. ASSUME NEW k \in 0 .. n - 1 PROVE f[k + 1] = f[k] * 10 + DigitValue(s[k + 1])
  <2>1. k + 1 \in 1 .. n /\ k + 1 - 1 = k
    OBVIOUS
  <2> QED
    BY <1>1, <2>1
<1> QED
  BY <1>1, <1>2

LEMMA ValueMore ==
  ASSUME NEW t, NEW c, NEW s, Longer(s, t, c)
  PROVE  ValueOf(s) = ValueOf(t) * 10 + DigitValue(c)
<1> DEFINE n == Len(t)
           m == Len(s)
           f == CHOOSE h : ValueRun(h, n, t)
           g == CHOOSE h : ValueRun(h, m, s)
<1>1. ValueOf(t) = f[n] /\ ValueOf(s) = g[m]
  BY DEF ValueOf, ValueRun
<1>2. n \in Nat /\ m = n + 1 /\ s[n + 1] = c /\ \A i \in 1 .. n : s[i] = t[i]
  BY DEF Longer
<1>3. ValueRun(f, n, t) /\ ValueRun(g, m, s)
  <2>1. n \in Nat /\ m \in Nat
    BY <1>2
  <2> HIDE DEF n, m
  <2> QED
    BY <2>1, ValueRuns
<1> HIDE DEF f, g, n, m
<1>4. f[0] = 0 /\ \A k \in 0 .. n - 1 : f[k + 1] = f[k] * 10 + DigitValue(t[k + 1])
  BY ONLY <1>2, <1>3, ValueRounds
<1>5. g[0] = 0 /\ \A k \in 0 .. m - 1 : g[k + 1] = g[k] * 10 + DigitValue(s[k + 1])
  <2>1. m \in Nat
    BY <1>2
  <2> QED
    BY ONLY <2>1, <1>3, ValueRounds
<1> DEFINE T == {k \in Nat : k <= n => g[k] = f[k]}
<1>6. 0 \in T
  BY <1>4, <1>5
<1>7. ASSUME NEW k \in T PROVE k + 1 \in T
  <2>1. SUFFICES ASSUME k + 1 <= n PROVE g[k + 1] = f[k + 1]
    OBVIOUS
  <2>2. k \in Nat /\ k \in 0 .. n - 1 /\ k \in 0 .. m - 1 /\ k + 1 \in 1 .. n /\ g[k] = f[k]
    BY <1>2, <2>1
  <2>3. s[k + 1] = t[k + 1]
    BY <1>2, <2>2
  <2>4. f[k + 1] = f[k] * 10 + DigitValue(t[k + 1]) /\ g[k + 1] = g[k] * 10 + DigitValue(s[k + 1])
    BY <1>4, <1>5, <2>2
  <2> QED
    BY ONLY <2>2, <2>3, <2>4
<1>8. T = Nat
  <2> HIDE DEF T
  <2> QED
    BY <1>6, <1>7, SetInduction DEF T
<1>9. g[n] = f[n]
  BY <1>2, <1>8
<1>10. g[n + 1] = g[n] * 10 + DigitValue(s[n + 1])
  BY <1>2, <1>5
<1> QED
  BY <1>1, <1>2, <1>9, <1>10

LEMMA ValueOne == ASSUME NEW c PROVE ValueOf(<<c>>) = DigitValue(c)
<1> DEFINE s == <<c>>
           n == Len(s)
           f == CHOOSE h : ValueRun(h, n, s)
<1>1. Len(s) = 1 /\ s[1] = c
  BY SingleIs
<1>2. ValueOf(s) = f[Len(s)]
  BY DEF ValueOf, ValueRun
<1>3. n \in Nat
  BY <1>1
<1> HIDE DEF s
<1>4. ValueRun(f, n, s)
  <2> HIDE DEF n
  <2> QED
    BY <1>3, ValueRuns
<1> HIDE DEF f
<1>5. f[0] = 0 /\ \A k \in 0 .. n - 1 : f[k + 1] = f[k] * 10 + DigitValue(s[k + 1])
  <2> HIDE DEF n
  <2> QED
    BY ONLY <1>3, <1>4, ValueRounds
<1>6. f[0 + 1] = f[0] * 10 + DigitValue(s[0 + 1])
  <2>1. 0 \in 0 .. n - 1
    BY <1>1
  <2> QED
    BY <1>5, <2>1
<1>7. DigitValue(c) \in Nat
  BY DigitValueFacts
<1>8. f[1] = DigitValue(c)
  BY <1>1, <1>5, <1>6, <1>7
<1> QED
  BY <1>1, <1>2, <1>8 DEF s

\* A number that is written in base 10 is read as the same number.
LEMMA ValueOfNumeral ==
  ASSUME NEW n \in Nat
  PROVE  ValueOf(Numeral(n, 10)) = n
<1> DEFINE ten == 10
           N(k) == Numeral(k, ten)
           S == {k \in Nat : ValueOf(N(k)) = k}
<1>0. ten \in Nat /\ ten >= 2 /\ ten = 10
  OBVIOUS
<1> HIDE DEF ten
<1>1. ASSUME NEW k \in 0 .. ten - 1 PROVE k \in S
  <2>1. k \in Nat /\ k < ten /\ k + 1 \in 1 .. 16
    BY <1>0
  <2>2. N(k) = <<Digit[k + 1]>>
    BY ONLY <1>0, <2>1, NumeralRounds
  <2> DEFINE c == Digit[k + 1]
  <2>3. DigitValue(c) = (k + 1) - 1
    BY <2>1, DigitFacts
  <2> HIDE DEF c
  <2>4. ValueOf(<<c>>) = DigitValue(c)
    BY ValueOne
  <2>5. ValueOf(N(k)) = k
    <3> HIDE DEF N
    <3> QED
      BY <2>1, <2>2, <2>3, <2>4 DEF c
  <2> QED
    BY <2>1, <2>5
<1>2. ASSUME NEW k \in Nat, k >= ten, k \div ten \in S PROVE k \in S
  <2> DEFINE q == k \div ten
             r == k % ten
             c == Digit[r + 1]
             t == N(q)
             s == N(k)
  <2>1. ten \in Nat \ {0}
    BY <1>0
  <2>2. q \in Nat /\ r \in 0 .. ten - 1 /\ k = ten * q + r
    BY <2>1, DivFacts
  <2>3. ValueOf(t) = q
    BY <1>2
  <2>4. s = t \o <<c>>
    BY <1>0, <1>2, NumeralRounds
  <2> HIDE DEF q, r, N
  <2>5. IsSeq(t)
    BY <1>0, <2>2, NumeralRounds DEF N
  <2>6. DigitValue(c) = r
    <3>1. r + 1 \in 1 .. 16 /\ (r + 1) - 1 = r
      BY <1>0, <2>2
    <3> QED
      BY <3>1, DigitFacts
  <2> HIDE DEF c, t, s
  <2>7. Longer(s, t, c)
    BY ONLY <2>4, <2>5, AppendAt, Zenon
  <2>8. ValueOf(s) = ValueOf(t) * 10 + DigitValue(c)
    BY ONLY <2>7, ValueMore
  <2>9. ValueOf(s) = k
    BY <1>0, <2>2, <2>3, <2>6, <2>8
  <2> QED
    BY <2>9 DEF s
<1>3. S = Nat
  <2>1. S \in SUBSET Nat /\ (\A k \in 0 .. ten - 1 : k \in S) /\ (\A k \in Nat : k >= ten /\ k \div ten \in S => k \in S)
    <3>1. S \in SUBSET Nat
      OBVIOUS
    <3> HIDE DEF S
    <3> QED
      BY <1>1, <1>2, <3>1
  <2> HIDE DEF S
  <2> QED
    BY ONLY <1>0, <2>1, ByDigits
<1>4. ValueOf(N(n)) = n
  BY <1>3
<1> QED
  BY <1>4 DEF ten

----------------------------------------------------------------------------
\* Where the parts of a sequence are in it.

\* l[k] is how long the first k of the sequences in g are together.
InPlace(g, s, l) ==
    /\ Len(g) \in Nat /\ IsSeq(s) /\ Len(s) \in Nat /\ l[0] = 0 /\ l[Len(g)] = Len(s)
    /\ \A k \in 0 .. Len(g) : l[k] \in Nat /\ l[k] <= Len(s)
    /\ \A k \in 1 .. Len(g) : IsSeq(g[k]) /\ Len(g[k]) \in Nat /\ l[k] = l[k - 1] + Len(g[k])
    /\ \A k \in 1 .. Len(g) : \A i \in 1 .. Len(g[k]) : s[l[k - 1] + i] = g[k][i]

Places(g) == CHOOSE l : InPlace(g, FlattenSeq(g), l)

LEMMA PlacesAre ==
  ASSUME NEW g, IsSeq(g), \A k \in 1 .. Len(g) : IsSeq(g[k])
  PROVE  InPlace(g, FlattenSeq(g), Places(g))
<1> DEFINE n == Len(g)
<1>1. n \in Nat
  BY SeqFacts
<1>2. PICK f : IsJoin(f, g, n)
  <2> HIDE DEF n
  <2>1. \A k \in 1 .. n : IsSeq(g[k])
    BY DEF n
  <2> QED
    BY <1>1, <2>1, JoinExists
<1>3. FlattenSeq(g) = f[n]
  BY <1>2, FlattenIs
<1> DEFINE l == [k \in 0 .. n |-> Len(f[k])]
           s == f[n]
<1> HIDE DEF n
<1>4. /\ \A k \in 0 .. n : Len(f[k]) \in Nat /\ Len(f[k]) <= Len(f[n])
      /\ \A k \in 1 .. n : Len(g[k]) \in Nat /\ Len(f[k]) = Len(f[k - 1]) + Len(g[k])
      /\ \A k \in 1 .. n : \A i \in 1 .. Len(g[k]) : f[n][Len(f[k - 1]) + i] = g[k][i]
  <2>1. \A k \in 1 .. n : IsSeq(g[k])
    BY DEF n
  <2>2. JoinPlaces(f, g, n)
    BY ONLY <1>1, <1>2, <2>1, JoinAt
  <2> QED
    BY ONLY <2>2 DEF JoinPlaces
<1>5. f[0] = <<>> /\ \A k \in 0 .. n : IsSeq(f[k])
  BY <1>2 DEF IsJoin
<1>6. \A k \in 0 .. n : l[k] = Len(f[k])
  OBVIOUS
<1> HIDE DEF l, s
<1>7. l[0] = 0
  <2>1. Len(f[0]) = 0
    <3>1. f[0] = <<>> /\ Len(<<>>) = 0
      BY <1>5, EmptySeqs
    <3> QED
      BY ONLY <3>1, Zenon
  <2>2. 0 \in 0 .. n
    BY <1>1
  <2>3. l[0] = Len(f[0])
    BY <1>6, <2>2
  <2> QED
    BY ONLY <2>1, <2>3
<1>8. IsSeq(s) /\ Len(s) \in Nat /\ l[n] = Len(s)
  BY <1>1, <1>4, <1>5, <1>6 DEF s
<1>9. \A k \in 0 .. n : l[k] \in Nat /\ l[k] <= Len(s)
  BY <1>4, <1>6 DEF s
<1>10. ASSUME NEW k \in 1 .. n
       PROVE  /\ IsSeq(g[k]) /\ Len(g[k]) \in Nat /\ l[k] = l[k - 1] + Len(g[k])
              /\ \A i \in 1 .. Len(g[k]) : s[l[k - 1] + i] = g[k][i]
  <2>1. k \in 0 .. n /\ k - 1 \in 0 .. n
    BY <1>1
  <2>2. l[k] = Len(f[k]) /\ l[k - 1] = Len(f[k - 1])
    BY <1>6, <2>1
  <2>3. \A i \in 1 .. Len(g[k]) : s[l[k - 1] + i] = g[k][i]
    BY <1>4, <2>2 DEF s
  <2>4. IsSeq(g[k])
    BY DEF n
  <2> QED
    BY <1>4, <2>2, <2>3, <2>4
<1>11. InPlace(g, s, l)
  BY <1>1, <1>7, <1>8, <1>9, <1>10 DEF InPlace, n
<1>12. FlattenSeq(g) = s
  BY <1>3 DEF s
<1> HIDE DEF s
<1> QED
  BY <1>11, <1>12 DEF Places

\* Tuples of the lengths that occur.
LEMMA PairAt == ASSUME NEW a, NEW b PROVE IsSeq(<<a, b>>) /\ Len(<<a, b>>) = 2 /\ <<a, b>>[1] = a /\ <<a, b>>[2] = b
<1>1. <<a, b>> \in Seq({a, b}) /\ Len(<<a, b>>) = 2 /\ <<a, b>>[1] = a /\ <<a, b>>[2] = b
  OBVIOUS
<1> QED
  BY <1>1 DEF IsSeq

----------------------------------------------------------------------------
\* The parts of an escape.

LEMMA EscapeFields ==
  ASSUME NEW e \in Escapes
  PROVE  /\ e.minus \in BOOLEAN /\ e.zero \in BOOLEAN /\ e.alt \in BOOLEAN /\ e.width \in Nat /\ e.wstar \in BOOLEAN
         /\ e.prec \in Nat /\ e.pstar \in BOOLEAN /\ e.longs \in 0 .. 2
  BY DEF Escapes

LEMMA SizeCharsIs ==
  ASSUME NEW n \in Nat, NEW star \in BOOLEAN
  PROVE  /\ IsSeq(SizeChars(n, star)) /\ Len(SizeChars(n, star)) \in Nat
         /\ star => SizeChars(n, star) = <<"*">>
         /\ ~star /\ n = 0 => SizeChars(n, star) = <<>>
         /\ ~star /\ n > 0 => SizeChars(n, star) = Numeral(n, 10)
<1>1. IsSeq(Numeral(n, 10))
  <2> DEFINE ten == 10
  <2>1. ten \in Nat /\ ten >= 2
    OBVIOUS
  <2> HIDE DEF ten
  <2>2. IsSeq(Numeral(n, ten))
    BY ONLY <2>1, n \in Nat, NumeralRounds
  <2> QED
    BY <2>2 DEF ten
<1>2. IsSeq(<<"*">>) /\ IsSeq(<<>>)
  BY SingleIs, EmptySeqs
<1>3. IsSeq(SizeChars(n, star))
  BY <1>1, <1>2 DEF SizeChars
<1>4. Len(SizeChars(n, star)) \in Nat
  BY <1>3, SeqFacts
<1> QED
  BY <1>3, <1>4 DEF SizeChars

LEMMA OptIs ==
  ASSUME NEW b \in BOOLEAN, NEW c
  PROVE  IsSeq(Opt(b, c)) /\ (b => Opt(b, c) = <<c>>) /\ (~b => Opt(b, c) = <<>>)
<1>1. IsSeq(<<c>>) /\ IsSeq(<<>>)
  BY SingleIs, EmptySeqs
<1> QED
  BY <1>1 DEF Opt

\* The parts, one by one.
LEMMA PartsAre ==
  ASSUME NEW e, NEW conv
  PROVE  LET g == EscapeParts(e, conv)
         IN  /\ Len(g) = 10 /\ IsSeq(g)
             /\ g[1] = <<"%">> /\ g[2] = Opt(e.minus, "-") /\ g[3] = Opt(e.zero, "0") /\ g[4] = Opt(e.alt, "#")
             /\ g[5] = SizeChars(e.width, e.wstar) /\ g[6] = Opt(e.prec > 0, ".")
             /\ g[7] = SizeChars(e.prec, e.pstar) /\ g[8] = Opt(e.longs >= 1, "l") /\ g[9] = Opt(e.longs = 2, "l")
             /\ g[10] = <<conv>>
<1> DEFINE a1 == <<"%">>
           a2 == Opt(e.minus, "-")
           a3 == Opt(e.zero, "0")
           a4 == Opt(e.alt, "#")
           a5 == SizeChars(e.width, e.wstar)
           a6 == Opt(e.prec > 0, ".")
           a7 == SizeChars(e.prec, e.pstar)
           a8 == Opt(e.longs >= 1, "l")
           a9 == Opt(e.longs = 2, "l")
           a10 == <<conv>>
           g == <<a1, a2, a3, a4, a5, a6, a7, a8, a9, a10>>
<1>1. EscapeParts(e, conv) = g
  BY Zenon DEF EscapeParts
<1> HIDE DEF a1, a2, a3, a4, a5, a6, a7, a8, a9, a10
<1>2. g \in Seq({a1, a2, a3, a4, a5, a6, a7, a8, a9, a10})
  OBVIOUS
<1>3. /\ Len(g) = 10 /\ g[1] = a1 /\ g[2] = a2 /\ g[3] = a3 /\ g[4] = a4
      /\ g[5] = a5 /\ g[6] = a6 /\ g[7] = a7 /\ g[8] = a8 /\ g[9] = a9 /\ g[10] = a10
  OBVIOUS
<1> HIDE DEF g
<1>4. IsSeq(g)
  BY <1>2 DEF IsSeq
<1> QED
  BY <1>1, <1>3, <1>4 DEF a1, a2, a3, a4, a5, a6, a7, a8, a9, a10

----------------------------------------------------------------------------
\* What vprintfmt has read of an escape after its first i parts.

\* The parts that are there.
IsThere(e, j) ==
    /\ j = 2 => e.minus
    /\ j = 3 => e.zero
    /\ j = 4 => e.alt
    /\ j = 5 => e.wstar \/ e.width > 0
    /\ j \in {6, 7} => e.prec > 0
    /\ j = 8 => e.longs >= 1
    /\ j = 9 => e.longs = 2

PadcAt(e, i)      == IF i >= 3 /\ e.zero THEN "0" ELSE IF i >= 2 /\ e.minus THEN "-" ELSE " "
WidthAt(e, i)     == IF i >= 5 /\ (e.wstar \/ e.width > 0) THEN e.width ELSE IF i >= 6 /\ e.prec > 0 THEN 0 ELSE -1
PrecisionAt(e, i) == IF i >= 7 /\ e.prec > 0 THEN e.prec ELSE -1
LflagAt(e, i)     == IF i < 8 \/ e.longs = 0 THEN 0 ELSE IF i < 9 \/ e.longs = 1 THEN 1 ELSE 2
AltAt(e, i)       == IF i >= 4 THEN e.alt ELSE FALSE

SpecAt(e, i) ==
    [padc |-> PadcAt(e, i), width |-> WidthAt(e, i), precision |-> PrecisionAt(e, i),
     lflag |-> LflagAt(e, i), altflag |-> AltAt(e, i)]

\* The arguments taken for it.
TakenAt(e, i) == (IF i >= 5 /\ e.wstar THEN 1 ELSE 0) + (IF i >= 7 /\ e.pstar THEN 1 ELSE 0)

LEMMA SpecStarts == ASSUME NEW e PROVE SpecAt(e, 1) = FreshSpec /\ TakenAt(e, 1) = 0
<1>1. PadcAt(e, 1) = " " /\ WidthAt(e, 1) = -1 /\ PrecisionAt(e, 1) = -1 /\ LflagAt(e, 1) = 0 /\ AltAt(e, 1) = FALSE
  BY DEF PadcAt, WidthAt, PrecisionAt, LflagAt, AltAt
<1>2. TakenAt(e, 1) = 0
  BY DEF TakenAt
<1> QED
  BY <1>1, <1>2 DEF SpecAt, FreshSpec

\* A part that is not there changes nothing.
LEMMA PartMissing ==
  ASSUME NEW e, IsEscape(e), NEW conv, NEW j \in 2 .. 10, ~IsThere(e, j)
  PROVE  EscapeParts(e, conv)[j] = <<>> /\ SpecAt(e, j) = SpecAt(e, j - 1) /\ TakenAt(e, j) = TakenAt(e, j - 1)
<1> DEFINE g == EscapeParts(e, conv)
<1>1. /\ e.minus \in BOOLEAN /\ e.zero \in BOOLEAN /\ e.alt \in BOOLEAN /\ e.width \in Nat /\ e.wstar \in BOOLEAN
      /\ e.prec \in Nat /\ e.pstar \in BOOLEAN /\ e.longs \in 0 .. 2 /\ (e.pstar => e.prec > 0)
  BY EscapeFields DEF IsEscape
<1>2. /\ g[2] = Opt(e.minus, "-") /\ g[3] = Opt(e.zero, "0") /\ g[4] = Opt(e.alt, "#")
      /\ g[5] = SizeChars(e.width, e.wstar) /\ g[6] = Opt(e.prec > 0, ".")
      /\ g[7] = SizeChars(e.prec, e.pstar) /\ g[8] = Opt(e.longs >= 1, "l") /\ g[9] = Opt(e.longs = 2, "l")
  BY PartsAre
<1> HIDE DEF g
<1>3. CASE j = 2
  <2>1. ~e.minus
    BY <1>1, <1>3 DEF IsThere
  <2>2. g[2] = <<>>
    BY <1>1, <1>2, <2>1 DEF Opt, SizeChars
  <2>3. PadcAt(e, 2) = PadcAt(e, 1)
    BY <1>1, <2>1 DEF PadcAt
  <2>4. WidthAt(e, 2) = WidthAt(e, 1)
    BY <1>1, <2>1 DEF WidthAt
  <2>5. PrecisionAt(e, 2) = PrecisionAt(e, 1)
    BY <1>1, <2>1 DEF PrecisionAt
  <2>6. LflagAt(e, 2) = LflagAt(e, 1)
    BY <1>1, <2>1 DEF LflagAt
  <2>7. AltAt(e, 2) = AltAt(e, 1)
    BY <1>1, <2>1 DEF AltAt
  <2>8. TakenAt(e, 2) = TakenAt(e, 1)
    BY <1>1, <2>1 DEF TakenAt
  <2>9. SpecAt(e, 2) = SpecAt(e, 1)
    BY ONLY <2>3, <2>4, <2>5, <2>6, <2>7, Zenon DEF SpecAt
  <2> QED
    BY <1>3, <2>2, <2>8, <2>9 DEF g
<1>4. CASE j = 3
  <2>1. ~e.zero
    BY <1>1, <1>4 DEF IsThere
  <2>2. g[3] = <<>>
    BY <1>1, <1>2, <2>1 DEF Opt, SizeChars
  <2>3. PadcAt(e, 3) = PadcAt(e, 2)
    BY <1>1, <2>1 DEF PadcAt
  <2>4. WidthAt(e, 3) = WidthAt(e, 2)
    BY <1>1, <2>1 DEF WidthAt
  <2>5. PrecisionAt(e, 3) = PrecisionAt(e, 2)
    BY <1>1, <2>1 DEF PrecisionAt
  <2>6. LflagAt(e, 3) = LflagAt(e, 2)
    BY <1>1, <2>1 DEF LflagAt
  <2>7. AltAt(e, 3) = AltAt(e, 2)
    BY <1>1, <2>1 DEF AltAt
  <2>8. TakenAt(e, 3) = TakenAt(e, 2)
    BY <1>1, <2>1 DEF TakenAt
  <2>9. SpecAt(e, 3) = SpecAt(e, 2)
    BY ONLY <2>3, <2>4, <2>5, <2>6, <2>7, Zenon DEF SpecAt
  <2> QED
    BY <1>4, <2>2, <2>8, <2>9 DEF g
<1>5. CASE j = 4
  <2>1. ~e.alt
    BY <1>1, <1>5 DEF IsThere
  <2>2. g[4] = <<>>
    BY <1>1, <1>2, <2>1 DEF Opt, SizeChars
  <2>3. PadcAt(e, 4) = PadcAt(e, 3)
    BY <1>1, <2>1 DEF PadcAt
  <2>4. WidthAt(e, 4) = WidthAt(e, 3)
    BY <1>1, <2>1 DEF WidthAt
  <2>5. PrecisionAt(e, 4) = PrecisionAt(e, 3)
    BY <1>1, <2>1 DEF PrecisionAt
  <2>6. LflagAt(e, 4) = LflagAt(e, 3)
    BY <1>1, <2>1 DEF LflagAt
  <2>7. AltAt(e, 4) = AltAt(e, 3)
    BY <1>1, <2>1 DEF AltAt
  <2>8. TakenAt(e, 4) = TakenAt(e, 3)
    BY <1>1, <2>1 DEF TakenAt
  <2>9. SpecAt(e, 4) = SpecAt(e, 3)
    BY ONLY <2>3, <2>4, <2>5, <2>6, <2>7, Zenon DEF SpecAt
  <2> QED
    BY <1>5, <2>2, <2>8, <2>9 DEF g
<1>6. CASE j = 5
  <2>1. ~e.wstar /\ e.width = 0
    BY <1>1, <1>6 DEF IsThere
  <2>2. g[5] = <<>>
    BY <1>1, <1>2, <2>1 DEF Opt, SizeChars
  <2>3. PadcAt(e, 5) = PadcAt(e, 4)
    BY <1>1, <2>1 DEF PadcAt
  <2>4. WidthAt(e, 5) = WidthAt(e, 4)
    BY <1>1, <2>1 DEF WidthAt
  <2>5. PrecisionAt(e, 5) = PrecisionAt(e, 4)
    BY <1>1, <2>1 DEF PrecisionAt
  <2>6. LflagAt(e, 5) = LflagAt(e, 4)
    BY <1>1, <2>1 DEF LflagAt
  <2>7. AltAt(e, 5) = AltAt(e, 4)
    BY <1>1, <2>1 DEF AltAt
  <2>8. TakenAt(e, 5) = TakenAt(e, 4)
    BY <1>1, <2>1 DEF TakenAt
  <2>9. SpecAt(e, 5) = SpecAt(e, 4)
    BY ONLY <2>3, <2>4, <2>5, <2>6, <2>7, Zenon DEF SpecAt
  <2> QED
    BY <1>6, <2>2, <2>8, <2>9 DEF g
<1>7. CASE j = 6
  <2>1. e.prec = 0
    BY <1>1, <1>7 DEF IsThere
  <2>2. g[6] = <<>>
    BY <1>1, <1>2, <2>1 DEF Opt, SizeChars
  <2>3. PadcAt(e, 6) = PadcAt(e, 5)
    BY <1>1, <2>1 DEF PadcAt
  <2>4. WidthAt(e, 6) = WidthAt(e, 5)
    BY <1>1, <2>1 DEF WidthAt
  <2>5. PrecisionAt(e, 6) = PrecisionAt(e, 5)
    BY <1>1, <2>1 DEF PrecisionAt
  <2>6. LflagAt(e, 6) = LflagAt(e, 5)
    BY <1>1, <2>1 DEF LflagAt
  <2>7. AltAt(e, 6) = AltAt(e, 5)
    BY <1>1, <2>1 DEF AltAt
  <2>8. TakenAt(e, 6) = TakenAt(e, 5)
    BY <1>1, <2>1 DEF TakenAt
  <2>9. SpecAt(e, 6) = SpecAt(e, 5)
    BY ONLY <2>3, <2>4, <2>5, <2>6, <2>7, Zenon DEF SpecAt
  <2> QED
    BY <1>7, <2>2, <2>8, <2>9 DEF g
<1>8. CASE j = 7
  <2>1. e.prec = 0 /\ ~e.pstar
    BY <1>1, <1>8 DEF IsThere
  <2>2. g[7] = <<>>
    BY <1>1, <1>2, <2>1 DEF Opt, SizeChars
  <2>3. PadcAt(e, 7) = PadcAt(e, 6)
    BY <1>1, <2>1 DEF PadcAt
  <2>4. WidthAt(e, 7) = WidthAt(e, 6)
    BY <1>1, <2>1 DEF WidthAt
  <2>5. PrecisionAt(e, 7) = PrecisionAt(e, 6)
    BY <1>1, <2>1 DEF PrecisionAt
  <2>6. LflagAt(e, 7) = LflagAt(e, 6)
    BY <1>1, <2>1 DEF LflagAt
  <2>7. AltAt(e, 7) = AltAt(e, 6)
    BY <1>1, <2>1 DEF AltAt
  <2>8. TakenAt(e, 7) = TakenAt(e, 6)
    BY <1>1, <2>1 DEF TakenAt
  <2>9. SpecAt(e, 7) = SpecAt(e, 6)
    BY ONLY <2>3, <2>4, <2>5, <2>6, <2>7, Zenon DEF SpecAt
  <2> QED
    BY <1>8, <2>2, <2>8, <2>9 DEF g
<1>9. CASE j = 8
  <2>1. e.longs = 0
    BY <1>1, <1>9 DEF IsThere
  <2>2. g[8] = <<>>
    BY <1>1, <1>2, <2>1 DEF Opt, SizeChars
  <2>3. PadcAt(e, 8) = PadcAt(e, 7)
    BY <1>1, <2>1 DEF PadcAt
  <2>4. WidthAt(e, 8) = WidthAt(e, 7)
    BY <1>1, <2>1 DEF WidthAt
  <2>5. PrecisionAt(e, 8) = PrecisionAt(e, 7)
    BY <1>1, <2>1 DEF PrecisionAt
  <2>6. LflagAt(e, 8) = LflagAt(e, 7)
    BY <1>1, <2>1 DEF LflagAt
  <2>7. AltAt(e, 8) = AltAt(e, 7)
    BY <1>1, <2>1 DEF AltAt
  <2>8. TakenAt(e, 8) = TakenAt(e, 7)
    BY <1>1, <2>1 DEF TakenAt
  <2>9. SpecAt(e, 8) = SpecAt(e, 7)
    BY ONLY <2>3, <2>4, <2>5, <2>6, <2>7, Zenon DEF SpecAt
  <2> QED
    BY <1>9, <2>2, <2>8, <2>9 DEF g
<1>10. CASE j = 9
  <2>1. e.longs \in {0, 1}
    BY <1>1, <1>10 DEF IsThere
  <2>2. g[9] = <<>>
    BY <1>1, <1>2, <2>1 DEF Opt, SizeChars
  <2>3. PadcAt(e, 9) = PadcAt(e, 8)
    BY <1>1, <2>1 DEF PadcAt
  <2>4. WidthAt(e, 9) = WidthAt(e, 8)
    BY <1>1, <2>1 DEF WidthAt
  <2>5. PrecisionAt(e, 9) = PrecisionAt(e, 8)
    BY <1>1, <2>1 DEF PrecisionAt
  <2>6. LflagAt(e, 9) = LflagAt(e, 8)
    BY <1>1, <2>1 DEF LflagAt
  <2>7. AltAt(e, 9) = AltAt(e, 8)
    BY <1>1, <2>1 DEF AltAt
  <2>8. TakenAt(e, 9) = TakenAt(e, 8)
    BY <1>1, <2>1 DEF TakenAt
  <2>9. SpecAt(e, 9) = SpecAt(e, 8)
    BY ONLY <2>3, <2>4, <2>5, <2>6, <2>7, Zenon DEF SpecAt
  <2> QED
    BY <1>10, <2>2, <2>8, <2>9 DEF g
<1>11. CASE j = 10
  BY <1>11 DEF IsThere
<1> QED
  BY <1>3, <1>4, <1>5, <1>6, <1>7, <1>8, <1>9, <1>10, <1>11

\* The first character of a part that is there, for the conversion conv.
IsFirst(e, conv, j, c) ==
    /\ j = 2 => c = "-"
    /\ j = 3 => c = "0"
    /\ j = 4 => c = "#"
    /\ j = 5 => IF e.wstar THEN c = "*" ELSE \E d \in 2 .. 10 : c = Digit[d]
    /\ j = 6 => c = "."
    /\ j = 7 => IF e.pstar THEN c = "*" ELSE \E d \in 2 .. 10 : c = Digit[d]
    /\ j \in {8, 9} => c = "l"
    /\ j = 10 => c = conv

LEMMA PartStarts ==
  ASSUME NEW e, IsEscape(e), NEW conv, NEW j \in 2 .. 10, IsThere(e, j), NEW g, g = EscapeParts(e, conv)
  PROVE  /\ IsSeq(g[j]) /\ Len(g[j]) \in Nat \ {0} /\ IsFirst(e, conv, j, g[j][1])
         /\ ~(j = 5 /\ ~e.wstar) /\ ~(j = 7 /\ ~e.pstar) => Len(g[j]) = 1
<1>1. /\ e.minus \in BOOLEAN /\ e.zero \in BOOLEAN /\ e.alt \in BOOLEAN /\ e.width \in Nat /\ e.wstar \in BOOLEAN
      /\ e.prec \in Nat /\ e.pstar \in BOOLEAN /\ e.longs \in 0 .. 2 /\ (e.pstar => e.prec > 0)
  BY EscapeFields DEF IsEscape
<1>2. /\ g[2] = Opt(e.minus, "-") /\ g[3] = Opt(e.zero, "0") /\ g[4] = Opt(e.alt, "#")
      /\ g[5] = SizeChars(e.width, e.wstar) /\ g[6] = Opt(e.prec > 0, ".")
      /\ g[7] = SizeChars(e.prec, e.pstar) /\ g[8] = Opt(e.longs >= 1, "l") /\ g[9] = Opt(e.longs = 2, "l")
      /\ g[10] = <<conv>>
  BY PartsAre
<1> DEFINE One(c) == IsSeq(g[j]) /\ Len(g[j]) = 1 /\ g[j][1] = c
<1>3. ASSUME NEW c, g[j] = <<c>> PROVE One(c)
  BY ONLY <1>3, SingleIs, Zenon
<1>4. ASSUME NEW n \in Nat, n > 0, g[j] = Numeral(n, 10)
      PROVE  IsSeq(g[j]) /\ Len(g[j]) \in Nat \ {0} /\ \E d \in 2 .. 10 : g[j][1] = Digit[d]
  <2> DEFINE ten == 10
  <2>1. ten \in 2 .. 16 /\ ten \in Nat /\ ten >= 2
    OBVIOUS
  <2> HIDE DEF ten
  <2>2. n \in Nat /\ n > 0
    BY <1>4
  <2>3. IsSeq(Numeral(n, ten)) /\ Len(Numeral(n, ten)) \in Nat \ {0}
    BY ONLY <2>1, <2>2, NumeralRounds
  <2>4. \E d \in 2 .. ten : Numeral(n, ten)[1] = Digit[d]
    BY ONLY <2>1, <2>2, NumeralDigits
  <2>5. g[j] = Numeral(n, ten)
    BY <1>4 DEF ten
  <2> QED
    BY ONLY <2>3, <2>4, <2>5, Zenon DEF ten
<1> HIDE DEF One
<1>5. ASSUME NEW c, One(c) PROVE IsSeq(g[j]) /\ Len(g[j]) \in Nat \ {0} /\ Len(g[j]) = 1 /\ g[j][1] = c
  BY <1>5 DEF One
<1>6. CASE j \in {2, 3, 4, 6, 8, 9, 10}
  <2> DEFINE c == CASE j = 2 -> "-" [] j = 3 -> "0" [] j = 4 -> "#" [] j = 6 -> "." [] j \in {8, 9} -> "l" [] j = 10 -> conv
  <2>1. g[j] = <<c>>
    <3>1. /\ j = 2 => e.minus
          /\ j = 3 => e.zero
          /\ j = 4 => e.alt
          /\ j \in {6, 7} => e.prec > 0
          /\ j = 8 => e.longs >= 1
          /\ j = 9 => e.longs = 2
      BY DEF IsThere
    <3> QED
      BY <1>2, <1>6, <3>1 DEF Opt
  <2>2. IsFirst(e, conv, j, c)
    BY <1>6 DEF IsFirst
  <2> HIDE DEF c
  <2> QED
    BY <1>3, <1>5, <1>6, <2>1, <2>2
<1>7. CASE j = 5
  <2>1. e.wstar \/ e.width > 0
    BY <1>7 DEF IsThere
  <2>2. CASE e.wstar
    <3>1. g[j] = <<"*">>
      BY <1>2, <1>7, <2>2 DEF SizeChars
    <3>2. IsFirst(e, conv, j, "*")
      BY <1>7, <2>2 DEF IsFirst
    <3> DEFINE c == "*"
    <3>3. g[j] = <<c>> /\ IsFirst(e, conv, j, c)
      BY <3>1, <3>2
    <3> HIDE DEF c
    <3> QED
      BY <1>3, <1>5, <3>3
  <2>3. CASE ~e.wstar
    <3> DEFINE w == e.width
    <3>1. w \in Nat /\ w > 0 /\ g[j] = Numeral(w, 10)
      BY <1>1, <1>2, <1>7, <2>1, <2>3 DEF SizeChars
    <3> HIDE DEF w
    <3>2. IsSeq(g[j]) /\ Len(g[j]) \in Nat \ {0} /\ \E d \in 2 .. 10 : g[j][1] = Digit[d]
      BY <1>4, <3>1
    <3>3. IsFirst(e, conv, j, g[j][1])
      BY <1>7, <2>3, <3>2 DEF IsFirst
    <3> QED
      BY <1>7, <2>3, <3>2, <3>3
  <2> QED
    BY <1>1, <2>2, <2>3
<1>8. CASE j = 7
  <2>1. e.prec > 0
    BY <1>8 DEF IsThere
  <2>2. CASE e.pstar
    <3>1. g[j] = <<"*">>
      BY <1>2, <1>8, <2>2 DEF SizeChars
    <3>2. IsFirst(e, conv, j, "*")
      BY <1>8, <2>2 DEF IsFirst
    <3> DEFINE c == "*"
    <3>3. g[j] = <<c>> /\ IsFirst(e, conv, j, c)
      BY <3>1, <3>2
    <3> HIDE DEF c
    <3> QED
      BY <1>3, <1>5, <3>3
  <2>3. CASE ~e.pstar
    <3> DEFINE w == e.prec
    <3>1. w \in Nat /\ w > 0 /\ g[j] = Numeral(w, 10)
      BY <1>1, <1>2, <1>8, <2>1, <2>3 DEF SizeChars
    <3> HIDE DEF w
    <3>2. IsSeq(g[j]) /\ Len(g[j]) \in Nat \ {0} /\ \E d \in 2 .. 10 : g[j][1] = Digit[d]
      BY <1>4, <3>1
    <3>3. IsFirst(e, conv, j, g[j][1])
      BY <1>8, <2>3, <3>2 DEF IsFirst
    <3> QED
      BY <1>8, <2>3, <3>2, <3>3
  <2> QED
    BY <1>1, <2>2, <2>3
<1> QED
  BY <1>6, <1>7, <1>8

\* After o characters of the escape the next part that is there is j.
Before(e, l, j, o, sp, taken) ==
    IsThere(e, j) /\ o = l[j - 1] /\ sp = SpecAt(e, j - 1) /\ taken = TakenAt(e, j - 1)

LEMMA NextPart ==
  ASSUME NEW e, IsEscape(e), NEW conv, NEW s, NEW l, InPlace(EscapeParts(e, conv), s, l), NEW i \in 1 .. 9
  PROVE  \E j \in i + 1 .. 10 : Before(e, l, j, l[i], SpecAt(e, i), TakenAt(e, i))
<1> DEFINE Later(m) == \E j \in m + 1 .. 10 : Before(e, l, j, l[m], SpecAt(e, m), TakenAt(e, m))
           T == {m \in Nat : m <= 8 => Later(9 - m)}
<1>1. ASSUME NEW m \in 1 .. 9, IsThere(e, m + 1) PROVE Later(m)
  <2>1. m + 1 \in m + 1 .. 10 /\ (m + 1) - 1 = m
    OBVIOUS
  <2>2. Before(e, l, m + 1, l[m], SpecAt(e, m), TakenAt(e, m))
    BY <1>1, <2>1 DEF Before
  <2> QED
    BY <2>1, <2>2
<1>2. ASSUME NEW m \in 1 .. 8, Later(m + 1) PROVE Later(m)
  <2>1. CASE ~IsThere(e, m + 1)
    <3> DEFINE n == m + 1
    <3>1. n \in 2 .. 10 /\ n - 1 = m
      OBVIOUS
    <3>2. EscapeParts(e, conv)[n] = <<>> /\ SpecAt(e, n) = SpecAt(e, n - 1) /\ TakenAt(e, n) = TakenAt(e, n - 1)
      BY <2>1, <3>1, PartMissing
    <3>3. l[n] = l[n - 1]
      <4> DEFINE g == EscapeParts(e, conv)
      <4>1. Len(g) = 10
        BY PartsAre
      <4> HIDE DEF g
      <4>4. InPlace(g, s, l)
        BY DEF g
      <4>5. n \in 1 .. Len(g) /\ n - 1 \in 0 .. Len(g)
        BY <3>1, <4>1
      <4>6. l[n] = l[n - 1] + Len(g[n]) /\ l[n - 1] \in Nat
        BY <4>4, <4>5 DEF InPlace
      <4>2. l[n] = l[n - 1] + Len(EscapeParts(e, conv)[n]) /\ l[n - 1] \in Nat
        BY <4>6 DEF g
      <4>3. Len(EscapeParts(e, conv)[n]) = 0
        BY ONLY <3>2, EmptySeqs, Zenon
      <4> QED
        BY ONLY <4>2, <4>3
    <3>4. l[n] = l[m] /\ SpecAt(e, n) = SpecAt(e, m) /\ TakenAt(e, n) = TakenAt(e, m)
      BY <3>1, <3>2, <3>3
    <3>5. PICK j \in n + 1 .. 10 : Before(e, l, j, l[n], SpecAt(e, n), TakenAt(e, n))
      BY <1>2
    <3>6. Before(e, l, j, l[m], SpecAt(e, m), TakenAt(e, m))
      BY ONLY <3>4, <3>5, Zenon
    <3>7. j \in m + 1 .. 10
      BY <3>5
    <3> QED
      BY <3>6, <3>7
  <2> QED
    BY <1>1, <2>1
<1>3. 0 \in T
  <2>1. IsThere(e, 9 + 1)
    BY DEF IsThere
  <2>2. Later(9)
    <3> HIDE DEF Later
    <3> QED
      BY <1>1, <2>1
  <2> QED
    BY <2>2
<1>4. ASSUME NEW m \in T PROVE m + 1 \in T
  <2> HIDE DEF Later
  <2>1. SUFFICES ASSUME m + 1 <= 8 PROVE Later(9 - (m + 1))
    OBVIOUS
  <2>2. m \in Nat /\ Later(9 - m)
    BY <2>1
  <2>3. 9 - (m + 1) \in 1 .. 8 /\ (9 - (m + 1)) + 1 = 9 - m
    BY <2>1, <2>2
  <2> QED
    BY <1>2, <2>2, <2>3
<1>5. T = Nat
  <2> HIDE DEF T
  <2> QED
    BY <1>3, <1>4, SetInduction DEF T
<1>6. 9 - i \in T /\ 9 - i <= 8 /\ 9 - (9 - i) = i
  <2> HIDE DEF T
  <2> QED
    BY <1>5
<1>7. Later(i)
  <2> HIDE DEF Later
  <2> QED
    BY <1>6
<1> QED
  BY <1>7

\* What the parts that are there change.
PartMeans(e, j, sp) ==
    /\ j = 2 => SpecAt(e, j) = [sp EXCEPT !.padc = "-"]
    /\ j = 3 => SpecAt(e, j) = [sp EXCEPT !.padc = "0"]
    /\ j = 4 => SpecAt(e, j) = [sp EXCEPT !.altflag = TRUE]
    /\ j = 5 => sp.width < 0 /\ SpecAt(e, j) = [sp EXCEPT !.width = e.width, !.precision = -1]
    /\ j = 6 => SpecAt(e, j) = [sp EXCEPT !.width = IF @ < 0 THEN 0 ELSE @]
    /\ j = 7 => ~(sp.width < 0) /\ SpecAt(e, j) = [sp EXCEPT !.precision = e.prec]
    /\ j \in {8, 9} => SpecAt(e, j) = [sp EXCEPT !.lflag = @ + 1]
    /\ TakenAt(e, j) = TakenAt(e, j - 1) + (IF (j = 5 /\ e.wstar) \/ (j = 7 /\ e.pstar) THEN 1 ELSE 0)
    /\ TakenAt(e, j - 1) \in Nat

LEMMA PartSpec ==
  ASSUME NEW e, IsEscape(e), NEW j \in 2 .. 9, IsThere(e, j), NEW sp, sp = SpecAt(e, j - 1)
  PROVE  PartMeans(e, j, sp)
<1>0. SUFFICES /\ j = 2 => SpecAt(e, j) = [sp EXCEPT !.padc = "-"]
               /\ j = 3 => SpecAt(e, j) = [sp EXCEPT !.padc = "0"]
               /\ j = 4 => SpecAt(e, j) = [sp EXCEPT !.altflag = TRUE]
               /\ j = 5 => sp.width < 0 /\ SpecAt(e, j) = [sp EXCEPT !.width = e.width, !.precision = -1]
               /\ j = 6 => SpecAt(e, j) = [sp EXCEPT !.width = IF @ < 0 THEN 0 ELSE @]
               /\ j = 7 => ~(sp.width < 0) /\ SpecAt(e, j) = [sp EXCEPT !.precision = e.prec]
               /\ j \in {8, 9} => SpecAt(e, j) = [sp EXCEPT !.lflag = @ + 1]
               /\ TakenAt(e, j) = TakenAt(e, j - 1) + (IF (j = 5 /\ e.wstar) \/ (j = 7 /\ e.pstar) THEN 1 ELSE 0)
               /\ TakenAt(e, j - 1) \in Nat
  BY DEF PartMeans
<1>1. /\ e.minus \in BOOLEAN /\ e.zero \in BOOLEAN /\ e.alt \in BOOLEAN /\ e.width \in Nat /\ e.wstar \in BOOLEAN
      /\ e.prec \in Nat /\ e.pstar \in BOOLEAN /\ e.longs \in 0 .. 2 /\ (e.pstar => e.prec > 0)
  BY EscapeFields DEF IsEscape
<1>10. TakenAt(e, j - 1) \in Nat
  BY DEF TakenAt
<1>2. CASE j = 2
  <2>1. e.minus
    BY <1>2 DEF IsThere
  <2>2. PadcAt(e, 2) = "-"
    BY <1>1, <2>1 DEF PadcAt
  <2>3. WidthAt(e, 2) = WidthAt(e, 1)
    BY <1>1, <2>1 DEF WidthAt
  <2>4. PrecisionAt(e, 2) = PrecisionAt(e, 1)
    BY <1>1, <2>1 DEF PrecisionAt
  <2>5. LflagAt(e, 2) = LflagAt(e, 1)
    BY <1>1, <2>1 DEF LflagAt
  <2>6. AltAt(e, 2) = AltAt(e, 1)
    BY <1>1, <2>1 DEF AltAt
  <2>7. TakenAt(e, 2) = TakenAt(e, 1) + (IF (2 = 5 /\ e.wstar) \/ (2 = 7 /\ e.pstar) THEN 1 ELSE 0)
    BY <1>1, <2>1 DEF TakenAt
  <2>8. SpecAt(e, 2) = [padc |-> "-", width |-> WidthAt(e, 1),
                        precision |-> PrecisionAt(e, 1), lflag |-> LflagAt(e, 1), altflag |-> AltAt(e, 1)]
    BY ONLY <2>2, <2>3, <2>4, <2>5, <2>6, Zenon DEF SpecAt
  <2>9. sp = SpecAt(e, 1)
    BY <1>2
  <2>10. SpecAt(e, 2) = [sp EXCEPT !.padc = "-"]
    BY ONLY <2>8, <2>9 DEF SpecAt
  <2> QED
    BY <1>2, <1>10, <2>7, <2>10
<1>3. CASE j = 3
  <2>1. e.zero
    BY <1>3 DEF IsThere
  <2>2. PadcAt(e, 3) = "0"
    BY <1>1, <2>1 DEF PadcAt
  <2>3. WidthAt(e, 3) = WidthAt(e, 2)
    BY <1>1, <2>1 DEF WidthAt
  <2>4. PrecisionAt(e, 3) = PrecisionAt(e, 2)
    BY <1>1, <2>1 DEF PrecisionAt
  <2>5. LflagAt(e, 3) = LflagAt(e, 2)
    BY <1>1, <2>1 DEF LflagAt
  <2>6. AltAt(e, 3) = AltAt(e, 2)
    BY <1>1, <2>1 DEF AltAt
  <2>7. TakenAt(e, 3) = TakenAt(e, 2) + (IF (3 = 5 /\ e.wstar) \/ (3 = 7 /\ e.pstar) THEN 1 ELSE 0)
    BY <1>1, <2>1 DEF TakenAt
  <2>8. SpecAt(e, 3) = [padc |-> "0", width |-> WidthAt(e, 2),
                        precision |-> PrecisionAt(e, 2), lflag |-> LflagAt(e, 2), altflag |-> AltAt(e, 2)]
    BY ONLY <2>2, <2>3, <2>4, <2>5, <2>6, Zenon DEF SpecAt
  <2>9. sp = SpecAt(e, 2)
    BY <1>3
  <2>10. SpecAt(e, 3) = [sp EXCEPT !.padc = "0"]
    BY ONLY <2>8, <2>9 DEF SpecAt
  <2> QED
    BY <1>3, <1>10, <2>7, <2>10
<1>4. CASE j = 4
  <2>1. e.alt
    BY <1>4 DEF IsThere
  <2>2. PadcAt(e, 4) = PadcAt(e, 3)
    BY <1>1, <2>1 DEF PadcAt
  <2>3. WidthAt(e, 4) = WidthAt(e, 3)
    BY <1>1, <2>1 DEF WidthAt
  <2>4. PrecisionAt(e, 4) = PrecisionAt(e, 3)
    BY <1>1, <2>1 DEF PrecisionAt
  <2>5. LflagAt(e, 4) = LflagAt(e, 3)
    BY <1>1, <2>1 DEF LflagAt
  <2>6. AltAt(e, 4) = TRUE
    BY <1>1, <2>1 DEF AltAt
  <2>7. TakenAt(e, 4) = TakenAt(e, 3) + (IF (4 = 5 /\ e.wstar) \/ (4 = 7 /\ e.pstar) THEN 1 ELSE 0)
    BY <1>1, <2>1 DEF TakenAt
  <2>8. SpecAt(e, 4) = [padc |-> PadcAt(e, 3), width |-> WidthAt(e, 3),
                        precision |-> PrecisionAt(e, 3), lflag |-> LflagAt(e, 3), altflag |-> TRUE]
    BY ONLY <2>2, <2>3, <2>4, <2>5, <2>6, Zenon DEF SpecAt
  <2>9. sp = SpecAt(e, 3)
    BY <1>4
  <2>10. SpecAt(e, 4) = [sp EXCEPT !.altflag = TRUE]
    <3> DEFINE t == TRUE
    <3>1. SpecAt(e, 4) = [padc |-> PadcAt(e, 3), width |-> WidthAt(e, 3),
                          precision |-> PrecisionAt(e, 3), lflag |-> LflagAt(e, 3), altflag |-> t]
      BY <2>8
    <3> HIDE DEF t
    <3>2. SpecAt(e, 4) = [sp EXCEPT !.altflag = t]
      BY ONLY <2>9, <3>1 DEF SpecAt
    <3> QED
      BY ONLY <3>2, Zenon DEF t
  <2> QED
    BY <1>4, <1>10, <2>7, <2>10
<1>5. CASE j = 5
  <2>1. e.wstar \/ e.width > 0
    BY <1>5 DEF IsThere
  <2>2. PadcAt(e, 5) = PadcAt(e, 4)
    BY <1>1, <2>1 DEF PadcAt
  <2>3. WidthAt(e, 5) = e.width
    BY <1>1, <2>1 DEF WidthAt
  <2>4. PrecisionAt(e, 5) = -1
    BY <1>1, <2>1 DEF PrecisionAt
  <2>5. LflagAt(e, 5) = LflagAt(e, 4)
    BY <1>1, <2>1 DEF LflagAt
  <2>6. AltAt(e, 5) = AltAt(e, 4)
    BY <1>1, <2>1 DEF AltAt
  <2>7. TakenAt(e, 5) = TakenAt(e, 4) + (IF (5 = 5 /\ e.wstar) \/ (5 = 7 /\ e.pstar) THEN 1 ELSE 0)
    BY <1>1, <2>1 DEF TakenAt
  <2>8. SpecAt(e, 5) = [padc |-> PadcAt(e, 4), width |-> e.width,
                        precision |-> -1, lflag |-> LflagAt(e, 4), altflag |-> AltAt(e, 4)]
    BY ONLY <2>2, <2>3, <2>4, <2>5, <2>6, Zenon DEF SpecAt
  <2>9. sp = SpecAt(e, 4)
    BY <1>5
  <2>10. WidthAt(e, 4) < 0
    BY <1>1, <2>1 DEF WidthAt
  <2>11. sp.width = WidthAt(e, 4)
    BY <2>9 DEF SpecAt
  <2>12. SpecAt(e, 5) = [sp EXCEPT !.width = e.width, !.precision = -1]
    <3> DEFINE w == e.width
               p == -1
               r == [sp EXCEPT !.width = w]
    <3>1. [sp EXCEPT !.width = w, !.precision = p] = [r EXCEPT !.precision = p]
      OBVIOUS
    <3>2. r = [padc |-> PadcAt(e, 4), width |-> w, precision |-> PrecisionAt(e, 4), lflag |-> LflagAt(e, 4),
               altflag |-> AltAt(e, 4)]
      BY ONLY <2>9 DEF SpecAt
    <3> HIDE DEF r
    <3>3. [r EXCEPT !.precision = p] = [padc |-> PadcAt(e, 4), width |-> w, precision |-> p,
                                        lflag |-> LflagAt(e, 4), altflag |-> AltAt(e, 4)]
      BY ONLY <3>2
    <3> QED
      BY ONLY <2>8, <3>1, <3>3, Zenon
  <2> QED
    BY <1>5, <1>10, <2>7, <2>12, <2>10, <2>11
<1>6. CASE j = 6
  <2>1. e.prec > 0
    BY <1>6 DEF IsThere
  <2>2. PadcAt(e, 6) = PadcAt(e, 5)
    BY <1>1, <2>1 DEF PadcAt
  <2>3. WidthAt(e, 6) = (IF WidthAt(e, 5) < 0 THEN 0 ELSE WidthAt(e, 5))
    BY <1>1, <2>1 DEF WidthAt
  <2>4. PrecisionAt(e, 6) = PrecisionAt(e, 5)
    BY <1>1, <2>1 DEF PrecisionAt
  <2>5. LflagAt(e, 6) = LflagAt(e, 5)
    BY <1>1, <2>1 DEF LflagAt
  <2>6. AltAt(e, 6) = AltAt(e, 5)
    BY <1>1, <2>1 DEF AltAt
  <2>7. TakenAt(e, 6) = TakenAt(e, 5) + (IF (6 = 5 /\ e.wstar) \/ (6 = 7 /\ e.pstar) THEN 1 ELSE 0)
    BY <1>1, <2>1 DEF TakenAt
  <2>8. SpecAt(e, 6) = [padc |-> PadcAt(e, 5), width |-> (IF WidthAt(e, 5) < 0 THEN 0 ELSE WidthAt(e, 5)),
                        precision |-> PrecisionAt(e, 5), lflag |-> LflagAt(e, 5), altflag |-> AltAt(e, 5)]
    BY ONLY <2>2, <2>3, <2>4, <2>5, <2>6, Zenon DEF SpecAt
  <2>9. sp = SpecAt(e, 5)
    BY <1>6
  <2>10. SpecAt(e, 6) = [sp EXCEPT !.width = IF @ < 0 THEN 0 ELSE @]
    BY ONLY <2>8, <2>9 DEF SpecAt
  <2> QED
    BY <1>6, <1>10, <2>7, <2>10
<1>7. CASE j = 7
  <2>1. e.prec > 0
    BY <1>7 DEF IsThere
  <2>2. PadcAt(e, 7) = PadcAt(e, 6)
    BY <1>1, <2>1 DEF PadcAt
  <2>3. WidthAt(e, 7) = WidthAt(e, 6)
    BY <1>1, <2>1 DEF WidthAt
  <2>4. PrecisionAt(e, 7) = e.prec
    BY <1>1, <2>1 DEF PrecisionAt
  <2>5. LflagAt(e, 7) = LflagAt(e, 6)
    BY <1>1, <2>1 DEF LflagAt
  <2>6. AltAt(e, 7) = AltAt(e, 6)
    BY <1>1, <2>1 DEF AltAt
  <2>7. TakenAt(e, 7) = TakenAt(e, 6) + (IF (7 = 5 /\ e.wstar) \/ (7 = 7 /\ e.pstar) THEN 1 ELSE 0)
    BY <1>1, <2>1 DEF TakenAt
  <2>8. SpecAt(e, 7) = [padc |-> PadcAt(e, 6), width |-> WidthAt(e, 6),
                        precision |-> e.prec, lflag |-> LflagAt(e, 6), altflag |-> AltAt(e, 6)]
    BY ONLY <2>2, <2>3, <2>4, <2>5, <2>6, Zenon DEF SpecAt
  <2>9. sp = SpecAt(e, 6)
    BY <1>7
  <2>10. ~(WidthAt(e, 6) < 0)
    BY <1>1, <2>1 DEF WidthAt
  <2>11. sp.width = WidthAt(e, 6)
    BY <2>9 DEF SpecAt
  <2>12. SpecAt(e, 7) = [sp EXCEPT !.precision = e.prec]
    BY ONLY <2>8, <2>9 DEF SpecAt
  <2> QED
    BY <1>7, <1>10, <2>7, <2>12, <2>10, <2>11
<1>8. CASE j = 8
  <2>1. e.longs \in {1, 2}
    BY <1>1, <1>8 DEF IsThere
  <2>2. PadcAt(e, 8) = PadcAt(e, 7)
    BY <1>1, <2>1 DEF PadcAt
  <2>3. WidthAt(e, 8) = WidthAt(e, 7)
    BY <1>1, <2>1 DEF WidthAt
  <2>4. PrecisionAt(e, 8) = PrecisionAt(e, 7)
    BY <1>1, <2>1 DEF PrecisionAt
  <2>5. LflagAt(e, 8) = LflagAt(e, 7) + 1
    BY <1>1, <2>1 DEF LflagAt
  <2>6. AltAt(e, 8) = AltAt(e, 7)
    BY <1>1, <2>1 DEF AltAt
  <2>7. TakenAt(e, 8) = TakenAt(e, 7) + (IF (8 = 5 /\ e.wstar) \/ (8 = 7 /\ e.pstar) THEN 1 ELSE 0)
    BY <1>1, <2>1 DEF TakenAt
  <2>8. SpecAt(e, 8) = [padc |-> PadcAt(e, 7), width |-> WidthAt(e, 7),
                        precision |-> PrecisionAt(e, 7), lflag |-> LflagAt(e, 7) + 1, altflag |-> AltAt(e, 7)]
    BY ONLY <2>2, <2>3, <2>4, <2>5, <2>6, Zenon DEF SpecAt
  <2>9. sp = SpecAt(e, 7)
    BY <1>8
  <2>10. SpecAt(e, 8) = [sp EXCEPT !.lflag = @ + 1]
    BY ONLY <2>8, <2>9 DEF SpecAt
  <2> QED
    BY <1>8, <1>10, <2>7, <2>10
<1>9. CASE j = 9
  <2>1. e.longs = 2
    BY <1>9 DEF IsThere
  <2>2. PadcAt(e, 9) = PadcAt(e, 8)
    BY <1>1, <2>1 DEF PadcAt
  <2>3. WidthAt(e, 9) = WidthAt(e, 8)
    BY <1>1, <2>1 DEF WidthAt
  <2>4. PrecisionAt(e, 9) = PrecisionAt(e, 8)
    BY <1>1, <2>1 DEF PrecisionAt
  <2>5. LflagAt(e, 9) = LflagAt(e, 8) + 1
    BY <1>1, <2>1 DEF LflagAt
  <2>6. AltAt(e, 9) = AltAt(e, 8)
    BY <1>1, <2>1 DEF AltAt
  <2>7. TakenAt(e, 9) = TakenAt(e, 8) + (IF (9 = 5 /\ e.wstar) \/ (9 = 7 /\ e.pstar) THEN 1 ELSE 0)
    BY <1>1, <2>1 DEF TakenAt
  <2>8. SpecAt(e, 9) = [padc |-> PadcAt(e, 8), width |-> WidthAt(e, 8),
                        precision |-> PrecisionAt(e, 8), lflag |-> LflagAt(e, 8) + 1, altflag |-> AltAt(e, 8)]
    BY ONLY <2>2, <2>3, <2>4, <2>5, <2>6, Zenon DEF SpecAt
  <2>9. sp = SpecAt(e, 8)
    BY <1>9
  <2>10. SpecAt(e, 9) = [sp EXCEPT !.lflag = @ + 1]
    BY ONLY <2>8, <2>9 DEF SpecAt
  <2> QED
    BY <1>9, <1>10, <2>7, <2>10
<1> QED
  BY <1>2, <1>3, <1>4, <1>5, <1>6, <1>7, <1>8, <1>9

----------------------------------------------------------------------------
\* The pieces.

NumRange(two) == IF two THEN ULONGLONG ELSE UINT

NumValues(two, conv) ==
    IF conv = "d" THEN NumRange(two) \div 2 - NumRange(two) .. NumRange(two) \div 2 - 1 ELSE 0 .. NumRange(two) - 1

NumBase(conv) == CASE conv \in {"d", "u"} -> 10 [] conv \in {"x", "p"} -> 16 [] conv = "o" -> 8

NumArgs(two, value) ==
    LET bits == value % NumRange(two)
    IN  IF two THEN <<[w |-> bits % UINT], [w |-> bits \div UINT]>> ELSE <<[w |-> bits]>>

NumDigits(e, conv, value) == Padded(NumeralOf(conv, value), e.width, PadChar(e))

StrText(arg) == IF "s" \in DOMAIN arg THEN arg.s ELSE NullText

StrCut(prec, arg) == IF prec = 0 THEN StrText(arg) ELSE Cut(StrText(arg), prec)

Shown(alt, s) == [k \in DOMAIN s |-> IF alt /\ s[k] \in Unseen THEN "?" ELSE s[k]]

StrMeans(padc, alt, width, prec, arg) ==
    LET cut   == StrCut(prec, arg)
        shown == Shown(alt, cut)
    IN  IF padc = "-" THEN shown \o Pad(width - Len(cut), " ") ELSE Padded(shown, width, padc)

\* A conversion, which takes the arguments a after those for its sizes.
IsConversion(p, lib, a) ==
    /\ IsEscape(p.esc)
    /\ p.chars = FlattenSeq(EscapeParts(p.esc, p.conv))
    /\ p.args = (SizeArgs(p.esc.width, p.esc.wstar) \o SizeArgs(p.esc.prec, p.esc.pstar)) \o a
    /\ IsSeq(a) /\ IsSeq(p.means)
    /\ \/ /\ p.conv \in {"d", "u", "x", "p"} \/ (p.conv = "o" /\ lib = "kern")
          /\ p.arg.v \in NumValues(TwoWords(p.esc, p.conv), p.conv)
          /\ a = NumArgs(TwoWords(p.esc, p.conv), p.arg.v)
          /\ p.means = Lead(p.conv, p.arg.v) \o NumDigits(p.esc, p.conv, p.arg.v)
       \/ /\ p.conv = "s" /\ Len(a) = 1 /\ ("s" \in DOMAIN a[1] => a[1].s \in Seq(STRING))
          /\ p.means = StrMeans(PadChar(p.esc), p.esc.alt, p.esc.width, p.esc.prec, a[1])
       \/ p.conv = "c" /\ Len(a) = 1 /\ p.means = <<a[1].c>>
       \/ p.conv = "%" /\ Len(a) = 0 /\ p.means = <<"%">>
       \/ p.conv = "o" /\ lib = "user" /\ Len(a) = 0 /\ p.means = <<"X", "X", "X">>

LEMMA PieceFields ==
  ASSUME NEW e, NEW conv, NEW arg, NEW args, NEW means, NEW p, p = Piece(e, conv, arg, args, means)
  PROVE  /\ p.conv = conv /\ p.esc = e /\ p.arg = arg /\ p.means = means
         /\ p.chars = FlattenSeq(EscapeParts(e, conv))
         /\ p.args = (SizeArgs(e.width, e.wstar) \o SizeArgs(e.prec, e.pstar)) \o args
<1> DEFINE c == FlattenSeq(EscapeParts(e, conv))
           t == (SizeArgs(e.width, e.wstar) \o SizeArgs(e.prec, e.pstar)) \o args
<1>1. p = [conv |-> conv, esc |-> e, arg |-> arg, chars |-> c, args |-> t, means |-> means]
  BY Zenon DEF Piece
<1> HIDE DEF c, t
<1>2. p.conv = conv /\ p.esc = e /\ p.arg = arg /\ p.means = means /\ p.chars = c /\ p.args = t
  BY ONLY <1>1
<1> QED
  BY ONLY <1>2, Zenon DEF c, t

LEMMA PadCharIs ==
  ASSUME NEW e \in Escapes
  PROVE  PadChar(e) \in {"0", "-", " "} /\ PadcAt(e, 9) = PadChar(e)
BY EscapeFields DEF PadChar, PadcAt

LEMMA PaddedIsSeq ==
  ASSUME NEW s, IsSeq(s), NEW n \in Int, NEW c
  PROVE  IsSeq(Padded(s, n, c))
<1>1. n - Len(s) \in Int
  BY SeqFacts
<1> DEFINE k == n - Len(s)
<1> HIDE DEF k
<1>2. IsSeq(Pad(k, c))
  BY <1>1, PadIsSeq DEF k
<1>3. IsSeq(Pad(k, c) \o s)
  BY <1>2, ConcatIsSeq
<1> QED
  BY ONLY <1>3, Zenon DEF Padded, k

LEMMA NumPiece ==
  ASSUME NEW p, NEW lib, IsEscape(p.esc), IsNumber(p, lib)
  PROVE  \E a : IsConversion(p, lib, a)
<1> DEFINE e == p.esc
           v == p.arg.v
           conv == p.conv
           two == TwoWords(e, conv)
           range == NumRange(two)
           a == NumArgs(two, v)
           sign == Lead(conv, v)
           digits == NumDigits(e, conv, v)
           m == sign \o digits
           arg == [v |-> v]
<1>1. p = Piece(e, conv, arg, a, m)
  BY Zenon DEF IsNumber, Number, Values, NumRange, NumArgs, NumDigits
<1>2. /\ p.conv \in {"d", "u", "x", "p"} \/ (p.conv = "o" /\ lib = "kern")
      /\ v \in NumValues(two, conv)
  BY DEF IsNumber, NumRange, Values, NumValues
<1>3. e \in Escapes
  BY DEF IsEscape
<1>4. e.width \in Nat
  BY <1>3, EscapeFields
<1>5. range \in Nat \ {0}
  <2>1. UINT \in Nat \ {0}
    BY FormatAssumption
  <2> QED
    BY <2>1 DEF NumRange, ULONGLONG
<1>6. v \in Int
  <2> DEFINE h == range \div 2
  <2>1. h \in Int
    BY <1>5
  <2>2. v \in IF conv = "d" THEN h - range .. h - 1 ELSE 0 .. range - 1
    BY <1>2 DEF NumValues
  <2> HIDE DEF h, range, v
  <2> QED
    BY <1>5, <2>1, <2>2
<1>7. IsSeq(sign)
  <2> DEFINE a1 == <<"-">>
             a2 == <<"0", "x">>
             a3 == <<>>
  <2>1. IsSeq(a1) /\ IsSeq(a2) /\ IsSeq(a3)
    BY SingleIs, PairAt, EmptySeqs
  <2>2. sign \in {a1, a2, a3}
    BY DEF Lead
  <2> HIDE DEF a1, a2, a3, sign
  <2> QED
    BY <2>1, <2>2
<1>8. IsSeq(digits)
  <2> DEFINE n == IF v < 0 THEN -v ELSE v
             base == NumBase(conv)
             c == PadChar(e)
             width == e.width
  <2>1. n \in Nat
    <3> HIDE DEF v
    <3> QED
      BY <1>6
  <2>2. base \in Nat /\ base >= 2
    <3>1. base \in {8, 10, 16}
      BY <1>2 DEF NumBase
    <3> QED
      BY <3>1
  <2>3. digits = Padded(Numeral(n, base), width, c)
    BY Zenon DEF NumDigits, NumeralOf, NumBase
  <2>5. width \in Int
    BY <1>4
  <2> HIDE DEF n, base, c, width, digits
  <2>4. IsSeq(Numeral(n, base))
    BY ONLY <2>1, <2>2, NumeralRounds
  <2>6. IsSeq(Padded(Numeral(n, base), width, c))
    BY ONLY <2>4, <2>5, PaddedIsSeq
  <2> QED
    BY ONLY <2>3, <2>6, Zenon
<1>9. IsSeq(a)
  <2> DEFINE b == v % range
             w1 == [w |-> b % UINT]
             w2 == [w |-> b \div UINT]
             w3 == [w |-> b]
  <2>1. a = IF two THEN <<w1, w2>> ELSE <<w3>>
    BY Zenon DEF NumArgs
  <2> HIDE DEF a, w1, w2, w3, two
  <2>2. IsSeq(<<w1, w2>>) /\ IsSeq(<<w3>>)
    BY PairAt, SingleIs
  <2> QED
    BY ONLY <2>1, <2>2, Zenon
<1> HIDE DEF e, conv, a, sign, digits, arg, v, two
<1>10. IsSeq(m)
  BY <1>7, <1>8, ConcatIsSeq
<1> HIDE DEF m
<1>11. /\ p.conv = conv /\ p.esc = e /\ p.means = m
       /\ p.chars = FlattenSeq(EscapeParts(e, conv))
       /\ p.args = (SizeArgs(e.width, e.wstar) \o SizeArgs(e.prec, e.pstar)) \o a
  BY ONLY <1>1, PieceFields
<1>12. IsEscape(e)
  BY DEF e
<1>13. a = NumArgs(TwoWords(p.esc, p.conv), p.arg.v) /\ m = Lead(p.conv, p.arg.v) \o NumDigits(p.esc, p.conv, p.arg.v)
       /\ p.arg.v \in NumValues(TwoWords(p.esc, p.conv), p.conv)
  BY ONLY <1>2, Zenon DEF a, m, sign, digits, two, e, conv, v
<1>14. IsConversion(p, lib, a)
  BY ONLY <1>2, <1>9, <1>10, <1>11, <1>12, <1>13, Zenon DEF IsConversion
<1> QED
  BY ONLY <1>14, Zenon

LEMMA StrTextIs ==
  ASSUME NEW arg, "s" \in DOMAIN arg => arg.s \in Seq(STRING)
  PROVE  IsSeq(StrText(arg))
<1>1. NullText \in Seq({"(", "n", "u", "l", ")"})
  BY DEF NullText
<1> QED
  BY <1>1 DEF IsSeq, StrText

LEMMA StrCutIs ==
  ASSUME NEW arg, "s" \in DOMAIN arg => arg.s \in Seq(STRING), NEW prec \in Nat
  PROVE  IsSeq(StrCut(prec, arg))
<1>1. IsSeq(StrText(arg))
  BY StrTextIs
<1> DEFINE s == StrText(arg)
<1> HIDE DEF s
<1>2. IsSeq(Cut(s, prec))
  BY <1>1, CutAppend DEF s
<1> QED
  BY <1>1, <1>2 DEF StrCut, s

LEMMA ShownIs ==
  ASSUME NEW alt, NEW s, IsSeq(s)
  PROVE  IsSeq(Shown(alt, s)) /\ Len(Shown(alt, s)) = Len(s)
<1>1. PICK S : s \in Seq(S)
  BY DEF IsSeq
<1>2. DOMAIN s = 1 .. Len(s) /\ Len(s) \in Nat
  BY <1>1
<1> DEFINE T == S \cup {"?"}
           V(k) == IF alt /\ s[k] \in Unseen THEN "?" ELSE s[k]
<1>3. \A k \in 1 .. Len(s) : V(k) \in T
  BY <1>1
<1> HIDE DEF T, V
<1>4. [k \in 1 .. Len(s) |-> V(k)] \in Seq(T) /\ Len([k \in 1 .. Len(s) |-> V(k)]) = Len(s)
  BY <1>2, <1>3
<1> QED
  BY <1>2, <1>4 DEF IsSeq, V, Shown

LEMMA StrMeansIs ==
  ASSUME NEW arg, "s" \in DOMAIN arg => arg.s \in Seq(STRING), NEW padc, NEW alt, NEW width \in Nat, NEW prec \in Nat
  PROVE  IsSeq(StrMeans(padc, alt, width, prec, arg))
<1> DEFINE cut == StrCut(prec, arg)
           shown == Shown(alt, cut)
           rest == width - Len(cut)
           pad == Pad(rest, " ")
<1>1. IsSeq(cut)
  BY StrCutIs
<1>2. IsSeq(shown)
  <2> HIDE DEF cut
  <2> QED
    BY <1>1, ShownIs
<1>3. rest \in Int
  <2> HIDE DEF cut
  <2> QED
    BY <1>1, SeqFacts
<1>4. IsSeq(pad)
  <2> HIDE DEF rest
  <2> QED
    BY <1>3, PadIsSeq
<1>5. StrMeans(padc, alt, width, prec, arg) = IF padc = "-" THEN shown \o pad ELSE Padded(shown, width, padc)
  BY Zenon DEF StrMeans
<1> HIDE DEF cut, shown, rest, pad
<1>6. IsSeq(shown \o pad)
  BY <1>2, <1>4, ConcatIsSeq
<1>7. IsSeq(Padded(shown, width, padc))
  <2>1. width \in Int
    OBVIOUS
  <2> QED
    BY ONLY <1>2, <2>1, PaddedIsSeq
<1> QED
  BY ONLY <1>5, <1>6, <1>7, Zenon

LEMMA StrPiece ==
  ASSUME NEW p, NEW lib, IsEscape(p.esc), IsStr(p)
  PROVE  \E a : IsConversion(p, lib, a)
<1> DEFINE e == p.esc
           arg == p.arg
           padc == PadChar(e)
           alt == e.alt
           width == e.width
           prec == e.prec
           conv == "s"
           a == <<arg>>
           m == StrMeans(padc, alt, width, prec, arg)
<1>1. p = Piece(e, conv, arg, a, m)
  BY Zenon DEF IsStr, Str, StrMeans, StrCut, StrText, Shown
<1>2. p.conv = "s" /\ e \in Escapes /\ ("s" \in DOMAIN arg => arg.s \in Seq(STRING))
  BY DEF IsStr, IsEscape
<1>3. width \in Nat /\ prec \in Nat
  BY <1>2, EscapeFields
<1>4. IsSeq(m)
  <2> HIDE DEF arg, padc, alt, width, prec
  <2> QED
    BY <1>2, <1>3, StrMeansIs
<1>5. IsSeq(a) /\ Len(a) = 1 /\ a[1] = arg
  <2> HIDE DEF arg
  <2> QED
    BY SingleIs
<1>6. IsEscape(e) /\ conv = "s"
  OBVIOUS
<1> HIDE DEF arg, padc, alt, width, prec, conv, a, m, e
<1>7. /\ p.conv = conv /\ p.esc = e /\ p.means = m
      /\ p.chars = FlattenSeq(EscapeParts(e, conv))
      /\ p.args = (SizeArgs(e.width, e.wstar) \o SizeArgs(e.prec, e.pstar)) \o a
  BY ONLY <1>1, PieceFields
<1>8. p.conv = "s" /\ Len(a) = 1 /\ ("s" \in DOMAIN a[1] => a[1].s \in Seq(STRING))
  BY ONLY <1>2, <1>5, Zenon
<1>9. m = StrMeans(PadChar(p.esc), p.esc.alt, p.esc.width, p.esc.prec, a[1])
  BY ONLY <1>5, Zenon DEF m, padc, alt, width, prec, e
<1>10. IsConversion(p, lib, a)
  BY ONLY <1>4, <1>5, <1>6, <1>7, <1>8, <1>9, Zenon DEF IsConversion
<1> QED
  BY ONLY <1>10, Zenon

\* The conversions for which the modifiers mean nothing.
LEMMA IdlePiece ==
  ASSUME NEW p, NEW lib, NEW esc, IsEscape(esc), NEW conv, NEW arg, NEW a, NEW m, p = Piece(esc, conv, arg, a, m),
         IsSeq(a), IsSeq(m),
         \/ conv = "c" /\ Len(a) = 1 /\ m = <<a[1].c>>
         \/ conv = "%" /\ Len(a) = 0 /\ m = <<"%">>
         \/ conv = "o" /\ lib = "user" /\ Len(a) = 0 /\ m = <<"X", "X", "X">>
  PROVE  IsConversion(p, lib, a)
<1>1. p = Piece(esc, conv, arg, a, m) /\ IsEscape(esc)
  OBVIOUS
<1>2. /\ p.conv = conv /\ p.esc = esc /\ p.means = m
      /\ p.chars = FlattenSeq(EscapeParts(esc, conv))
      /\ p.args = (SizeArgs(esc.width, esc.wstar) \o SizeArgs(esc.prec, esc.pstar)) \o a
  BY ONLY <1>1, PieceFields
<1>3. \/ conv = "c" /\ Len(a) = 1 /\ m = <<a[1].c>>
      \/ conv = "%" /\ Len(a) = 0 /\ m = <<"%">>
      \/ conv = "o" /\ lib = "user" /\ Len(a) = 0 /\ m = <<"X", "X", "X">>
  OBVIOUS
<1>4. IsSeq(a) /\ IsSeq(m)
  OBVIOUS
<1> QED
  BY ONLY <1>1, <1>2, <1>3, <1>4, Zenon DEF IsConversion

LEMMA PieceKinds ==
  ASSUME NEW p, NEW lib, NEW last, IsPiece(p, lib, last)
  PROVE  IsLiteral(p) \/ IsUnknown(p, last) \/ \E a : IsConversion(p, lib, a)
<1>1. CASE IsEscape(p.esc) /\ IsNumber(p, lib)
  BY <1>1, NumPiece
<1>2. CASE IsEscape(p.esc) /\ IsStr(p)
  BY <1>2, StrPiece
<1>3. CASE IsEscape(p.esc) /\ p = Character(p.esc, p.arg.c)
  <2> DEFINE esc == p.esc
             c == p.arg.c
             r == [c |-> c]
             a == <<r>>
             m == <<c>>
             conv == "c"
  <2>1. p = Piece(esc, conv, r, a, m)
    BY <1>3, Zenon DEF Character
  <2>2. r.c = c
    OBVIOUS
  <2>3. IsSeq(a) /\ Len(a) = 1 /\ a[1] = r /\ IsSeq(m)
    <3> HIDE DEF r, c
    <3> QED
      BY SingleIs
  <2>4. m = <<a[1].c>>
    BY ONLY <2>2, <2>3, Zenon
  <2>5. conv = "c"
    OBVIOUS
  <2>0. IsEscape(esc)
    BY <1>3
  <2> HIDE DEF esc, c, r, a, m, conv
  <2>6. IsConversion(p, lib, a)
    BY ONLY <2>0, <2>1, <2>3, <2>4, <2>5, IdlePiece
  <2> QED
    BY <2>6
<1>4. CASE IsEscape(p.esc) /\ p = PercentSign(p.esc)
  <2> DEFINE esc == p.esc
             a == <<>>
             m == <<"%">>
             conv == "%"
             arg == [v |-> 0]
  <2>1. p = Piece(esc, conv, arg, a, m)
    BY <1>4, Zenon DEF PercentSign
  <2>2. IsSeq(a) /\ Len(a) = 0 /\ IsSeq(m)
    BY EmptySeqs, SingleIs
  <2>3. conv = "%" /\ m = <<"%">>
    OBVIOUS
  <2>0. IsEscape(esc)
    BY <1>4
  <2> HIDE DEF esc, a, m, conv, arg
  <2>4. IsConversion(p, lib, a)
    BY ONLY <2>0, <2>1, <2>2, <2>3, IdlePiece
  <2> QED
    BY <2>4
<1>5. CASE IsEscape(p.esc) /\ lib = "user" /\ p = OctalOfUser(p.esc)
  <2> DEFINE esc == p.esc
             a == <<>>
             m == <<"X", "X", "X">>
             conv == "o"
             arg == [v |-> 0]
  <2>1. p = Piece(esc, conv, arg, a, m)
    BY <1>5, Zenon DEF OctalOfUser
  <2>2. IsSeq(a) /\ Len(a) = 0
    BY EmptySeqs
  <2>3. m \in Seq({"X"})
    OBVIOUS
  <2>4. conv = "o" /\ m = <<"X", "X", "X">> /\ lib = "user"
    BY <1>5
  <2>0. IsEscape(esc)
    BY <1>5
  <2> HIDE DEF esc, a, m, conv, arg
  <2>5. IsSeq(m)
    BY <2>3 DEF IsSeq
  <2>6. IsConversion(p, lib, a)
    BY ONLY <2>0, <2>1, <2>2, <2>4, <2>5, IdlePiece
  <2> QED
    BY <2>6
<1> QED
  BY <1>1, <1>2, <1>3, <1>4, <1>5, Zenon DEF IsPiece

----------------------------------------------------------------------------
\* What the conversions make of their arguments.

\* The flags when the conversion is reached.
LEMMA SpecLast ==
  ASSUME NEW e, IsEscape(e), NEW sp, sp = SpecAt(e, 9)
  PROVE  /\ sp.padc = PadcAt(e, 9) /\ sp.width = WidthAt(e, 9) /\ sp.precision = PrecisionAt(e, 9)
         /\ sp.lflag = LflagAt(e, 9) /\ sp.altflag = AltAt(e, 9)
         /\ WidthAt(e, 9) \in Int /\ (WidthAt(e, 9) = e.width \/ (WidthAt(e, 9) <= 0 /\ e.width = 0))
         /\ LflagAt(e, 9) = e.longs
<1>1. e.width \in Nat /\ e.wstar \in BOOLEAN /\ e.prec \in Nat /\ e.longs \in 0 .. 2
  BY EscapeFields DEF IsEscape
<1>2. WidthAt(e, 9) \in Int /\ (WidthAt(e, 9) = e.width \/ (WidthAt(e, 9) <= 0 /\ e.width = 0))
  BY <1>1 DEF WidthAt
<1>3. LflagAt(e, 9) = e.longs
  BY <1>1 DEF LflagAt
<1>4. /\ sp.padc = PadcAt(e, 9) /\ sp.width = WidthAt(e, 9) /\ sp.precision = PrecisionAt(e, 9)
      /\ sp.lflag = LflagAt(e, 9) /\ sp.altflag = AltAt(e, 9)
  BY DEF SpecAt
<1> QED
  BY ONLY <1>2, <1>3, <1>4, Zenon

\* No width, and a width of 0, are no padding.
LEMMA SamePadding ==
  ASSUME NEW s, IsSeq(s), NEW n \in Int, NEW m \in Int, n = m \/ (n <= 0 /\ m = 0), NEW c
  PROVE  Padded(s, n, c) = Padded(s, m, c)
<1>1. CASE n = m
  BY <1>1
<1>2. CASE n <= 0 /\ m = 0
  <2> DEFINE i == n - Len(s)
             j == m - Len(s)
  <2>1. ~(i > 0) /\ ~(j > 0)
    <3>1. Len(s) \in Nat
      BY SeqFacts
    <3> QED
      BY <1>2, <3>1
  <2> HIDE DEF i, j
  <2>2. Pad(i, c) = <<>> /\ Pad(j, c) = <<>>
    BY ONLY <2>1 DEF Pad
  <2>3. Pad(i, c) \o s = Pad(j, c) \o s
    BY ONLY <2>2, Zenon
  <2> QED
    BY ONLY <2>3, Zenon DEF Padded, i, j
<1> QED
  BY <1>1, <1>2

LEMMA PrintnumberIs ==
  ASSUME NEW e, IsEscape(e), spec = SpecAt(e, 9), NEW num \in Nat, NEW base \in {8, 10, 16}
  PROVE  printnumber(num, base) = Padded(Numeral(num, base), e.width, PadChar(e))
<1> DEFINE w == spec.width
           c == spec.padc
           v == e.width
<1>1. /\ w \in Int /\ v \in Int /\ (w = v \/ (w <= 0 /\ v = 0))
  <2>1. e.width \in Nat
    BY EscapeFields DEF IsEscape
  <2>2. w = WidthAt(e, 9) /\ WidthAt(e, 9) \in Int /\ (WidthAt(e, 9) = e.width \/ (WidthAt(e, 9) <= 0 /\ e.width = 0))
    BY SpecLast
  <2> QED
    BY <2>1, <2>2
<1>2. c = PadChar(e)
  BY SpecLast, PadCharIs DEF IsEscape
<1>3. num \in Nat /\ base \in Nat /\ base >= 2
  OBVIOUS
<1>4. printnumber(num, base) = printnum(num, base, w, c)
  BY DEF printnumber
<1> HIDE DEF w, c, v
<1>5. printnum(num, base, w, c) = Padded(Numeral(num, base), w, c)
  BY ONLY <1>1, <1>3, PrintnumIs
<1> DEFINE s == Numeral(num, base)
<1>6. IsSeq(s)
  BY ONLY <1>3, NumeralRounds
<1> HIDE DEF s
<1>7. Padded(s, w, c) = Padded(s, v, c)
  BY ONLY <1>1, <1>6, SamePadding
<1> QED
  BY ONLY <1>2, <1>4, <1>5, <1>7, Zenon DEF s, v

LEMMA RangeFacts ==
  /\ UINT \in Nat /\ UINT >= 2 /\ ULONGLONG \in Nat /\ UINT <= ULONGLONG
  /\ \A two : NumRange(two) \in Nat /\ NumRange(two) >= 2 /\ NumRange(two) <= ULONGLONG
<1>1. UINT \in Nat /\ UINT >= 2
  BY FormatAssumption
<1>2. UINT * UINT \in Nat /\ UINT <= UINT * UINT
  <2> DEFINE k == UINT - 2
  <2>1. k \in Nat /\ UINT = k + 2
    BY <1>1
  <2> HIDE DEF k
  <2>2. UINT * UINT = UINT * k + UINT + UINT
    BY ONLY <1>1, <2>1
  <2>3. UINT * k \in Nat
    BY ONLY <1>1, <2>1
  <2> QED
    BY ONLY <1>1, <2>2, <2>3
<1> QED
  BY <1>1, <1>2 DEF ULONGLONG, NumRange

\* The words of a number are read as the number.
LEMMA WordsRead ==
  ASSUME NEW e, IsEscape(e), spec = SpecAt(e, 9), NEW v \in Int,
         NEW two, two <=> e.longs = 2, NEW a, a = NumArgs(two, v),
         Len(ap) \in Nat, Len(a) <= Len(ap), \A i \in 1 .. Len(a) : ap[i] = a[i]
  PROVE  /\ Words = Len(a) /\ \A k \in 1 .. Words : IsWord(k)
         /\ getuint = v % NumRange(two)
<1> DEFINE r == NumRange(two)
           b == v % r
<1>1. r \in Nat /\ r >= 2 /\ UINT \in Nat /\ UINT >= 2
  BY RangeFacts
<1>2. spec.lflag = e.longs /\ e.longs \in 0 .. 2
  BY SpecLast, EscapeFields DEF IsEscape
<1>3. b \in 0 .. r - 1
  <2> HIDE DEF r
  <2> QED
    BY <1>1
<1>4. CASE two
  <2> DEFINE w1 == [w |-> b % UINT]
             w2 == [w |-> b \div UINT]
  <2>1. a = <<w1, w2>>
    BY <1>4 DEF NumArgs
  <2>2. w1.w = b % UINT /\ w2.w = b \div UINT
    OBVIOUS
  <2> HIDE DEF w1, w2
  <2>3. Len(a) = 2 /\ a[1] = w1 /\ a[2] = w2
    BY ONLY <2>1, PairAt
  <2>4. 2 <= Len(ap) /\ ap[1] = w1 /\ ap[2] = w2
    BY <2>3
  <2>5. r = UINT * UINT
    BY <1>4 DEF NumRange, ULONGLONG
  <2> DEFINE lo == b % UINT
             hi == b \div UINT
  <2> HIDE DEF b, r
  <2>6. b \in Nat /\ lo \in 0 .. UINT - 1 /\ hi \in Nat /\ b = lo + UINT * hi
    <3>1. b \in Nat
      BY <1>1, <1>3
    <3> QED
      BY <1>1, <3>1
  <2> HIDE DEF lo, hi
  <2>7. hi \in 0 .. UINT - 1
    <3>1. SUFFICES ASSUME hi >= UINT PROVE FALSE
      BY <1>1, <2>6
    <3> DEFINE k == hi - UINT
    <3>2. k \in Nat /\ hi = k + UINT
      BY <1>1, <2>6, <3>1
    <3> HIDE DEF k
    <3>3. UINT * hi = UINT * k + UINT * UINT /\ UINT * k \in Nat /\ UINT * UINT \in Nat
      BY ONLY <1>1, <3>2
    <3>4. b < UINT * UINT
      BY <1>1, <1>3, <2>5
    <3> QED
      BY ONLY <2>6, <3>3, <3>4, <1>1
  <2>8. spec.lflag >= 2
    <3>1. e.longs = 2
      BY ONLY <1>4, two <=> e.longs = 2, Zenon
    <3> QED
      BY ONLY <1>2, <3>1
  <2>9. Words = 2 /\ getuint = ap[1].w + UINT * ap[2].w
    BY <2>8 DEF Words, getuint
  <2>10. ap[1].w = lo /\ ap[2].w = hi
    BY ONLY <2>2, <2>4, Zenon DEF lo, hi
  <2>11. getuint = b
    BY ONLY <2>6, <2>9, <2>10
  <2>12. \A k \in 1 .. 2 : IsWord(k)
    <3>1. IsWord(1) /\ IsWord(2)
      BY <2>4, <2>6, <2>7, <2>10 DEF IsWord
    <3> QED
      BY <3>1
  <2> QED
    BY <2>3, <2>9, <2>11, <2>12 DEF b, r
<1>5. CASE ~two
  <2> DEFINE w1 == [w |-> b]
  <2>1. a = <<w1>>
    BY <1>5 DEF NumArgs
  <2>2. w1.w = b
    OBVIOUS
  <2> HIDE DEF w1
  <2>3. Len(a) = 1 /\ a[1] = w1
    BY ONLY <2>1, SingleIs
  <2>4. 1 <= Len(ap) /\ ap[1] = w1
    BY <2>3
  <2>5. r = UINT
    BY <1>5 DEF NumRange
  <2>6. ~(spec.lflag >= 2)
    <3>1. e.longs # 2
      BY ONLY <1>5, two <=> e.longs = 2, Zenon
    <3> QED
      BY ONLY <1>2, <3>1
  <2>7. Words = 1 /\ getuint = ap[1].w
    BY ONLY <2>6, Zenon DEF Words, getuint
  <2> HIDE DEF b, r
  <2>8. ap[1].w = b
    BY ONLY <2>2, <2>4, Zenon
  <2>9. \A k \in 1 .. 1 : IsWord(k)
    <3>1. IsWord(1)
      BY <1>3, <2>4, <2>5, <2>8 DEF IsWord
    <3> QED
      BY <3>1
  <2> QED
    BY <2>3, <2>7, <2>8, <2>9 DEF b, r
<1> QED
  BY <1>4, <1>5

\* A pointer is one word, whatever the flags.
LEMMA PointerRead ==
  ASSUME NEW v \in 0 .. UINT - 1, NEW a, a = NumArgs(FALSE, v),
         Len(ap) \in Nat, Len(a) <= Len(ap), \A i \in 1 .. Len(a) : ap[i] = a[i]
  PROVE  Len(a) = 1 /\ IsWord(1) /\ ap[1].w = v
<1> DEFINE w1 == [w |-> v]
<1>1. UINT \in Nat /\ UINT >= 2
  BY RangeFacts
<1>2. v % UINT = v
  BY ONLY <1>1, v \in 0 .. UINT - 1
<1>3. a = <<w1>>
  BY ONLY <1>2, a = NumArgs(FALSE, v), Zenon DEF NumArgs, NumRange
<1>4. w1.w = v
  OBVIOUS
<1> HIDE DEF w1
<1>5. Len(a) = 1 /\ a[1] = w1
  BY ONLY <1>3, SingleIs
<1>6. 1 <= Len(ap) /\ ap[1] = w1
  <2>1. 1 \in 1 .. Len(a) /\ 1 <= Len(ap)
    BY ONLY <1>5, Len(ap) \in Nat, Len(a) <= Len(ap)
  <2>2. ap[1] = a[1]
    BY ONLY <2>1, \A i \in 1 .. Len(a) : ap[i] = a[i], Zenon
  <2> QED
    BY ONLY <1>5, <2>1, <2>2, Zenon
<1>7. ap[1].w = v
  BY ONLY <1>4, <1>6, Zenon
<1>8. IsWord(1)
  BY <1>6, <1>7 DEF IsWord
<1> QED
  BY <1>5, <1>7, <1>8

\* A signed number has the word's bits, and its absolute value is a number.
LEMMA SignedIs ==
  ASSUME NEW r \in Nat, r >= 2, r <= ULONGLONG, NEW v \in r \div 2 - r .. r \div 2 - 1
  PROVE  Signed(v % r, r) = v /\ Magnitude(v) = IF v < 0 THEN -v ELSE v
<1> DEFINE h == r \div 2
<1>1. h \in Nat /\ h >= 1 /\ h < r /\ v \in h - r .. h - 1
  <2>1. r \in Nat /\ r >= 2 /\ v \in h - r .. h - 1
    OBVIOUS
  <2>2. h \in Nat /\ h >= 1 /\ h < r
    BY <2>1
  <2> QED
    BY <2>1, <2>2
<1>2. ULONGLONG \in Nat
  BY RangeFacts
<1>3. Signed(v % r, r) = IF v % r >= h THEN (v % r) - r ELSE v % r
  BY DEF Signed
<1> HIDE DEF h
<1>4. r \in Nat /\ r >= 2 /\ r <= ULONGLONG
  OBVIOUS
<1>5. CASE v < 0
  <2>1. v % r = v + r
    <3>1. v + r \in 0 .. r - 1
      BY <1>1, <1>4, <1>5
    <3> QED
      BY ONLY <1>1, <1>4, <1>5, <3>1
  <2>2. Signed(v % r, r) = v
    BY <1>1, <1>3, <1>4, <2>1
  <2>3. -v \in 0 .. ULONGLONG - 1
    BY <1>1, <1>2, <1>4, <1>5
  <2>4. (-v) % ULONGLONG = -v
    BY ONLY <1>2, <2>3
  <2> QED
    BY <1>5, <2>2, <2>4 DEF Magnitude
<1>6. CASE ~(v < 0)
  <2>1. v \in 0 .. r - 1
    BY <1>1, <1>4, <1>6
  <2>2. v % r = v
    BY ONLY <1>4, <2>1
  <2> QED
    BY <1>1, <1>3, <1>6, <2>2 DEF Magnitude
<1> QED
  BY <1>5, <1>6

\* The conversion of the piece p is reached, with the arguments a.
Reached(p, a) ==
    /\ IsConversion(p, job.lib, a) /\ mode = "escape" /\ At(fp) = p.conv /\ spec = SpecAt(p.esc, 9)
    /\ Len(ap) \in Nat /\ Len(a) <= Len(ap) /\ \A i \in 1 .. Len(a) : ap[i] = a[i]

IsNumConv(p, a) ==
    /\ p.conv \in {"d", "u", "x", "p"} \/ (p.conv = "o" /\ job.lib = "kern")
    /\ p.arg.v \in NumValues(TwoWords(p.esc, p.conv), p.conv)
    /\ a = NumArgs(TwoWords(p.esc, p.conv), p.arg.v)
    /\ p.means = Lead(p.conv, p.arg.v) \o NumDigits(p.esc, p.conv, p.arg.v)

IsStrConv(p, a) ==
    /\ p.conv = "s" /\ Len(a) = 1 /\ ("s" \in DOMAIN a[1] => a[1].s \in Seq(STRING))
    /\ p.means = StrMeans(PadChar(p.esc), p.esc.alt, p.esc.width, p.esc.prec, a[1])

LEMMA ConvKinds ==
  ASSUME NEW p, NEW a, IsConversion(p, job.lib, a)
  PROVE  \/ IsNumConv(p, a) \/ IsStrConv(p, a)
         \/ p.conv = "c" /\ Len(a) = 1 /\ p.means = <<a[1].c>>
         \/ p.conv = "%" /\ Len(a) = 0 /\ p.means = <<"%">>
         \/ p.conv = "o" /\ job.lib = "user" /\ Len(a) = 0 /\ p.means = <<"X", "X", "X">>
BY Zenon DEF IsConversion, IsNumConv, IsStrConv

LEMMA NumRead ==
  ASSUME NEW p, NEW a, Reached(p, a), IsNumConv(p, a)
  PROVE  /\ p.arg.v \in Int
         /\ p.conv # "p" => Words = Len(a) /\ \A k \in 1 .. Words : IsWord(k)
         /\ p.conv = "d" => getint = p.arg.v /\ Magnitude(p.arg.v) = IF p.arg.v < 0 THEN -p.arg.v ELSE p.arg.v
         /\ p.conv # "d" => p.arg.v \in Nat
         /\ p.conv \notin {"d", "p"} => getuint = p.arg.v
         /\ p.conv = "p" => Len(a) = 1 /\ IsWord(1) /\ ap[1].w = p.arg.v
<1> DEFINE e == p.esc
           v == p.arg.v
           two == TwoWords(e, p.conv)
           r == NumRange(two)
           h == r \div 2
<1>1. r \in Nat /\ r >= 2 /\ r <= ULONGLONG
  BY RangeFacts
<1>2. IsEscape(e) /\ spec = SpecAt(e, 9) /\ a = NumArgs(two, v)
  BY DEF Reached, IsConversion, IsNumConv
<1>3. Len(ap) \in Nat /\ Len(a) <= Len(ap) /\ \A i \in 1 .. Len(a) : ap[i] = a[i]
  BY DEF Reached
<1>4. h \in Int
  BY <1>1
<1>5. v \in IF p.conv = "d" THEN h - r .. h - 1 ELSE 0 .. r - 1
  BY DEF IsNumConv, NumValues
<1>6. two <=> e.longs = 2 /\ p.conv # "p"
  BY DEF TwoWords
<1> HIDE DEF e, v, two, r, h
<1>7. v \in Int
  BY <1>1, <1>4, <1>5
<1>8. ASSUME p.conv # "p"
      PROVE  Words = Len(a) /\ (\A k \in 1 .. Words : IsWord(k)) /\ getuint = v % NumRange(two)
  <2>1. two <=> e.longs = 2
    BY ONLY <1>6, <1>8, Zenon
  <2> QED
    BY ONLY <1>2, <1>3, <1>7, <2>1, WordsRead
<1>9. spec.lflag = e.longs /\ e.longs \in 0 .. 2
  BY <1>2, SpecLast, EscapeFields DEF IsEscape
<1>10. ASSUME p.conv = "d" PROVE getint = v /\ Magnitude(v) = IF v < 0 THEN -v ELSE v
  <2>1. v \in r \div 2 - r .. r \div 2 - 1
    BY <1>5, <1>10 DEF h
  <2>2. Signed(v % r, r) = v /\ Magnitude(v) = IF v < 0 THEN -v ELSE v
    BY ONLY <1>1, <2>1, SignedIs
  <2>3. spec.lflag >= 2 <=> two
    <3>1. two <=> e.longs = 2
      BY <1>6, <1>10, Zenon
    <3>2. spec.lflag >= 2 <=> e.longs = 2
      BY ONLY <1>9
    <3> QED
      BY ONLY <3>1, <3>2, Zenon
  <2>4. getint = Signed(getuint, r)
    BY ONLY <2>3, Zenon DEF getint, r, NumRange
  <2>5. getuint = v % r
    BY <1>8, <1>10 DEF r
  <2>6. getint = v
    BY ONLY <2>2, <2>4, <2>5, Zenon
  <2> QED
    BY <2>2, <2>6
<1>11. ASSUME p.conv # "d" PROVE v % r = v /\ v \in Nat
  <2>1. v \in 0 .. r - 1
    BY <1>5, <1>11
  <2> QED
    BY ONLY <1>1, <2>1
<1>12. ASSUME p.conv \notin {"d", "p"} PROVE getuint = v
  BY <1>8, <1>11, <1>12 DEF r
<1>13. ASSUME p.conv = "p" PROVE Len(a) = 1 /\ IsWord(1) /\ ap[1].w = v
  <2>1. ~two
    BY ONLY <1>6, <1>13, Zenon
  <2>2. r = UINT /\ a = NumArgs(FALSE, v)
    BY ONLY <1>2, <2>1, Zenon DEF r, NumRange, NumArgs
  <2>3. v \in 0 .. UINT - 1
    BY <1>5, <1>13, <2>2
  <2> QED
    BY ONLY <1>3, <2>2, <2>3, PointerRead
<1> QED
  BY <1>7, <1>8, <1>10, <1>11, <1>12, <1>13 DEF v

LEMMA NumConverts ==
  ASSUME NEW p, NEW a, Reached(p, a), IsNumConv(p, a), Conversion
  PROVE  Convert(p.conv, Len(a), p.means)
<1> DEFINE e == p.esc
           v == p.arg.v
           c == PadChar(e)
           n == IF v < 0 THEN -v ELSE v
<1>1. v \in Int
  BY NumRead
<1>2. n \in Nat
  <2> HIDE DEF v
  <2> QED
    BY <1>1
<1>3. /\ p.conv # "p" => Words = Len(a)
      /\ p.conv = "d" => getint = v /\ Magnitude(v) = n
      /\ p.conv # "d" => v \in Nat
      /\ p.conv \notin {"d", "p"} => getuint = v
      /\ p.conv = "p" => Len(a) = 1 /\ ap[1].w = v
  BY NumRead
<1>4. ASSUME NEW num \in Nat, NEW base \in {8, 10, 16}
      PROVE  printnumber(num, base) = Padded(Numeral(num, base), e.width, c)
  <2>1. IsEscape(e) /\ spec = SpecAt(e, 9)
    BY DEF Reached, IsConversion, IsNumConv
  <2> HIDE DEF e
  <2>2. printnumber(num, base) = Padded(Numeral(num, base), e.width, PadChar(e))
    BY <2>1, PrintnumberIs
  <2> QED
    BY ONLY <2>2, Zenon
<1>5. p.means = Lead(p.conv, v) \o NumDigits(e, p.conv, v)
  BY DEF IsNumConv
<1>6. NumDigits(e, p.conv, v) = Padded(Numeral(n, NumBase(p.conv)), e.width, c)
  BY Zenon DEF NumDigits, NumeralOf, NumBase
<1>7. At(fp) = p.conv
  BY DEF Reached
<1> DEFINE s == Lead(p.conv, v)
           d == NumDigits(e, p.conv, v)
<1> HIDE DEF c, n, v, e, s, d
<1>8. p.means = s \o d /\ d = Padded(Numeral(n, NumBase(p.conv)), e.width, c)
  BY <1>5, <1>6 DEF s, d
<1>9. ASSUME NEW b \in {8, 10, 16}, NumBase(p.conv) = b PROVE d = printnumber(n, b)
  BY ONLY <1>2, <1>4, <1>8, <1>9, Zenon
<1>10. CASE p.conv = "d"
  <2>0. Words = Len(a)
    BY <1>3, <1>10
  <2>1. Convert("d", Words, (IF getint < 0 THEN <<"-">> ELSE <<>>) \o printnumber(Magnitude(getint), 10))
    BY <1>7, <1>10 DEF Conversion, Convert
  <2>2. NumBase(p.conv) = 10
    BY <1>10 DEF NumBase
  <2>3. d = printnumber(n, 10)
    BY <1>9, <2>2
  <2>4. s = IF v < 0 THEN <<"-">> ELSE <<>>
    BY <1>10 DEF s, Lead
  <2>5. getint = v /\ Magnitude(v) = n
    BY <1>3, <1>10
  <2> DEFINE t == (IF getint < 0 THEN <<"-">> ELSE <<>>) \o printnumber(Magnitude(getint), 10)
  <2>6. t = s \o d
    BY ONLY <2>3, <2>4, <2>5, Zenon
  <2>7. Convert("d", Words, t)
    BY <2>1
  <2> HIDE DEF t
  <2> QED
    BY ONLY <1>8, <1>10, <2>0, <2>6, <2>7, Zenon
<1>11. ASSUME p.conv # "d", NEW b \in {8, 10, 16}, NumBase(p.conv) = b
       PROVE  IsSeq(d) /\ d = printnumber(v, b)
  <2>1. v \in Nat
    BY <1>3, <1>11
  <2>2. n = v
    BY <2>1 DEF n
  <2>3. d = printnumber(n, b)
    BY <1>9, <1>11
  <2>4. IsSeq(d)
    <3> DEFINE w == e.width
               t == Numeral(n, b)
    <3>1. w \in Int
      <4>1. e \in Escapes
        BY DEF e, Reached, IsConversion, IsEscape
      <4>2. w \in Nat
        BY <4>1, EscapeFields
      <4> QED
        BY <4>2
    <3>2. b \in Nat /\ b >= 2
      OBVIOUS
    <3>3. IsSeq(t)
      BY ONLY <1>2, <3>2, NumeralRounds
    <3> HIDE DEF w, t
    <3>4. IsSeq(Padded(t, w, c))
      BY ONLY <3>1, <3>3, PaddedIsSeq
    <3> QED
      BY ONLY <1>8, <1>11, <3>4, Zenon DEF t, w
  <2> QED
    BY ONLY <2>2, <2>3, <2>4, Zenon
<1>12. ASSUME s = <<>>, IsSeq(d) PROVE p.means = d
  <2>1. <<>> \o d = d
    BY ONLY <1>12, EmptySeqs
  <2> QED
    BY ONLY <1>8, <1>12, <2>1, Zenon
<1>13. CASE p.conv = "u"
  <2>1. Convert("u", Words, printnumber(getuint, 10))
    BY <1>7, <1>13 DEF Conversion, Convert
  <2>2. NumBase(p.conv) = 10
    BY <1>13 DEF NumBase
  <2>3. IsSeq(d) /\ d = printnumber(v, 10)
    BY <1>11, <1>13, <2>2
  <2>4. s = <<>>
    <3>1. v \in Nat
      BY <1>3, <1>13
    <3> QED
      BY <1>13, <3>1 DEF s, Lead
  <2>5. p.means = d
    BY <1>12, <2>3, <2>4
  <2>6. Words = Len(a) /\ getuint = v
    BY <1>3, <1>13
  <2> QED
    BY ONLY <1>13, <2>1, <2>3, <2>5, <2>6, Zenon
<1>14. CASE p.conv = "x"
  <2>1. Convert("x", Words, printnumber(getuint, 16))
    BY <1>7, <1>14 DEF Conversion, Convert
  <2>2. NumBase(p.conv) = 16
    BY <1>14 DEF NumBase
  <2>3. IsSeq(d) /\ d = printnumber(v, 16)
    BY <1>11, <1>14, <2>2
  <2>4. s = <<>>
    <3>1. v \in Nat
      BY <1>3, <1>14
    <3> QED
      BY <1>14, <3>1 DEF s, Lead
  <2>5. p.means = d
    BY <1>12, <2>3, <2>4
  <2>6. Words = Len(a) /\ getuint = v
    BY <1>3, <1>14
  <2> QED
    BY ONLY <1>14, <2>1, <2>3, <2>5, <2>6, Zenon
<1>15. CASE p.conv = "o"
  <2>0. job.lib = "kern"
    BY <1>15 DEF IsNumConv
  <2>1. Convert("o", Words, printnumber(getuint, 8))
    BY <1>7, <1>15, <2>0 DEF Conversion, Convert
  <2>2. NumBase(p.conv) = 8
    BY <1>15 DEF NumBase
  <2>3. IsSeq(d) /\ d = printnumber(v, 8)
    BY <1>11, <1>15, <2>2
  <2>4. s = <<>>
    <3>1. v \in Nat
      BY <1>3, <1>15
    <3> QED
      BY <1>15, <3>1 DEF s, Lead
  <2>5. p.means = d
    BY <1>12, <2>3, <2>4
  <2>6. Words = Len(a) /\ getuint = v
    BY <1>3, <1>15
  <2> QED
    BY ONLY <1>15, <2>1, <2>3, <2>5, <2>6, Zenon
<1>16. CASE p.conv = "p"
  <2> DEFINE t == <<"0", "x">> \o printnumber(ap[1].w, 16)
             one == 1
  <2>1. Convert("p", one, t)
    BY <1>7, <1>16 DEF Conversion, Convert
  <2>2. NumBase(p.conv) = 16
    BY <1>16 DEF NumBase
  <2>3. d = printnumber(v, 16)
    BY <1>11, <1>16, <2>2
  <2>4. s = <<"0", "x">>
    <3>1. v \in Nat
      BY <1>3, <1>16
    <3> QED
      BY <1>16, <3>1 DEF s, Lead
  <2>5. ap[1].w = v /\ one = Len(a)
    BY <1>3, <1>16
  <2>6. t = s \o d
    BY ONLY <2>3, <2>4, <2>5, Zenon
  <2> HIDE DEF t, one
  <2> QED
    BY ONLY <1>8, <1>16, <2>1, <2>5, <2>6, Zenon
<1>17. p.conv \in {"d", "u", "x", "p", "o"}
  BY DEF IsNumConv
<1> QED
  BY ONLY <1>10, <1>13, <1>14, <1>15, <1>16, <1>17, Zenon

LEMMA StrConverts ==
  ASSUME NEW p, NEW a, Reached(p, a), IsStrConv(p, a), Conversion
  PROVE  Convert(p.conv, Len(a), p.means)
<1> DEFINE e == p.esc
           arg == a[1]
           padc == PadChar(e)
           prec == e.prec
           width == e.width
           left == padc = "-"
           alt == e.alt
           cut == StrCut(prec, arg)
           shown == Shown(alt, cut)
<1>1. /\ e \in Escapes /\ IsEscape(e) /\ spec = SpecAt(e, 9)
      /\ p.conv = "s" /\ At(fp) = "s" /\ Len(a) = 1 /\ ("s" \in DOMAIN arg => arg.s \in Seq(STRING))
      /\ 1 <= Len(ap) /\ ap[1] = arg
  BY DEF Reached, IsConversion, IsStrConv, IsEscape
<1>2. prec \in Nat /\ width \in Nat /\ alt \in BOOLEAN
  BY <1>1, EscapeFields
<1>3. /\ spec.padc = PadcAt(e, 9) /\ spec.width = WidthAt(e, 9) /\ spec.precision = PrecisionAt(e, 9)
      /\ spec.altflag = AltAt(e, 9)
      /\ WidthAt(e, 9) \in Int /\ (WidthAt(e, 9) = width \/ (WidthAt(e, 9) <= 0 /\ width = 0))
  BY <1>1, SpecLast
<1>4. spec.padc = padc
  BY <1>1, <1>3, PadCharIs
<1>5. spec.padc = "-" <=> left
  BY <1>4
<1>6. spec.altflag = alt
  BY <1>3 DEF AltAt
<1>7. spec.precision = IF prec > 0 THEN prec ELSE -1
  BY <1>3 DEF PrecisionAt
<1>8. (IF spec.precision < 0 THEN StrText(ap[1]) ELSE Cut(StrText(ap[1]), spec.precision)) = cut
  <2>1. CASE prec = 0
    <3>1. spec.precision < 0
      BY <1>7, <2>1
    <3> QED
      BY <1>1, <2>1, <3>1 DEF StrCut
  <2>2. CASE prec # 0
    <3>1. spec.precision = prec /\ ~(spec.precision < 0)
      BY <1>2, <1>7, <2>2
    <3> QED
      BY ONLY <1>1, <2>2, <3>1, Zenon DEF StrCut
  <2> QED
    BY <2>1, <2>2
<1> DEFINE rest == spec.width - Len(cut)
           padl == Pad(rest, spec.padc)
           padr == Pad(rest, " ")
<1>9. ConvertString = IF spec.width > 0 /\ spec.padc # "-" THEN padl \o shown ELSE shown \o padr
  <2> DEFINE q == StrText(ap[1])
             u == IF spec.precision < 0 THEN q ELSE Cut(q, spec.precision)
             seen == Shown(spec.altflag, u)
             more == spec.width - Len(u)
  <2>1. ConvertString = IF spec.width > 0 /\ spec.padc # "-" THEN Pad(more, spec.padc) \o seen ELSE seen \o Pad(more, " ")
    BY Zenon DEF ConvertString, StrText, Shown
  <2> HIDE DEF q, cut
  <2>2. u = cut
    BY <1>8 DEF q
  <2> HIDE DEF u
  <2>3. seen = shown /\ more = rest
    BY ONLY <1>6, <2>2, Zenon
  <2> HIDE DEF seen, shown, more, rest
  <2> QED
    BY ONLY <2>1, <2>3, Zenon
<1>10. IsSeq(cut)
  BY <1>1, <1>2, StrCutIs
<1> HIDE DEF cut, padc
<1>11. IsSeq(shown) /\ Len(shown) = Len(cut) /\ Len(cut) \in Nat
  BY <1>10, ShownIs, SeqFacts
<1>12. p.means = IF left THEN shown \o Pad(width - Len(cut), " ") ELSE Pad(width - Len(shown), padc) \o shown
  <2>1. p.means = StrMeans(padc, alt, width, prec, arg)
    BY DEF IsStrConv, padc
  <2> QED
    BY ONLY <2>1, Zenon DEF StrMeans, Padded, cut
<1> DEFINE l == Len(cut)
           w == spec.width
           room == width - l
<1>13. w \in Int /\ (w = width \/ (w <= 0 /\ width = 0)) /\ l \in Nat
  BY <1>3, <1>11
<1> HIDE DEF l, w, shown
<1>14. \A c : Pad(w - l, c) = Pad(room, c)
  <2>1. CASE w = width
    BY <2>1
  <2>2. CASE w <= 0 /\ width = 0
    <3> DEFINE i == w - l
    <3>1. ~(i > 0) /\ ~(room > 0)
      BY <1>13, <2>2
    <3> HIDE DEF i, room
    <3> QED
      BY ONLY <3>1 DEF Pad, i
  <2> QED
    BY <1>13, <2>1, <2>2
<1>15. ConvertString = p.means
  <2>1. padr = Pad(room, " ") /\ padl = Pad(room, spec.padc)
    BY ONLY <1>14, Zenon DEF l, w
  <2>2. CASE left
    <3>1. ConvertString = shown \o padr
      BY ONLY <1>5, <1>9, <2>2, Zenon
    <3>2. p.means = shown \o Pad(room, " ")
      BY ONLY <1>12, <2>2, Zenon DEF l
    <3> QED
      BY ONLY <2>1, <3>1, <3>2, Zenon
  <2>3. CASE ~left
    <3>1. p.means = Pad(room, padc) \o shown
      BY ONLY <1>11, <1>12, <2>3, Zenon DEF l
    <3>2. CASE w > 0
      <4>1. ConvertString = padl \o shown
        BY ONLY <1>5, <1>9, <2>3, <3>2, Zenon DEF w
      <4>2. padl = Pad(room, padc)
        BY ONLY <1>4, <2>1, Zenon
      <4> QED
        BY ONLY <3>1, <4>1, <4>2, Zenon
    <3>3. CASE ~(w > 0)
      <4>1. ConvertString = shown \o padr
        BY ONLY <1>9, <3>3, Zenon DEF w
      <4> DEFINE pad == Pad(room, padc)
                 blank == Pad(room, " ")
      <4>2. pad = <<>> /\ blank = <<>>
        <5>1. ~(room > 0)
          BY <1>13, <3>3
        <5> HIDE DEF room
        <5> QED
          BY <5>1 DEF Pad
      <4> HIDE DEF pad, blank
      <4>3. shown \o <<>> = shown /\ <<>> \o shown = shown
        BY ONLY <1>11, EmptySeqs
      <4>4. ConvertString = shown \o blank /\ p.means = pad \o shown
        BY ONLY <2>1, <3>1, <4>1, Zenon DEF pad, blank
      <4> QED
        BY ONLY <4>2, <4>3, <4>4, Zenon
    <3> QED
      BY <3>2, <3>3
  <2> QED
    BY <2>2, <2>3
<1>16. Convert("s", 1, ConvertString)
  BY <1>1 DEF Conversion, Convert
<1> QED
  BY ONLY <1>1, <1>15, <1>16, Zenon

\* A conversion prints what it means, of as many arguments as are its own.
LEMMA ConversionMeans ==
  ASSUME NEW p, NEW a, Reached(p, a), Conversion
  PROVE  Convert(p.conv, Len(a), p.means)
<1>1. IsConversion(p, job.lib, a) /\ At(fp) = p.conv
  BY DEF Reached
<1>2. CASE p.conv = "c" /\ Len(a) = 1 /\ p.means = <<a[1].c>>
  <2> DEFINE s == <<ap[1].c>>
  <2>1. Convert("c", 1, s)
    BY <1>1, <1>2 DEF Conversion, Convert
  <2>2. ap[1] = a[1]
    BY <1>2 DEF Reached
  <2>3. s = p.means
    BY ONLY <1>2, <2>2, Zenon
  <2> HIDE DEF s
  <2> QED
    BY ONLY <1>2, <2>1, <2>3, Zenon
<1>3. CASE p.conv = "%" /\ Len(a) = 0 /\ p.means = <<"%">>
  <2> DEFINE s == <<"%">>
  <2>1. Convert("%", 0, s)
    BY <1>1, <1>3 DEF Conversion, Convert
  <2> QED
    BY ONLY <1>3, <2>1, Zenon
<1>4. CASE p.conv = "o" /\ job.lib = "user" /\ Len(a) = 0 /\ p.means = <<"X", "X", "X">>
  <2> DEFINE s == <<"X", "X", "X">>
  <2>1. Convert("o", 0, s)
    BY <1>1, <1>4 DEF Conversion, Convert
  <2> QED
    BY ONLY <1>4, <2>1, Zenon
<1> QED
  BY ONLY <1>1, <1>2, <1>3, <1>4, ConvKinds, NumConverts, StrConverts, Reached(p, a), Conversion

LEMMA ConversionFits ==
  ASSUME NEW p, NEW a, Reached(p, a), ap = <<>> => Len(ap) = 0
  PROVE  ArgumentsFit
<1>1. /\ IsConversion(p, job.lib, a) /\ At(fp) = p.conv /\ mode = "escape"
      /\ Len(ap) \in Nat /\ Len(a) <= Len(ap) /\ \A i \in 1 .. Len(a) : ap[i] = a[i]
  BY DEF Reached
<1>2. CASE IsNumConv(p, a)
  <2>1. p.conv # "p" => \A k \in 1 .. Words : IsWord(k)
    BY <1>2, NumRead
  <2>2. p.conv \in {"d", "u", "x", "p", "o"}
    BY <1>2 DEF IsNumConv
  <2>3. p.conv = "p" => IsWord(1)
    BY <1>2, NumRead
  <2> QED
    BY ONLY <1>1, <2>1, <2>2, <2>3 DEF ArgumentsFit
<1>3. CASE IsStrConv(p, a)
  <2>1. p.conv = "s" /\ Len(a) = 1 /\ ("s" \in DOMAIN a[1] => a[1].s \in Seq(STRING))
    BY <1>3 DEF IsStrConv
  <2>2. ap[1] = a[1] /\ ap # <<>>
    BY <1>1, <2>1
  <2>3. "s" \in DOMAIN ap[1] => ap[1].s \in Seq(STRING)
    BY ONLY <2>1, <2>2, Zenon
  <2> QED
    BY ONLY <1>1, <2>1, <2>2, <2>3 DEF ArgumentsFit
<1>4. CASE p.conv = "c" /\ Len(a) = 1
  <2>1. ap # <<>>
    BY <1>1, <1>4
  <2> QED
    BY ONLY <1>1, <1>4, <2>1 DEF ArgumentsFit
<1>5. CASE p.conv = "%"
  BY ONLY <1>1, <1>5 DEF ArgumentsFit
<1>6. CASE p.conv = "o" /\ job.lib = "user"
  BY ONLY <1>1, <1>6 DEF ArgumentsFit
<1> QED
  BY ONLY <1>1, <1>2, <1>3, <1>4, <1>5, <1>6, ConvKinds

----------------------------------------------------------------------------
\* A format and its pieces.

LEMMA LiteralIs ==
  ASSUME NEW p, IsLiteral(p)
  PROVE  IsSeq(p.chars) /\ p.means = p.chars /\ p.args = <<>> /\ p.chars # <<>> /\ Plainly(p.chars, 1)
<1> DEFINE c == p.chars
<1>1. p = [conv |-> "none", chars |-> c, args |-> <<>>, means |-> c] /\ c \in Seq(STRING) /\ c # <<>> /\ Plainly(c, 1)
  BY DEF IsLiteral, Literal
<1> HIDE DEF c
<1>2. p.means = c /\ p.args = <<>>
  BY ONLY <1>1
<1>3. IsSeq(c)
  BY <1>1 DEF IsSeq
<1> QED
  BY <1>1, <1>2, <1>3 DEF c

LEMMA UnknownIs ==
  ASSUME NEW p, NEW last, IsUnknown(p, last)
  PROVE  IsSeq(p.chars) /\ p.means = p.chars /\ IsSeq(p.args) /\ p.chars # <<>> /\ p.chars[1] = "%"
<1> DEFINE c == p.chars
           a == p.args
<1>1. p = [conv |-> "none", chars |-> c, args |-> a, means |-> c]
  BY DEF IsUnknown, Unknown
<1>2. c \in Seq(STRING) /\ c # <<>> /\ c[1] = "%" /\ a \in Seq([w : Int])
  BY DEF IsUnknown
<1> HIDE DEF c, a
<1>3. p.means = c
  BY ONLY <1>1
<1>4. IsSeq(c) /\ IsSeq(a)
  BY <1>2 DEF IsSeq
<1> QED
  BY <1>2, <1>3, <1>4 DEF a, c

LEMMA SizeArgsIs ==
  ASSUME NEW n, NEW star \in BOOLEAN
  PROVE  IsSeq(SizeArgs(n, star)) /\ Len(SizeArgs(n, star)) = (IF star THEN 1 ELSE 0) /\ (star => SizeArgs(n, star)[1] = [w |-> n])
<1> DEFINE r == [w |-> n]
           one == <<r>>
<1>1. SizeArgs(n, star) = IF star THEN one ELSE <<>>
  BY DEF SizeArgs
<1> HIDE DEF r
<1>2. IsSeq(one) /\ Len(one) = 1 /\ one[1] = r
  BY SingleIs
<1>3. IsSeq(<<>>) /\ Len(<<>>) = 0
  BY EmptySeqs
<1> HIDE DEF one
<1>4. CASE star
  <2>1. SizeArgs(n, star) = one
    BY <1>1, <1>4
  <2> QED
    BY ONLY <1>2, <1>4, <2>1, Zenon DEF r
<1>5. CASE ~star
  <2> DEFINE nil == <<>>
  <2>1. SizeArgs(n, star) = nil
    BY <1>1, <1>5
  <2>2. IsSeq(nil) /\ Len(nil) = 0
    BY <1>3
  <2> HIDE DEF nil
  <2>3. IsSeq(SizeArgs(n, star)) /\ Len(SizeArgs(n, star)) = 0
    BY ONLY <2>1, <2>2, Zenon
  <2> QED
    BY <1>5, <2>3
<1> QED
  BY <1>4, <1>5

\* The arguments of a conversion: those of the stars, and then its own.
ArgsAre(p, a) ==
    /\ IsSeq(p.args) /\ IsSeq(a) /\ Len(a) \in Nat /\ Len(p.args) = TakenAt(p.esc, 9) + Len(a)
    /\ p.esc.wstar => p.args[1] = [w |-> p.esc.width]
    /\ p.esc.pstar => p.args[TakenAt(p.esc, 6) + 1] = [w |-> p.esc.prec]
    /\ \A i \in 1 .. Len(a) : p.args[TakenAt(p.esc, 9) + i] = a[i]

LEMMA ConversionArgs ==
  ASSUME NEW p, NEW lib, NEW a, IsConversion(p, lib, a)
  PROVE  ArgsAre(p, a)
<1>0. SUFFICES /\ IsSeq(p.args) /\ IsSeq(a) /\ Len(a) \in Nat /\ Len(p.args) = TakenAt(p.esc, 9) + Len(a)
               /\ p.esc.wstar => p.args[1] = [w |-> p.esc.width]
               /\ p.esc.pstar => p.args[TakenAt(p.esc, 6) + 1] = [w |-> p.esc.prec]
               /\ \A i \in 1 .. Len(a) : p.args[TakenAt(p.esc, 9) + i] = a[i]
  BY DEF ArgsAre
<1> DEFINE e == p.esc
           w == e.wstar
           s == e.pstar
           x == SizeArgs(e.width, w)
           y == SizeArgs(e.prec, s)
           xy == x \o y
           z == p.args
<1>1. IsEscape(e) /\ z = xy \o a /\ IsSeq(a)
  BY DEF IsConversion
<1>2. w \in BOOLEAN /\ s \in BOOLEAN
  BY <1>1, EscapeFields DEF IsEscape
<1> DEFINE rw == [w |-> e.width]
           rs == [w |-> e.prec]
<1>3. IsSeq(x) /\ Len(x) = (IF w THEN 1 ELSE 0) /\ (w => x[1] = rw)
  <2> DEFINE n == e.width
  <2> HIDE DEF w
  <2>1. IsSeq(SizeArgs(n, w)) /\ Len(SizeArgs(n, w)) = (IF w THEN 1 ELSE 0) /\ (w => SizeArgs(n, w)[1] = [w |-> n])
    BY ONLY <1>2, SizeArgsIs
  <2> QED
    BY ONLY <2>1, Zenon
<1>4. IsSeq(y) /\ Len(y) = (IF s THEN 1 ELSE 0) /\ (s => y[1] = rs)
  <2> DEFINE n == e.prec
  <2> HIDE DEF s
  <2>1. IsSeq(SizeArgs(n, s)) /\ Len(SizeArgs(n, s)) = (IF s THEN 1 ELSE 0) /\ (s => SizeArgs(n, s)[1] = [w |-> n])
    BY ONLY <1>2, SizeArgsIs
  <2> QED
    BY ONLY <2>1, Zenon
<1>5. TakenAt(e, 9) = Len(x) + Len(y) /\ TakenAt(e, 6) = Len(x)
  BY <1>2, <1>3, <1>4 DEF TakenAt
<1> HIDE DEF e, w, s, x, y, z, rw, rs
<1>12. /\ IsSeq(x \o y) /\ Len(x) \in Nat /\ Len(y) \in Nat /\ Len(x \o y) = Len(x) + Len(y)
       /\ \A i \in 1 .. Len(x) : (x \o y)[i] = x[i]
       /\ \A i \in 1 .. Len(y) : (x \o y)[Len(x) + i] = y[i]
  <2>1. IsSeq(x) /\ IsSeq(y)
    BY <1>3, <1>4
  <2> QED
    BY ONLY <2>1, ConcatAt
<1>6. /\ IsSeq(xy) /\ Len(x) \in Nat /\ Len(y) \in Nat /\ Len(xy) = Len(x) + Len(y)
      /\ \A i \in 1 .. Len(x) : xy[i] = x[i]
      /\ \A i \in 1 .. Len(y) : xy[Len(x) + i] = y[i]
  BY ONLY <1>12
<1> HIDE DEF xy
<1> DEFINE v == xy \o a
<1>13. /\ IsSeq(xy \o a) /\ Len(xy) \in Nat /\ Len(a) \in Nat /\ Len(xy \o a) = Len(xy) + Len(a)
       /\ \A i \in 1 .. Len(xy) : (xy \o a)[i] = xy[i]
       /\ \A i \in 1 .. Len(a) : (xy \o a)[Len(xy) + i] = a[i]
  <2>1. IsSeq(xy) /\ IsSeq(a)
    BY <1>1, <1>6
  <2> QED
    BY ONLY <2>1, ConcatAt
<1>7. /\ IsSeq(v) /\ Len(xy) \in Nat /\ Len(a) \in Nat /\ Len(v) = Len(xy) + Len(a)
      /\ \A i \in 1 .. Len(xy) : v[i] = xy[i]
      /\ \A i \in 1 .. Len(a) : v[Len(xy) + i] = a[i]
  BY ONLY <1>13
<1> HIDE DEF v
<1>8. /\ IsSeq(z) /\ Len(z) = Len(xy) + Len(a)
      /\ \A i \in 1 .. Len(xy) : z[i] = xy[i]
      /\ \A i \in 1 .. Len(a) : z[Len(xy) + i] = a[i]
  BY ONLY <1>1, <1>7, Zenon DEF v
<1>9. w => z[1] = rw
  <2>1. SUFFICES ASSUME w PROVE z[1] = rw
    OBVIOUS
  <2>2. Len(x) = 1 /\ x[1] = rw
    BY <1>3, <2>1
  <2>3. 1 \in 1 .. Len(x) /\ 1 \in 1 .. Len(xy)
    BY <1>6, <2>2
  <2>4. xy[1] = x[1] /\ z[1] = xy[1]
    BY ONLY <1>6, <1>8, <2>3
  <2> QED
    BY ONLY <2>2, <2>4, Zenon
<1>10. s => z[Len(x) + 1] = rs
  <2>1. SUFFICES ASSUME s PROVE z[Len(x) + 1] = rs
    OBVIOUS
  <2>2. Len(y) = 1 /\ y[1] = rs
    BY <1>4, <2>1
  <2>3. 1 \in 1 .. Len(y) /\ Len(x) + 1 \in 1 .. Len(xy)
    BY <1>6, <2>2
  <2>4. xy[Len(x) + 1] = y[1] /\ z[Len(x) + 1] = xy[Len(x) + 1]
    BY ONLY <1>6, <1>8, <2>3
  <2> QED
    BY ONLY <2>2, <2>4, Zenon
<1>11. TakenAt(e, 9) = Len(xy) /\ TakenAt(e, 6) = Len(x)
  BY ONLY <1>5, <1>6
<1> QED
  BY ONLY <1>1, <1>7, <1>8, <1>9, <1>10, <1>11, Zenon DEF e, w, s, z, rw, rs

\* The characters of a conversion are its parts.
LEMMA ConversionChars ==
  ASSUME NEW p, NEW lib, NEW a, IsConversion(p, lib, a)
  PROVE  LET g == EscapeParts(p.esc, p.conv)
         IN  InPlace(g, p.chars, Places(g)) /\ Len(g) = 10
<1> DEFINE g == EscapeParts(p.esc, p.conv)
           e == p.esc
           conv == p.conv
<1>1. IsSeq(g) /\ Len(g) = 10
  BY PartsAre
<1>2. IsEscape(e)
  BY DEF IsConversion
<1>3. \A k \in 1 .. 10 : IsSeq(g[k])
  <2> SUFFICES ASSUME NEW k \in 1 .. 10 PROVE IsSeq(g[k])
    OBVIOUS
  <2>1. IsSeq(<<>>) /\ IsSeq(<<"%">>)
    BY EmptySeqs, SingleIs
  <2>2. CASE k = 1
    <3>1. g[1] = <<"%">>
      BY PartsAre
    <3> HIDE DEF g
    <3> QED
      BY ONLY <2>1, <2>2, <3>1, Zenon
  <2>3. CASE k \in 2 .. 10 /\ IsThere(e, k)
    <3> HIDE DEF e, conv
    <3>1. g = EscapeParts(e, conv)
      BY DEF e, conv
    <3> HIDE DEF g
    <3> QED
      BY <1>2, <2>3, <3>1, PartStarts
  <2>4. CASE k \in 2 .. 10 /\ ~IsThere(e, k)
    <3>1. g[k] = <<>>
      BY <1>2, <2>4, PartMissing
    <3> HIDE DEF g
    <3> QED
      BY ONLY <2>1, <3>1, Zenon
  <2> QED
    BY <2>2, <2>3, <2>4
<1>4. p.chars = FlattenSeq(g)
  BY DEF IsConversion
<1> HIDE DEF g
<1>5. \A k \in 1 .. Len(g) : IsSeq(g[k])
  BY ONLY <1>1, <1>3, Zenon
<1>6. InPlace(g, FlattenSeq(g), Places(g))
  BY ONLY <1>1, <1>5, PlacesAre
<1>7. InPlace(g, p.chars, Places(g))
  BY ONLY <1>4, <1>6, Zenon
<1> QED
  BY ONLY <1>1, <1>7, Zenon DEF g

\* What there is in every piece, and how it begins.
PieceFacts(p) ==
    /\ IsSeq(p.chars) /\ IsSeq(p.args) /\ IsSeq(p.means) /\ Len(p.chars) \in Nat \ {0}
    /\ IsLiteral(p) \/ p.chars[1] = "%"

LEMMA PieceIs ==
  ASSUME NEW p, NEW lib, NEW last, IsPiece(p, lib, last)
  PROVE  PieceFacts(p)
<1> DEFINE c == p.chars
<1>0. ASSUME IsSeq(c), c # <<>> PROVE Len(c) \in Nat \ {0}
  <2> HIDE DEF c
  <2>1. Len(c) \in Nat
    BY <1>0, SeqFacts
  <2>2. Len(c) # 0
    BY ONLY <1>0, EmptySeqs
  <2> QED
    BY <2>1, <2>2
<1>1. CASE IsLiteral(p)
  <2>1. IsSeq(c) /\ p.means = c /\ p.args = <<>> /\ c # <<>>
    BY <1>1, LiteralIs
  <2>2. IsSeq(<<>>)
    BY EmptySeqs
  <2>3. Len(c) \in Nat \ {0}
    BY <1>0, <2>1
  <2> QED
    BY ONLY <1>1, <2>1, <2>2, <2>3, Zenon DEF PieceFacts
<1>2. CASE IsUnknown(p, last)
  <2>1. IsSeq(c) /\ p.means = c /\ IsSeq(p.args) /\ c # <<>> /\ c[1] = "%"
    BY <1>2, UnknownIs
  <2>2. Len(c) \in Nat \ {0}
    BY <1>0, <2>1
  <2> QED
    BY ONLY <2>1, <2>2, Zenon DEF PieceFacts
<1>3. ASSUME NEW a, IsConversion(p, lib, a) PROVE PieceFacts(p)
  <2> DEFINE g == EscapeParts(p.esc, p.conv)
             l == Places(g)
  <2>1. InPlace(g, c, l) /\ Len(g) = 10
    BY <1>3, ConversionChars
  <2>2. g[1] = <<"%">>
    BY PartsAre
  <2>3. IsSeq(p.args)
    BY <1>3, ConversionArgs DEF ArgsAre
  <2>4. IsSeq(p.means)
    BY <1>3 DEF IsConversion
  <2> HIDE DEF g, l, c
  <2>5. 1 \in 1 .. Len(g) /\ Len(g[1]) = 1 /\ g[1][1] = "%"
    <3>1. Len(g[1]) = 1 /\ g[1][1] = "%"
      BY ONLY <2>2, SingleIs, Zenon
    <3> QED
      BY <2>1, <3>1
  <2>6. l[0] = 0 /\ c[l[0] + 1] = g[1][1] /\ IsSeq(c) /\ Len(c) \in Nat /\ l[1] = l[0] + 1 /\ l[1] <= Len(c)
    <3>1. l[0] = 0 /\ IsSeq(c) /\ Len(c) \in Nat
      BY <2>1 DEF InPlace
    <3>2. l[1] <= Len(c)
      BY <2>1, <2>5 DEF InPlace
    <3>3. l[1] = l[1 - 1] + Len(g[1])
      BY <2>5, <2>1 DEF InPlace
    <3>4. 1 \in 1 .. Len(g[1])
      BY <2>5
    <3>5. c[l[1 - 1] + 1] = g[1][1]
      BY <2>1, <2>5, <3>4 DEF InPlace
    <3>6. 1 - 1 = 0
      OBVIOUS
    <3> QED
      BY ONLY <2>5, <3>1, <3>2, <3>3, <3>5, <3>6, Zenon
  <2>7. c[1] = "%" /\ Len(c) \in Nat \ {0}
    <3>1. 0 + 1 = 1
      OBVIOUS
    <3>2. c[1] = "%"
      BY ONLY <2>5, <2>6, <3>1, Zenon
    <3>3. Len(c) \in Nat \ {0}
      BY ONLY <2>6
    <3> QED
      BY <3>2, <3>3
  <2> QED
    BY ONLY <2>3, <2>4, <2>6, <2>7, Zenon DEF PieceFacts, c
<1> QED
  BY ONLY <1>1, <1>2, <1>3, PieceKinds, IsPiece(p, lib, last)

Chars(j) == [k \in DOMAIN j.pieces |-> j.pieces[k].chars]
Args(j)  == [k \in DOMAIN j.pieces |-> j.pieces[k].args]
Means(j) == [k \in DOMAIN j.pieces |-> j.pieces[k].means]

Pieces(j)    == Len(j.pieces)
MeaningOf(j) == FlattenSeq(Means(j))

CharPlace(j) == Places(Chars(j))
ArgPlace(j)  == Places(Args(j))
MeanPlace(j) == Places(Means(j))

LEMMA FormatPlaces ==
  ASSUME NEW j \in Job
  PROVE  /\ Pieces(j) \in Nat
         /\ \A k \in 1 .. Pieces(j) : /\ IsPiece(j.pieces[k], j.lib, k = Pieces(j)) /\ PieceFacts(j.pieces[k])
                                   /\ Chars(j)[k] = j.pieces[k].chars /\ Args(j)[k] = j.pieces[k].args
                                   /\ Means(j)[k] = j.pieces[k].means
         /\ Len(Chars(j)) = Pieces(j) /\ Len(Args(j)) = Pieces(j) /\ Len(Means(j)) = Pieces(j)
         /\ InPlace(Chars(j), FormatOf(j), CharPlace(j))
         /\ InPlace(Args(j), ArgsOf(j), ArgPlace(j))
         /\ InPlace(Means(j), MeaningOf(j), MeanPlace(j))
<1> DEFINE n == Pieces(j)
           ps == j.pieces
<1>1. ps \in Seq({ps[k] : k \in DOMAIN ps}) /\ \A k \in DOMAIN ps : IsPiece(ps[k], j.lib, k = Len(ps))
  BY FormatAssumption
<1>2. n \in Nat /\ DOMAIN ps = 1 .. n
  BY <1>1 DEF Pieces
<1>3. \A k \in 1 .. n : IsPiece(ps[k], j.lib, k = n) /\ PieceFacts(ps[k])
  <2>1. \A k \in 1 .. n : IsPiece(ps[k], j.lib, k = n)
    BY <1>1, <1>2 DEF Pieces
  <2> QED
    BY ONLY <2>1, PieceIs
<1> HIDE DEF n, ps
<1>4. ASSUME NEW g, DOMAIN g = 1 .. n, g = [k \in 1 .. n |-> g[k]], \A k \in 1 .. n : IsSeq(g[k])
      PROVE  Len(g) = n /\ InPlace(g, FlattenSeq(g), Places(g))
  <2> DEFINE S == {g[k] : k \in 1 .. n}
  <2>1. g \in Seq(S) /\ Len(g) = n
    BY <1>2, <1>4
  <2>2. IsSeq(g)
    BY <2>1 DEF IsSeq
  <2>3. \A k \in 1 .. Len(g) : IsSeq(g[k])
    BY <1>4, <2>1
  <2>4. InPlace(g, FlattenSeq(g), Places(g))
    BY ONLY <2>2, <2>3, PlacesAre
  <2> QED
    BY <2>1, <2>4
<1>5. /\ Chars(j) = [k \in 1 .. n |-> ps[k].chars] /\ Args(j) = [k \in 1 .. n |-> ps[k].args]
      /\ Means(j) = [k \in 1 .. n |-> ps[k].means]
  BY <1>2 DEF Chars, Args, Means, ps
<1>6. \A k \in 1 .. n : IsSeq(ps[k].chars) /\ IsSeq(ps[k].args) /\ IsSeq(ps[k].means)
  BY <1>3 DEF PieceFacts
<1>7. /\ DOMAIN Chars(j) = 1 .. n /\ Chars(j) = [k \in 1 .. n |-> Chars(j)[k]]
      /\ \A k \in 1 .. n : Chars(j)[k] = ps[k].chars /\ IsSeq(Chars(j)[k])
  BY ONLY <1>5, <1>6
<1>8. /\ DOMAIN Args(j) = 1 .. n /\ Args(j) = [k \in 1 .. n |-> Args(j)[k]]
      /\ \A k \in 1 .. n : Args(j)[k] = ps[k].args /\ IsSeq(Args(j)[k])
  BY ONLY <1>5, <1>6
<1>9. /\ DOMAIN Means(j) = 1 .. n /\ Means(j) = [k \in 1 .. n |-> Means(j)[k]]
      /\ \A k \in 1 .. n : Means(j)[k] = ps[k].means /\ IsSeq(Means(j)[k])
  BY ONLY <1>5, <1>6
<1>10. Len(Chars(j)) = n /\ InPlace(Chars(j), FlattenSeq(Chars(j)), CharPlace(j))
  BY <1>4, <1>7, Zenon DEF CharPlace
<1>11. Len(Args(j)) = n /\ InPlace(Args(j), FlattenSeq(Args(j)), ArgPlace(j))
  BY <1>4, <1>8, Zenon DEF ArgPlace
<1>12. Len(Means(j)) = n /\ InPlace(Means(j), FlattenSeq(Means(j)), MeanPlace(j))
  BY <1>4, <1>9, Zenon DEF MeanPlace
<1>13. FormatOf(j) = FlattenSeq(Chars(j)) /\ ArgsOf(j) = FlattenSeq(Args(j)) /\ MeaningOf(j) = FlattenSeq(Means(j))
  BY Zenon DEF FormatOf, ArgsOf, MeaningOf, Chars, Args, Means
<1> QED
  BY ONLY <1>2, <1>3, <1>7, <1>8, <1>9, <1>10, <1>11, <1>12, <1>13, Zenon DEF n, ps

\* x is the part of s after the first n, up to m.
IsPart(s, x, n, m) ==
    /\ IsSeq(x) /\ Len(x) \in Nat /\ n \in Nat /\ m = n + Len(x) /\ m <= Len(s) /\ Len(s) \in Nat
    /\ \A i \in 1 .. Len(x) : s[n + i] = x[i]

LEMMA PartInPlace ==
  ASSUME NEW g, NEW s, NEW l, InPlace(g, s, l), NEW k \in 1 .. Len(g)
  PROVE  IsPart(s, g[k], l[k - 1], l[k])
<1>1. Len(g) \in Nat /\ k - 1 \in 0 .. Len(g) /\ k \in 0 .. Len(g)
  BY DEF InPlace
<1>2. l[k - 1] \in Nat /\ l[k] <= Len(s) /\ Len(s) \in Nat /\ IsSeq(g[k]) /\ Len(g[k]) \in Nat /\ l[k] = l[k - 1] + Len(g[k])
  BY <1>1 DEF InPlace
<1>3. \A i \in 1 .. Len(g[k]) : s[l[k - 1] + i] = g[k][i]
  BY DEF InPlace
<1> QED
  BY <1>2, <1>3 DEF IsPart

LEMMA PieceAt ==
  ASSUME NEW j \in Job, NEW k \in 1 .. Pieces(j), NEW p, p = j.pieces[k]
  PROVE  /\ IsPart(FormatOf(j), p.chars, CharPlace(j)[k - 1], CharPlace(j)[k])
         /\ IsPart(ArgsOf(j), p.args, ArgPlace(j)[k - 1], ArgPlace(j)[k])
         /\ IsPart(MeaningOf(j), p.means, MeanPlace(j)[k - 1], MeanPlace(j)[k])
         /\ IsPiece(p, j.lib, k = Pieces(j)) /\ PieceFacts(p)
<1>1. /\ Pieces(j) \in Nat
      /\ \A i \in 1 .. Pieces(j) : /\ IsPiece(j.pieces[i], j.lib, i = Pieces(j)) /\ PieceFacts(j.pieces[i])
                                   /\ Chars(j)[i] = j.pieces[i].chars /\ Args(j)[i] = j.pieces[i].args
                                   /\ Means(j)[i] = j.pieces[i].means
      /\ Len(Chars(j)) = Pieces(j) /\ Len(Args(j)) = Pieces(j) /\ Len(Means(j)) = Pieces(j)
      /\ InPlace(Chars(j), FormatOf(j), CharPlace(j))
      /\ InPlace(Args(j), ArgsOf(j), ArgPlace(j))
      /\ InPlace(Means(j), MeaningOf(j), MeanPlace(j))
  BY FormatPlaces, Zenon
<1>2. k \in 1 .. Len(Chars(j)) /\ k \in 1 .. Len(Args(j)) /\ k \in 1 .. Len(Means(j))
  BY ONLY <1>1, k \in 1 .. Pieces(j), Zenon
<1>3. Chars(j)[k] = p.chars /\ Args(j)[k] = p.args /\ Means(j)[k] = p.means
  BY <1>1, Zenon
<1>4. IsPart(FormatOf(j), Chars(j)[k], CharPlace(j)[k - 1], CharPlace(j)[k])
  BY ONLY <1>1, <1>2, PartInPlace
<1>5. IsPart(ArgsOf(j), Args(j)[k], ArgPlace(j)[k - 1], ArgPlace(j)[k])
  BY ONLY <1>1, <1>2, PartInPlace
<1>6. IsPart(MeaningOf(j), Means(j)[k], MeanPlace(j)[k - 1], MeanPlace(j)[k])
  BY ONLY <1>1, <1>2, PartInPlace
<1>7. IsPiece(p, j.lib, k = Pieces(j)) /\ PieceFacts(p)
  BY <1>1, Zenon
<1> QED
  BY ONLY <1>3, <1>4, <1>5, <1>6, <1>7, Zenon

\* The places before the first and after the last piece.
LEMMA PlacesEnd ==
  ASSUME NEW j \in Job
  PROVE  /\ Pieces(j) \in Nat
         /\ CharPlace(j)[0] = 0 /\ ArgPlace(j)[0] = 0 /\ MeanPlace(j)[0] = 0
         /\ CharPlace(j)[Pieces(j)] = Len(FormatOf(j)) /\ IsSeq(FormatOf(j)) /\ Len(FormatOf(j)) \in Nat
         /\ ArgPlace(j)[Pieces(j)] = Len(ArgsOf(j)) /\ IsSeq(ArgsOf(j)) /\ Len(ArgsOf(j)) \in Nat
         /\ MeanPlace(j)[Pieces(j)] = Len(MeaningOf(j)) /\ IsSeq(MeaningOf(j)) /\ Len(MeaningOf(j)) \in Nat
         /\ \A k \in 0 .. Pieces(j) : /\ CharPlace(j)[k] \in Nat /\ CharPlace(j)[k] <= Len(FormatOf(j))
                                      /\ ArgPlace(j)[k] \in Nat /\ ArgPlace(j)[k] <= Len(ArgsOf(j))
                                      /\ MeanPlace(j)[k] \in Nat /\ MeanPlace(j)[k] <= Len(MeaningOf(j))
<1>1. /\ Pieces(j) \in Nat
      /\ Len(Chars(j)) = Pieces(j) /\ Len(Args(j)) = Pieces(j) /\ Len(Means(j)) = Pieces(j)
      /\ InPlace(Chars(j), FormatOf(j), CharPlace(j))
      /\ InPlace(Args(j), ArgsOf(j), ArgPlace(j))
      /\ InPlace(Means(j), MeaningOf(j), MeanPlace(j))
  BY FormatPlaces, Zenon
<1>2. ASSUME NEW g, NEW s, NEW l, InPlace(g, s, l), Len(g) = Pieces(j)
      PROVE  /\ l[0] = 0 /\ l[Pieces(j)] = Len(s) /\ IsSeq(s) /\ Len(s) \in Nat
             /\ \A k \in 0 .. Pieces(j) : l[k] \in Nat /\ l[k] <= Len(s)
  BY <1>2 DEF InPlace
<1>3. /\ CharPlace(j)[0] = 0 /\ CharPlace(j)[Pieces(j)] = Len(FormatOf(j)) /\ IsSeq(FormatOf(j)) /\ Len(FormatOf(j)) \in Nat
      /\ \A k \in 0 .. Pieces(j) : CharPlace(j)[k] \in Nat /\ CharPlace(j)[k] <= Len(FormatOf(j))
  BY ONLY <1>1, <1>2, Zenon
<1>4. /\ ArgPlace(j)[0] = 0 /\ ArgPlace(j)[Pieces(j)] = Len(ArgsOf(j)) /\ IsSeq(ArgsOf(j)) /\ Len(ArgsOf(j)) \in Nat
      /\ \A k \in 0 .. Pieces(j) : ArgPlace(j)[k] \in Nat /\ ArgPlace(j)[k] <= Len(ArgsOf(j))
  BY ONLY <1>1, <1>2, Zenon
<1>5. /\ MeanPlace(j)[0] = 0 /\ MeanPlace(j)[Pieces(j)] = Len(MeaningOf(j)) /\ IsSeq(MeaningOf(j)) /\ Len(MeaningOf(j)) \in Nat
      /\ \A k \in 0 .. Pieces(j) : MeanPlace(j)[k] \in Nat /\ MeanPlace(j)[k] <= Len(MeaningOf(j))
  BY ONLY <1>1, <1>2, Zenon
<1> QED
  BY ONLY <1>1, <1>3, <1>4, <1>5, Zenon

----------------------------------------------------------------------------
\* The text so far, and the arguments that are left.

\* t is the first n of m.
Agrees(t, m, n) == IsSeq(t) /\ Len(t) = n /\ n \in Nat /\ n <= Len(m) /\ \A i \in 1 .. n : t[i] = m[i]

\* a is what is left of args after the first n.
Remains(a, args, n) ==
    /\ n \in Nat /\ IsSeq(a) /\ Len(a) \in Nat /\ n + Len(a) = Len(args)
    /\ \A i \in 1 .. Len(a) : a[i] = args[n + i]

LEMMA AgreesMore ==
  ASSUME NEW t, NEW m, NEW n, Agrees(t, m, n), NEW s, IsSeq(s), n + Len(s) <= Len(m),
         \A i \in 1 .. Len(s) : m[n + i] = s[i], NEW u, u = t \o s
  PROVE  Agrees(u, m, n + Len(s))
<1>1. IsSeq(t) /\ Len(t) = n /\ n \in Nat /\ \A i \in 1 .. n : t[i] = m[i]
  BY DEF Agrees
<1>2. IsSeq(t) /\ IsSeq(s)
  BY <1>1
<1>3. /\ IsSeq(t \o s) /\ Len(t) \in Nat /\ Len(s) \in Nat /\ Len(t \o s) = Len(t) + Len(s)
      /\ \A i \in 1 .. Len(t) : (t \o s)[i] = t[i]
      /\ \A i \in 1 .. Len(s) : (t \o s)[Len(t) + i] = s[i]
  BY ONLY <1>2, ConcatAt
<1>4. u = t \o s
  OBVIOUS
<1>5. /\ IsSeq(u) /\ Len(s) \in Nat /\ Len(u) = n + Len(s)
      /\ \A i \in 1 .. n : u[i] = t[i]
      /\ \A i \in 1 .. Len(s) : u[n + i] = s[i]
  BY ONLY <1>1, <1>3, <1>4, Zenon
<1>6. ASSUME NEW i \in 1 .. n + Len(s) PROVE u[i] = m[i]
  <2>1. CASE i \in 1 .. n
    BY <1>1, <1>5, <2>1
  <2>2. CASE i \notin 1 .. n
    <3> DEFINE d == i - n
    <3>1. d \in 1 .. Len(s) /\ i = n + d
      BY <1>1, <1>5, <2>2
    <3> HIDE DEF d
    <3>2. m[n + d] = s[d] /\ u[n + d] = s[d]
      BY <1>5, <3>1
    <3> QED
      BY ONLY <3>1, <3>2, Zenon
  <2> QED
    BY <2>1, <2>2
<1> QED
  BY <1>1, <1>5, <1>6 DEF Agrees

LEMMA RemainsLess ==
  ASSUME NEW a, NEW args, NEW n, Remains(a, args, n), NEW m \in Nat, m <= Len(a), NEW b, b = SubSeq(a, m + 1, Len(a))
  PROVE  Remains(b, args, n + m)
<1>1. n \in Nat /\ IsSeq(a) /\ Len(a) \in Nat /\ n + Len(a) = Len(args) /\ \A i \in 1 .. Len(a) : a[i] = args[n + i]
  BY DEF Remains
<1> DEFINE l == Len(a)
           w == SubSeq(a, m + 1, l)
<1>2. l \in Nat /\ m \in Nat /\ m <= l /\ l <= Len(a) /\ IsSeq(a)
  BY <1>1
<1> HIDE DEF l
<1>3. IsSeq(w) /\ Len(w) = l - m /\ \A i \in 1 .. l - m : w[i] = a[m + i]
  BY ONLY <1>2, PartAtPlace
<1>4. w = b
  BY DEF l
<1> HIDE DEF w
<1>5. IsSeq(b) /\ Len(b) = l - m /\ \A i \in 1 .. l - m : b[i] = a[m + i]
  BY ONLY <1>3, <1>4, Zenon
<1>6. ASSUME NEW i \in 1 .. Len(b) PROVE b[i] = args[(n + m) + i]
  <2>1. i \in 1 .. l - m /\ m + i \in 1 .. Len(a) /\ n + (m + i) = (n + m) + i
    BY <1>1, <1>2, <1>5 DEF l
  <2>2. b[i] = a[m + i] /\ a[m + i] = args[n + (m + i)]
    BY <1>1, <1>5, <2>1
  <2> QED
    BY ONLY <2>1, <2>2, Zenon
<1>7. n + m \in Nat /\ Len(b) \in Nat /\ (n + m) + Len(b) = Len(args)
  <2>1. l = Len(a)
    BY DEF l
  <2>2. n + l = Len(args)
    BY ONLY <1>1, <2>1, Zenon
  <2>3. n + m \in Nat /\ l - m \in Nat /\ (n + m) + (l - m) = n + l
    BY <1>1, <1>2
  <2> QED
    BY ONLY <1>5, <2>2, <2>3, Zenon
<1> QED
  BY <1>5, <1>6, <1>7 DEF Remains

LEMMA RemainsTail ==
  ASSUME NEW a, NEW args, NEW n, Remains(a, args, n), Len(a) >= 1
  PROVE  Remains(Tail(a), args, n + 1)
<1>1. IsSeq(a) /\ Len(a) \in Nat
  BY DEF Remains
<1>2. PICK S : a \in Seq(S)
  BY <1>1 DEF IsSeq
<1> DEFINE b == Tail(a)
<1>3. b \in Seq(S) /\ Len(b) = Len(a) - 1 /\ \A i \in 1 .. Len(a) - 1 : b[i] = a[i + 1]
  <2>1. a # <<>>
    BY <1>2
  <2> QED
    BY <1>1, <1>2, <2>1
<1> HIDE DEF b
<1>4. n \in Nat /\ n + Len(a) = Len(args) /\ \A i \in 1 .. Len(a) : a[i] = args[n + i]
  BY DEF Remains
<1>5. ASSUME NEW i \in 1 .. Len(b) PROVE b[i] = args[(n + 1) + i]
  <2>1. i \in 1 .. Len(a) - 1 /\ i + 1 \in 1 .. Len(a) /\ n + (i + 1) = (n + 1) + i
    BY <1>1, <1>3, <1>4
  <2>2. b[i] = a[i + 1] /\ a[i + 1] = args[n + (i + 1)]
    BY <1>3, <1>4, <2>1
  <2> QED
    BY ONLY <2>1, <2>2, Zenon
<1>6. IsSeq(b)
  BY <1>3 DEF IsSeq
<1>7. n + 1 \in Nat /\ Len(b) \in Nat /\ (n + 1) + Len(b) = Len(args)
  BY <1>1, <1>3, <1>4
<1>8. Remains(b, args, n + 1)
  BY <1>5, <1>6, <1>7 DEF Remains
<1> QED
  BY <1>8 DEF b

\* What the piece's arguments are, when n of them are taken.
LEMMA ArgsAhead ==
  ASSUME NEW s, NEW x, NEW n, NEW m, IsPart(s, x, n, m), NEW a, NEW d \in Nat, Remains(a, s, n + d), NEW e \in Nat, d + e <= Len(x)
  PROVE  e <= Len(a) /\ \A i \in 1 .. e : a[i] = x[d + i]
<1>1. /\ Len(x) \in Nat /\ n \in Nat /\ m = n + Len(x) /\ m <= Len(s) /\ Len(s) \in Nat
      /\ \A i \in 1 .. Len(x) : s[n + i] = x[i]
  BY DEF IsPart
<1>2. Len(a) \in Nat /\ (n + d) + Len(a) = Len(s) /\ \A i \in 1 .. Len(a) : a[i] = s[(n + d) + i]
  BY DEF Remains
<1>3. e <= Len(a)
  BY <1>1, <1>2
<1>4. ASSUME NEW i \in 1 .. e PROVE a[i] = x[d + i]
  <2>1. i \in 1 .. Len(a) /\ d + i \in 1 .. Len(x) /\ n + (d + i) = (n + d) + i
    BY <1>1, <1>2, <1>3
  <2>2. a[i] = s[(n + d) + i] /\ s[n + (d + i)] = x[d + i]
    BY <1>1, <1>2, <2>1
  <2> QED
    BY ONLY <2>1, <2>2, Zenon
<1> QED
  BY <1>3, <1>4

----------------------------------------------------------------------------
\* Where vprintfmt is in the format of the call j: at character p, having
\* printed t, with the arguments a left.

\* In text: k pieces are read, but for the last r characters.
AtText(j, p, t, a, k, r) ==
    /\ k \in 0 .. Pieces(j) /\ r \in Nat /\ r <= CharPlace(j)[k] /\ r <= MeanPlace(j)[k]
    /\ p = CharPlace(j)[k] - r + 1
    /\ Agrees(t, MeaningOf(j), MeanPlace(j)[k] - r)
    /\ Remains(a, ArgsOf(j), ArgPlace(j)[k])
    /\ \A i \in 1 .. r : /\ FormatOf(j)[(CharPlace(j)[k] - r) + i] = MeaningOf(j)[(MeanPlace(j)[k] - r) + i]
                         /\ FormatOf(j)[(CharPlace(j)[k] - r) + i] \notin {"%", "NUL"}

\* After o characters of the unknown escape that is piece k.
Stars(c, o) == Cardinality({m \in 1 .. o : c[m] = "*"})

AtUnknown(j, p, t, a, k, o) ==
    /\ k \in 1 .. Pieces(j) /\ IsUnknown(j.pieces[k], k = Pieces(j))
    /\ o \in 1 .. Len(j.pieces[k].chars) /\ p = CharPlace(j)[k - 1] + o + 1
    /\ Agrees(t, MeaningOf(j), MeanPlace(j)[k - 1])
    /\ Remains(a, ArgsOf(j), ArgPlace(j)[k - 1] + Stars(j.pieces[k].chars, o))
    /\ \A m \in 2 .. o : IsModifier(j.pieces[k].chars[m])

\* Before part i of the conversion that is piece k, with the arguments b.
AtConversion(j, p, t, a, sp, k, b, i) ==
    /\ k \in 1 .. Pieces(j) /\ IsConversion(j.pieces[k], j.lib, b)
    /\ i \in 2 .. 10 /\ IsThere(j.pieces[k].esc, i)
    /\ p = CharPlace(j)[k - 1] + Places(EscapeParts(j.pieces[k].esc, j.pieces[k].conv))[i - 1] + 1
    /\ sp = SpecAt(j.pieces[k].esc, i - 1)
    /\ Agrees(t, MeaningOf(j), MeanPlace(j)[k - 1])
    /\ Remains(a, ArgsOf(j), ArgPlace(j)[k - 1] + TakenAt(j.pieces[k].esc, i - 1))

\* One character of text.
LEMMA TextMore ==
  ASSUME NEW j \in Job, NEW p, NEW t, NEW a, NEW k, NEW r, AtText(j, p, t, a, k, r), r > 0,
         NEW s, s = t \o <<FormatOf(j)[p]>>
  PROVE  AtText(j, p + 1, s, a, k, r - 1)
<1> DEFINE c == CharPlace(j)[k]
           m == MeanPlace(j)[k]
           F == FormatOf(j)
           M == MeaningOf(j)
           w == <<F[p]>>
<1>1. /\ k \in 0 .. Pieces(j) /\ r \in Nat /\ r <= c /\ r <= m /\ p = c - r + 1
      /\ Agrees(t, M, m - r) /\ Remains(a, ArgsOf(j), ArgPlace(j)[k])
      /\ \A i \in 1 .. r : F[(c - r) + i] = M[(m - r) + i] /\ F[(c - r) + i] \notin {"%", "NUL"}
  BY DEF AtText
<1>2. /\ c \in Nat /\ m \in Nat /\ m <= Len(M) /\ Len(M) \in Nat
  BY <1>1, PlacesEnd
<1> HIDE DEF c, m, F, M
<1>3. IsSeq(w) /\ Len(w) = 1 /\ w[1] = F[p]
  BY SingleIs
<1>4. s = t \o w
  BY DEF F
<1> HIDE DEF w
<1>5. r > 0
  OBVIOUS
<1>6. 1 \in 1 .. r /\ (c - r) + 1 = p /\ (m - r) + Len(w) <= Len(M) /\ (m - r) + Len(w) = m - (r - 1)
  BY ONLY <1>1, <1>2, <1>3, <1>5
<1>7. \A i \in 1 .. Len(w) : M[(m - r) + i] = w[i]
  <2>1. F[p] = M[(m - r) + 1]
    BY ONLY <1>1, <1>6, Zenon
  <2>2. M[(m - r) + 1] = w[1]
    BY ONLY <1>3, <2>1, Zenon
  <2>3. \A i \in 1 .. Len(w) : i = 1
    BY <1>3
  <2> QED
    BY ONLY <2>2, <2>3, Zenon
<1> DEFINE n == m - r
<1>8. Agrees(t, M, n) /\ IsSeq(w) /\ n + Len(w) <= Len(M) /\ \A i \in 1 .. Len(w) : M[n + i] = w[i]
  BY <1>1, <1>3, <1>6, <1>7
<1> HIDE DEF n
<1>9. Agrees(s, M, n + Len(w))
  BY ONLY <1>4, <1>8, AgreesMore
<1>10. Agrees(s, M, m - (r - 1))
  BY ONLY <1>6, <1>9, Zenon DEF n
<1>11. ASSUME NEW i \in 1 .. r - 1
       PROVE  F[(c - (r - 1)) + i] = M[(m - (r - 1)) + i] /\ F[(c - (r - 1)) + i] \notin {"%", "NUL"}
  <2>1. i + 1 \in 1 .. r /\ (c - r) + (i + 1) = (c - (r - 1)) + i /\ (m - r) + (i + 1) = (m - (r - 1)) + i
    BY <1>1, <1>2
  <2>2. F[(c - r) + (i + 1)] = M[(m - r) + (i + 1)] /\ F[(c - r) + (i + 1)] \notin {"%", "NUL"}
    BY <1>1, <2>1
  <2> QED
    BY ONLY <2>1, <2>2, Zenon
<1>12. r - 1 \in Nat /\ r - 1 <= c /\ r - 1 <= m /\ p + 1 = c - (r - 1) + 1
  BY ONLY <1>1, <1>2, <1>5
<1> QED
  BY ONLY <1>1, <1>10, <1>11, <1>12, Zenon DEF AtText, c, m, F, M

\* A literal begins.
LEMMA LiteralBegins ==
  ASSUME NEW j \in Job, NEW p, NEW t, NEW a, NEW k, AtText(j, p, t, a, k, 0), k # Pieces(j), IsLiteral(j.pieces[k + 1])
  PROVE  AtText(j, p, t, a, k + 1, Len(j.pieces[k + 1].chars)) /\ Len(j.pieces[k + 1].chars) > 0
<1> DEFINE q == j.pieces[k + 1]
           n == k + 1
           r == Len(q.chars)
           c0 == CharPlace(j)[k]
           c == CharPlace(j)[n]
           m0 == MeanPlace(j)[k]
           m == MeanPlace(j)[n]
           F == FormatOf(j)
           M == MeaningOf(j)
<1>1. /\ k \in 0 .. Pieces(j) /\ p = c0 - 0 + 1 /\ Agrees(t, M, m0 - 0) /\ Remains(a, ArgsOf(j), ArgPlace(j)[k])
  BY DEF AtText
<1>2. Pieces(j) \in Nat
  BY PlacesEnd
<1>3. n \in 1 .. Pieces(j) /\ n - 1 = k /\ n \in 0 .. Pieces(j)
  BY <1>1, <1>2
<1>4. IsSeq(q.chars) /\ q.means = q.chars /\ q.args = <<>> /\ q.chars # <<>> /\ Plainly(q.chars, 1)
  BY LiteralIs
<1>5. q = j.pieces[n]
  OBVIOUS
<1> HIDE DEF q, n, F, M
<1>6. /\ IsPart(F, q.chars, CharPlace(j)[n - 1], CharPlace(j)[n])
      /\ IsPart(ArgsOf(j), q.args, ArgPlace(j)[n - 1], ArgPlace(j)[n])
      /\ IsPart(M, q.means, MeanPlace(j)[n - 1], MeanPlace(j)[n])
      /\ PieceFacts(q)
  BY <1>3, <1>5, PieceAt DEF F, M
<1>7. IsPart(F, q.chars, c0, c) /\ IsPart(M, q.chars, m0, m) /\ IsPart(ArgsOf(j), <<>>, ArgPlace(j)[k], ArgPlace(j)[n])
  BY ONLY <1>3, <1>4, <1>6, Zenon
<1>8. ArgPlace(j)[n] = ArgPlace(j)[k]
  <2>1. Len(<<>>) = 0
    BY EmptySeqs
  <2>2. ArgPlace(j)[n] = ArgPlace(j)[k] + Len(<<>>) /\ ArgPlace(j)[k] \in Nat
    BY ONLY <1>7 DEF IsPart
  <2> QED
    BY ONLY <2>1, <2>2
<1>9. r \in Nat \ {0}
  BY <1>6 DEF PieceFacts
<1> HIDE DEF r, c0, c, m0, m
<1>10. /\ c0 \in Nat /\ c = c0 + r /\ m0 \in Nat /\ m = m0 + r
       /\ \A i \in 1 .. r : F[c0 + i] = q.chars[i] /\ M[m0 + i] = q.chars[i]
  BY ONLY <1>7 DEF IsPart, r
<1>11. r <= c /\ r <= m /\ p = c - r + 1 /\ m - r = m0 /\ c - r = c0 /\ m0 - 0 = m0 /\ r > 0
  BY ONLY <1>1, <1>9, <1>10
<1>12. \A i \in 1 .. r : q.chars[i] \notin {"%", "NUL"}
  BY <1>4 DEF Plainly, r
<1>13. ASSUME NEW i \in 1 .. r PROVE F[(c - r) + i] = M[(m - r) + i] /\ F[(c - r) + i] \notin {"%", "NUL"}
  BY ONLY <1>10, <1>11, <1>12, <1>13, Zenon
<1>14. Agrees(t, M, m - r) /\ Remains(a, ArgsOf(j), ArgPlace(j)[n])
  BY ONLY <1>1, <1>8, <1>11, Zenon
<1>15. AtText(j, p, t, a, n, r)
  BY ONLY <1>3, <1>9, <1>11, <1>13, <1>14 DEF AtText, c, m, F, M
<1> QED
  BY <1>11, <1>15 DEF n, r, q

\* An escape begins.
LEMMA EscapeBegins ==
  ASSUME NEW j \in Job, NEW p, NEW t, NEW a, NEW k, AtText(j, p, t, a, k, 0), k # Pieces(j), ~IsLiteral(j.pieces[k + 1])
  PROVE  \/ AtUnknown(j, p + 1, t, a, k + 1, 1)
         \/ \E b : \E i \in 2 .. 10 : AtConversion(j, p + 1, t, a, FreshSpec, k + 1, b, i)
<1> DEFINE n == k + 1
           q == j.pieces[n]
           c0 == CharPlace(j)[n - 1]
           m0 == MeanPlace(j)[n - 1]
           a0 == ArgPlace(j)[n - 1]
           M == MeaningOf(j)
<1>1. /\ k \in 0 .. Pieces(j) /\ p = CharPlace(j)[k] - 0 + 1 /\ CharPlace(j)[k] \in Nat /\ MeanPlace(j)[k] \in Nat
      /\ Agrees(t, M, MeanPlace(j)[k] - 0) /\ Remains(a, ArgsOf(j), ArgPlace(j)[k]) /\ ArgPlace(j)[k] \in Nat
  BY PlacesEnd DEF AtText
<1>2. Pieces(j) \in Nat
  BY PlacesEnd
<1>3. n \in 1 .. Pieces(j) /\ n - 1 = k
  BY <1>1, <1>2
<1>4. q = j.pieces[n] /\ ~IsLiteral(q)
  OBVIOUS
<1> HIDE DEF n, q, M
<1>5. IsPiece(q, j.lib, n = Pieces(j)) /\ PieceFacts(q)
  BY <1>3, <1>4, PieceAt
<1>6. /\ p + 1 = c0 + 1 + 1 /\ c0 \in Nat /\ a0 \in Nat
      /\ Agrees(t, M, m0) /\ Remains(a, ArgsOf(j), a0)
  <2>1. MeanPlace(j)[k] - 0 = MeanPlace(j)[k] /\ p + 1 = CharPlace(j)[k] + 1 + 1
    BY <1>1
  <2> QED
    BY ONLY <1>1, <1>3, <2>1, Zenon
<1> HIDE DEF c0, m0, a0
<1>7. CASE IsUnknown(q, n = Pieces(j))
  <2> DEFINE c == q.chars
  <2>1. c[1] = "%"
    BY <1>7, UnknownIs
  <2>2. Stars(c, 1) = 0
    <3>1. {m \in 1 .. 1 : c[m] = "*"} = {}
      BY <2>1
    <3>2. Cardinality({}) = 0
      BY FS_EmptySet
    <3> HIDE DEF c
    <3> QED
      BY ONLY <3>1, <3>2, Zenon DEF Stars
  <2>3. 1 \in 1 .. Len(c)
    BY <1>5 DEF PieceFacts
  <2> HIDE DEF c
  <2>4. a0 + Stars(c, 1) = a0
    BY ONLY <1>6, <2>2
  <2>5. Remains(a, ArgsOf(j), a0 + Stars(c, 1))
    BY ONLY <1>6, <2>4, Zenon
  <2>6. \A m \in 2 .. 1 : IsModifier(c[m])
    OBVIOUS
  <2>7. AtUnknown(j, p + 1, t, a, n, 1)
    BY ONLY <1>3, <1>4, <1>6, <1>7, <2>3, <2>5, <2>6, Zenon DEF AtUnknown, c, c0, m0, a0, M
  <2> QED
    BY <2>7 DEF n
<1>8. ASSUME NEW b, IsConversion(q, j.lib, b)
      PROVE  \E i \in 2 .. 10 : AtConversion(j, p + 1, t, a, FreshSpec, n, b, i)
  <2> DEFINE e == q.esc
             conv == q.conv
             g == EscapeParts(e, conv)
             l == Places(g)
             s == q.chars
  <2>1. InPlace(g, s, l) /\ Len(g) = 10
    BY <1>8, ConversionChars
  <2>2. g[1] = <<"%">>
    BY PartsAre
  <2>3. IsEscape(e)
    BY <1>8 DEF IsConversion
  <2> HIDE DEF e, conv, s
  <2> DEFINE one == 1
  <2>4. InPlace(EscapeParts(e, conv), s, l) /\ one \in 1 .. 9
    BY <2>1
  <2> HIDE DEF l, one
  <2>5. PICK i \in one + 1 .. 10 : Before(e, l, i, l[one], SpecAt(e, one), TakenAt(e, one))
    BY ONLY <2>3, <2>4, NextPart
  <2>6. l[one] = 1
    <3> HIDE DEF g
    <3>1. l[0] = 0
      BY <2>1 DEF InPlace
    <3>2. 1 \in 1 .. Len(g)
      BY <2>1
    <3>3. l[1] = l[1 - 1] + Len(g[1])
      BY <2>1, <3>2 DEF InPlace
    <3>4. Len(g[1]) = 1
      BY ONLY <2>2, SingleIs, Zenon
    <3>5. 1 - 1 = 0 /\ 0 + 1 = 1
      OBVIOUS
    <3> QED
      BY ONLY <3>1, <3>3, <3>4, <3>5, Zenon DEF one
  <2>7. SpecAt(e, one) = FreshSpec /\ TakenAt(e, one) = 0
    BY SpecStarts DEF one
  <2>8. /\ i \in 2 .. 10 /\ IsThere(e, i) /\ l[i - 1] = 1 /\ FreshSpec = SpecAt(e, i - 1) /\ TakenAt(e, i - 1) = 0
    <3>1. i \in 2 .. 10
      BY <2>5 DEF one
    <3> QED
      BY ONLY <2>5, <2>6, <2>7, <3>1, Zenon DEF Before
  <2>9. p + 1 = c0 + l[i - 1] + 1 /\ a0 + TakenAt(e, i - 1) = a0
    BY ONLY <1>6, <2>8
  <2>10. Remains(a, ArgsOf(j), a0 + TakenAt(e, i - 1))
    BY ONLY <1>6, <2>9, Zenon
  <2>11. AtConversion(j, p + 1, t, a, FreshSpec, n, b, i)
    BY ONLY <1>3, <1>4, <1>6, <1>8, <2>8, <2>9, <2>10, Zenon DEF AtConversion, c0, m0, a0, M, l, g, e, conv
  <2> QED
    BY <2>8, <2>11
<1>9. IsUnknown(q, n = Pieces(j)) \/ \E b : IsConversion(q, j.lib, b)
  BY <1>4, <1>5, PieceKinds
<1> QED
  BY <1>7, <1>8, <1>9 DEF n

----------------------------------------------------------------------------
\* The characters that are read.

CharOf(j, p) == IF p <= Len(FormatOf(j)) THEN FormatOf(j)[p] ELSE "NUL"

LEMMA PieceChars ==
  ASSUME NEW j \in Job, NEW k \in 1 .. Pieces(j), NEW i \in 1 .. Len(j.pieces[k].chars), NEW p, p = CharPlace(j)[k - 1] + i
  PROVE  p \in 1 .. Len(FormatOf(j)) /\ CharOf(j, p) = j.pieces[k].chars[i] /\ FormatOf(j)[p] = j.pieces[k].chars[i]
<1> DEFINE x == j.pieces[k].chars
           F == FormatOf(j)
           c == CharPlace(j)[k - 1]
<1>1. IsPart(F, x, c, CharPlace(j)[k])
  BY PieceAt
<1> HIDE DEF F, c
<1>2. /\ Len(x) \in Nat /\ c \in Nat /\ c + Len(x) <= Len(F) /\ Len(F) \in Nat
      /\ \A m \in 1 .. Len(x) : F[c + m] = x[m]
  BY <1>1 DEF IsPart
<1>3. p = c + i
  BY DEF c
<1>4. p \in 1 .. Len(F)
  BY <1>2, <1>3
<1>5. F[p] = x[i]
  BY <1>2, <1>3
<1> QED
  BY <1>4, <1>5 DEF CharOf, F

\* What the text begins with: a character of a literal, an escape, or the end.
LEMMA TextBegins ==
  ASSUME NEW j \in Job, NEW p, NEW t, NEW a, NEW k, AtText(j, p, t, a, k, 0)
  PROVE  /\ p \in Nat \ {0}
         /\ k = Pieces(j) => p = Len(FormatOf(j)) + 1 /\ CharOf(j, p) = "NUL"
         /\ k # Pieces(j) => p <= Len(FormatOf(j)) /\ (~IsLiteral(j.pieces[k + 1]) => CharOf(j, p) = "%")
<1> DEFINE c == CharPlace(j)[k]
<1>1. k \in 0 .. Pieces(j) /\ p = c - 0 + 1
  BY DEF AtText
<1>2. Pieces(j) \in Nat /\ c \in Nat /\ (k = Pieces(j) => c = Len(FormatOf(j))) /\ Len(FormatOf(j)) \in Nat
  BY <1>1, PlacesEnd
<1>3. p = c + 1
  BY <1>1, <1>2
<1> HIDE DEF c
<1>4. p \in Nat \ {0}
  BY <1>2, <1>3
<1>5. CASE k = Pieces(j)
  BY <1>2, <1>3, <1>4, <1>5 DEF CharOf
<1>6. CASE k # Pieces(j)
  <2> DEFINE n == k + 1
             q == j.pieces[n]
  <2>1. n \in 1 .. Pieces(j) /\ n - 1 = k
    BY <1>1, <1>2, <1>6
  <2> HIDE DEF n
  <2>2. PieceFacts(q)
    BY <2>1, PieceAt
  <2>3. 1 \in 1 .. Len(q.chars) /\ (IsLiteral(q) \/ q.chars[1] = "%")
    BY <2>2 DEF PieceFacts
  <2>4. p = CharPlace(j)[n - 1] + 1
    BY <1>3, <2>1 DEF c
  <2>5. p \in 1 .. Len(FormatOf(j)) /\ CharOf(j, p) = q.chars[1]
    BY <2>1, <2>3, <2>4, PieceChars
  <2> QED
    BY <1>2, <1>4, <1>6, <2>3, <2>5 DEF n
<1> QED
  BY <1>5, <1>6

\* In the text of a piece.
LEMMA TextGoesOn ==
  ASSUME NEW j \in Job, NEW p, NEW t, NEW a, NEW k, NEW r, AtText(j, p, t, a, k, r), r > 0
  PROVE  p \in 1 .. Len(FormatOf(j)) /\ CharOf(j, p) = FormatOf(j)[p] /\ CharOf(j, p) \notin {"%", "NUL"}
<1> DEFINE c == CharPlace(j)[k]
           F == FormatOf(j)
<1>1. k \in 0 .. Pieces(j) /\ r \in Nat /\ r <= c /\ p = c - r + 1 /\ \A i \in 1 .. r : F[(c - r) + i] \notin {"%", "NUL"}
  BY DEF AtText
<1>2. c \in Nat /\ c <= Len(F) /\ Len(F) \in Nat
  BY <1>1, PlacesEnd
<1> HIDE DEF c, F
<1>3. r > 0
  OBVIOUS
<1>4. 1 \in 1 .. r /\ (c - r) + 1 = p /\ p \in 1 .. Len(F)
  BY ONLY <1>1, <1>2, <1>3
<1>5. F[p] \notin {"%", "NUL"}
  BY ONLY <1>1, <1>4, Zenon
<1> QED
  BY <1>4, <1>5 DEF CharOf, F

\* In any state of the text one of the two holds.
LEMMA TextKinds ==
  ASSUME NEW j \in Job, NEW p, NEW t, NEW a, NEW k, NEW r, AtText(j, p, t, a, k, r)
  PROVE  \/ \E l, m : AtText(j, p, t, a, l, m) /\ m > 0
         \/ AtText(j, p, t, a, k, 0) /\ k \in 0 .. Pieces(j) /\ (k # Pieces(j) => ~IsLiteral(j.pieces[k + 1]))
<1>1. r \in Nat /\ k \in 0 .. Pieces(j)
  BY DEF AtText
<1>2. CASE r > 0
  BY <1>2
<1>3. CASE r = 0 /\ k # Pieces(j) /\ IsLiteral(j.pieces[k + 1])
  <2>1. AtText(j, p, t, a, k, 0)
    BY <1>3
  <2>2. AtText(j, p, t, a, k + 1, Len(j.pieces[k + 1].chars)) /\ Len(j.pieces[k + 1].chars) > 0
    BY <1>3, <2>1, LiteralBegins
  <2> QED
    BY ONLY <2>2, Zenon
<1>4. CASE r = 0 /\ (k # Pieces(j) => ~IsLiteral(j.pieces[k + 1]))
  BY <1>1, <1>4
<1> QED
  BY <1>1, <1>2, <1>3, <1>4

----------------------------------------------------------------------------
\* What the modifiers are.

LEMMA ModifierFacts ==
  ASSUME NEW c
  PROVE  /\ DigitValue(c) < 10 => IsModifier(c) /\ c # "*" /\ c # "NUL"
         /\ IsModifier(c) => /\ c \notin {"NUL", "c", "s", "d", "u", "o", "p", "x", "%"}
                             /\ c \in Known \/ DigitValue(c) \in 1 .. 9
         /\ ~IsModifier(c) => DigitValue(c) \notin 1 .. 9
<1>1. DigitValue(c) \in Nat
  BY DigitValueFacts
<1>2. DigitValue(c) < 10 => c # "*" /\ c # "NUL"
  <2>1. DigitValue("*") = 99 /\ DigitValue("NUL") = 99
    BY DigitFacts DEF Symbols
  <2> QED
    BY <2>1
<1>3. ASSUME DigitValue(c) < 10 PROVE IsModifier(c)
  <2>1. CASE DigitValue(c) = 0
    <3>1. \E d \in DOMAIN Digit : Digit[d] = c
      BY <2>1 DEF DigitValue
    <3> DEFINE d == CHOOSE d \in DOMAIN Digit : Digit[d] = c
    <3>2. d \in DOMAIN Digit /\ Digit[d] = c
      BY <3>1
    <3>3. DigitValue(c) = d - 1
      BY <3>1 DEF DigitValue
    <3> HIDE DEF d
    <3>4. DOMAIN Digit = 1 .. 16 /\ Digit[1] = "0"
      BY DEF Digit
    <3>5. d = 1
      BY <2>1, <3>2, <3>3, <3>4
    <3>6. c = "0"
      BY <3>2, <3>4, <3>5
    <3> QED
      BY <3>6 DEF IsModifier
  <2>2. CASE DigitValue(c) \in 1 .. 9
    BY <2>2 DEF IsModifier
  <2> QED
    BY <1>1, <1>3, <2>1, <2>2
<1>4. ASSUME IsModifier(c) PROVE c \notin {"NUL", "c", "s", "d", "u", "o", "p", "x", "%"}
  <2>1. /\ DigitValue("NUL") = 99 /\ DigitValue("s") = 99 /\ DigitValue("u") = 99 /\ DigitValue("o") = 99
        /\ DigitValue("p") = 99 /\ DigitValue("x") = 99 /\ DigitValue("%") = 99
        /\ DigitValue("d") = 13 /\ DigitValue("c") = 12
    BY DigitFacts DEF Symbols
  <2>2. CASE DigitValue(c) \in 1 .. 9
    BY <2>1, <2>2
  <2>3. CASE c \in {"-", "0", ".", "#", "l", "*"}
    BY <2>3
  <2> QED
    BY <1>4, <2>2, <2>3 DEF IsModifier
<1>5. IsModifier(c) => c \in Known \/ DigitValue(c) \in 1 .. 9
  BY DEF IsModifier, Known
<1>6. ~IsModifier(c) => DigitValue(c) \notin 1 .. 9
  BY DEF IsModifier
<1> QED
  BY <1>2, <1>3, <1>4, <1>5, <1>6

----------------------------------------------------------------------------
\* An escape that is not recognized.

LEMMA StarsFacts ==
  ASSUME NEW c, NEW o \in Nat
  PROVE  /\ Stars(c, o) \in Nat
         /\ Stars(c, o + 1) = Stars(c, o) + (IF c[o + 1] = "*" THEN 1 ELSE 0)
         /\ \A n \in Nat : o <= n => Stars(c, o) <= Stars(c, n)
<1> DEFINE S(n) == {m \in 1 .. n : c[m] = "*"}
<1>1. ASSUME NEW n \in Nat PROVE IsFiniteSet(S(n)) /\ Cardinality(S(n)) \in Nat
  <2>1. IsFiniteSet(1 .. n)
    BY FS_Interval
  <2>2. S(n) \in SUBSET (1 .. n)
    OBVIOUS
  <2> HIDE DEF S
  <2> QED
    BY <2>1, <2>2, FS_Subset, FS_CardinalityType
<1>2. S(o + 1) = IF c[o + 1] = "*" THEN S(o) \cup {o + 1} ELSE S(o)
  <2>1. \A m : m \in 1 .. o + 1 <=> m \in 1 .. o \/ m = o + 1
    OBVIOUS
  <2> QED
    BY <2>1
<1>3. o + 1 \notin S(o)
  OBVIOUS
<1>4. ASSUME NEW n \in Nat, o <= n PROVE S(o) \in SUBSET S(n)
  <2>1. \A m : m \in 1 .. o => m \in 1 .. n
    BY <1>4
  <2> QED
    BY <2>1
<1>5. Stars(c, o + 1) = Cardinality(S(o + 1)) /\ \A n \in Nat : Stars(c, n) = Cardinality(S(n))
  BY DEF Stars
<1> HIDE DEF S
<1>6. Cardinality(S(o) \cup {o + 1}) = Cardinality(S(o)) + 1
  BY <1>1, <1>3, FS_AddElement
<1>7. Stars(c, o + 1) = Stars(c, o) + (IF c[o + 1] = "*" THEN 1 ELSE 0)
  BY <1>1, <1>2, <1>5, <1>6
<1>8. ASSUME NEW n \in Nat, o <= n PROVE Stars(c, o) <= Stars(c, n)
  <2>1. Cardinality(S(o)) <= Cardinality(S(n))
    BY <1>1, <1>4, <1>8, FS_Subset
  <2> QED
    BY <1>5, <2>1
<1> QED
  BY <1>1, <1>5, <1>7, <1>8

\* What is known of it.
UnknownFacts(p, last) ==
    LET c == p.chars
        n == Len(c)
    IN  /\ n \in Nat \ {0} /\ c[1] = "%" /\ p.means = c /\ Plainly(c, 2)
        /\ \A m \in 2 .. n - 1 : IsModifier(c[m])
        /\ (last /\ (n = 1 \/ IsModifier(c[n]))) \/ (n > 1 /\ ~IsModifier(c[n]) /\ c[n] \notin Known)
        /\ Len(p.args) = Stars(c, n) /\ \A i \in 1 .. Len(p.args) : p.args[i].w \in Int

LEMMA UnknownHas ==
  ASSUME NEW p, NEW last, IsUnknown(p, last)
  PROVE  UnknownFacts(p, last)
<1> DEFINE c == p.chars
           n == Len(c)
           a == p.args
<1>1. /\ c \in Seq(STRING) /\ c # <<>> /\ c[1] = "%" /\ Plainly(c, 2)
      /\ \A k \in 2 .. n - 1 : IsModifier(c[k])
      /\ (last /\ (n = 1 \/ IsModifier(c[n]))) \/ (n > 1 /\ ~IsModifier(c[n]) /\ c[n] \notin Known)
      /\ a \in Seq([w : Int]) /\ Len(a) = Cardinality({k \in DOMAIN c : c[k] = "*"})
  BY DEF IsUnknown
<1>2. p.means = c
  BY UnknownIs
<1> HIDE DEF c, a
<1>3. n \in Nat \ {0} /\ DOMAIN c = 1 .. n
  BY <1>1
<1>4. {k \in DOMAIN c : c[k] = "*"} = {m \in 1 .. n : c[m] = "*"}
  BY <1>3
<1>5. Len(a) = Stars(c, n)
  BY <1>1, <1>4 DEF Stars
<1>6. ASSUME NEW i \in 1 .. Len(a) PROVE a[i].w \in Int
  <2> DEFINE W == [w : Int]
  <2>1. a \in Seq(W)
    BY <1>1
  <2> HIDE DEF W
  <2>2. a[i] \in W
    BY <2>1
  <2> DEFINE b == a[i]
  <2> HIDE DEF b
  <2>3. b \in W
    BY <2>2 DEF b
  <2>4. b.w \in Int
    BY <2>3 DEF W
  <2> QED
    BY <2>4 DEF b
<1> QED
  BY ONLY <1>1, <1>2, <1>3, <1>5, <1>6, Zenon DEF UnknownFacts, c, a

\* The character that is read next, and the arguments that are left for it.
LEMMA UnknownNext ==
  ASSUME NEW j \in Job, NEW p, NEW t, NEW a, NEW k, NEW o, AtUnknown(j, p, t, a, k, o), NEW c, c = j.pieces[k].chars
  PROVE  /\ p \in Nat \ {0} /\ p <= Len(FormatOf(j)) + 1 /\ o \in 1 .. Len(c) /\ Len(c) \in Nat
         /\ o = Len(c) => CharOf(j, p) = "NUL"
         /\ o # Len(c) => CharOf(j, p) = c[o + 1] /\ (IsModifier(c[o + 1]) \/ (o + 1 = Len(c) /\ c[o + 1] \notin Known))
         /\ o # Len(c) /\ c[o + 1] = "*" => Len(a) >= 1 /\ a[1].w \in Int
<1> DEFINE q == j.pieces[k]
           n == Len(c)
           c0 == CharPlace(j)[k - 1]
           a0 == ArgPlace(j)[k - 1]
           F == FormatOf(j)
<1>1. /\ k \in 1 .. Pieces(j) /\ IsUnknown(q, k = Pieces(j)) /\ o \in 1 .. n /\ p = c0 + o + 1
      /\ Remains(a, ArgsOf(j), a0 + Stars(c, o)) /\ \A m \in 2 .. o : IsModifier(c[m])
  BY DEF AtUnknown
<1>2. UnknownFacts(q, k = Pieces(j))
  BY <1>1, UnknownHas
<1>3. /\ n \in Nat \ {0} /\ \A m \in 2 .. n - 1 : IsModifier(c[m])
      /\ (k = Pieces(j) /\ (n = 1 \/ IsModifier(c[n]))) \/ (n > 1 /\ ~IsModifier(c[n]) /\ c[n] \notin Known)
      /\ Len(q.args) = Stars(c, n) /\ \A i \in 1 .. Len(q.args) : q.args[i].w \in Int
  BY <1>2 DEF UnknownFacts
<1>4. /\ IsPart(F, c, c0, CharPlace(j)[k]) /\ IsPart(ArgsOf(j), q.args, a0, ArgPlace(j)[k])
  BY <1>1, PieceAt
<1>5. c0 \in Nat /\ CharPlace(j)[k] = c0 + n /\ c0 + n <= Len(F) /\ Len(F) \in Nat
  BY <1>4 DEF IsPart
<1>6. p \in Nat \ {0} /\ p <= Len(F) + 1
  <2> HIDE DEF c0, F, n
  <2> QED
    BY ONLY <1>1, <1>3, <1>5
<1>7. ASSUME o = n PROVE CharOf(j, p) = "NUL"
  <2>1. k = Pieces(j)
    <3> HIDE DEF n
    <3>1. CASE n > 1
      <4>1. n \in 2 .. o
        BY <1>3, <1>7, <3>1
      <4>2. IsModifier(c[n])
        BY <1>1, <4>1
      <4> QED
        BY <1>3, <4>2
    <3>2. CASE ~(n > 1)
      BY <1>3, <3>2
    <3> QED
      BY <3>1, <3>2
  <2>2. CharPlace(j)[k] = Len(F)
    BY <2>1, PlacesEnd
  <2> HIDE DEF c0, F, n
  <2>3. p = Len(F) + 1 /\ ~(p <= Len(F))
    BY <1>1, <1>5, <1>7, <2>2
  <2> QED
    BY <2>3 DEF CharOf, F
<1>8. ASSUME o # n PROVE CharOf(j, p) = c[o + 1] /\ (IsModifier(c[o + 1]) \/ (o + 1 = n /\ c[o + 1] \notin Known))
  <2> DEFINE i == o + 1
  <2>1. i \in 1 .. n /\ p = c0 + i /\ i > 1
    <3> HIDE DEF n, c0
    <3> QED
      BY <1>1, <1>3, <1>5, <1>8
  <2>2. i \in 1 .. Len(q.chars)
    BY <2>1
  <2> HIDE DEF i
  <2>3. CharOf(j, p) = q.chars[i]
    BY <1>1, <2>1, <2>2, PieceChars
  <2>4. CharOf(j, p) = c[i]
    BY <2>3
  <2> HIDE DEF n
  <2>5. i \in 2 .. n - 1 \/ i = n
    BY <1>3, <2>1
  <2>6. IsModifier(c[i]) \/ (i = n /\ c[i] \notin Known)
    <3>1. CASE i \in 2 .. n - 1
      BY <1>3, <3>1
    <3>2. CASE i = n
      BY <1>3, <2>1, <3>2
    <3> QED
      BY <2>5, <3>1, <3>2
  <2> QED
    BY <2>4, <2>6 DEF i
<1>9. ASSUME o # n, c[o + 1] = "*" PROVE Len(a) >= 1 /\ a[1].w \in Int
  <2> DEFINE d == Stars(c, o)
             x == q.args
  <2>1. o \in Nat /\ o + 1 \in Nat /\ o + 1 <= n
    BY <1>1, <1>9
  <2>2. d \in Nat /\ Stars(c, o + 1) = d + 1
    BY <1>9, <2>1, StarsFacts
  <2>3. Stars(c, o + 1) <= Stars(c, n)
    <3> HIDE DEF d
    <3> DEFINE m == o + 1
    <3>1. m \in Nat /\ n \in Nat /\ m <= n
      BY <1>3, <2>1
    <3> HIDE DEF m, n
    <3>2. Stars(c, m) <= Stars(c, n)
      BY <3>1, StarsFacts
    <3> QED
      BY <3>2 DEF m, n
  <2>4. d + 1 <= Len(x)
    BY <1>3, <2>2, <2>3
  <2> HIDE DEF d
  <2>5. Remains(a, ArgsOf(j), a0 + d)
    BY <1>1 DEF d
  <2> HIDE DEF x, a0
  <2> DEFINE one == 1
  <2>6. IsPart(ArgsOf(j), x, a0, ArgPlace(j)[k]) /\ one \in Nat /\ d + one <= Len(x)
    BY <1>4, <2>4 DEF x, a0
  <2> HIDE DEF one
  <2>7. one <= Len(a) /\ \A i \in 1 .. one : a[i] = x[d + i]
    BY ONLY <2>2, <2>5, <2>6, ArgsAhead
  <2>8. 1 <= Len(a) /\ a[1] = x[d + 1]
    BY <2>7 DEF one
  <2>9. d + 1 \in 1 .. Len(x)
    <3>1. Len(x) \in Nat
      BY <1>4 DEF IsPart, x
    <3> QED
      BY <2>2, <2>4, <3>1
  <2>10. x[d + 1].w \in Int
    BY <1>3, <2>9 DEF x
  <2>11. Len(a) \in Nat
    BY <2>5 DEF Remains
  <2> QED
    BY <2>8, <2>10, <2>11
<1> QED
  BY <1>1, <1>3, <1>6, <1>7, <1>8, <1>9

\* One modifier more is read.
LEMMA UnknownGoesOn ==
  ASSUME NEW j \in Job, NEW p, NEW t, NEW a, NEW k, NEW o, AtUnknown(j, p, t, a, k, o), NEW c, c = j.pieces[k].chars,
         o # Len(c), IsModifier(c[o + 1]), NEW b, b = IF c[o + 1] = "*" THEN Tail(a) ELSE a
  PROVE  AtUnknown(j, p + 1, t, b, k, o + 1)
<1> DEFINE n == Len(c)
           c0 == CharPlace(j)[k - 1]
           a0 == ArgPlace(j)[k - 1]
           s == ArgsOf(j)
           q == j.pieces[k]
<1>1. /\ k \in 1 .. Pieces(j) /\ IsUnknown(q, k = Pieces(j)) /\ o \in 1 .. n /\ p = c0 + o + 1
      /\ Agrees(t, MeaningOf(j), MeanPlace(j)[k - 1])
      /\ Remains(a, s, a0 + Stars(c, o)) /\ \A m \in 2 .. o : IsModifier(c[m])
  BY DEF AtUnknown
<1>2. n \in Nat /\ (c[o + 1] = "*" => Len(a) >= 1)
  BY UnknownNext
<1>3. o \in Nat /\ o + 1 \in 1 .. n
  <2> HIDE DEF n
  <2>1. o # n
    BY DEF n
  <2> QED
    BY <1>1, <1>2, <2>1
<1>4. Stars(c, o) \in Nat /\ Stars(c, o + 1) = Stars(c, o) + (IF c[o + 1] = "*" THEN 1 ELSE 0)
  BY <1>3, StarsFacts
<1>5. c0 \in Nat /\ a0 \in Nat
  <2>1. IsPart(FormatOf(j), q.chars, c0, CharPlace(j)[k]) /\ IsPart(s, q.args, a0, ArgPlace(j)[k])
    BY <1>1, PieceAt
  <2> QED
    BY <2>1 DEF IsPart
<1> HIDE DEF n, c0, a0, s, q
<1>6. p + 1 = c0 + (o + 1) + 1
  BY ONLY <1>1, <1>3, <1>5
<1>7. Remains(b, s, a0 + Stars(c, o + 1))
  <2>1. CASE c[o + 1] = "*"
    <3> DEFINE m == a0 + Stars(c, o)
               w == Tail(a)
    <3>1. Remains(a, s, m) /\ Len(a) >= 1 /\ m + 1 = a0 + Stars(c, o + 1) /\ b = w
      BY <1>1, <1>2, <1>4, <1>5, <2>1
    <3> HIDE DEF m
    <3>2. Remains(Tail(a), s, m + 1)
      BY ONLY <3>1, RemainsTail
    <3> HIDE DEF w
    <3>3. Remains(w, s, m + 1)
      BY <3>2 DEF w
    <3> QED
      BY ONLY <3>1, <3>3, Zenon
  <2>2. CASE c[o + 1] # "*"
    <3>1. b = a /\ Stars(c, o + 1) = Stars(c, o)
      BY <1>4, <2>2
    <3> QED
      BY ONLY <1>1, <3>1, Zenon
  <2> QED
    BY <2>1, <2>2
<1>8. ASSUME NEW m \in 2 .. o + 1 PROVE IsModifier(c[m])
  <2>1. m \in 2 .. o \/ m = o + 1
    BY <1>3
  <2>2. IsModifier(c[o + 1])
    OBVIOUS
  <2> QED
    BY ONLY <1>1, <2>1, <2>2, Zenon
<1>9. c = q.chars /\ Len(q.chars) = n
  BY DEF q, n
<1>10. o + 1 \in 1 .. Len(q.chars)
  BY ONLY <1>3, <1>9, Zenon
<1>11. Remains(b, s, a0 + Stars(q.chars, o + 1)) /\ \A m \in 2 .. o + 1 : IsModifier(q.chars[m])
  BY ONLY <1>7, <1>8, <1>9, Zenon
<1> QED
  BY ONLY <1>1, <1>6, <1>10, <1>11, Zenon DEF AtUnknown, c0, a0, s, q

\* Digits are modifiers, and do not lead out of the escape.
LEMMA UnknownDigits ==
  ASSUME NEW j \in Job, NEW p, NEW t, NEW a, NEW k, NEW o, AtUnknown(j, p, t, a, k, o), NEW q \in Nat,
         \A i \in 0 .. q - 1 : DigitValue(CharOf(j, p + i)) < 10
  PROVE  AtUnknown(j, p + q, t, a, k, o + q)
<1> DEFINE c == j.pieces[k].chars
           T == {i \in Nat : i <= q => AtUnknown(j, p + i, t, a, k, o + i)}
<1>1. p \in Nat /\ o \in Nat
  BY UnknownNext
<1>2. 0 \in T
  <2>1. p + 0 = p /\ o + 0 = o
    BY <1>1
  <2> QED
    BY <2>1
<1>3. ASSUME NEW i \in T PROVE i + 1 \in T
  <2>1. SUFFICES ASSUME i + 1 <= q PROVE AtUnknown(j, p + (i + 1), t, a, k, o + (i + 1))
    OBVIOUS
  <2> DEFINE r == p + i
             u == o + i
             d == CharOf(j, r)
  <2>2. i \in Nat /\ i \in 0 .. q - 1 /\ i <= q
    BY <2>1
  <2>3. AtUnknown(j, r, t, a, k, u) /\ DigitValue(d) < 10
    BY <2>2
  <2>4. p + (i + 1) = r + 1 /\ o + (i + 1) = u + 1
    BY <1>1, <2>2
  <2> HIDE DEF r, u, d, T
  <2>5. IsModifier(d) /\ d # "*" /\ d # "NUL"
    BY <2>3, ModifierFacts
  <2>6. c = j.pieces[k].chars
    OBVIOUS
  <2> HIDE DEF c
  <2>7. (u = Len(c) => d = "NUL") /\ (u # Len(c) => d = c[u + 1])
    BY <2>3, <2>6, UnknownNext DEF d
  <2>8. u # Len(c) /\ IsModifier(c[u + 1]) /\ a = IF c[u + 1] = "*" THEN Tail(a) ELSE a
    BY <2>5, <2>7
  <2>9. AtUnknown(j, r + 1, t, a, k, u + 1)
    BY ONLY <2>3, <2>6, <2>8, UnknownGoesOn, j \in Job
  <2> QED
    BY ONLY <2>4, <2>9, Zenon
<1>4. T = Nat
  <2> HIDE DEF T
  <2> QED
    BY <1>2, <1>3, SetInduction DEF T
<1>5. q \in T /\ q <= q
  <2> HIDE DEF T
  <2> QED
    BY <1>4
<1> QED
  BY <1>5

\* It is not recognized: vprintfmt goes back to the character after the %.
LEMMA UnknownEnds ==
  ASSUME NEW j \in Job, NEW p, NEW t, NEW a, NEW k, NEW o, AtUnknown(j, p, t, a, k, o), NEW c, c = j.pieces[k].chars,
         o = Len(c) \/ ~IsModifier(c[o + 1]), NEW s, s = t \o <<"%">>
  PROVE  /\ AtText(j, CharPlace(j)[k - 1] + 2, s, a, k, Len(c) - 1)
         /\ CharPlace(j)[k - 1] + 1 \in 1 .. p - 1
         /\ CharOf(j, CharPlace(j)[k - 1] + 1) = "%"
         /\ \A i \in CharPlace(j)[k - 1] + 2 .. p - 1 : CharOf(j, i) # "%"
<1> DEFINE n == Len(c)
           q == j.pieces[k]
           c0 == CharPlace(j)[k - 1]
           c1 == CharPlace(j)[k]
           m0 == MeanPlace(j)[k - 1]
           m1 == MeanPlace(j)[k]
           a0 == ArgPlace(j)[k - 1]
           F == FormatOf(j)
           M == MeaningOf(j)
           r == n - 1
<1>1. /\ k \in 1 .. Pieces(j) /\ IsUnknown(q, k = Pieces(j)) /\ o \in 1 .. n /\ p = c0 + o + 1
      /\ Agrees(t, M, m0) /\ Remains(a, ArgsOf(j), a0 + Stars(c, o))
  BY DEF AtUnknown
<1>2. UnknownFacts(q, k = Pieces(j)) /\ q.chars = c
  BY <1>1, UnknownHas
<1>3. /\ n \in Nat \ {0} /\ c[1] = "%" /\ q.means = c /\ Plainly(c, 2) /\ \A m \in 2 .. n - 1 : IsModifier(c[m])
      /\ (n > 1 /\ ~IsModifier(c[n]) /\ c[n] \notin Known) \/ n = 1 \/ IsModifier(c[n])
      /\ Len(q.args) = Stars(c, n)
  BY <1>2 DEF UnknownFacts
<1>4. /\ IsPart(F, c, c0, c1) /\ IsPart(ArgsOf(j), q.args, a0, ArgPlace(j)[k]) /\ IsPart(M, q.means, m0, m1)
  BY <1>1, <1>2, PieceAt
<1>5. /\ c0 \in Nat /\ c1 = c0 + n /\ c1 <= Len(F) /\ Len(F) \in Nat /\ \A i \in 1 .. n : F[c0 + i] = c[i]
  BY <1>4 DEF IsPart
<1>6. /\ m0 \in Nat /\ m1 = m0 + n /\ m1 <= Len(M) /\ Len(M) \in Nat /\ \A i \in 1 .. n : M[m0 + i] = c[i]
  <2>1. IsPart(M, c, m0, m1)
    BY ONLY <1>3, <1>4, Zenon
  <2> QED
    BY <2>1 DEF IsPart
<1>7. ArgPlace(j)[k] = a0 + Stars(c, n) /\ a0 \in Nat
  <2>1. ArgPlace(j)[k] = a0 + Len(q.args) /\ a0 \in Nat
    BY <1>4 DEF IsPart
  <2> QED
    BY ONLY <1>3, <2>1, Zenon
<1> HIDE DEF n, c0, c1, m0, m1, a0, F, M, q
<1>8. o = n \/ (o + 1 = n /\ c[n] # "*" /\ ~IsModifier(c[n]))
  <2>1. o = n \/ ~IsModifier(c[o + 1])
    BY DEF n
  <2>2. SUFFICES ASSUME o # n PROVE o + 1 = n /\ c[n] # "*" /\ ~IsModifier(c[n])
    OBVIOUS
  <2>3. o + 1 \in 2 .. n
    BY <1>1, <1>3, <2>2
  <2>4. o + 1 \notin 2 .. n - 1
    BY <1>3, <2>1, <2>2
  <2>5. o + 1 = n
    BY <1>3, <2>3, <2>4
  <2>6. ~IsModifier(c[n])
    BY <2>1, <2>2, <2>5
  <2> QED
    BY <2>5, <2>6 DEF IsModifier
<1>9. Stars(c, o) = Stars(c, n)
  <2>1. CASE o = n
    BY <2>1
  <2>2. CASE o + 1 = n /\ c[n] # "*"
    <3>1. o \in Nat
      BY <1>1
    <3>2. Stars(c, o + 1) = Stars(c, o) + (IF c[o + 1] = "*" THEN 1 ELSE 0) /\ Stars(c, o) \in Nat
      BY <3>1, StarsFacts
    <3> QED
      BY <2>2, <3>2
  <2> QED
    BY <1>8, <2>1, <2>2
<1>10. Remains(a, ArgsOf(j), ArgPlace(j)[k])
  BY ONLY <1>1, <1>7, <1>9, Zenon
<1>11. /\ r \in Nat /\ r <= c1 /\ r <= m1 /\ c0 + 2 = c1 - r + 1 /\ m1 - r = m0 + 1 /\ c1 - r = c0 + 1 /\ m0 + 1 <= Len(M)
  BY ONLY <1>3, <1>5, <1>6
<1>12. Agrees(s, M, m1 - r)
  <2> DEFINE w == <<"%">>
             l == Len(w)
  <2>1. IsSeq(w) /\ Len(w) = 1 /\ w[1] = "%" /\ s = t \o w
    BY SingleIs
  <2> HIDE DEF w
  <2>2. m0 + Len(w) <= Len(M) /\ m0 + Len(w) = m1 - r
    BY ONLY <1>11, <2>1
  <2>3. ASSUME NEW i \in 1 .. Len(w) PROVE M[m0 + i] = w[i]
    <3>1. i = 1 /\ 1 \in 1 .. n
      BY <1>3, <2>1
    <3> QED
      BY ONLY <1>3, <1>6, <2>1, <3>1, Zenon
  <2>4. Agrees(s, M, m0 + Len(w))
    BY ONLY <1>1, <2>1, <2>2, <2>3, AgreesMore
  <2> QED
    BY ONLY <2>2, <2>4, Zenon
<1>13. ASSUME NEW i \in 1 .. r PROVE F[(c1 - r) + i] = M[(m1 - r) + i] /\ F[(c1 - r) + i] \notin {"%", "NUL"}
  <2> DEFINE d == i + 1
  <2>1. d \in 1 .. n /\ d \in 2 .. n /\ (c1 - r) + i = c0 + d /\ (m1 - r) + i = m0 + d
    BY <1>3, <1>5, <1>6, <1>11
  <2> HIDE DEF d
  <2>2. F[c0 + d] = c[d] /\ M[m0 + d] = c[d]
    BY <1>5, <1>6, <2>1
  <2>3. c[d] \notin {"%", "NUL"}
    BY <1>3, <2>1 DEF Plainly, n
  <2> QED
    BY ONLY <2>1, <2>2, <2>3, Zenon
<1>14. k \in 0 .. Pieces(j)
  BY <1>1
<1>15. AtText(j, c0 + 2, s, a, k, r)
  <2> HIDE DEF r
  <2> QED
    BY ONLY <1>10, <1>11, <1>12, <1>13, <1>14, Zenon DEF AtText, c1, m1, F, M
<1>16. c0 + 1 \in 1 .. p - 1
  BY <1>1, <1>5
<1>17. CharOf(j, c0 + 1) = "%"
  <2>1. 1 \in 1 .. n /\ c0 + 1 <= Len(F)
    BY <1>3, <1>5
  <2>2. F[c0 + 1] = "%"
    BY ONLY <1>3, <1>5, <2>1, Zenon
  <2> QED
    BY <2>1, <2>2 DEF CharOf, F
<1>18. ASSUME NEW i \in c0 + 2 .. p - 1 PROVE CharOf(j, i) # "%"
  <2> DEFINE d == i - c0
  <2>1. d \in 1 .. n /\ d \in 2 .. n /\ i = c0 + d /\ i <= Len(F)
    BY <1>1, <1>3, <1>5
  <2> HIDE DEF d
  <2>2. F[i] = c[d]
    BY <1>5, <2>1
  <2>3. c[d] # "%"
    BY <1>3, <2>1 DEF Plainly, n
  <2> QED
    BY <2>1, <2>2, <2>3 DEF CharOf, F
<1> QED
  BY ONLY <1>15, <1>16, <1>17, <1>18, Zenon DEF c0, r, n

----------------------------------------------------------------------------
\* A conversion, part by part.

\* x is what is read from p on.
Ahead(j, p, x) ==
    /\ IsSeq(x) /\ Len(x) \in Nat \ {0} /\ p \in Nat \ {0} /\ p + Len(x) <= Len(FormatOf(j)) + 1
    /\ Len(FormatOf(j)) \in Nat
    /\ \A d \in 1 .. Len(x) : CharOf(j, (p - 1) + d) = x[d] /\ FormatOf(j)[(p - 1) + d] = x[d]

LEMMA PartAhead ==
  ASSUME NEW j \in Job, NEW p, NEW t, NEW a, NEW sp, NEW k, NEW b, NEW i, AtConversion(j, p, t, a, sp, k, b, i),
         NEW e, e = j.pieces[k].esc, NEW conv, conv = j.pieces[k].conv, NEW g, g = EscapeParts(e, conv)
  PROVE  /\ Ahead(j, p, g[i]) /\ IsFirst(e, conv, i, g[i][1]) /\ CharOf(j, p) = g[i][1]
         /\ ~(i = 5 /\ ~e.wstar) /\ ~(i = 7 /\ ~e.pstar) => Len(g[i]) = 1
<1> DEFINE q == j.pieces[k]
           c == q.chars
           l == Places(g)
           c0 == CharPlace(j)[k - 1]
           F == FormatOf(j)
           x == g[i]
<1>1. /\ k \in 1 .. Pieces(j) /\ IsConversion(q, j.lib, b) /\ i \in 2 .. 10 /\ IsThere(e, i) /\ p = c0 + l[i - 1] + 1
  BY DEF AtConversion
<1>2. InPlace(g, c, l) /\ Len(g) = 10 /\ IsEscape(e)
  <2>1. InPlace(g, c, l) /\ Len(g) = 10
    BY <1>1, ConversionChars
  <2> QED
    BY <1>1, <2>1 DEF IsConversion
<1>3. /\ IsSeq(x) /\ Len(x) \in Nat \ {0} /\ IsFirst(e, conv, i, x[1])
      /\ ~(i = 5 /\ ~e.wstar) /\ ~(i = 7 /\ ~e.pstar) => Len(x) = 1
  <2>1. g = EscapeParts(e, conv)
    OBVIOUS
  <2> QED
    BY ONLY <1>1, <1>2, <2>1, PartStarts
<1>4. IsPart(F, c, c0, CharPlace(j)[k])
  BY <1>1, PieceAt
<1>5. IsPart(c, x, l[i - 1], l[i])
  <2>1. i \in 1 .. Len(g)
    BY <1>1, <1>2
  <2> HIDE DEF l, c
  <2> QED
    BY ONLY <1>2, <2>1, PartInPlace
<1> DEFINE o == l[i - 1]
<1> HIDE DEF l, c0, F, x, c, q
<1>6. /\ c0 \in Nat /\ c0 + Len(c) <= Len(F) /\ Len(F) \in Nat /\ Len(c) \in Nat /\ \A d \in 1 .. Len(c) : F[c0 + d] = c[d]
  BY <1>4 DEF IsPart
<1>7. /\ o \in Nat /\ o + Len(x) <= Len(c) /\ \A d \in 1 .. Len(x) : c[o + d] = x[d]
  BY <1>5 DEF IsPart
<1> HIDE DEF o
<1>8. p = c0 + o + 1
  BY <1>1 DEF o
<1>9. p \in Nat \ {0} /\ p + Len(x) <= Len(F) + 1
  BY ONLY <1>3, <1>6, <1>7, <1>8
<1>10. ASSUME NEW d \in 1 .. Len(x) PROVE (p - 1) + d <= Len(F) /\ F[(p - 1) + d] = x[d]
  <2>1. o + d \in 1 .. Len(c) /\ (p - 1) + d = c0 + (o + d) /\ (p - 1) + d <= Len(F)
    BY ONLY <1>3, <1>6, <1>7, <1>8, <1>10
  <2>2. F[c0 + (o + d)] = c[o + d] /\ c[o + d] = x[d]
    BY <1>6, <1>7, <2>1
  <2> QED
    BY ONLY <2>1, <2>2, Zenon
<1>11. \A d \in 1 .. Len(x) : CharOf(j, (p - 1) + d) = x[d] /\ F[(p - 1) + d] = x[d]
  BY <1>10 DEF CharOf, F
<1>12. Ahead(j, p, x)
  BY ONLY <1>3, <1>6, <1>9, <1>11, Zenon DEF Ahead, F
<1>13. CharOf(j, p) = x[1]
  <2>1. 1 \in 1 .. Len(x) /\ (p - 1) + 1 = p
    BY <1>3, <1>9
  <2> QED
    BY ONLY <1>11, <2>1, Zenon
<1> QED
  BY <1>3, <1>12, <1>13 DEF x

\* The conversion characters.
Convs == {"c", "s", "d", "u", "o", "p", "x", "%"}

LEMMA ConvIs ==
  ASSUME NEW p, NEW lib, NEW a, IsConversion(p, lib, a)
  PROVE  p.conv \in Convs
BY DEF IsConversion, Convs

LEMMA ConvsFacts ==
  /\ \A c \in Convs : ~(DigitValue(c) < 10) /\ ~IsModifier(c) /\ c \in Known
  /\ \A c \in {"-", "0", ".", "#", "l", "*"} : c \notin Convs /\ c \in Known /\ DigitValue(c) \notin 1 .. 9
  /\ \A c \in {"-", ".", "#", "l", "*"} : ~(DigitValue(c) < 10)
<1>1. ASSUME NEW c \in Convs PROVE ~(DigitValue(c) < 10) /\ ~IsModifier(c) /\ c \in Known
  <2>1. ~IsModifier(c)
    <3>1. c \in {"NUL", "c", "s", "d", "u", "o", "p", "x", "%"}
      BY DEF Convs
    <3> QED
      BY <3>1, ModifierFacts
  <2>2. ~(DigitValue(c) < 10)
    BY <2>1, ModifierFacts
  <2> QED
    BY <2>1, <2>2 DEF Convs, Known
<1>2. ASSUME NEW c \in {"-", ".", "#", "l", "*"} PROVE DigitValue(c) = 99
  BY DigitFacts DEF Symbols
<1>3. DigitValue("0") = 0
  BY DigitFacts
<1>4. ASSUME NEW c \in {"-", "0", ".", "#", "l", "*"} PROVE c \notin Convs /\ c \in Known /\ DigitValue(c) \notin 1 .. 9
  <2>1. c \notin Convs /\ c \in Known
    BY DEF Convs, Known
  <2>2. CASE c = "0"
    BY <1>3, <2>1, <2>2
  <2>3. CASE c # "0"
    <3>1. DigitValue(c) = 99
      BY <1>2, <2>3
    <3> QED
      BY <2>1, <3>1
  <2> QED
    BY <2>2, <2>3
<1>5. ASSUME NEW c \in {"-", ".", "#", "l", "*"} PROVE ~(DigitValue(c) < 10)
  <2>1. DigitValue(c) = 99
    BY <1>2
  <2> QED
    BY <2>1
<1> QED
  BY <1>1, <1>4, <1>5

\* After a part comes the next one that is there.
LEMMA PartDone ==
  ASSUME NEW j \in Job, NEW p, NEW t, NEW a, NEW sp, NEW k, NEW b, NEW i, AtConversion(j, p, t, a, sp, k, b, i), i # 10,
         NEW e, e = j.pieces[k].esc, NEW conv, conv = j.pieces[k].conv, NEW g, g = EscapeParts(e, conv),
         NEW r, r = p + Len(g[i]), NEW d, Remains(d, ArgsOf(j), ArgPlace(j)[k - 1] + TakenAt(e, i))
  PROVE  \E m \in i + 1 .. 10 : AtConversion(j, r, t, d, SpecAt(e, i), k, b, m) /\ ~(i = 5 /\ m = 7)
<1> DEFINE q == j.pieces[k]
           c == q.chars
           l == Places(g)
           c0 == CharPlace(j)[k - 1]
           a0 == ArgPlace(j)[k - 1]
           s == ArgsOf(j)
<1>1. /\ k \in 1 .. Pieces(j) /\ IsConversion(q, j.lib, b) /\ i \in 2 .. 10 /\ IsThere(e, i) /\ p = c0 + l[i - 1] + 1
      /\ Agrees(t, MeaningOf(j), MeanPlace(j)[k - 1])
  BY DEF AtConversion
<1>2. InPlace(g, c, l) /\ Len(g) = 10 /\ IsEscape(e)
  <2>1. InPlace(g, c, l) /\ Len(g) = 10
    BY <1>1, ConversionChars
  <2> QED
    BY <1>1, <2>1 DEF IsConversion
<1>3. i \in 1 .. 9
  BY <1>1
<1>4. g = EscapeParts(e, conv)
  OBVIOUS
<1> HIDE DEF l, c
<1>5. PICK m \in i + 1 .. 10 : Before(e, l, m, l[i], SpecAt(e, i), TakenAt(e, i))
  <2>1. InPlace(EscapeParts(e, conv), c, l)
    BY ONLY <1>2, <1>4, Zenon
  <2> QED
    BY ONLY <1>2, <1>3, <2>1, NextPart
<1>6. IsThere(e, m) /\ l[i] = l[m - 1] /\ SpecAt(e, i) = SpecAt(e, m - 1) /\ TakenAt(e, i) = TakenAt(e, m - 1)
  BY <1>5 DEF Before
<1>7. m \in 2 .. 10
  BY <1>3, <1>5
<1>8. ASSUME i = 5, m = 7 PROVE FALSE
  <2>1. IsThere(e, 6)
    BY <1>6, <1>8 DEF IsThere
  <2> DEFINE six == 6
  <2>2. six \in 2 .. 10 /\ six \in 1 .. Len(g) /\ six - 1 = i /\ six = m - 1
    BY <1>2, <1>8
  <2>3. IsThere(e, six)
    BY <2>1
  <2> HIDE DEF six
  <2>4. Len(g[six]) \in Nat \ {0}
    BY ONLY <1>2, <1>4, <2>2, <2>3, PartStarts
  <2>5. l[six] = l[six - 1] + Len(g[six]) /\ l[six - 1] \in Nat
    <3>1. IsPart(c, g[six], l[six - 1], l[six])
      BY ONLY <1>2, <2>2, PartInPlace
    <3> QED
      BY <3>1 DEF IsPart
  <2>6. l[i] = l[six] /\ l[six - 1] = l[i]
    BY ONLY <1>6, <2>2, Zenon
  <2> QED
    BY ONLY <2>4, <2>5, <2>6
<1>9. r = c0 + l[m - 1] + 1
  <2>1. IsPart(c, g[i], l[i - 1], l[i])
    <3>1. i \in 1 .. Len(g)
      BY <1>2, <1>3
    <3> QED
      BY ONLY <1>2, <3>1, PartInPlace
  <2>2. l[i - 1] \in Nat /\ Len(g[i]) \in Nat /\ l[i] = l[i - 1] + Len(g[i])
    BY <2>1 DEF IsPart
  <2>3. c0 \in Nat
    <3>1. IsPart(FormatOf(j), q.chars, c0, CharPlace(j)[k])
      BY <1>1, PieceAt
    <3> QED
      BY <3>1 DEF IsPart
  <2>4. r = p + Len(g[i])
    OBVIOUS
  <2> HIDE DEF c0
  <2>5. r = c0 + l[i] + 1
    BY ONLY <1>1, <2>2, <2>3, <2>4
  <2> QED
    BY ONLY <1>6, <2>5, Zenon
<1>10. Remains(d, s, a0 + TakenAt(e, m - 1))
  <2>1. Remains(d, s, a0 + TakenAt(e, i))
    OBVIOUS
  <2> HIDE DEF s, a0
  <2> QED
    BY ONLY <1>6, <2>1, Zenon
<1>11. e = q.esc /\ conv = q.conv
  OBVIOUS
<1> HIDE DEF q, c0, a0, s
<1>12. AtConversion(j, r, t, d, SpecAt(e, i), k, b, m)
  <2>1. IsThere(q.esc, m) /\ r = c0 + Places(EscapeParts(q.esc, q.conv))[m - 1] + 1 /\ SpecAt(e, i) = SpecAt(q.esc, m - 1)
        /\ Remains(d, s, a0 + TakenAt(q.esc, m - 1))
    BY ONLY <1>4, <1>6, <1>9, <1>10, <1>11, Zenon DEF l
  <2> QED
    BY ONLY <1>1, <1>7, <2>1, Zenon DEF AtConversion, q, c0, a0, s
<1> QED
  BY <1>5, <1>8, <1>12

\* How the code changes the specification for the flag c, and for the size n.
FlagMeans(c, sp, u) ==
    \/ c \in {"-", "0"} /\ u = [sp EXCEPT !.padc = c]
    \/ c = "." /\ u = [sp EXCEPT !.width = IF @ < 0 THEN 0 ELSE @]
    \/ c = "#" /\ u = [sp EXCEPT !.altflag = TRUE]
    \/ c = "l" /\ u = [sp EXCEPT !.lflag = @ + 1]

SizeMeans(sp, n, u) ==
    u = IF sp.width < 0 THEN [sp EXCEPT !.width = n, !.precision = -1] ELSE [sp EXCEPT !.precision = n]

\* The character of a part.
LEMMA PartKinds ==
  ASSUME NEW e, NEW conv \in Convs, NEW i \in 2 .. 10, NEW c, IsFirst(e, conv, i, c)
  PROVE  \/ i \in {2, 3, 4, 6, 8, 9} /\ c \in {"-", "0", ".", "#", "l"}
         \/ i = 5 /\ e.wstar /\ c = "*"
         \/ i = 7 /\ e.pstar /\ c = "*"
         \/ i = 5 /\ ~e.wstar /\ DigitValue(c) \in 1 .. 9
         \/ i = 7 /\ ~e.pstar /\ DigitValue(c) \in 1 .. 9
         \/ i = 10 /\ c = conv
<1>1. ASSUME NEW d \in 2 .. 10 PROVE DigitValue(Digit[d]) \in 1 .. 9
  <2>1. DigitValue(Digit[d]) = d - 1
    BY DigitFacts
  <2> QED
    BY <2>1
<1>2. (\E d \in 2 .. 10 : c = Digit[d]) => DigitValue(c) \in 1 .. 9
  BY ONLY <1>1, Zenon
<1> HIDE DEF DigitValue
<1> QED
  BY <1>2 DEF IsFirst

\* One flag.
LEMMA FlagDone ==
  ASSUME NEW j \in Job, NEW p, NEW t, NEW a, NEW sp, NEW k, NEW b, NEW i, AtConversion(j, p, t, a, sp, k, b, i),
         NEW c, c = CharOf(j, p), NEW u, FlagMeans(c, sp, u)
  PROVE  \E m \in 2 .. 10 : AtConversion(j, p + 1, t, a, u, k, b, m)
<1> DEFINE q == j.pieces[k]
           e == q.esc
           conv == q.conv
           g == EscapeParts(e, conv)
<1>1. /\ IsConversion(q, j.lib, b) /\ i \in 2 .. 10 /\ IsThere(e, i) /\ sp = SpecAt(e, i - 1)
      /\ Remains(a, ArgsOf(j), ArgPlace(j)[k - 1] + TakenAt(e, i - 1))
  BY DEF AtConversion
<1>2. IsEscape(e) /\ conv \in Convs
  <2>1. conv \in Convs
    BY <1>1, ConvIs
  <2> QED
    BY <1>1, <2>1 DEF IsConversion
<1>3. IsFirst(e, conv, i, g[i][1]) /\ CharOf(j, p) = g[i][1] /\ (~(i = 5 /\ ~e.wstar) /\ ~(i = 7 /\ ~e.pstar) => Len(g[i]) = 1)
  BY PartAhead
<1>4. IsFirst(e, conv, i, c)
  <2> HIDE DEF g, e, conv
  <2> QED
    BY <1>3
<1>5. c \in {"-", "0", ".", "#", "l"}
  BY DEF FlagMeans
<1>6. i \in {2, 3, 4, 6, 8, 9}
  <2>1. c \notin Convs /\ c # "*" /\ DigitValue(c) \notin 1 .. 9
    BY <1>5, ConvsFacts
  <2> HIDE DEF e, conv
  <2> QED
    BY ONLY <1>1, <1>2, <1>4, <2>1, PartKinds
<1> HIDE DEF g, e, conv, q
<1>7. u = SpecAt(e, i) /\ TakenAt(e, i) = TakenAt(e, i - 1)
  <2>1. i \in 2 .. 9
    BY <1>6
  <2>2. /\ i = 2 => SpecAt(e, i) = [sp EXCEPT !.padc = "-"]
        /\ i = 3 => SpecAt(e, i) = [sp EXCEPT !.padc = "0"]
        /\ i = 4 => SpecAt(e, i) = [sp EXCEPT !.altflag = TRUE]
        /\ i = 5 => sp.width < 0 /\ SpecAt(e, i) = [sp EXCEPT !.width = e.width, !.precision = -1]
        /\ i = 6 => SpecAt(e, i) = [sp EXCEPT !.width = IF @ < 0 THEN 0 ELSE @]
        /\ i = 7 => ~(sp.width < 0) /\ SpecAt(e, i) = [sp EXCEPT !.precision = e.prec]
        /\ i \in {8, 9} => SpecAt(e, i) = [sp EXCEPT !.lflag = @ + 1]
        /\ TakenAt(e, i) = TakenAt(e, i - 1) + (IF (i = 5 /\ e.wstar) \/ (i = 7 /\ e.pstar) THEN 1 ELSE 0)
        /\ TakenAt(e, i - 1) \in Nat
    <3>1. PartMeans(e, i, sp)
      BY ONLY <1>1, <1>2, <2>1, PartSpec
    <3> QED
      BY ONLY <3>1 DEF PartMeans
  <2>3. TakenAt(e, i) = TakenAt(e, i - 1)
    BY ONLY <1>6, <2>2
  <2>4. u = SpecAt(e, i)
    <3>1. /\ i = 2 => c = "-"
          /\ i = 3 => c = "0"
          /\ i = 4 => c = "#"
          /\ i = 6 => c = "."
          /\ i \in {8, 9} => c = "l"
      BY <1>4 DEF IsFirst
    <3>2. CASE i = 2
      <4>1. u = [sp EXCEPT !.padc = "-"]
        BY <3>1, <3>2 DEF FlagMeans
      <4> QED
        BY ONLY <2>2, <3>2, <4>1
    <3>3. CASE i = 3
      <4>1. u = [sp EXCEPT !.padc = "0"]
        BY <3>1, <3>3 DEF FlagMeans
      <4> QED
        BY ONLY <2>2, <3>3, <4>1
    <3>4. CASE i = 4
      <4> DEFINE v == [sp EXCEPT !.altflag = TRUE]
      <4>1. u = v
        BY <3>1, <3>4 DEF FlagMeans
      <4>2. SpecAt(e, i) = v
        BY <2>2, <3>4
      <4> HIDE DEF v
      <4> QED
        BY ONLY <4>1, <4>2
    <3>5. CASE i = 6
      <4> DEFINE v == [sp EXCEPT !.width = IF @ < 0 THEN 0 ELSE @]
      <4>1. u = v
        BY <3>1, <3>5 DEF FlagMeans
      <4>2. SpecAt(e, i) = v
        BY <2>2, <3>5
      <4> HIDE DEF v
      <4> QED
        BY ONLY <4>1, <4>2
    <3>6. CASE i \in {8, 9}
      <4> DEFINE v == [sp EXCEPT !.lflag = @ + 1]
      <4>1. u = v
        BY <3>1, <3>6 DEF FlagMeans
      <4>2. SpecAt(e, i) = v
        BY <2>2, <3>6
      <4> HIDE DEF v
      <4> QED
        BY ONLY <4>1, <4>2
    <3> QED
      BY <1>6, <3>2, <3>3, <3>4, <3>5, <3>6
  <2> QED
    BY <2>3, <2>4
<1>8. i # 10 /\ p + 1 = p + Len(g[i])
  <2>1. Len(g[i]) = 1
    BY <1>3, <1>6
  <2> QED
    BY ONLY <1>6, <2>1
<1>9. Remains(a, ArgsOf(j), ArgPlace(j)[k - 1] + TakenAt(e, i))
  BY ONLY <1>1, <1>7, Zenon
<1> DEFINE r == p + 1
<1>10. /\ j \in Job /\ AtConversion(j, p, t, a, sp, k, b, i) /\ e = j.pieces[k].esc /\ conv = j.pieces[k].conv
       /\ g = EscapeParts(e, conv) /\ r = p + Len(g[i])
  BY <1>8 DEF e, conv, q, g
<1> HIDE DEF r
<1>11. \E m \in i + 1 .. 10 : AtConversion(j, r, t, a, SpecAt(e, i), k, b, m) /\ ~(i = 5 /\ m = 7)
  BY ONLY <1>8, <1>9, <1>10, PartDone
<1>12. \A m : m \in i + 1 .. 10 => m \in 2 .. 10
  BY <1>1
<1> QED
  BY ONLY <1>7, <1>11, <1>12, Zenon DEF r

\* A width or a precision, and whether it is given by a star.
SizeOf(e, i) == IF i = 5 THEN e.width ELSE e.prec
StarOf(e, i) == IF i = 5 THEN e.wstar ELSE e.pstar

SizeFacts(j, k, a, sp, e, g, i) ==
    /\ SizeMeans(sp, SizeOf(e, i), SpecAt(e, i)) /\ SizeOf(e, i) \in Nat
    /\ StarOf(e, i) => TakenAt(e, i) = TakenAt(e, i - 1) + 1 /\ Len(a) >= 1 /\ a[1] = [w |-> SizeOf(e, i)]
    /\ ~StarOf(e, i) => TakenAt(e, i) = TakenAt(e, i - 1) /\ SizeOf(e, i) > 0 /\ g[i] = Numeral(SizeOf(e, i), 10)
    /\ TakenAt(e, i - 1) \in Nat /\ Remains(a, ArgsOf(j), ArgPlace(j)[k - 1] + TakenAt(e, i - 1))
    /\ ArgPlace(j)[k - 1] \in Nat

LEMMA SizeIs ==
  ASSUME NEW j \in Job, NEW p, NEW t, NEW a, NEW sp, NEW k, NEW b, NEW i \in {5, 7}, AtConversion(j, p, t, a, sp, k, b, i),
         NEW e, e = j.pieces[k].esc, NEW g, g = EscapeParts(e, j.pieces[k].conv)
  PROVE  SizeFacts(j, k, a, sp, e, g, i)
<1> DEFINE q == j.pieces[k]
           n == SizeOf(e, i)
           x == q.args
           a0 == ArgPlace(j)[k - 1]
           s == ArgsOf(j)
           d == TakenAt(e, i - 1)
<1>1. /\ k \in 1 .. Pieces(j) /\ IsConversion(q, j.lib, b) /\ IsThere(e, i) /\ sp = SpecAt(e, i - 1)
      /\ Remains(a, s, a0 + d)
  BY DEF AtConversion
<1>2. IsEscape(e)
  BY <1>1 DEF IsConversion
<1>3. /\ e.minus \in BOOLEAN /\ e.zero \in BOOLEAN /\ e.alt \in BOOLEAN /\ e.width \in Nat /\ e.wstar \in BOOLEAN
      /\ e.prec \in Nat /\ e.pstar \in BOOLEAN /\ e.longs \in 0 .. 2 /\ (e.pstar => e.prec > 0)
  BY <1>2, EscapeFields DEF IsEscape
<1>4. PartMeans(e, i, sp)
  <2>1. i \in 2 .. 9
    OBVIOUS
  <2> QED
    BY ONLY <1>1, <1>2, <2>1, PartSpec
<1>5. /\ i = 5 => sp.width < 0 /\ SpecAt(e, i) = [sp EXCEPT !.width = e.width, !.precision = -1]
      /\ i = 7 => ~(sp.width < 0) /\ SpecAt(e, i) = [sp EXCEPT !.precision = e.prec]
      /\ TakenAt(e, i) = d + (IF (i = 5 /\ e.wstar) \/ (i = 7 /\ e.pstar) THEN 1 ELSE 0)
      /\ d \in Nat
  BY ONLY <1>4 DEF PartMeans
<1>6. SizeMeans(sp, n, SpecAt(e, i))
  <2>1. CASE i = 5
    <3> DEFINE w == e.width
    <3>1. n = w
      BY <2>1 DEF SizeOf
    <3>2. sp.width < 0 /\ SpecAt(e, i) = [sp EXCEPT !.width = w, !.precision = -1]
      BY <1>5, <2>1
    <3> HIDE DEF w, n
    <3>3. SpecAt(e, i) = [sp EXCEPT !.width = n, !.precision = -1]
      BY ONLY <3>1, <3>2, Zenon
    <3> DEFINE v == SpecAt(e, i)
               v1 == [sp EXCEPT !.width = n, !.precision = -1]
               v2 == [sp EXCEPT !.precision = n]
    <3>4. v = v1 /\ (sp.width < 0) = TRUE
      BY <3>2, <3>3
    <3> HIDE DEF v, v1, v2
    <3>5. v = IF sp.width < 0 THEN v1 ELSE v2
      BY <3>4
    <3> QED
      BY <3>5 DEF SizeMeans, v, v1, v2
  <2>2. CASE i = 7
    <3> DEFINE w == e.prec
    <3>1. n = w
      BY <2>2 DEF SizeOf
    <3>2. ~(sp.width < 0) /\ SpecAt(e, i) = [sp EXCEPT !.precision = w]
      BY <1>5, <2>2
    <3> HIDE DEF w, n
    <3>3. SpecAt(e, i) = [sp EXCEPT !.precision = n]
      BY ONLY <3>1, <3>2, Zenon
    <3> DEFINE v == SpecAt(e, i)
               v1 == [sp EXCEPT !.width = n, !.precision = -1]
               v2 == [sp EXCEPT !.precision = n]
    <3>4. v = v2 /\ ~(sp.width < 0)
      BY <3>2, <3>3
    <3> HIDE DEF v, v1, v2
    <3>5. v = IF sp.width < 0 THEN v1 ELSE v2
      BY <3>4
    <3> QED
      BY <3>5 DEF SizeMeans, v, v1, v2
  <2> QED
    BY <2>1, <2>2
<1>7. n \in Nat /\ StarOf(e, i) \in BOOLEAN
  BY <1>3 DEF SizeOf, StarOf
<1>8. IsPart(s, x, a0, ArgPlace(j)[k])
  BY <1>1, PieceAt
<1>9. a0 \in Nat
  BY <1>8 DEF IsPart
<1>10. ASSUME StarOf(e, i) PROVE TakenAt(e, i) = d + 1 /\ Len(a) >= 1 /\ a[1] = [w |-> n]
  <2>1. (i = 5 /\ e.wstar) \/ (i = 7 /\ e.pstar)
    BY <1>10 DEF StarOf
  <2>2. TakenAt(e, i) = d + 1
    BY <1>5, <2>1
  <2> DEFINE m == [w |-> n]
  <2>3. /\ Len(b) \in Nat /\ Len(x) = TakenAt(e, 9) + Len(b)
        /\ e.wstar => x[1] = [w |-> e.width]
        /\ e.pstar => x[TakenAt(e, 6) + 1] = [w |-> e.prec]
    <3>1. ArgsAre(q, b)
      BY <1>1, ConversionArgs
    <3> QED
      BY <3>1 DEF ArgsAre
  <2>4. d + 1 <= TakenAt(e, 9) /\ TakenAt(e, 9) \in Nat
    BY <1>3, <2>1 DEF TakenAt
  <2>5. x[d + 1] = m
    <3>1. CASE i = 5 /\ e.wstar
      <4>1. d = 0
        BY <3>1 DEF TakenAt
      <4>2. n = e.width
        BY <3>1 DEF SizeOf
      <4>3. d + 1 = 1
        BY <4>1
      <4>4. x[1] = [w |-> e.width]
        BY <2>3, <3>1
      <4> HIDE DEF n, d, x
      <4> QED
        BY ONLY <4>2, <4>3, <4>4, Zenon DEF m
    <3>2. CASE i = 7 /\ e.pstar
      <4>1. i - 1 = 6
        BY <3>2
      <4>2. n = e.prec
        BY <3>2 DEF SizeOf
      <4>3. d + 1 = TakenAt(e, 6) + 1
        BY <4>1
      <4>4. x[TakenAt(e, 6) + 1] = [w |-> e.prec]
        BY <2>3, <3>2
      <4> HIDE DEF n, d, x
      <4> QED
        BY ONLY <4>2, <4>3, <4>4, Zenon DEF m
    <3> QED
      BY <2>1, <3>1, <3>2
  <2> HIDE DEF m, d, x, a0, s
  <2> DEFINE one == 1
  <2>6. one \in Nat /\ d + one <= Len(x)
    BY ONLY <1>5, <2>3, <2>4
  <2> HIDE DEF one
  <2>7. one <= Len(a) /\ \A h \in 1 .. one : a[h] = x[d + h]
    BY ONLY <1>1, <1>5, <1>8, <2>6, ArgsAhead
  <2>8. 1 <= Len(a) /\ a[1] = x[d + 1]
    BY <2>7 DEF one
  <2>9. Len(a) \in Nat
    BY <1>1 DEF Remains
  <2>10. a[1] = m /\ Len(a) >= 1
    BY ONLY <2>5, <2>8, <2>9
  <2> QED
    BY <2>2, <2>10 DEF m
<1>11. ASSUME ~StarOf(e, i) PROVE TakenAt(e, i) = d /\ n > 0 /\ g[i] = Numeral(n, 10)
  <2>1. /\ i = 5 => ~e.wstar /\ e.width > 0
        /\ i = 7 => ~e.pstar /\ e.prec > 0
    BY <1>1, <1>3, <1>11 DEF StarOf, IsThere
  <2>2. TakenAt(e, i) = d
    BY <1>5, <2>1
  <2>3. g[5] = SizeChars(e.width, e.wstar) /\ g[7] = SizeChars(e.prec, e.pstar)
    BY PartsAre
  <2>4. CASE i = 5
    BY <2>1, <2>2, <2>3, <2>4 DEF SizeChars, SizeOf
  <2>5. CASE i = 7
    BY <2>1, <2>2, <2>3, <2>5 DEF SizeChars, SizeOf
  <2> QED
    BY <2>4, <2>5
<1> QED
  BY ONLY <1>1, <1>5, <1>6, <1>7, <1>9, <1>10, <1>11, Zenon DEF SizeFacts

\* A star.
LEMMA StarDone ==
  ASSUME NEW j \in Job, NEW p, NEW t, NEW a, NEW sp, NEW k, NEW b, NEW i, AtConversion(j, p, t, a, sp, k, b, i),
         CharOf(j, p) = "*"
  PROVE  /\ Len(a) >= 1 /\ a[1].w \in Int
         /\ \A u : SizeMeans(sp, a[1].w, u) => \E m \in 2 .. 10 : AtConversion(j, p + 1, t, Tail(a), u, k, b, m)
<1> DEFINE q == j.pieces[k]
           e == q.esc
           conv == q.conv
           g == EscapeParts(e, conv)
           c == CharOf(j, p)
           star == "*"
<1>1. /\ IsConversion(q, j.lib, b) /\ i \in 2 .. 10
  BY DEF AtConversion
<1>2. conv \in Convs
  BY <1>1, ConvIs
<1>3. IsFirst(e, conv, i, g[i][1]) /\ c = g[i][1] /\ (~(i = 5 /\ ~e.wstar) /\ ~(i = 7 /\ ~e.pstar) => Len(g[i]) = 1)
  BY PartAhead
<1>4. c = "*" /\ c \notin Convs /\ DigitValue(c) \notin 1 .. 9
  <2>1. c \in {"-", "0", ".", "#", "l", "*"} /\ c = "*"
    OBVIOUS
  <2> HIDE DEF c
  <2> QED
    BY ONLY <2>1, ConvsFacts
<1>5. (i = 5 /\ e.wstar) \/ (i = 7 /\ e.pstar)
  <2> HIDE DEF g, e, conv, c
  <2>1. IsFirst(e, conv, i, c)
    BY <1>3
  <2>2. c \notin {"-", "0", ".", "#", "l"} /\ c # conv
    BY <1>2, <1>4
  <2> QED
    BY ONLY <1>1, <1>2, <1>4, <2>1, <2>2, PartKinds
<1>6. i \in {5, 7} /\ StarOf(e, i) /\ Len(g[i]) = 1
  <2> HIDE DEF g
  <2> QED
    BY <1>3, <1>5 DEF StarOf
<1>7. SizeFacts(j, k, a, sp, e, g, i)
  BY <1>6, SizeIs
<1> DEFINE n == SizeOf(e, i)
           a0 == ArgPlace(j)[k - 1]
           s == ArgsOf(j)
           d == TakenAt(e, i - 1)
           w == Tail(a)
           r == p + 1
<1>8. AtConversion(j, p, t, a, sp, k, b, i) /\ e = j.pieces[k].esc /\ conv = j.pieces[k].conv /\ g = EscapeParts(e, conv)
  OBVIOUS
<1> HIDE DEF g, e, conv, q, c
<1>9. /\ SizeMeans(sp, n, SpecAt(e, i)) /\ n \in Nat
      /\ TakenAt(e, i) = d + 1 /\ Len(a) >= 1 /\ a[1] = [w |-> n]
      /\ d \in Nat /\ Remains(a, s, a0 + d) /\ a0 \in Nat
  BY <1>6, <1>7 DEF SizeFacts
<1>10. a[1].w = n
  <2> HIDE DEF n
  <2> DEFINE m == [w |-> n]
  <2>1. m.w = n
    OBVIOUS
  <2>2. a[1] = m
    BY <1>9
  <2> HIDE DEF m
  <2> QED
    BY <2>1, <2>2
<1>11. ASSUME NEW u, SizeMeans(sp, a[1].w, u) PROVE \E m \in 2 .. 10 : AtConversion(j, r, t, w, u, k, b, m)
  <2>1. SizeMeans(sp, n, u)
    BY ONLY <1>10, <1>11, Zenon
  <2>2. u = SpecAt(e, i)
    BY ONLY <1>9, <2>1, Zenon DEF SizeMeans
  <2> DEFINE l == a0 + d
  <2>3. Remains(a, s, l) /\ Len(a) >= 1 /\ l + 1 = a0 + TakenAt(e, i)
    BY <1>9
  <2> HIDE DEF l, w
  <2>4. Remains(Tail(a), s, l + 1)
    BY ONLY <2>3, RemainsTail
  <2>5. Remains(w, ArgsOf(j), ArgPlace(j)[k - 1] + TakenAt(e, i))
    BY ONLY <2>3, <2>4, Zenon DEF w, s, a0
  <2>6. r = p + Len(g[i]) /\ i # 10
    BY <1>6
  <2> HIDE DEF r
  <2>7. \E m \in i + 1 .. 10 : AtConversion(j, r, t, w, SpecAt(e, i), k, b, m) /\ ~(i = 5 /\ m = 7)
    BY ONLY <1>8, <2>5, <2>6, PartDone, j \in Job
  <2>8. \A m : m \in i + 1 .. 10 => m \in 2 .. 10
    BY <1>1
  <2> QED
    BY ONLY <2>2, <2>7, <2>8, Zenon
<1>12. Len(a) >= 1 /\ a[1].w \in Int
  BY ONLY <1>9, <1>10
<1> QED
  BY <1>11, <1>12

\* A number.
LEMMA NumberDone ==
  ASSUME NEW j \in Job, NEW p, NEW t, NEW a, NEW sp, NEW k, NEW b, NEW i, AtConversion(j, p, t, a, sp, k, b, i),
         DigitValue(CharOf(j, p)) \in 1 .. 9,
         NEW n, n = Count({d \in Nat : DigitValue(CharOf(j, p + d)) < 10}),
         NEW x, x = SubSeq(FormatOf(j), p, p + n - 1)
  PROVE  \A u : SizeMeans(sp, ValueOf(x), u) => \E m \in 2 .. 10 : AtConversion(j, p + n, t, a, u, k, b, m)
<1> DEFINE q == j.pieces[k]
           e == q.esc
           conv == q.conv
           g == EscapeParts(e, conv)
           c == CharOf(j, p)
           v == SizeOf(e, i)
           a0 == ArgPlace(j)[k - 1]
           s == ArgsOf(j)
           F == FormatOf(j)
<1>1. IsConversion(q, j.lib, b) /\ i \in 2 .. 10
  BY DEF AtConversion
<1>2. conv \in Convs
  BY <1>1, ConvIs
<1>3. IsFirst(e, conv, i, g[i][1]) /\ c = g[i][1] /\ Ahead(j, p, g[i])
  BY PartAhead
<1>4. c \notin Convs /\ c \notin {"-", "0", ".", "#", "l", "*"}
  <2>1. DigitValue(c) \in 1 .. 9
    OBVIOUS
  <2> HIDE DEF c
  <2>2. DigitValue(c) < 10
    BY <2>1
  <2> QED
    BY ONLY <2>1, <2>2, ConvsFacts
<1>5. (i = 5 /\ ~e.wstar) \/ (i = 7 /\ ~e.pstar)
  <2> HIDE DEF g, e, conv, c
  <2>1. IsFirst(e, conv, i, c)
    BY <1>3
  <2>2. c \notin {"-", "0", ".", "#", "l"} /\ c # conv /\ c # "*"
    BY <1>2, <1>4
  <2> QED
    BY ONLY <1>1, <1>2, <2>1, <2>2, PartKinds
<1>6. i \in {5, 7} /\ ~StarOf(e, i)
  BY <1>5 DEF StarOf
<1>7. SizeFacts(j, k, a, sp, e, g, i)
  BY <1>6, SizeIs
<1>8. AtConversion(j, p, t, a, sp, k, b, i) /\ e = j.pieces[k].esc /\ conv = j.pieces[k].conv /\ g = EscapeParts(e, conv) /\ q = j.pieces[k]
  OBVIOUS
<1> HIDE DEF g, e, conv, q, c, v, F
<1>9. /\ SizeMeans(sp, v, SpecAt(e, i)) /\ v \in Nat /\ v > 0 /\ g[i] = Numeral(v, 10)
      /\ Remains(a, s, a0 + TakenAt(e, i))
  <2>1. /\ SizeMeans(sp, v, SpecAt(e, i)) /\ v \in Nat /\ v > 0 /\ g[i] = Numeral(v, 10)
        /\ TakenAt(e, i) = TakenAt(e, i - 1) /\ Remains(a, s, a0 + TakenAt(e, i - 1))
    BY <1>6, <1>7 DEF SizeFacts, v
  <2> QED
    BY ONLY <2>1, Zenon
<1> DEFINE y == g[i]
           l == Len(y)
<1>10. /\ IsSeq(y) /\ l \in Nat \ {0} /\ p \in Nat \ {0} /\ p + l <= Len(F) + 1 /\ Len(F) \in Nat
       /\ \A d \in 1 .. l : CharOf(j, (p - 1) + d) = y[d] /\ F[(p - 1) + d] = y[d]
  BY <1>3 DEF Ahead, F
<1>11. \A d \in 1 .. l : DigitValue(y[d]) < 10
  <2> DEFINE ten == 10
             z == Numeral(v, ten)
  <2>1. ten \in 2 .. 16 /\ ten = 10
    OBVIOUS
  <2> HIDE DEF ten
  <2>2. \A d \in 1 .. Len(z) : \E h \in 1 .. ten : z[d] = Digit[h]
    BY ONLY <1>9, <2>1, NumeralDigits
  <2>3. z = y
    BY <1>9, <2>1
  <2> HIDE DEF z, y
  <2>4. \A d \in 1 .. l : \E h \in 1 .. ten : y[d] = Digit[h]
    BY ONLY <2>2, <2>3, Zenon
  <2>5. \A h \in 1 .. ten : DigitValue(Digit[h]) < 10
    <3>1. SUFFICES ASSUME NEW h \in 1 .. ten PROVE DigitValue(Digit[h]) < 10
      OBVIOUS
    <3>2. DigitValue(Digit[h]) = h - 1 /\ h \in 1 .. 10
      BY <2>1, DigitFacts
    <3> QED
      BY <3>2
  <2> QED
    BY ONLY <2>4, <2>5, Zenon
<1> HIDE DEF y, l
<1> DEFINE r == p + l
<1>12. PICK m \in i + 1 .. 10 : AtConversion(j, r, t, a, SpecAt(e, i), k, b, m) /\ ~(i = 5 /\ m = 7)
  <2>1. i # 10 /\ r = p + Len(g[i]) /\ Remains(a, ArgsOf(j), ArgPlace(j)[k - 1] + TakenAt(e, i))
    BY <1>6, <1>9 DEF l, y
  <2> HIDE DEF r
  <2> QED
    BY ONLY <1>8, <2>1, PartDone, j \in Job
<1>13. m \in 2 .. 10 /\ m \notin {2, 3, 4, 5, 7}
  BY <1>6, <1>12
<1>14. ~(DigitValue(CharOf(j, r)) < 10)
  <2> DEFINE f == CharOf(j, r)
  <2>1. IsFirst(e, conv, m, g[m][1]) /\ f = g[m][1]
    <3> HIDE DEF r
    <3>1. AtConversion(j, r, t, a, SpecAt(e, i), k, b, m)
      BY <1>12
    <3> DEFINE sq == SpecAt(e, i)
    <3> HIDE DEF sq
    <3>2. AtConversion(j, r, t, a, sq, k, b, m)
      BY <3>1 DEF sq
    <3> QED
      BY ONLY <1>8, <3>2, PartAhead, j \in Job
  <2>2. f \in {".", "l"} \/ f = conv
    <3> HIDE DEF f
    <3>1. IsFirst(e, conv, m, f)
      BY ONLY <2>1, Zenon
    <3>2. (m = 6 => f = ".") /\ (m \in {8, 9} => f = "l") /\ (m = 10 => f = conv)
      BY <3>1 DEF IsFirst
    <3>3. m \in {6, 8, 9, 10}
      BY ONLY <1>13
    <3> QED
      BY ONLY <3>2, <3>3
  <2> HIDE DEF f
  <2>3. f \in Convs \/ f \in {"-", ".", "#", "l", "*"}
    BY ONLY <1>2, <2>2
  <2>4. ~(DigitValue(f) < 10)
    BY ONLY <2>3, ConvsFacts
  <2> QED
    BY <2>4 DEF f
<1>15. n = l
  <2> DEFINE C == {d \in Nat : DigitValue(CharOf(j, p + d)) < 10}
  <2>1. l \in Nat /\ l \notin C
    BY <1>10, <1>14
  <2>2. ASSUME NEW d \in 0 .. l - 1 PROVE d \in C
    <3> DEFINE h == d + 1
    <3>1. h \in 1 .. l /\ (p - 1) + h = p + d /\ d \in Nat
      BY <1>10
    <3> HIDE DEF h
    <3>2. CharOf(j, p + d) = y[h]
      BY <1>10, <3>1
    <3>3. DigitValue(CharOf(j, p + d)) < 10
      BY <1>11, <3>1, <3>2
    <3> QED
      BY <3>1, <3>3
  <2>3. n = Count(C)
    OBVIOUS
  <2> HIDE DEF C
  <2>4. Count(C) = l
    BY ONLY <2>1, <2>2, CountIs
  <2> QED
    BY ONLY <2>3, <2>4, Zenon
<1>16. x = y
  <2>1. x = SubSeq(F, p, p + l - 1)
    BY <1>15 DEF F
  <2>2. IsSeq(F)
    BY PlacesEnd DEF F
  <2> DEFINE o == p - 1
             h == p + l - 1
             w == SubSeq(F, o + 1, h)
  <2>3. o \in Nat /\ h \in Nat /\ o <= h /\ h <= Len(F) /\ h - o = l /\ o + 1 = p
    BY <1>10
  <2>4. \A d \in 1 .. l : F[o + d] = y[d]
    BY <1>10
  <2>9. w = SubSeq(F, p, p + l - 1)
    BY <2>3
  <2> HIDE DEF o, h
  <2>5. IsSeq(w) /\ Len(w) = h - o /\ \A d \in 1 .. h - o : w[d] = F[o + d]
    BY ONLY <2>2, <2>3, PartAtPlace
  <2> HIDE DEF w
  <2>6. x = w
    BY ONLY <2>1, <2>9, Zenon
  <2>7. IsSeq(w) /\ IsSeq(y) /\ Len(w) = Len(y) /\ \A d \in 1 .. Len(w) : w[d] = y[d]
    BY ONLY <1>10, <2>3, <2>4, <2>5 DEF l
  <2>8. w = y
    BY ONLY <2>7, SameSeq
  <2> QED
    BY ONLY <2>6, <2>8, Zenon
<1>17. ValueOf(x) = v
  <2>1. x = Numeral(v, 10)
    BY ONLY <1>9, <1>16, Zenon DEF y
  <2>2. ValueOf(Numeral(v, 10)) = v
    BY ONLY <1>9, ValueOfNumeral
  <2> QED
    BY ONLY <2>1, <2>2, Zenon
<1>18. ASSUME NEW u, SizeMeans(sp, ValueOf(x), u) PROVE AtConversion(j, p + n, t, a, u, k, b, m)
  <2>1. SizeMeans(sp, v, u)
    BY ONLY <1>17, <1>18, Zenon
  <2>2. u = SpecAt(e, i)
    BY ONLY <1>9, <2>1, Zenon DEF SizeMeans
  <2>3. p + n = r
    BY <1>15
  <2> QED
    BY ONLY <1>12, <2>2, <2>3, Zenon
<1> QED
  BY ONLY <1>13, <1>18, Zenon

\* What is read next in a conversion.
LEMMA ConversionNext ==
  ASSUME NEW j \in Job, NEW p, NEW t, NEW a, NEW sp, NEW k, NEW b, NEW i, AtConversion(j, p, t, a, sp, k, b, i),
         NEW c, c = CharOf(j, p)
  PROVE  /\ p \in Nat \ {0} /\ p <= Len(FormatOf(j)) /\ Len(FormatOf(j)) \in Nat
         /\ c \in Known \/ DigitValue(c) \in 1 .. 9
         /\ c \in Convs <=> i = 10
         /\ i = 10 => c = j.pieces[k].conv
<1> DEFINE q == j.pieces[k]
           e == q.esc
           conv == q.conv
           g == EscapeParts(e, conv)
<1>1. IsConversion(q, j.lib, b) /\ i \in 2 .. 10
  BY DEF AtConversion
<1>2. conv \in Convs
  BY <1>1, ConvIs
<1>3. IsFirst(e, conv, i, g[i][1]) /\ CharOf(j, p) = g[i][1] /\ Ahead(j, p, g[i])
  BY PartAhead
<1> HIDE DEF g
<1>4. p \in Nat \ {0} /\ p <= Len(FormatOf(j)) /\ Len(FormatOf(j)) \in Nat
  BY <1>3 DEF Ahead
<1>5. IsFirst(e, conv, i, c)
  <2> HIDE DEF e, conv
  <2> QED
    BY <1>3
<1> HIDE DEF e, conv
<1>6. \/ i \in {2, 3, 4, 6, 8, 9} /\ c \in {"-", "0", ".", "#", "l"}
      \/ i \in {5, 7} /\ c = "*"
      \/ i \in {5, 7} /\ DigitValue(c) \in 1 .. 9
      \/ i = 10 /\ c = conv
  BY ONLY <1>1, <1>2, <1>5, PartKinds
<1>7. c \in {"-", "0", ".", "#", "l", "*"} => c \notin Convs /\ c \in Known
  BY ConvsFacts
<1>8. c \in Convs => c \in Known /\ ~(DigitValue(c) < 10)
  BY ConvsFacts
<1>9. DigitValue(c) \in 1 .. 9 => DigitValue(c) < 10
  OBVIOUS
<1>10. /\ c \in Known \/ DigitValue(c) \in 1 .. 9
       /\ c \in Convs <=> i = 10
       /\ i = 10 => c = conv
  <2>1. CASE i \in {2, 3, 4, 6, 8, 9} /\ c \in {"-", "0", ".", "#", "l"}
    BY ONLY <1>7, <2>1
  <2>2. CASE i \in {5, 7} /\ c = "*"
    BY ONLY <1>7, <2>2
  <2>3. CASE i \in {5, 7} /\ DigitValue(c) \in 1 .. 9
    BY ONLY <1>8, <1>9, <2>3
  <2>4. CASE i = 10 /\ c = conv
    BY ONLY <1>2, <1>8, <2>4
  <2> QED
    BY ONLY <1>6, <2>1, <2>2, <2>3, <2>4
<1> QED
  BY <1>4, <1>10 DEF conv

\* The conversion's own arguments are next, when its character is.
LEMMA ConversionReady ==
  ASSUME NEW j \in Job, NEW p, NEW t, NEW a, NEW sp, NEW k, NEW b, AtConversion(j, p, t, a, sp, k, b, 10)
  PROVE  /\ IsConversion(j.pieces[k], j.lib, b) /\ CharOf(j, p) = j.pieces[k].conv
         /\ sp = SpecAt(j.pieces[k].esc, 9) /\ Len(a) \in Nat /\ Len(b) \in Nat /\ Len(b) <= Len(a)
         /\ \A i \in 1 .. Len(b) : a[i] = b[i]
<1> DEFINE q == j.pieces[k]
           d == TakenAt(q.esc, 9)
           n == Len(b)
           s == ArgsOf(j)
           x == q.args
           a0 == ArgPlace(j)[k - 1]
<1>1. /\ k \in 1 .. Pieces(j) /\ IsConversion(q, j.lib, b)
      /\ sp = SpecAt(q.esc, 10 - 1) /\ Remains(a, s, a0 + TakenAt(q.esc, 10 - 1))
  BY DEF AtConversion
<1>2. 10 - 1 = 9
  OBVIOUS
<1>3. sp = SpecAt(q.esc, 9) /\ Remains(a, s, a0 + d)
  <2> HIDE DEF s, a0, q
  <2> QED
    BY ONLY <1>1, <1>2, Zenon DEF d
<1>4. CharOf(j, p) = q.conv
  BY ConversionNext
<1>5. /\ n \in Nat /\ Len(x) = d + n /\ \A i \in 1 .. n : x[d + i] = b[i]
  <2> HIDE DEF q
  <2>1. /\ Len(b) \in Nat /\ Len(q.args) = TakenAt(q.esc, 9) + Len(b)
        /\ \A i \in 1 .. Len(b) : q.args[TakenAt(q.esc, 9) + i] = b[i]
    <3>1. ArgsAre(q, b)
      BY ONLY <1>1, ConversionArgs
    <3> QED
      BY ONLY <3>1 DEF ArgsAre
  <2> QED
    BY ONLY <2>1, Zenon DEF n, x, d
<1>6. IsPart(s, x, a0, ArgPlace(j)[k])
  BY <1>1, PieceAt
<1>7. d \in Nat
  BY DEF TakenAt
<1>8. Len(a) \in Nat
  BY <1>3 DEF Remains
<1> HIDE DEF d, n, x, s, a0
<1>9. d + n <= Len(x)
  BY <1>5, <1>7
<1>10. n <= Len(a) /\ \A i \in 1 .. n : a[i] = x[d + i]
  BY ONLY <1>3, <1>5, <1>6, <1>7, <1>9, ArgsAhead
<1>11. \A i \in 1 .. n : a[i] = b[i]
  BY ONLY <1>5, <1>10, Zenon
<1> QED
  BY <1>1, <1>3, <1>4, <1>5, <1>8, <1>10, <1>11 DEF n

\* What it means is printed, and its arguments are taken.
LEMMA ConversionOver ==
  ASSUME NEW j \in Job, NEW p, NEW t, NEW a, NEW sp, NEW k, NEW b, AtConversion(j, p, t, a, sp, k, b, 10),
         NEW s, s = t \o j.pieces[k].means, NEW d, d = SubSeq(a, Len(b) + 1, Len(a))
  PROVE  AtText(j, p + 1, s, d, k, 0)
<1> DEFINE q == j.pieces[k]
           e == q.esc
           g == EscapeParts(e, q.conv)
           l == Places(g)
           n == Len(b)
           o == TakenAt(e, 9)
           c0 == CharPlace(j)[k - 1]
           c1 == CharPlace(j)[k]
           m0 == MeanPlace(j)[k - 1]
           m1 == MeanPlace(j)[k]
           a0 == ArgPlace(j)[k - 1]
           a1 == ArgPlace(j)[k]
           x == q.means
           M == MeaningOf(j)
           nine == 10 - 1
<1>1. /\ k \in 1 .. Pieces(j) /\ IsConversion(q, j.lib, b) /\ p = c0 + l[nine] + 1
      /\ Agrees(t, M, m0) /\ Remains(a, ArgsOf(j), a0 + TakenAt(e, nine))
  BY DEF AtConversion
<1>2. nine = 9
  OBVIOUS
<1>3. /\ IsPart(FormatOf(j), q.chars, c0, c1) /\ IsPart(ArgsOf(j), q.args, a0, a1) /\ IsPart(M, x, m0, m1)
  BY <1>1, PieceAt
<1>4. InPlace(g, q.chars, l) /\ Len(g) = 10
  BY <1>1, ConversionChars
<1>5. Len(g[10]) = 1
  <2>1. g[10] = <<q.conv>>
    BY PartsAre
  <2> HIDE DEF g, q
  <2> QED
    BY ONLY <2>1, SingleIs, Zenon
<1>6. n \in Nat /\ Len(q.args) = o + n
  <2> HIDE DEF q
  <2>1. ArgsAre(q, b)
    BY ONLY <1>1, ConversionArgs
  <2>2. Len(b) \in Nat /\ Len(q.args) = TakenAt(q.esc, 9) + Len(b)
    BY ONLY <2>1 DEF ArgsAre
  <2> QED
    BY ONLY <2>2, Zenon DEF n, o, e
<1>7. n <= Len(a)
  BY ConversionReady
<1>8. o \in Nat
  BY DEF TakenAt
<1> HIDE DEF g, l, nine
<1>9. l[nine] \in Nat /\ l[nine] + 1 = Len(q.chars)
  <2> DEFINE ten == 10
  <2>1. ten \in 1 .. Len(g) /\ ten - 1 = nine /\ Len(g[ten]) = 1 /\ ten = Len(g)
    BY <1>2, <1>4, <1>5
  <2> HIDE DEF ten
  <2>2. IsPart(q.chars, g[ten], l[ten - 1], l[ten])
    BY ONLY <1>4, <2>1, PartInPlace
  <2>3. l[ten] = Len(q.chars)
    BY <1>4, <2>1 DEF InPlace
  <2>4. l[ten - 1] \in Nat /\ l[ten] = l[ten - 1] + Len(g[ten])
    BY <2>2 DEF IsPart
  <2> QED
    BY ONLY <2>1, <2>3, <2>4
<1> HIDE DEF c0, c1, m0, m1, a0, a1, x, M, n, o, q, e
<1>10. c0 \in Nat /\ c1 = c0 + Len(q.chars) /\ Len(q.chars) \in Nat
  BY <1>3 DEF IsPart
<1>11. p + 1 = c1 - 0 + 1 /\ 0 <= c1
  BY ONLY <1>1, <1>9, <1>10
<1>12. a0 \in Nat /\ a1 = a0 + Len(q.args)
  BY <1>3 DEF IsPart
<1>13. Remains(d, ArgsOf(j), a1)
  <2> DEFINE h == a0 + o
             args == ArgsOf(j)
  <2>1. Remains(a, args, h)
    BY ONLY <1>1, <1>2, Zenon DEF o
  <2>2. n \in Nat /\ n <= Len(a) /\ d = SubSeq(a, n + 1, Len(a))
    BY <1>6, <1>7 DEF n
  <2>3. h + n = a1
    BY <1>6, <1>8, <1>12
  <2> HIDE DEF h, args
  <2>4. Remains(d, args, h + n)
    BY ONLY <2>1, <2>2, RemainsLess
  <2> QED
    BY ONLY <2>3, <2>4, Zenon DEF args
<1>14. /\ IsSeq(x) /\ Len(x) \in Nat /\ m0 \in Nat /\ m1 = m0 + Len(x) /\ m1 <= Len(M)
       /\ \A i \in 1 .. Len(x) : M[m0 + i] = x[i]
  BY <1>3 DEF IsPart
<1>15. Agrees(s, M, m1 - 0)
  <2>1. s = t \o x
    BY DEF x, q
  <2>2. m0 + Len(x) <= Len(M) /\ m1 - 0 = m0 + Len(x)
    BY ONLY <1>14
  <2>3. Agrees(s, M, m0 + Len(x))
    BY ONLY <1>1, <1>14, <2>1, <2>2, AgreesMore
  <2> QED
    BY ONLY <2>2, <2>3, Zenon
<1>16. k \in 0 .. Pieces(j) /\ 0 \in Nat /\ 0 <= m1
  BY <1>1, <1>14
<1>17. \A i \in 1 .. 0 : /\ FormatOf(j)[(c1 - 0) + i] = M[(m1 - 0) + i]
                         /\ FormatOf(j)[(c1 - 0) + i] \notin {"%", "NUL"}
  OBVIOUS
<1> QED
  BY ONLY <1>11, <1>13, <1>15, <1>16, <1>17, Zenon DEF AtText, c1, m1, a1, M

----------------------------------------------------------------------------
\* Where vprintfmt is, in every state.

\* After the end.
AtEnd(j, p, t, a) ==
    /\ p = Len(FormatOf(j)) + 1
    /\ Agrees(t, MeaningOf(j), Len(MeaningOf(j))) /\ Remains(a, ArgsOf(j), Len(ArgsOf(j)))

InText(j, p, t, a) == \E k, r : AtText(j, p, t, a, k, r)

InUnknown(j, p, t, a) == \E k, o : AtUnknown(j, p, t, a, k, o)

InConversion(j, p, t, a, sp) == \E k, b, i : AtConversion(j, p, t, a, sp, k, b, i)

FmtInv ==
    mode # "idle" =>
        /\ job \in Job /\ fmt = FormatOf(job) /\ mode \in {"text", "escape", "done", "read"}
        /\ mode = "text" => InText(job, fp, text, ap)
        /\ mode = "escape" => InUnknown(job, fp, text, ap) \/ InConversion(job, fp, text, ap, spec)
        /\ mode \in {"done", "read"} => AtEnd(job, fp, text, ap)

FmtSame == job' = job /\ fmt' = fmt

LEMMA AtIs == ASSUME NEW j \in Job, fmt = FormatOf(j), NEW p PROVE At(p) = CharOf(j, p)
BY DEF At, CharOf

LEMMA ToText ==
  ASSUME FmtInv, mode # "idle", FmtSame, mode' = "text", NEW k, NEW r, AtText(job, fp', text', ap', k, r)
  PROVE  FmtInv'
<1>1. job' \in Job /\ fmt' = FormatOf(job')
  BY DEF FmtInv, FmtSame
<1>2. InText(job', fp', text', ap')
  BY DEF FmtSame, InText
<1> QED
  BY <1>1, <1>2 DEF FmtInv

LEMMA ToUnknown ==
  ASSUME FmtInv, mode # "idle", FmtSame, mode' = "escape", NEW k, NEW o, AtUnknown(job, fp', text', ap', k, o)
  PROVE  FmtInv'
<1>1. job' \in Job /\ fmt' = FormatOf(job')
  BY DEF FmtInv, FmtSame
<1>2. InUnknown(job', fp', text', ap')
  BY DEF FmtSame, InUnknown
<1> QED
  BY <1>1, <1>2 DEF FmtInv

LEMMA ToConversion ==
  ASSUME FmtInv, mode # "idle", FmtSame, mode' = "escape", NEW k, NEW b, NEW i, AtConversion(job, fp', text', ap', spec', k, b, i)
  PROVE  FmtInv'
<1>1. job' \in Job /\ fmt' = FormatOf(job')
  BY DEF FmtInv, FmtSame
<1>2. InConversion(job', fp', text', ap', spec')
  BY DEF FmtSame, InConversion
<1> QED
  BY <1>1, <1>2 DEF FmtInv

\* What Put prints.
LEMMA PutText == ASSUME NEW s, Put(s) PROVE text' = text \o s
BY DEF Put

LEMMA PlainReads == ASSUME FmtInv, Plain, FmtSame PROVE FmtInv'
<1> DEFINE j == job
           c == At(fp)
           s == <<c>>
<1>1. /\ mode = "text" /\ c \notin {"%", "NUL"} /\ Put(s) /\ fp' = fp + 1 /\ mode' = mode /\ ap' = ap
  BY DEF Plain
<1>2. j \in Job /\ c = CharOf(j, fp) /\ InText(j, fp, text, ap)
  <2>1. j \in Job /\ fmt = FormatOf(j) /\ InText(j, fp, text, ap)
    BY <1>1 DEF FmtInv
  <2> QED
    BY <2>1, AtIs
<1> HIDE DEF c
<1>3. PICK k, r : AtText(j, fp, text, ap, k, r)
  BY <1>2 DEF InText
<1>4. PICK l, m : AtText(j, fp, text, ap, l, m) /\ m > 0
  <2>1. ASSUME AtText(j, fp, text, ap, k, 0), k # Pieces(j) => ~IsLiteral(j.pieces[k + 1]) PROVE FALSE
    BY <1>1, <1>2, <2>1, TextBegins
  <2> QED
    BY <1>2, <1>3, <2>1, TextKinds
<1>5. c = FormatOf(j)[fp]
  BY <1>2, <1>4, TextGoesOn
<1>6. text' = text \o s
  <2> HIDE DEF s
  <2> QED
    BY <1>1, PutText
<1>7. text' = text \o <<FormatOf(j)[fp]>>
  BY ONLY <1>5, <1>6, Zenon
<1> DEFINE t == text'
<1>8. t = text \o <<FormatOf(j)[fp]>>
  BY <1>7
<1> HIDE DEF t
<1>9. AtText(j, fp + 1, t, ap, l, m - 1)
  BY ONLY <1>2, <1>4, <1>8, TextMore
<1>10. AtText(job, fp', text', ap', l, m - 1)
  BY ONLY <1>1, <1>9, Zenon DEF t
<1>11. mode # "idle" /\ mode' = "text"
  BY <1>1
<1> QED
  BY <1>10, <1>11, ToText

LEMMA PercentReads == ASSUME FmtInv, Percent, FmtSame PROVE FmtInv'
<1> DEFINE j == job
<1>1. /\ mode = "text" /\ At(fp) = "%" /\ mode' = "escape" /\ spec' = FreshSpec /\ fp' = fp + 1 /\ ap' = ap /\ text' = text
  BY DEF Percent
<1>2. j \in Job /\ CharOf(j, fp) = "%" /\ InText(j, fp, text, ap)
  <2>1. j \in Job /\ fmt = FormatOf(j) /\ InText(j, fp, text, ap)
    BY <1>1 DEF FmtInv
  <2> QED
    BY <1>1, <2>1, AtIs
<1>3. PICK k, r : AtText(j, fp, text, ap, k, r)
  BY <1>2 DEF InText
<1>4. AtText(j, fp, text, ap, k, 0) /\ (k # Pieces(j) => ~IsLiteral(j.pieces[k + 1]))
  <2>1. ASSUME NEW l, NEW m, AtText(j, fp, text, ap, l, m), m > 0 PROVE FALSE
    BY <1>2, <2>1, TextGoesOn
  <2> QED
    BY <1>2, <1>3, <2>1, TextKinds
<1>5. k # Pieces(j)
  BY <1>2, <1>4, TextBegins
<1>6. \/ AtUnknown(j, fp + 1, text, ap, k + 1, 1)
      \/ \E b : \E i \in 2 .. 10 : AtConversion(j, fp + 1, text, ap, FreshSpec, k + 1, b, i)
  BY ONLY <1>2, <1>4, <1>5, EscapeBegins
<1>7. mode # "idle" /\ mode' = "escape"
  BY <1>1
<1>8. CASE AtUnknown(j, fp + 1, text, ap, k + 1, 1)
  <2>1. AtUnknown(job, fp', text', ap', k + 1, 1)
    BY ONLY <1>1, <1>8, Zenon
  <2> QED
    BY <1>7, <2>1, ToUnknown
<1>9. ASSUME NEW b, NEW i, AtConversion(j, fp + 1, text, ap, FreshSpec, k + 1, b, i) PROVE FmtInv'
  <2>1. AtConversion(job, fp', text', ap', spec', k + 1, b, i)
    BY ONLY <1>1, <1>9, Zenon
  <2> QED
    BY <1>7, <2>1, ToConversion
<1> QED
  BY <1>6, <1>8, <1>9

LEMMA EndReads == ASSUME FmtInv, End, FmtSame PROVE FmtInv'
<1> DEFINE j == job
<1>1. /\ mode = "text" /\ At(fp) = "NUL" /\ mode' = "done" /\ fp' = fp /\ ap' = ap /\ text' = text
  BY DEF End
<1>2. j \in Job /\ fmt = FormatOf(j) /\ CharOf(j, fp) = "NUL" /\ InText(j, fp, text, ap)
  <2>1. j \in Job /\ fmt = FormatOf(j) /\ InText(j, fp, text, ap)
    BY <1>1 DEF FmtInv
  <2> QED
    BY <1>1, <2>1, AtIs
<1>3. PICK k, r : AtText(j, fp, text, ap, k, r)
  BY <1>2 DEF InText
<1>4. AtText(j, fp, text, ap, k, 0) /\ (k # Pieces(j) => ~IsLiteral(j.pieces[k + 1]))
  <2>1. ASSUME NEW l, NEW m, AtText(j, fp, text, ap, l, m), m > 0 PROVE FALSE
    BY <1>2, <2>1, TextGoesOn
  <2> QED
    BY <1>2, <1>3, <2>1, TextKinds
<1>5. k = Pieces(j) /\ fp = Len(FormatOf(j)) + 1
  BY <1>2, <1>4, TextBegins
<1>6. /\ MeanPlace(j)[Pieces(j)] = Len(MeaningOf(j)) /\ Len(MeaningOf(j)) \in Nat
      /\ ArgPlace(j)[Pieces(j)] = Len(ArgsOf(j))
  BY <1>2, PlacesEnd
<1>7. Agrees(text, MeaningOf(j), MeanPlace(j)[k] - 0) /\ Remains(ap, ArgsOf(j), ArgPlace(j)[k])
  BY <1>4 DEF AtText
<1>8. MeanPlace(j)[k] - 0 = Len(MeaningOf(j)) /\ ArgPlace(j)[k] = Len(ArgsOf(j))
  BY <1>5, <1>6
<1>9. AtEnd(j, fp, text, ap)
  BY ONLY <1>5, <1>7, <1>8, Zenon DEF AtEnd
<1>10. AtEnd(job', fp', text', ap')
  BY <1>1, <1>9 DEF FmtSame
<1>11. job' \in Job /\ fmt' = FormatOf(job')
  BY <1>2 DEF FmtSame
<1> QED
  BY <1>1, <1>10, <1>11 DEF FmtInv

LEMMA FlagReads == ASSUME FmtInv, Flag, FmtSame PROVE FmtInv'
<1> DEFINE j == job
           c == At(fp)
           u == spec'
<1>1. mode = "escape" /\ fp' = fp + 1 /\ mode' = mode /\ ap' = ap /\ text' = text /\ FlagMeans(c, spec, u)
  BY DEF Flag, FlagMeans
<1>2. j \in Job /\ c = CharOf(j, fp) /\ (InUnknown(j, fp, text, ap) \/ InConversion(j, fp, text, ap, spec))
  <2>1. j \in Job /\ fmt = FormatOf(j) /\ (InUnknown(j, fp, text, ap) \/ InConversion(j, fp, text, ap, spec))
    BY <1>1 DEF FmtInv
  <2> QED
    BY <2>1, AtIs
<1>3. c \in {"-", "0", ".", "#", "l"}
  BY <1>1 DEF FlagMeans
<1> HIDE DEF c, u
<1>4. mode # "idle" /\ mode' = "escape"
  BY <1>1
<1>5. ASSUME NEW k, NEW o, AtUnknown(j, fp, text, ap, k, o) PROVE FmtInv'
  <2> DEFINE x == j.pieces[k].chars
             y == x
  <2>1. (o = Len(x) => c = "NUL") /\ (o # Len(x) => c = x[o + 1])
    BY <1>2, <1>5, UnknownNext
  <2>2. o # Len(x) /\ c = x[o + 1] /\ IsModifier(c) /\ c # "*"
    <3>1. IsModifier(c)
      BY <1>3 DEF IsModifier
    <3> QED
      BY <1>3, <2>1, <3>1
  <2>3. x = j.pieces[k].chars
    OBVIOUS
  <2> HIDE DEF x
  <2>4. IsModifier(x[o + 1]) /\ ap = IF x[o + 1] = "*" THEN Tail(ap) ELSE ap
    BY <2>2
  <2>5. AtUnknown(j, fp + 1, text, ap, k, o + 1)
    BY ONLY <1>2, <1>5, <2>2, <2>3, <2>4, UnknownGoesOn
  <2>6. AtUnknown(job, fp', text', ap', k, o + 1)
    BY ONLY <1>1, <2>5, Zenon
  <2> QED
    BY <1>4, <2>6, ToUnknown
<1>6. ASSUME NEW k, NEW b, NEW i, AtConversion(j, fp, text, ap, spec, k, b, i) PROVE FmtInv'
  <2>1. PICK m \in 2 .. 10 : AtConversion(j, fp + 1, text, ap, u, k, b, m)
    BY ONLY <1>1, <1>2, <1>6, FlagDone
  <2>2. AtConversion(job, fp', text', ap', spec', k, b, m)
    BY ONLY <1>1, <2>1, Zenon DEF u
  <2> QED
    BY <1>4, <2>2, ToConversion
<1> QED
  BY <1>2, <1>5, <1>6 DEF InUnknown, InConversion

LEMMA StarReads == ASSUME FmtInv, Star, FmtSame PROVE FmtInv'
<1> DEFINE j == job
           c == At(fp)
           u == spec'
           w == Tail(ap)
<1>1. mode = "escape" /\ c = "*" /\ fp' = fp + 1 /\ mode' = mode /\ ap' = w /\ text' = text /\ SizeMeans(spec, ap[1].w, u)
  BY DEF Star, Sized, SizeMeans
<1>2. j \in Job /\ c = CharOf(j, fp) /\ (InUnknown(j, fp, text, ap) \/ InConversion(j, fp, text, ap, spec))
  <2>1. j \in Job /\ fmt = FormatOf(j) /\ (InUnknown(j, fp, text, ap) \/ InConversion(j, fp, text, ap, spec))
    BY <1>1 DEF FmtInv
  <2> QED
    BY <2>1, AtIs
<1> HIDE DEF c, u
<1>3. mode # "idle" /\ mode' = "escape"
  BY <1>1
<1>4. ASSUME NEW k, NEW o, AtUnknown(j, fp, text, ap, k, o) PROVE FmtInv'
  <2> DEFINE x == j.pieces[k].chars
  <2>1. (o = Len(x) => c = "NUL") /\ (o # Len(x) => c = x[o + 1])
    BY <1>2, <1>4, UnknownNext
  <2>2. o # Len(x) /\ x[o + 1] = "*" /\ IsModifier(x[o + 1])
    BY <1>1, <2>1 DEF IsModifier
  <2>3. x = j.pieces[k].chars
    OBVIOUS
  <2> HIDE DEF x
  <2>4. w = IF x[o + 1] = "*" THEN Tail(ap) ELSE ap
    BY <2>2
  <2> HIDE DEF w
  <2>5. AtUnknown(j, fp + 1, text, w, k, o + 1)
    BY ONLY <1>2, <1>4, <2>2, <2>3, <2>4, UnknownGoesOn
  <2>6. AtUnknown(job, fp', text', ap', k, o + 1)
    BY ONLY <1>1, <2>5, Zenon
  <2> QED
    BY <1>3, <2>6, ToUnknown
<1>5. ASSUME NEW k, NEW b, NEW i, AtConversion(j, fp, text, ap, spec, k, b, i) PROVE FmtInv'
  <2>1. CharOf(j, fp) = "*"
    BY <1>1, <1>2
  <2>2. \A v : SizeMeans(spec, ap[1].w, v) => \E m \in 2 .. 10 : AtConversion(j, fp + 1, text, Tail(ap), v, k, b, m)
    BY ONLY <1>2, <1>5, <2>1, StarDone
  <2>3. PICK m \in 2 .. 10 : AtConversion(j, fp + 1, text, w, u, k, b, m)
    BY ONLY <1>1, <2>2, Zenon DEF w
  <2>4. AtConversion(job, fp', text', ap', spec', k, b, m)
    <3> HIDE DEF w
    <3> QED
      BY ONLY <1>1, <2>3, Zenon DEF u
  <2> QED
    BY <1>3, <2>4, ToConversion
<1> QED
  BY <1>2, <1>4, <1>5 DEF InUnknown, InConversion

LEMMA WidthReads == ASSUME FmtInv, Width, FmtSame PROVE FmtInv'
<1> DEFINE j == job
           c == At(fp)
           u == spec'
           n == Count({d \in Nat : DigitValue(CharOf(j, fp + d)) < 10})
           x == SubSeq(FormatOf(j), fp, fp + n - 1)
<1>1. mode = "escape" /\ DigitValue(c) \in 1 .. 9 /\ mode' = mode /\ ap' = ap /\ text' = text /\ fp' = DigitsEnd(fp)
  BY DEF Width
<1>2. /\ j \in Job /\ fmt = FormatOf(j) /\ c = CharOf(j, fp)
      /\ InUnknown(j, fp, text, ap) \/ InConversion(j, fp, text, ap, spec)
  <2>1. j \in Job /\ fmt = FormatOf(j) /\ (InUnknown(j, fp, text, ap) \/ InConversion(j, fp, text, ap, spec))
    BY <1>1 DEF FmtInv
  <2> QED
    BY <2>1, AtIs
<1>3. DigitsEnd(fp) = fp + n
  <2> DEFINE C == {d \in Nat : DigitValue(At(fp + d)) < 10}
             D == {d \in Nat : DigitValue(CharOf(j, fp + d)) < 10}
  <2>1. \A d \in Nat : At(fp + d) = CharOf(j, fp + d)
    BY <1>2, AtIs
  <2>2. C = D
    BY <2>1
  <2>3. DigitsEnd(fp) = fp + Count(C) /\ n = Count(D)
    BY DEF DigitsEnd
  <2> HIDE DEF C, D, n
  <2> QED
    BY ONLY <2>2, <2>3, Zenon
<1>10. fp \in Nat /\ n \in Nat /\ \A d \in 0 .. n - 1 : DigitValue(CharOf(j, fp + d)) < 10
  <2> DEFINE C == {d \in Nat : DigitValue(CharOf(j, fp + d)) < 10}
             e == Len(FormatOf(j))
  <2>1. fp \in Nat \ {0}
    BY <1>2, UnknownNext, ConversionNext DEF InUnknown, InConversion
  <2>2. e \in Nat
    BY <1>2, PlacesEnd
  <2>3. e \notin C
    <3>1. ~(fp + e <= e)
      BY <2>1, <2>2
    <3>2. CharOf(j, fp + e) = "NUL"
      BY <3>1 DEF CharOf
    <3>3. ~(DigitValue(CharOf(j, fp + e)) < 10)
      BY <3>2, DigitValueFacts
    <3> QED
      BY <3>3
  <2> HIDE DEF e
  <2>4. n \in Nat /\ \A d \in 0 .. n - 1 : d \in C
    <3>1. n = Count(C)
      OBVIOUS
    <3> HIDE DEF C, n
    <3>2. Count(C) \in 0 .. e /\ \A d \in 0 .. Count(C) - 1 : d \in C
      BY ONLY <2>2, <2>3, CountFacts
    <3> QED
      BY ONLY <2>2, <3>1, <3>2
  <2> HIDE DEF n
  <2> QED
    BY <2>1, <2>4
<1>4. SizeMeans(spec, ValueOf(x), u)
  <2> DEFINE y == SubSeq(fmt, fp, DigitsEnd(fp) - 1)
             e == DigitsEnd(fp)
             F == FormatOf(j)
             v == ValueOf(y)
  <2>1. u = Sized(v)
    BY DEF Width
  <2>2. y = x
    <3> DEFINE h == fp + n - 1
    <3>2. fmt = F
      BY <1>2
    <3>3. y = SubSeq(fmt, fp, e - 1) /\ x = SubSeq(F, fp, h)
      BY Zenon
    <3> HIDE DEF n
    <3>1. e - 1 = h
      <4>1. e = fp + n
        BY <1>3
      <4> HIDE DEF e
      <4> QED
        BY ONLY <4>1, <1>10
    <3> HIDE DEF x, y, F, e, h
    <3> QED
      BY ONLY <3>1, <3>2, <3>3, Zenon
  <2> HIDE DEF u, x, y
  <2>3. v = ValueOf(x)
    BY ONLY <2>2, Zenon
  <2> HIDE DEF v
  <2>4. SizeMeans(spec, v, u)
    BY <2>1 DEF Sized, SizeMeans
  <2> QED
    BY ONLY <2>3, <2>4, Zenon
<1>5. n = Count({d \in Nat : DigitValue(CharOf(j, fp + d)) < 10}) /\ x = SubSeq(FormatOf(j), fp, fp + n - 1)
  OBVIOUS
<1>6. fp' = fp + n
  BY <1>1, <1>3
<1>7. mode # "idle" /\ mode' = "escape"
  BY <1>1
<1>8. ASSUME NEW k, NEW o, AtUnknown(j, fp, text, ap, k, o) PROVE FmtInv'
  <2> HIDE DEF n
  <2>6. AtUnknown(j, fp + n, text, ap, k, o + n)
    BY ONLY <1>2, <1>8, <1>10, UnknownDigits
  <2>7. AtUnknown(job, fp', text', ap', k, o + n)
    BY ONLY <1>1, <1>6, <2>6, Zenon
  <2> QED
    BY <1>7, <2>7, ToUnknown
<1>9. ASSUME NEW k, NEW b, NEW i, AtConversion(j, fp, text, ap, spec, k, b, i) PROVE FmtInv'
  <2>1. DigitValue(CharOf(j, fp)) \in 1 .. 9
    BY <1>1, <1>2
  <2> HIDE DEF n, x, u, c
  <2>2. \A v : SizeMeans(spec, ValueOf(x), v) => \E m \in 2 .. 10 : AtConversion(j, fp + n, text, ap, v, k, b, m)
    BY ONLY <1>2, <1>5, <1>9, <2>1, NumberDone
  <2>3. PICK m \in 2 .. 10 : AtConversion(j, fp + n, text, ap, u, k, b, m)
    BY ONLY <1>4, <2>2, Zenon
  <2>4. AtConversion(job, fp', text', ap', spec', k, b, m)
    BY ONLY <1>1, <1>6, <2>3, Zenon DEF u
  <2> QED
    BY <1>7, <2>4, ToConversion
<1> HIDE DEF n, x
<1> QED
  BY <1>2, <1>8, <1>9 DEF InUnknown, InConversion

\* Before the character of a conversion its arguments are next.
LEMMA ConversionIsReached ==
  ASSUME NEW k, NEW b, NEW i, AtConversion(job, fp, text, ap, spec, k, b, i), job \in Job, fmt = FormatOf(job),
         mode = "escape", At(fp) \in Convs
  PROVE  Reached(job.pieces[k], b) /\ i = 10
<1> DEFINE j == job
           q == j.pieces[k]
<1>1. At(fp) = CharOf(j, fp)
  BY AtIs
<1>2. i = 10
  <2>1. CharOf(j, fp) \in Convs
    BY <1>1
  <2> QED
    BY <2>1, ConversionNext
<1>3. AtConversion(j, fp, text, ap, spec, k, b, 10)
  BY <1>2
<1>4. /\ IsConversion(q, j.lib, b) /\ CharOf(j, fp) = q.conv
      /\ spec = SpecAt(q.esc, 9) /\ Len(ap) \in Nat /\ Len(b) \in Nat /\ Len(b) <= Len(ap)
      /\ \A m \in 1 .. Len(b) : ap[m] = b[m]
  BY <1>3, ConversionReady
<1> HIDE DEF q
<1>5. Reached(q, b)
  BY <1>1, <1>4 DEF Reached
<1> QED
  BY <1>2, <1>5 DEF q

LEMMA ConversionReads == ASSUME FmtInv, Conversion, FmtSame PROVE FmtInv'
<1> DEFINE j == job
<1>1. mode = "escape" /\ At(fp) \in Convs /\ mode' = "text"
  BY DEF Conversion, Convert, Convs
<1>2. /\ j \in Job /\ fmt = FormatOf(j) /\ At(fp) = CharOf(j, fp)
      /\ InUnknown(j, fp, text, ap) \/ InConversion(j, fp, text, ap, spec)
  <2>1. j \in Job /\ fmt = FormatOf(j) /\ (InUnknown(j, fp, text, ap) \/ InConversion(j, fp, text, ap, spec))
    BY <1>1 DEF FmtInv
  <2> QED
    BY <2>1, AtIs
<1>3. ASSUME NEW k, NEW o, AtUnknown(j, fp, text, ap, k, o) PROVE FALSE
  <2> DEFINE x == j.pieces[k].chars
             c == CharOf(j, fp)
  <2>1. /\ o = Len(x) => c = "NUL"
        /\ o # Len(x) => c = x[o + 1] /\ (IsModifier(x[o + 1]) \/ (o + 1 = Len(x) /\ x[o + 1] \notin Known))
    BY <1>2, <1>3, UnknownNext
  <2>2. c \in Convs /\ ~IsModifier(c) /\ c \in Known
    <3>1. c \in Convs
      BY <1>1, <1>2
    <3> QED
      BY ONLY <3>1, ConvsFacts
  <2>3. c # "NUL"
    BY <2>2 DEF Convs
  <2> QED
    BY <2>1, <2>2, <2>3
<1>4. ASSUME NEW k, NEW b, NEW i, AtConversion(j, fp, text, ap, spec, k, b, i) PROVE FmtInv'
  <2> DEFINE q == j.pieces[k]
             s == q.means
             n == Len(b)
             d == SubSeq(ap, n + 1, Len(ap))
             t == text'
  <2>1. Reached(q, b) /\ i = 10
    BY <1>1, <1>2, <1>4, ConversionIsReached
  <2>2. Convert(q.conv, n, s)
    <3> HIDE DEF q
    <3> QED
      BY <2>1, ConversionMeans
  <2> HIDE DEF s, n, q
  <2>3. Put(s) /\ ap' = SubSeq(ap, n + 1, Len(ap)) /\ fp' = fp + 1
    BY <2>2 DEF Convert
  <2>4. text' = text \o s
    BY <2>3, PutText
  <2>5. t = text \o j.pieces[k].means /\ d = SubSeq(ap, Len(b) + 1, Len(ap)) /\ ap' = d
    BY <2>3, <2>4 DEF s, q, n
  <2>6. AtConversion(j, fp, text, ap, spec, k, b, 10)
    BY <1>4, <2>1
  <2> HIDE DEF t, d
  <2>7. AtText(j, fp + 1, t, d, k, 0)
    BY ONLY <1>2, <2>5, <2>6, ConversionOver
  <2>8. AtText(job, fp', text', ap', k, 0)
    BY ONLY <2>3, <2>5, <2>7, Zenon DEF t
  <2>9. mode # "idle"
    BY <1>1
  <2> QED
    BY <1>1, <2>8, <2>9, ToText
<1> QED
  BY <1>2, <1>3, <1>4 DEF InUnknown, InConversion

LEMMA UnrecognizedReads == ASSUME FmtInv, Unrecognized, FmtSame PROVE FmtInv'
<1> DEFINE j == job
           c == At(fp)
           s == <<"%">>
           t == text'
<1>1. /\ mode = "escape" /\ c \notin Known /\ DigitValue(c) \notin 1 .. 9
      /\ Put(s) /\ mode' = "text" /\ ap' = ap
      /\ fp' = 1 + (CHOOSE k \in 1 .. fp - 1 : At(k) = "%" /\ \A i \in k + 1 .. fp - 1 : At(i) # "%")
  BY DEF Unrecognized
<1>2. /\ j \in Job /\ c = CharOf(j, fp) /\ \A i : At(i) = CharOf(j, i)
      /\ InUnknown(j, fp, text, ap) \/ InConversion(j, fp, text, ap, spec)
  <2>1. j \in Job /\ fmt = FormatOf(j) /\ (InUnknown(j, fp, text, ap) \/ InConversion(j, fp, text, ap, spec))
    BY <1>1 DEF FmtInv
  <2> QED
    BY <2>1, AtIs
<1> HIDE DEF c
<1>3. ASSUME NEW k, NEW b, NEW i, AtConversion(j, fp, text, ap, spec, k, b, i) PROVE FALSE
  <2>1. c \in Known \/ DigitValue(c) \in 1 .. 9
    BY <1>2, <1>3, ConversionNext
  <2> QED
    BY <1>1, <2>1
<1>4. t = text \o s
  <2> HIDE DEF s
  <2> QED
    BY <1>1, PutText
<1>5. ASSUME NEW k, NEW o, AtUnknown(j, fp, text, ap, k, o) PROVE FmtInv'
  <2> DEFINE x == j.pieces[k].chars
             q == CharPlace(j)[k - 1] + 1
             first == CHOOSE m \in 1 .. fp - 1 : At(m) = "%" /\ \A i \in m + 1 .. fp - 1 : At(i) # "%"
  <2>1. /\ fp \in Nat \ {0}
        /\ o # Len(x) => c = x[o + 1]
    BY <1>2, <1>5, UnknownNext
  <2>2. o = Len(x) \/ ~IsModifier(x[o + 1])
    <3>1. ~IsModifier(c)
      BY <1>1, ModifierFacts
    <3> HIDE DEF x
    <3> QED
      BY <2>1, <3>1
  <2>3. x = j.pieces[k].chars /\ t = text \o <<"%">>
    BY <1>4
  <2> HIDE DEF x, t
  <2>4. /\ AtText(j, CharPlace(j)[k - 1] + 2, t, ap, k, Len(x) - 1)
        /\ CharPlace(j)[k - 1] + 1 \in 1 .. fp - 1
        /\ CharOf(j, CharPlace(j)[k - 1] + 1) = "%"
        /\ \A i \in CharPlace(j)[k - 1] + 2 .. fp - 1 : CharOf(j, i) # "%"
    BY ONLY <1>2, <1>5, <2>2, <2>3, UnknownEnds
  <2>5. k \in 1 .. Pieces(j) /\ CharPlace(j)[k - 1] \in Nat
    <3>1. k \in 1 .. Pieces(j) /\ Pieces(j) \in Nat
      BY <1>2, <1>5, PlacesEnd DEF AtUnknown
    <3>2. k - 1 \in 0 .. Pieces(j)
      BY <3>1
    <3> QED
      BY <1>2, <3>1, <3>2, PlacesEnd
  <2>6. q + 1 = CharPlace(j)[k - 1] + 2
    BY <2>5
  <2>7. q \in 1 .. fp - 1 /\ At(q) = "%" /\ \A i \in q + 1 .. fp - 1 : At(i) # "%"
    BY <1>2, <2>4, <2>6
  <2>8. q \in Nat
    BY <2>5
  <2> HIDE DEF q
  <2>9. first = q
    <3>1. first \in 1 .. fp - 1 /\ At(first) = "%" /\ \A i \in first + 1 .. fp - 1 : At(i) # "%"
      BY <2>7
    <3> HIDE DEF first
    <3>2. ~(first < q) /\ ~(q < first)
      BY <2>1, <2>7, <3>1
    <3> QED
      BY <2>1, <2>7, <3>1, <3>2
  <2>10. fp' = q + 1
    <3>1. fp' = 1 + first
      BY <1>1
    <3> HIDE DEF first
    <3> QED
      BY <2>8, <2>9, <3>1
  <2>11. AtText(j, q + 1, t, ap, k, Len(x) - 1)
    BY ONLY <2>4, <2>6, Zenon
  <2>12. AtText(job, fp', text', ap', k, Len(x) - 1)
    BY ONLY <1>1, <2>10, <2>11, Zenon DEF t
  <2>13. mode # "idle"
    BY <1>1
  <2> QED
    BY <1>1, <2>12, <2>13, ToText
<1> QED
  BY <1>2, <1>3, <1>5 DEF InUnknown, InConversion

LEMMA ReadBackReads ==
  ASSUME FmtInv, NEW base, ReadBack(base)
  PROVE  FmtInv'
<1>1. /\ mode \in {"done", "read"} /\ mode' = "read"
      /\ job' = job /\ fmt' = fmt /\ fp' = fp /\ ap' = ap /\ text' = text
  BY DEF ReadBack
<1>2. job \in Job /\ fmt = FormatOf(job) /\ AtEnd(job, fp, text, ap)
  BY <1>1 DEF FmtInv
<1> QED
  BY <1>1, <1>2 DEF FmtInv

LEMMA FmtInvInit == ASSUME LibInit PROVE FmtInv
<1>1. CASE \E j \in Job : FmtInit(j, "text")
  <2>1. PICK j \in Job : FmtInit(j, "text")
    BY <1>1
  <2>2. job = j /\ fmt = FormatOf(j) /\ fp = 1 /\ ap = ArgsOf(j) /\ mode = "text" /\ text = <<>>
    BY <2>1 DEF FmtInit
  <2>3. /\ Pieces(j) \in Nat /\ CharPlace(j)[0] = 0 /\ ArgPlace(j)[0] = 0 /\ MeanPlace(j)[0] = 0
        /\ IsSeq(ArgsOf(j)) /\ Len(ArgsOf(j)) \in Nat /\ Len(MeaningOf(j)) \in Nat
    BY PlacesEnd
  <2> DEFINE e == <<>>
  <2>4. IsSeq(e) /\ Len(e) = 0
    BY EmptySeqs
  <2> DEFINE a == ArgsOf(j)
             m == MeaningOf(j)
             p == 1
             x == 0
  <2>5. Agrees(e, m, x)
    <3> HIDE DEF e, m
    <3>1. Len(m) \in Nat
      BY <2>3 DEF m
    <3> QED
      BY <2>4, <3>1 DEF Agrees
  <2>6. Remains(a, a, x)
    <3>1. IsSeq(a) /\ Len(a) \in Nat
      BY <2>3
    <3> HIDE DEF a
    <3> QED
      BY <3>1 DEF Remains
  <2>7. AtText(j, p, e, a, x, x)
    <3>1. MeanPlace(j)[x] - x = x /\ CharPlace(j)[x] - x + 1 = p /\ ArgPlace(j)[x] = x
      BY <2>3
    <3>2. x \in 0 .. Pieces(j) /\ x \in Nat /\ x <= CharPlace(j)[x] /\ x <= MeanPlace(j)[x]
      BY <2>3
    <3>3. ~\E i : i \in 1 .. x
      OBVIOUS
    <3> HIDE DEF e, a, m, p, x
    <3>4. Agrees(e, m, MeanPlace(j)[x] - x) /\ Remains(a, ArgsOf(j), ArgPlace(j)[x])
      BY <2>5, <2>6, <3>1 DEF a
    <3> QED
      BY ONLY <3>1, <3>2, <3>3, <3>4, Zenon DEF AtText, m
  <2>8. InText(job, fp, text, ap)
    <3>1. fp = p /\ text = e /\ ap = a /\ job = j
      BY <2>2
    <3> HIDE DEF e, a, m, p, x
    <3> QED
      BY ONLY <2>7, <3>1, Zenon DEF InText
  <2> QED
    BY <2>2, <2>8 DEF FmtInv
<1>2. CASE FmtInit(NoJob, "idle")
  BY <1>2 DEF FmtInit, FmtInv
<1> QED
  BY <1>1, <1>2 DEF LibInit

LEMMA FmtInvNext == ASSUME FmtInv, [LibNext]_<<strVars, fmtVars>> PROVE FmtInv'
<1>1. CASE UNCHANGED fmtVars
  BY <1>1 DEF fmtVars, FmtInv
<1>2. CASE vprintfmt
  <2>1. FmtSame
    BY <1>2 DEF vprintfmt, FmtSame
  <2>2. Plain \/ Percent \/ End \/ Flag \/ Width \/ Star \/ Conversion \/ Unrecognized
    BY <1>2 DEF vprintfmt
  <2> QED
    BY <2>1, <2>2, PlainReads, PercentReads, EndReads, FlagReads, WidthReads, StarReads, ConversionReads,
       UnrecognizedReads
<1>3. ASSUME NEW base, ReadBack(base) PROVE FmtInv'
  BY <1>3, ReadBackReads
<1> QED
  BY <1>1, <1>2, <1>3 DEF LibNext, FmtNext

\* The start of a sequence is a prefix of it, and all of it is it.
LEMMA AgreesIsPrefix == ASSUME NEW t, NEW m, IsSeq(m), NEW n, Agrees(t, m, n) PROVE IsPrefix(t, m)
<1>1. IsSeq(t) /\ Len(t) = n /\ n \in Nat /\ n <= Len(m) /\ \A i \in 1 .. n : t[i] = m[i]
  BY DEF Agrees
<1>2. PICK S : t \in Seq(S) /\ m \in Seq(S)
  BY <1>1, SeqOver
<1> DEFINE u == SubSeq(t, 1, n)
           v == SubSeq(m, 1, n)
<1>3. u \in Seq(S) /\ Len(u) = n /\ \A i \in 1 .. n : u[i] = t[i]
  BY <1>1, <1>2
<1>4. v \in Seq(S) /\ Len(v) = n /\ \A i \in 1 .. n : v[i] = m[i]
  BY <1>1, <1>2
<1> HIDE DEF u, v
<1>5. IsSeq(u) /\ IsSeq(v) /\ Len(u) = Len(v) /\ \A i \in 1 .. Len(u) : u[i] = v[i]
  BY <1>1, <1>3, <1>4 DEF IsSeq
<1>6. u = v
  BY ONLY <1>5, SameSeq
<1>7. SubSeq(t, 1, Len(t)) = SubSeq(m, 1, Len(t))
  BY ONLY <1>1, <1>6, Zenon DEF u, v
<1> QED
  BY ONLY <1>1, <1>7 DEF IsPrefix

LEMMA AgreesIsAll == ASSUME NEW t, NEW m, IsSeq(m), Agrees(t, m, Len(m)) PROVE t = m
BY SameSeq DEF Agrees

\* The arguments that a step of vprintfmt takes are there.
LEMMA FmtInvFits == ASSUME FmtInv PROVE ArgumentsFit
<1> SUFFICES ASSUME mode = "escape" PROVE ArgumentsFit
  BY DEF ArgumentsFit
<1> DEFINE j == job
           c == At(fp)
<1>1. /\ j \in Job /\ fmt = FormatOf(j)
      /\ InUnknown(j, fp, text, ap) \/ InConversion(j, fp, text, ap, spec)
  BY DEF FmtInv
<1>2. c = CharOf(j, fp)
  BY <1>1, AtIs
<1>3. ap = <<>> => Len(ap) = 0
  BY EmptySeqs
<1>4. ASSUME c = "*" => Len(ap) >= 1 /\ ap[1].w \in Int, c \notin Convs
      PROVE  ArgumentsFit
  <2>1. c \notin {"c", "s", "d", "u", "o", "p", "x"}
    BY <1>4 DEF Convs
  <2>2. c = "*" => ap # <<>> /\ ap[1].w \in Int
    BY <1>3, <1>4
  <2> HIDE DEF c
  <2>3. At(fp) \in {"*", "c", "s"} => ap # <<>>
    BY <2>1, <2>2 DEF c
  <2>4. At(fp) = "*" => ap[1].w \in Int
    BY <2>2 DEF c
  <2>5. At(fp) \notin {"s", "d", "u", "o", "p", "x"}
    BY <2>1 DEF c
  <2> QED
    BY ONLY <2>3, <2>4, <2>5 DEF ArgumentsFit
<1>5. ASSUME NEW k, NEW o, AtUnknown(j, fp, text, ap, k, o) PROVE ArgumentsFit
  <2> DEFINE x == j.pieces[k].chars
  <2>1. /\ o = Len(x) => c = "NUL"
        /\ o # Len(x) => c = x[o + 1] /\ (IsModifier(x[o + 1]) \/ (o + 1 = Len(x) /\ x[o + 1] \notin Known))
        /\ o # Len(x) /\ x[o + 1] = "*" => Len(ap) >= 1 /\ ap[1].w \in Int
    BY <1>1, <1>2, <1>5, UnknownNext
  <2> HIDE DEF x
  <2>2. c = "*" => Len(ap) >= 1 /\ ap[1].w \in Int
    BY <2>1
  <2>3. c \notin Convs
    <3>1. \A d \in Convs : d \in Known /\ ~IsModifier(d) /\ d # "NUL"
      <4> SUFFICES ASSUME NEW d \in Convs PROVE d \in Known /\ ~IsModifier(d) /\ d # "NUL"
        OBVIOUS
      <4>1. d # "NUL"
        BY DEF Convs
      <4> QED
        BY <4>1, ConvsFacts
    <3> QED
      BY <2>1, <3>1
  <2> QED
    BY <1>4, <2>2, <2>3
<1>6. ASSUME NEW k, NEW b, NEW i, AtConversion(j, fp, text, ap, spec, k, b, i) PROVE ArgumentsFit
  <2>1. CASE c \in Convs
    <3>1. Reached(j.pieces[k], b)
      BY <1>1, <1>6, <2>1, ConversionIsReached
    <3> QED
      BY <1>3, <3>1, ConversionFits
  <2>2. CASE c \notin Convs
    <3>1. c = "*" => Len(ap) >= 1 /\ ap[1].w \in Int
      BY <1>1, <1>2, <1>6, StarDone
    <3> QED
      BY <1>4, <2>2, <3>1
  <2> QED
    BY <2>1, <2>2
<1> QED
  BY <1>1, <1>5, <1>6 DEF InUnknown, InConversion

LEMMA FmtInvMeans == ASSUME FmtInv PROVE FormatsAsMeant
<1> SUFFICES ASSUME mode # "idle" PROVE FormatsAsMeant
  BY DEF FormatsAsMeant
<1> DEFINE j == job
           m == MeaningOf(j)
<1>1. /\ j \in Job /\ fmt = FormatOf(j) /\ mode \in {"text", "escape", "done", "read"}
      /\ mode = "text" => InText(j, fp, text, ap)
      /\ mode = "escape" => InUnknown(j, fp, text, ap) \/ InConversion(j, fp, text, ap, spec)
      /\ mode \in {"done", "read"} => AtEnd(j, fp, text, ap)
  BY DEF FmtInv
<1>2. Meaning = m
  BY DEF Meaning, MeaningOf, Means
<1>3. IsSeq(m) /\ Len(FormatOf(j)) \in Nat
  BY <1>1, PlacesEnd
<1> HIDE DEF m
<1>4. /\ \E n : Agrees(text, m, n)
      /\ fp <= Len(FormatOf(j)) + 1
  <2>1. ASSUME NEW k, NEW r, AtText(j, fp, text, ap, k, r)
        PROVE  (\E n : Agrees(text, m, n)) /\ fp <= Len(FormatOf(j)) + 1
    <3>1. \E n : Agrees(text, m, n)
      BY <2>1, Zenon DEF AtText, m
    <3>2. r \in Nat
      BY <2>1 DEF AtText
    <3>3. CASE r = 0
      <4>1. AtText(j, fp, text, ap, k, 0)
        BY ONLY <2>1, <3>3, Zenon
      <4>2. fp <= Len(FormatOf(j)) + 1
        BY <1>1, <1>3, <4>1, TextBegins
      <4> QED
        BY <3>1, <4>2
    <3>4. CASE r > 0
      <4>1. fp \in 1 .. Len(FormatOf(j))
        BY <1>1, <2>1, <3>4, TextGoesOn
      <4> QED
        BY <1>3, <3>1, <4>1
    <3> QED
      BY <3>2, <3>3, <3>4
  <2>2. ASSUME NEW k, NEW o, AtUnknown(j, fp, text, ap, k, o)
        PROVE  (\E n : Agrees(text, m, n)) /\ fp <= Len(FormatOf(j)) + 1
    <3>1. \E n : Agrees(text, m, n)
      BY <2>2, Zenon DEF AtUnknown, m
    <3>2. fp <= Len(FormatOf(j)) + 1
      BY <1>1, <2>2, UnknownNext
    <3> QED
      BY <3>1, <3>2
  <2>3. ASSUME NEW k, NEW b, NEW i, AtConversion(j, fp, text, ap, spec, k, b, i)
        PROVE  (\E n : Agrees(text, m, n)) /\ fp <= Len(FormatOf(j)) + 1
    <3>1. \E n : Agrees(text, m, n)
      BY <2>3, Zenon DEF AtConversion, m
    <3>2. fp \in Nat /\ fp <= Len(FormatOf(j))
      BY <1>1, <2>3, ConversionNext
    <3> QED
      BY <1>3, <3>1, <3>2
  <2>4. ASSUME AtEnd(j, fp, text, ap)
        PROVE  (\E n : Agrees(text, m, n)) /\ fp <= Len(FormatOf(j)) + 1
    <3>1. \E n : Agrees(text, m, n)
      BY <2>4, Zenon DEF AtEnd, m
    <3>2. fp <= Len(FormatOf(j)) + 1
      BY <1>3, <2>4 DEF AtEnd
    <3> QED
      BY <3>1, <3>2
  <2> QED
    BY <1>1, <2>1, <2>2, <2>3, <2>4 DEF InText, InUnknown, InConversion
<1>5. IsPrefix(text, Meaning)
  <2>1. IsPrefix(text, m)
    BY <1>3, <1>4, AgreesIsPrefix
  <2> QED
    BY ONLY <1>2, <2>1, Zenon
<1>6. fp <= Len(fmt) + 1
  BY <1>1, <1>4
<1>7. ASSUME mode \in {"done", "read"} PROVE text = Meaning /\ ap = <<>>
  <2>1. Agrees(text, m, Len(m)) /\ Remains(ap, ArgsOf(j), Len(ArgsOf(j)))
    BY <1>1, <1>7 DEF AtEnd, m
  <2>2. text = m
    BY <1>3, <2>1, AgreesIsAll
  <2>3. IsSeq(ap) /\ Len(ap) = 0
    <3> DEFINE n == Len(ArgsOf(j))
    <3>1. n \in Nat /\ IsSeq(ap) /\ Len(ap) \in Nat /\ n + Len(ap) = n
      BY <2>1 DEF Remains
    <3> HIDE DEF n
    <3> QED
      BY <3>1
  <2>4. ap = <<>>
    BY <2>3, EmptySeqs
  <2> QED
    BY <1>2, <2>2, <2>4
<1> QED
  BY <1>5, <1>6, <1>7, FmtInvFits DEF FormatsAsMeant

(***************************************************************************)
(* vprintfmt prints what the format means, for every word size and every   *)
(* format, of any length, that is made of literals, escapes it does not    *)
(* know, and conversions with any of the modifiers - 0 # width . precision *)
(* l l, in this order and each at most once, the sizes as digits or as     *)
(* stars of arguments that are not negative.  What they mean for a number  *)
(* is what the code does: "-" pads it on the left with "-" (MinusPadsRight *)
(* says what its comment promises), and precision and # change nothing.    *)
(* vprintfmt takes exactly the arguments of each piece, one after the      *)
(* other, never reads past the NUL, and what it has printed is at all      *)
(* times a prefix of, and in the end all of, what the format says.         *)
(***************************************************************************)
THEOREM FormatsMean == LibSpec => []FormatsAsMeant
<1>1. FmtInv /\ [LibNext]_<<strVars, fmtVars>> => FmtInv'
  BY FmtInvNext
<1> QED
  BY <1>1, FmtInvInit, FmtInvMeans, PTL DEF LibSpec

----------------------------------------------------------------------------
\* The way out.

LEMMA OutInitInv == LibInit => OutInv
<1> SUFFICES ASSUME LibInit PROVE OutInv
  OBVIOUS
<1>1. CASE StrInit /\ FmtInit(NoJob, "idle")
  BY <1>1 DEF FmtInit, OutInv
<1>2. CASE \E j \in Job : FmtInit(j, "text")
  <2>1. PICK j \in Job : FmtInit(j, "text")
    BY <1>2
  <2>2. /\ job = j /\ fmt = FormatOf(j) /\ fp = 1 /\ mode = "text" /\ spec = FreshSpec
        /\ out = [buf |-> <<>>, cnt |-> 0, console |-> <<>>] /\ text = <<>>
    BY <2>1 DEF FmtInit
  <2>3. CallOK /\ IsSeq(fmt)
    <3>1. j.call \in {"printf", "vsprintf", "vsnprintf"} /\ j.size \in Nat
      BY FormatAssumption
    <3>2. IsSeq(FormatOf(j))
      BY PlacesEnd
    <3> QED
      BY <2>2, <3>1, <3>2 DEF CallOK
  <2>4. Reading
    <3>1. FreshSpec \in Specs
      BY DEF FreshSpec, Specs
    <3> QED
      BY <2>2, <2>3, <3>1 DEF Reading
  <2>5. Taken(out, text)
    <3>1. <<>> \in Seq({0}) /\ Len(<<>>) = 0 /\ <<>> \o <<>> = <<>>
      OBVIOUS
    <3>2. IsSeq(<<>>)
      BY <3>1 DEF IsSeq
    <3>3. MAX_BUF \in Nat /\ MAX_BUF >= 2
      BY FormatAssumption
    <3>4. Cut(<<>>, Room) = <<>>
      <4>1. Room \in Nat
        BY <2>3 DEF CallOK, Room
      <4> DEFINE e == <<>>
                 u == Cut(e, Room)
      <4>2. IsSeq(u) /\ Len(u) <= Room /\ (0 < Room => u = e) /\ (~(0 < Room) => Len(u) = Room)
        BY <3>1, <3>2, <4>1, CutAppend
      <4>3. Len(u) = 0
        BY <3>1, <4>1, <4>2
      <4>4. PICK S : u \in Seq(S)
        BY <4>2 DEF IsSeq
      <4> HIDE DEF u
      <4>5. u = <<>>
        BY <4>3, <4>4
      <4> QED
        BY <4>5 DEF u
    <3>5. out.buf = <<>> /\ out.cnt = 0 /\ out.console = <<>>
      BY <2>2
    <3> QED
      BY <2>2, <3>1, <3>2, <3>3, <3>4, <3>5 DEF Taken
  <2> QED
    BY <2>2, <2>4, <2>5 DEF OutInv
<1> QED
  BY <1>1, <1>2 DEF LibInit

(***************************************************************************)
(* Nothing is lost or written too far on the way out, for every size of    *)
(* printf's buffer and of the caller's, every such format and any number   *)
(* of full buffers.  (That the arguments of a call are what its format takes  *)
(* them for is a part of FmtInv.)                                          *)
(***************************************************************************)
THEOREM AllIsPrinted == LibSpec => []OutputComplete
<1>1. OutInv /\ ArgumentsFit /\ [LibNext]_<<strVars, fmtVars>> => OutInv'
  <2> SUFFICES ASSUME OutInv, ArgumentsFit, [LibNext]_<<strVars, fmtVars>> PROVE OutInv'
    OBVIOUS
  <2>1. CASE vprintfmt
    <3>1. Same /\ (Plain \/ Percent \/ End \/ Flag \/ Width \/ Star \/ Conversion \/ Unrecognized)
      BY <2>1 DEF vprintfmt, Same
    <3> QED
      BY <3>1, PlainKeeps, PercentKeeps, EndKeeps, FlagKeeps, WidthKeeps, StarKeeps, ConversionKeeps, UnrecognizedKeeps
  <2>2. CASE \E base \in {0, 10, 16} : ReadBack(base)
    BY <2>2, ReadBackKeeps
  <2>3. CASE UNCHANGED fmtVars
    <3>1. UNCHANGED <<job, fmt, fp, mode, spec, out, text>>
      BY <2>3 DEF fmtVars
    <3>2. Given(out, text) => Given(out, text)'
      BY <3>1, GivenNext
    <3>3. Taken(out, text) => Taken(out, text)'
      BY <3>1, TakenNext
    <3>4. Reading => Reading'
      BY <3>1 DEF Reading, CallOK, At
    <3> QED
      BY <3>1, <3>2, <3>3, <3>4 DEF OutInv
  <2> QED
    BY <2>1, <2>2, <2>3 DEF LibNext, FmtNext
<1>2. OutInv => OutputComplete
  <2> SUFFICES ASSUME OutInv, mode # "idle" PROVE OutputComplete
    BY DEF OutputComplete
  <2>1. /\ Reading /\ mode \in {"text", "escape", "done", "read"}
        /\ mode \in {"text", "escape"} => Taken(out, text)
        /\ mode \in {"done", "read"} => Given(out, text)
    BY DEF OutInv
  <2>2. job.call = "printf" => Len(out.buf) + 1 <= MAX_BUF - 1
    BY <2>1 DEF Taken, Given
  <2>3. ASSUME mode \in {"done", "read"}
        PROVE  /\ out.cnt = Len(text)
               /\ job.call = "printf" /\ ~Contains(text, "NUL") => out.console = text
               /\ job.call = "vsprintf" => out.buf = text
               /\ job.call = "vsnprintf" =>
                     /\ out.buf = Cut(text, IF job.size > 0 THEN job.size - 1 ELSE 0)
                     /\ Len(out.buf) + 1 <= (IF job.size > 1 THEN job.size ELSE 1)
    <3>1. Given(out, text) /\ CallOK
      BY <2>1, <2>3 DEF Reading
    <3>2. job.size \in Nat
      BY <3>1 DEF CallOK
    <3>3. job.call = "vsnprintf" => out.buf = Cut(text, Room) /\ Len(out.buf) <= Room
      BY <3>1 DEF Given
    <3>4. job.call = "vsnprintf" => Len(out.buf) + 1 <= (IF job.size > 1 THEN job.size ELSE 1)
      <4> SUFFICES ASSUME job.call = "vsnprintf" PROVE Len(out.buf) + 1 <= (IF job.size > 1 THEN job.size ELSE 1)
        OBVIOUS
      <4>1. Len(out.buf) \in Nat
        <5>1. IsSeq(out.buf)
          BY <3>1 DEF Given
        <5> QED
          BY <5>1, SeqFacts
      <4> QED
        BY <3>2, <3>3, <4>1 DEF Room
    <3> QED
      BY <3>1, <3>3, <3>4 DEF Given, Room
  <2> QED
    BY <2>2, <2>3 DEF OutputComplete
<1>3. FmtInv /\ [LibNext]_<<strVars, fmtVars>> => FmtInv'
  BY FmtInvNext
<1>4. FmtInv => ArgumentsFit
  BY FmtInvFits
<1> QED
  BY <1>1, <1>2, <1>3, <1>4, FmtInvInit, OutInitInv, PTL DEF LibSpec

----------------------------------------------------------------------------
\* Numbers that are read back.

DigitsRun(f, n, k, base) ==
    f = [j \in 0 .. n |-> IF j = 0 THEN 0 ELSE (f[j - 1] * base + DigitValue(TextAt(k + j - 1))) % UINT]

DigitsRounds(f, n, k, base) ==
    /\ f[0] = 0
    /\ \A j \in 1 .. n : f[j] = (f[j - 1] * base + DigitValue(TextAt(k + j - 1))) % UINT

\* A sequence of values that follows the digits ends in what is read.
LEMMA DigitsFromIs ==
  ASSUME NEW k, NEW base, NEW n \in Nat, NEW e, DOMAIN e = 0 .. n, e = [j \in 0 .. n |-> e[j]], DigitsRounds(e, n, k, base)
  PROVE  DigitsFrom(k, n, base) = e[n]
<1> DEFINE Next(f, j) == (f[j - 1] * base + DigitValue(TextAt(k + j - 1))) % UINT
           value == CHOOSE f : DigitsRun(f, n, k, base)
<1>1. DigitsFrom(k, n, base) = value[n]
  BY DEF DigitsFrom, DigitsRun
<1>2. DigitsRun(e, n, k, base)
  <2>1. e[0] = 0 /\ \A j \in 1 .. n : e[j] = Next(e, j)
    BY DEF DigitsRounds
  <2> HIDE DEF Next
  <2>2. \A j \in 0 .. n : e[j] = IF j = 0 THEN 0 ELSE Next(e, j)
    <3> SUFFICES ASSUME NEW j \in 0 .. n PROVE e[j] = IF j = 0 THEN 0 ELSE Next(e, j)
      OBVIOUS
    <3>1. j = 0 \/ j \in 1 .. n
      OBVIOUS
    <3> QED
      BY <2>1, <3>1
  <2>3. e = [j \in 0 .. n |-> IF j = 0 THEN 0 ELSE Next(e, j)]
    BY <2>2
  <2> QED
    BY <2>3 DEF Next, DigitsRun
<1>3. DigitsRun(value, n, k, base)
  BY <1>2
<1> HIDE DEF value
<1>4. value[0] = 0 /\ \A j \in 1 .. n : value[j] = Next(value, j)
  <2>1. value = [j \in 0 .. n |-> IF j = 0 THEN 0 ELSE Next(value, j)]
    BY <1>3 DEF DigitsRun
  <2> HIDE DEF Next
  <2>2. \A j \in 0 .. n : value[j] = IF j = 0 THEN 0 ELSE Next(value, j)
    BY <2>1
  <2> QED
    BY <2>2
<1>5. e[0] = 0 /\ \A j \in 1 .. n : e[j] = Next(e, j)
  BY DEF DigitsRounds
<1> DEFINE T == {j \in Nat : j <= n => value[j] = e[j]}
<1>6. 0 \in T
  BY <1>4, <1>5
<1>7. ASSUME NEW j \in T PROVE j + 1 \in T
  <2> SUFFICES ASSUME j + 1 <= n PROVE value[j + 1] = e[j + 1]
    OBVIOUS
  <2> DEFINE m == j + 1
  <2>1. m \in 1 .. n /\ m - 1 = j /\ value[j] = e[j]
    OBVIOUS
  <2>2. value[m] = Next(value, m) /\ e[m] = Next(e, m)
    <3> HIDE DEF m, Next
    <3> QED
      BY <1>4, <1>5, <2>1
  <2>3. value[m - 1] = e[m - 1]
    BY <2>1
  <2> HIDE DEF m
  <2>4. Next(value, m) = Next(e, m)
    BY ONLY <2>3, Zenon
  <2> HIDE DEF Next
  <2>5. value[m] = e[m]
    BY <2>2, <2>4
  <2> QED
    BY <2>5 DEF m
<1>8. T = Nat
  <2> HIDE DEF T
  <2> QED
    BY <1>6, <1>7, SetInduction DEF T
<1>9. value[n] = e[n]
  BY <1>8
<1> QED
  BY <1>1, <1>9

\* The arithmetic may wrap at every digit.
Wraps(a, b, d, n) == ((a % n) * b + d) % n = (a * b + d) % n

LEMMA WrapsEarly ==
  ASSUME NEW a \in Nat, NEW b \in Nat, NEW d \in Nat, NEW n \in Nat \ {0}
  PROVE  Wraps(a, b, d, n)
<1> DEFINE q == a \div n
           r == a % n
           x == r * b + d
           y == a * b + d
           z == q * b
<1>1. q \in Nat /\ r \in 0 .. n - 1 /\ a = n * q + r
  BY DivFacts
<1> HIDE DEF q, r
<1>2. r \in Nat
  BY <1>1
<1>3. x \in Nat /\ y \in Nat /\ z \in Nat
  BY <1>1, <1>2
<1>4. y = x + n * z
  <2>1. a * b = (n * q + r) * b
    BY <1>1
  <2>2. (n * q + r) * b = n * (q * b) + r * b
    BY <1>1, <1>2
  <2> QED
    BY <1>1, <1>2, <2>1, <2>2
<1> HIDE DEF x, y, z
<1>5. Congruent(y, x, n)
  BY <1>3, <1>4 DEF Congruent
<1>6. y % n = x % n
  BY <1>3, <1>5, SameRest
<1> QED
  BY <1>6 DEF x, y, r, Wraps

\* The number that the first i of the l digits of n make.
Start(n, base, l, i) == n \div Power(base, l - i)

LEMMA StartFacts ==
  ASSUME NEW n \in Nat, NEW base \in 2 .. 16, NEW l, HasDigits(n, base, l)
  PROVE  /\ l \in Nat \ {0} /\ Start(n, base, l, 0) = 0 /\ Start(n, base, l, l) = n
         /\ \A i \in 0 .. l : Start(n, base, l, i) \in Nat
         /\ \A i \in 1 .. l : Start(n, base, l, i) = Start(n, base, l, i - 1) * base + (Start(n, base, l, i) % base)
<1> DEFINE P(i) == Power(base, i)
           V(i) == n \div P(l - i)
<1>0. base \in Nat /\ base >= 2 /\ base \in Nat \ {0}
  OBVIOUS
<1>1. l \in Nat \ {0} /\ n < P(l)
  BY DEF HasDigits
<1>2. P(0) = 1 /\ \A i \in Nat : P(i) \in Nat \ {0} /\ P(i + 1) = base * P(i)
  BY <1>0, PowerFacts
<1> HIDE DEF P
<1>3. V(0) = 0
  <2> DEFINE p == P(l)
             q == n \div p
             r == n % p
  <2>1. p \in Nat \ {0} /\ l - 0 = l
    BY <1>1, <1>2
  <2> HIDE DEF p
  <2>2. q \in Nat /\ r \in 0 .. p - 1 /\ n = p * q + r
    BY <2>1, DivFacts
  <2> HIDE DEF q, r
  <2>3. n < p
    BY <1>1 DEF p
  <2>4. ~(q >= 1)
    <3> SUFFICES ASSUME q >= 1 PROVE FALSE
      OBVIOUS
    <3>1. p * q >= p
      BY <2>1, <2>2
    <3> QED
      BY <2>1, <2>2, <2>3, <3>1
  <2>5. q = 0
    BY <2>2, <2>4
  <2> QED
    BY <2>1, <2>5 DEF q, p
<1>4. V(l) = n
  <2>1. l - l = 0
    BY <1>1
  <2>2. n \div 1 = n
    OBVIOUS
  <2> QED
    BY <1>2, <2>1, <2>2
<1>5. ASSUME NEW i \in 0 .. l PROVE V(i) \in Nat
  <2>1. l - i \in Nat
    BY <1>1
  <2> DEFINE p == P(l - i)
  <2>2. p \in Nat \ {0}
    BY <1>2, <2>1
  <2> HIDE DEF p
  <2>3. n \div p \in Nat
    BY <2>2, DivFacts
  <2> QED
    BY <2>3 DEF p
<1>6. ASSUME NEW i \in 1 .. l PROVE V(i) = V(i - 1) * base + (V(i) % base)
  <2> DEFINE m == l - i
             b == P(m)
             a == n \div b
             d == n \div (b * base)
  <2>1. m \in Nat /\ l - (i - 1) = m + 1
    BY <1>1
  <2>2. b \in Nat \ {0} /\ P(m + 1) = b * base
    <3> HIDE DEF m
    <3>1. P(m) \in Nat \ {0} /\ P(m + 1) = base * P(m)
      BY <1>2, <2>1
    <3> QED
      BY <1>0, <3>1
  <2>3. V(i) = a /\ V(i - 1) = d
    BY <2>1, <2>2
  <2> HIDE DEF b
  <2>4. a = base * d + (a % base)
    BY ONLY <1>0, <2>2, n \in Nat, DivDiv
  <2>5. d \in Nat
    <3>1. b * base \in Nat \ {0}
      BY <1>0, <2>2
    <3> DEFINE c == b * base
    <3> HIDE DEF c
    <3>2. n \div c \in Nat
      BY <3>1, DivFacts DEF c
    <3> QED
      BY <3>2 DEF c
  <2> HIDE DEF a, d, V
  <2>6. base * d = d * base
    BY <1>0, <2>5
  <2> DEFINE x == base * d
             y == d * base
  <2>7. x = y /\ a = x + (a % base)
    BY <2>4, <2>6
  <2> HIDE DEF x, y
  <2>8. a = y + (a % base)
    BY ONLY <2>7, Zenon
  <2> QED
    BY ONLY <2>3, <2>8, Zenon DEF y
<1> QED
  BY <1>1, <1>3, <1>4, <1>5, <1>6 DEF Start, P

LEMMA NumeralStarts ==
  ASSUME NEW n \in Nat, NEW base \in 2 .. 16, NEW l, HasDigits(n, base, l)
  PROVE  /\ Len(Numeral(n, base)) = l
         /\ \A i \in 1 .. l : Numeral(n, base)[i] = Digit[(Start(n, base, l, i) % base) + 1]
<1> DEFINE V(i) == Start(n, base, l, i)
<1>1. /\ Numeral(n, base) = [i \in 1 .. l |-> Digit[((n \div Power(base, l - i)) % base) + 1]]
      /\ l \in Nat \ {0}
  BY NumeralIs
<1>2. Numeral(n, base) = [i \in 1 .. l |-> Digit[(V(i) % base) + 1]]
  BY <1>1 DEF Start
<1> DEFINE s == Numeral(n, base)
<1>3. s = [i \in 1 .. l |-> Digit[(V(i) % base) + 1]]
  BY <1>2
<1> HIDE DEF s, V
<1>4. Len(s) = l /\ \A i \in 1 .. l : s[i] = Digit[(V(i) % base) + 1]
  BY <1>1, <1>3
<1> QED
  BY <1>4 DEF s, V

\* From k on the text is z zeros and the digits of n, and then over.
EndsIn(k, z, n, base) ==
    LET l == Len(Numeral(n, base))
    IN  /\ \A i \in 0 .. z - 1 : TextAt(k + i) = "0"
        /\ \A i \in 0 .. l - 1 : TextAt(k + (z + i)) = Numeral(n, base)[i + 1]
        /\ TextAt(k + (z + l)) = "NUL"

LEMMA DigitsCounted ==
  ASSUME NEW k \in Nat, NEW z \in Nat, NEW n \in Nat, NEW base \in 2 .. 16, EndsIn(k, z, n, base)
  PROVE  Count({j \in Nat : DigitValue(TextAt(k + j)) < base}) = z + Len(Numeral(n, base))
<1> DEFINE s == Numeral(n, base)
           l == Len(s)
           C == {j \in Nat : DigitValue(TextAt(k + j)) < base}
           m == z + l
<1>1. l \in Nat
  BY NumeralRounds
<1>2. \A i \in 1 .. l : \E d \in 1 .. base : s[i] = Digit[d]
  BY NumeralDigits
<1>3. /\ \A i \in 0 .. z - 1 : TextAt(k + i) = "0"
      /\ \A i \in 0 .. l - 1 : TextAt(k + (z + i)) = s[i + 1]
      /\ TextAt(k + m) = "NUL"
  BY DEF EndsIn
<1>4. DigitValue("NUL") = 99 /\ DigitValue("0") = 0 /\ \A d \in 1 .. 16 : DigitValue(Digit[d]) = d - 1
  BY DigitFacts DEF Symbols
<1> HIDE DEF s, l
<1>5. m \notin C
  BY <1>3, <1>4
<1>6. ASSUME NEW j \in 0 .. m - 1 PROVE j \in C
  <2>1. CASE j < z
    <3>1. j \in 0 .. z - 1
      BY <2>1
    <3>2. TextAt(k + j) = "0"
      BY <1>3, <3>1
    <3>3. DigitValue(TextAt(k + j)) = 0
      BY <1>4, <3>2
    <3> QED
      BY <3>3
  <2>2. CASE z <= j
    <3> DEFINE i == j - z
               x == i + 1
    <3>1. i \in 0 .. l - 1 /\ z + i = j /\ x \in 1 .. l
      BY <1>1, <2>2
    <3>2. TextAt(k + (z + i)) = s[x]
      BY <1>3, <3>1
    <3>3. PICK d \in 1 .. base : s[x] = Digit[d]
      <4> HIDE DEF x
      <4> QED
        BY <1>2, <3>1
    <3> HIDE DEF x
    <3>4. TextAt(k + j) = Digit[d]
      BY <3>1, <3>2, <3>3
    <3>5. d \in 1 .. 16
      OBVIOUS
    <3>6. DigitValue(TextAt(k + j)) = d - 1
      BY <1>4, <3>4, <3>5
    <3> QED
      BY <3>6
  <2> QED
    BY <1>1, <2>1, <2>2
<1>7. m \in Nat
  BY <1>1
<1> HIDE DEF C, m
<1>8. Count(C) = m
  BY <1>5, <1>6, <1>7, CountIs
<1> QED
  BY <1>8 DEF C, m, l, s

\* What is read of such digits.
ReadAs(k, z, n, base) == ReadDigits(k, base) = [end |-> k + (z + Len(Numeral(n, base))), val |-> n % UINT]

LEMMA DigitsRead ==
  ASSUME NEW k \in Nat, NEW z \in Nat, NEW n \in Nat, NEW base \in 2 .. 16, EndsIn(k, z, n, base)
  PROVE  ReadAs(k, z, n, base)
<1> DEFINE s == Numeral(n, base)
           l == Len(s)
           m == z + l
           V(i) == Start(n, base, l, i)
           D(j) == DigitValue(TextAt(k + j - 1))
           e == [j \in 0 .. m |-> IF j <= z THEN 0 ELSE V(j - z) % UINT]
<1>0. UINT \in Nat \ {0} /\ base \in Nat
  BY FormatAssumption
<1>1. HasDigits(n, base, l)
  <2>1. PICK h : HasDigits(n, base, h)
    BY DigitsExist
  <2>2. l = h
    BY <2>1, NumeralStarts
  <2> QED
    BY <2>1, <2>2
<1>2. /\ l \in Nat \ {0} /\ V(0) = 0 /\ V(l) = n
      /\ \A i \in 0 .. l : V(i) \in Nat
      /\ \A i \in 1 .. l : V(i) = V(i - 1) * base + (V(i) % base)
  <2> HIDE DEF l
  <2> QED
    BY <1>1, StartFacts
<1>3. \A i \in 1 .. l : s[i] = Digit[(V(i) % base) + 1]
  <2> HIDE DEF l
  <2> QED
    BY <1>1, NumeralStarts DEF s
<1>4. /\ \A i \in 0 .. z - 1 : TextAt(k + i) = "0"
      /\ \A i \in 0 .. l - 1 : TextAt(k + (z + i)) = s[i + 1]
  BY DEF EndsIn
<1>5. DigitValue("0") = 0 /\ \A d \in 1 .. 16 : DigitValue(Digit[d]) = d - 1
  BY DigitFacts
<1> HIDE DEF s, l, V
<1>6. m \in Nat /\ m >= z
  BY <1>2
<1>7. ASSUME NEW j \in 1 .. z PROVE D(j) = 0
  <2>1. j - 1 \in 0 .. z - 1
    OBVIOUS
  <2>2. TextAt(k + (j - 1)) = "0"
    BY <1>4, <2>1
  <2>3. k + j - 1 = k + (j - 1)
    OBVIOUS
  <2> QED
    BY <1>5, <2>2, <2>3
<1>8. ASSUME NEW j \in z + 1 .. m PROVE D(j) = V(j - z) % base
  <2> DEFINE i == j - z
             d == (V(i) % base) + 1
  <2>1. i \in 1 .. l /\ i - 1 \in 0 .. l - 1 /\ (i - 1) + 1 = i /\ k + (z + (i - 1)) = k + j - 1
    BY <1>2
  <2>2. TextAt(k + j - 1) = s[i]
    BY <1>4, <2>1
  <2>3. s[i] = Digit[d]
    <3> HIDE DEF i
    <3> QED
      BY <1>3, <2>1
  <2>4. d \in 1 .. 16 /\ d - 1 = V(i) % base
    <3>1. V(i) \in Nat
      BY <1>2, <2>1
    <3> DEFINE v == V(i)
               r == v % base
    <3>2. r \in 0 .. base - 1
      <4> HIDE DEF v
      <4> QED
        BY <3>1 DEF v
    <3> HIDE DEF r, v
    <3>3. r + 1 \in 1 .. 16 /\ (r + 1) - 1 = r
      BY <3>2
    <3> QED
      BY <3>3 DEF r, v
  <2> HIDE DEF d
  <2>5. DigitValue(Digit[d]) = d - 1
    BY <1>5, <2>4
  <2>6. D(j) = d - 1
    BY <2>2, <2>3, <2>5
  <2> QED
    BY <2>4, <2>6
<1> HIDE DEF D
<1>9. DOMAIN e = 0 .. m /\ e = [j \in 0 .. m |-> e[j]] /\ \A j \in 0 .. m : e[j] = IF j <= z THEN 0 ELSE V(j - z) % UINT
  <2> HIDE DEF m
  <2> QED
    OBVIOUS
<1> HIDE DEF e, m
<1>10. \A i \in 0 .. l : z + i \in 0 .. m => e[z + i] = V(i) % UINT
  <2> SUFFICES ASSUME NEW i \in 0 .. l, z + i \in 0 .. m PROVE e[z + i] = V(i) % UINT
    OBVIOUS
  <2>1. CASE i = 0
    <3>1. z + i <= z
      BY <2>1
    <3>2. e[z + i] = 0
      BY <1>9, <3>1
    <3>3. 0 % UINT = 0
      BY <1>0
    <3> QED
      BY <1>2, <2>1, <3>2, <3>3
  <2>2. CASE i # 0
    <3>1. ~(z + i <= z) /\ (z + i) - z = i
      BY <2>2
    <3> QED
      BY <1>9, <3>1
  <2> QED
    BY <2>1, <2>2
<1>11. ASSUME NEW j \in 1 .. m PROVE e[j] = (e[j - 1] * base + D(j)) % UINT
  <2>1. CASE j <= z
    <3>1. j \in 1 .. z /\ j \in 0 .. m /\ j - 1 \in 0 .. m /\ j - 1 <= z
      BY <1>6, <2>1
    <3>2. e[j] = 0 /\ e[j - 1] = 0 /\ D(j) = 0
      BY <1>7, <1>9, <2>1, <3>1
    <3>3. (0 * base + 0) % UINT = 0
      BY <1>0
    <3> QED
      BY <3>2, <3>3
  <2>2. CASE ~(j <= z)
    <3> DEFINE i == j - z
               a == V(i - 1)
               d == V(i) % base
    <3>1. /\ i \in 1 .. l /\ i \in 0 .. l /\ i - 1 \in 0 .. l /\ z + i = j /\ z + (i - 1) = j - 1 /\ j \in z + 1 .. m
          /\ j \in 0 .. m /\ j - 1 \in 0 .. m
      BY <1>2, <1>6, <2>2 DEF m
    <3>2. e[j] = V(i) % UINT
      BY <1>10, <3>1
    <3>3. e[j - 1] = a % UINT
      <4> DEFINE h == i - 1
      <4>1. h \in 0 .. l /\ z + h = j - 1
        BY <3>1
      <4>2. e[z + h] = V(h) % UINT
        <5> HIDE DEF h
        <5> QED
          BY <1>10, <3>1, <4>1
      <4> QED
        BY <4>1, <4>2
    <3>4. D(j) = d
      BY <1>8, <3>1
    <3>5. V(i) = a * base + d /\ a \in Nat /\ V(i) \in Nat
      <4> HIDE DEF i
      <4> QED
        BY <1>2, <3>1
    <3>6. d \in Nat
      <4> DEFINE v == V(i)
      <4>1. v \in Nat
        BY <3>5
      <4> HIDE DEF v
      <4>2. v % base \in Nat
        BY <4>1
      <4> QED
        BY <4>2 DEF v
    <3> HIDE DEF a, d, i
    <3>7. ((a % UINT) * base + d) % UINT = (a * base + d) % UINT
      <4>1. a \in Nat /\ d \in Nat
        BY ONLY <3>5, <3>6
      <4> DEFINE u == UINT
      <4>2. u \in Nat \ {0}
        BY <1>0
      <4> HIDE DEF u
      <4>3. base \in Nat
        BY <1>0
      <4>4. Wraps(a, base, d, u)
        BY ONLY <4>1, <4>2, <4>3, WrapsEarly
      <4> QED
        BY ONLY <4>4, Zenon DEF Wraps, u
    <3> QED
      BY ONLY <3>2, <3>3, <3>4, <3>5, <3>7, Zenon
  <2> QED
    BY <2>1, <2>2
<1>12. e[0] = 0
  BY <1>6, <1>9
<1>13. DigitsRounds(e, m, k, base)
  BY <1>11, <1>12 DEF DigitsRounds, D
<1>14. DigitsFrom(k, m, base) = e[m]
  BY ONLY <1>6, <1>9, <1>13, DigitsFromIs
<1>15. e[m] = n % UINT
  <2>1. l \in 0 .. l /\ z + l = m /\ m \in 0 .. m
    BY <1>2, <1>6 DEF m
  <2>2. e[z + l] = V(l) % UINT
    BY <1>10, <2>1
  <2> QED
    BY <1>2, <2>1, <2>2
<1>16. Count({j \in Nat : DigitValue(TextAt(k + j)) < base}) = m
  BY DigitsCounted DEF m, l, s
<1>17. ReadDigits(k, base) = [end |-> k + m, val |-> DigitsFrom(k, m, base)]
  BY ONLY <1>16, Zenon DEF ReadDigits
<1> QED
  BY ONLY <1>14, <1>15, <1>17, Zenon DEF m, l, s, ReadAs

\* The text is s, q times c, and d.
Layout(s, q, c, d) ==
    /\ q \in Nat /\ Len(s) \in Nat /\ Len(d) \in Nat /\ Len(text) = Len(s) + (q + Len(d))
    /\ \A i \in 1 .. Len(s) : TextAt(i) = s[i]
    /\ \A i \in 0 .. q - 1 : TextAt(Len(s) + 1 + i) = c
    /\ \A i \in 0 .. Len(d) - 1 : TextAt(Len(s) + 1 + (q + i)) = d[i + 1]
    /\ TextAt(Len(s) + 1 + (q + Len(d))) = "NUL"

LEMMA PadAt ==
  ASSUME NEW n \in Int, NEW c
  PROVE  /\ IsSeq(Pad(n, c)) /\ Len(Pad(n, c)) \in Nat /\ (n <= 0 => Len(Pad(n, c)) = 0)
         /\ \A i \in 1 .. Len(Pad(n, c)) : Pad(n, c)[i] = c
<1> DEFINE f == [k \in 1 .. n |-> c]
           p == Pad(n, c)
<1>1. IsSeq(p) /\ Len(p) \in Nat
  BY PadIsSeq, SeqFacts
<1>2. CASE n > 0
  <2>1. f \in Seq({c}) /\ Len(f) = n /\ \A i \in 1 .. n : f[i] = c
    BY <1>2
  <2>2. p = f
    BY <1>2 DEF Pad
  <2> HIDE DEF p, f
  <2>3. ~(n <= 0)
    BY <1>2
  <2> QED
    BY <1>1, <2>1, <2>2, <2>3 DEF p
<1>3. CASE ~(n > 0)
  <2>1. p = <<>>
    BY <1>3 DEF Pad
  <2> HIDE DEF p
  <2>2. Len(p) = 0
    BY <2>1
  <2> QED
    BY <1>1, <2>2 DEF p
<1> QED
  BY <1>2, <1>3

LEMMA LayoutIs ==
  ASSUME NEW s, IsSeq(s), NEW n \in Int, NEW c, NEW d, IsSeq(d), text = s \o (Pad(n, c) \o d)
  PROVE  Layout(s, Len(Pad(n, c)), c, d)
<1> DEFINE p == Pad(n, c)
           r == p \o d
           a == Len(s)
           q == Len(p)
           l == Len(d)
<1>1. IsSeq(p) /\ q \in Nat /\ \A i \in 1 .. q : p[i] = c
  BY PadAt
<1> HIDE DEF p
<1>2. /\ IsSeq(r) /\ l \in Nat /\ Len(r) = q + l
      /\ \A i \in 1 .. q : r[i] = p[i]
      /\ \A i \in 1 .. l : r[q + i] = d[i]
  BY <1>1, ConcatAt
<1>3. text = s \o r
  BY Zenon DEF p
<1> HIDE DEF r
<1>4. /\ a \in Nat /\ Len(s \o r) = a + Len(r)
      /\ \A i \in 1 .. a : (s \o r)[i] = s[i]
      /\ \A i \in 1 .. Len(r) : (s \o r)[a + i] = r[i]
  <2>1. IsSeq(s) /\ IsSeq(r)
    BY <1>2
  <2> HIDE DEF q, l
  <2> QED
    BY ONLY <2>1, ConcatAt
<1> DEFINE t == s \o r
<1> HIDE DEF t
<1>5. /\ text = t /\ Len(t) = a + (q + l)
      /\ \A i \in 1 .. a : t[i] = s[i]
      /\ \A i \in 1 .. Len(r) : t[a + i] = r[i]
  BY <1>2, <1>3, <1>4 DEF t
<1> HIDE DEF a, q, l
<1>6. ASSUME NEW i \in 1 .. a PROVE TextAt(i) = s[i]
  <2>1. i <= Len(t)
    BY <1>1, <1>2, <1>4, <1>5
  <2> QED
    BY <1>5, <2>1 DEF TextAt
<1>7. ASSUME NEW i \in 0 .. q - 1 PROVE TextAt(a + 1 + i) = c
  <2> DEFINE x == i + 1
  <2>1. x \in 1 .. q /\ x \in 1 .. Len(r) /\ a + 1 + i = a + x /\ a + x <= Len(t)
    BY <1>1, <1>2, <1>4, <1>5
  <2> HIDE DEF x
  <2>2. t[a + x] = c
    BY <1>1, <1>2, <1>5, <2>1
  <2> QED
    BY <1>5, <2>1, <2>2 DEF TextAt
<1>8. ASSUME NEW i \in 0 .. l - 1 PROVE TextAt(a + 1 + (q + i)) = d[i + 1]
  <2> DEFINE x == i + 1
             y == q + x
  <2>1. x \in 1 .. l /\ y \in 1 .. Len(r) /\ a + 1 + (q + i) = a + y /\ a + y <= Len(t)
    BY <1>1, <1>2, <1>4, <1>5
  <2>2. r[y] = d[x]
    <3> HIDE DEF x
    <3> QED
      BY <1>2, <2>1
  <2> HIDE DEF x, y
  <2>3. t[a + y] = d[x]
    BY <1>5, <2>1, <2>2
  <2>4. TextAt(a + y) = d[x]
    BY <1>5, <2>1, <2>3 DEF TextAt
  <2> QED
    BY <2>1, <2>4 DEF x
<1>9. TextAt(a + 1 + (q + l)) = "NUL"
  <2>1. ~(a + 1 + (q + l) <= Len(t))
    BY <1>1, <1>2, <1>4, <1>5
  <2> QED
    BY <1>5, <2>1 DEF TextAt
<1> QED
  BY <1>1, <1>2, <1>4, <1>5, <1>6, <1>7, <1>8, <1>9 DEF Layout, a, q, l, p

\* All digits, and then no more.
DigitsAt(k, m, base) ==
    /\ m \in Nat \ {0} /\ TextAt(k + m) = "NUL"
    /\ \A i \in 0 .. m - 1 : \E d \in 1 .. base : TextAt(k + i) = Digit[d]

LEMMA EndsInDigits ==
  ASSUME NEW k \in Nat, NEW z \in Nat, NEW n \in Nat, NEW base \in 2 .. 16, EndsIn(k, z, n, base)
  PROVE  DigitsAt(k, z + Len(Numeral(n, base)), base)
<1> DEFINE s == Numeral(n, base)
           l == Len(s)
           m == z + l
<1>0. base \in Nat /\ base >= 2
  OBVIOUS
<1>1. l \in Nat \ {0}
  BY ONLY <1>0, n \in Nat, NumeralRounds
<1>2. \A i \in 1 .. l : \E d \in 1 .. base : s[i] = Digit[d]
  BY NumeralDigits
<1>3. /\ \A i \in 0 .. z - 1 : TextAt(k + i) = "0"
      /\ \A i \in 0 .. l - 1 : TextAt(k + (z + i)) = s[i + 1]
      /\ TextAt(k + m) = "NUL"
  BY DEF EndsIn
<1>4. Digit[1] = "0"
  BY DEF Digit
<1> HIDE DEF s, l
<1>5. ASSUME NEW j \in 0 .. m - 1 PROVE \E d \in 1 .. base : TextAt(k + j) = Digit[d]
  <2>1. CASE j < z
    <3>1. j \in 0 .. z - 1 /\ 1 \in 1 .. base
      BY <2>1
    <3> QED
      BY <1>3, <1>4, <3>1
  <2>2. CASE z <= j
    <3> DEFINE i == j - z
               x == i + 1
    <3>1. i \in 0 .. l - 1 /\ z + i = j /\ x \in 1 .. l
      BY <1>1, <2>2
    <3>2. TextAt(k + (z + i)) = s[x]
      BY <1>3, <3>1
    <3> HIDE DEF x, i
    <3> QED
      BY <1>2, <3>1, <3>2
  <2> QED
    BY <1>1, <2>1, <2>2
<1>6. m \in Nat \ {0}
  BY <1>1
<1> HIDE DEF m
<1> QED
  BY <1>3, <1>5, <1>6 DEF DigitsAt, m, l, s

\* A digit, or the end, is no space, sign or x.
LEMMA DigitsAre ==
  ASSUME NEW k \in Nat, NEW m, NEW base \in 2 .. 16, DigitsAt(k, m, base)
  PROVE  TextAt(k) \notin {" ", "+", "-"} /\ TextAt(k + 1) # "x"
<1>1. \A d \in 1 .. 16 : Digit[d] \notin Symbols
  BY DigitFacts
<1>2. " " \in Symbols /\ "+" \in Symbols /\ "-" \in Symbols /\ "x" \in Symbols
  BY DEF Symbols
<1>3. ASSUME NEW i \in 0 .. m - 1 PROVE TextAt(k + i) \notin Symbols
  <2>1. PICK d \in 1 .. base : TextAt(k + i) = Digit[d]
    BY DEF DigitsAt
  <2>2. d \in 1 .. 16
    OBVIOUS
  <2> QED
    BY <1>1, <2>1, <2>2
<1>4. m \in Nat \ {0} /\ TextAt(k + m) = "NUL"
  BY DEF DigitsAt
<1>5. TextAt(k) \notin Symbols
  <2>1. 0 \in 0 .. m - 1 /\ k + 0 = k
    BY <1>4
  <2> QED
    BY <1>3, <2>1
<1>6. TextAt(k + 1) # "x"
  <2>1. CASE m = 1
    <3>1. TextAt(k + 1) = "NUL"
      BY <1>4, <2>1
    <3> QED
      BY <3>1
  <2>2. CASE m # 1
    <3>1. 1 \in 0 .. m - 1
      BY <1>4, <2>2
    <3> QED
      BY <1>2, <1>3, <3>1
  <2> QED
    BY <2>1, <2>2
<1> QED
  BY <1>2, <1>5, <1>6

\* What strtol makes of the number n with the sign s.
Read(s, n) == Signed((s * (n % UINT)) % UINT, UINT)

\* sp spaces, a "-" if the sign g is -1, and then the digits, which start at d.
Preceded(sp, g, d) ==
    /\ \A i \in 0 .. sp - 1 : TextAt(1 + i) = " "
    /\ (g = -1 /\ TextAt(1 + sp) = "-" /\ d = sp + 2) \/ (g = 1 /\ d = sp + 1)

\* The sign that strtol and atoi find.
LEMMA SignRead ==
  ASSUME NEW sp \in Nat, NEW g \in Int, NEW d \in Nat, Preceded(sp, g, d), NEW m, NEW B \in 2 .. 16, DigitsAt(d, m, B)
  PROVE  /\ Count({j \in Nat : TextAt(1 + j) = " "}) = sp
         /\ AfterSign(1 + sp) = d /\ Sign(1 + sp) = g
<1> DEFINE C == {j \in Nat : TextAt(1 + j) = " "}
<1>1. TextAt(d) \notin {" ", "+", "-"}
  BY ONLY d \in Nat, B \in 2 .. 16, DigitsAt(d, m, B), DigitsAre
<1>2. /\ \A i \in 0 .. sp - 1 : TextAt(1 + i) = " "
      /\ (g = -1 /\ TextAt(1 + sp) = "-" /\ d = sp + 2) \/ (g = 1 /\ d = sp + 1)
  BY ONLY Preceded(sp, g, d), Zenon DEF Preceded
<1>3. (g = -1 /\ TextAt(1 + sp) = "-" /\ d = (1 + sp) + 1) \/ (g = 1 /\ d = 1 + sp)
  <2>1. (1 + sp) + 1 = sp + 2 /\ 1 + sp = sp + 1
    OBVIOUS
  <2> QED
    BY ONLY <1>2, <2>1, Zenon
<1>4. TextAt(1 + sp) # " "
  BY ONLY <1>1, <1>3
<1>5. sp \notin C
  BY <1>4
<1>6. \A j \in 0 .. sp - 1 : j \in C
  <2> TAKE j \in 0 .. sp - 1
  <2>1. j \in Nat
    OBVIOUS
  <2>2. TextAt(1 + j) = " "
    BY ONLY <1>2, j \in 0 .. sp - 1, Zenon
  <2> QED
    BY ONLY <2>1, <2>2, Zenon
<1> HIDE DEF C
<1>7. Count(C) = sp
  BY ONLY sp \in Nat, <1>5, <1>6, CountIs
<1>8. AfterSign(1 + sp) = d /\ Sign(1 + sp) = g
  BY ONLY <1>1, <1>3 DEF AfterSign, Sign
<1> QED
  BY <1>7, <1>8 DEF C

\* A leading 0 that is not there to pad is the number 0.
LEMMA NoDigitsAfterZero ==
  ASSUME NEW d \in Nat, NEW n \in Nat, EndsIn(d, 0, n, 10), TextAt(d) = "0"
  PROVE  n = 0 /\ ReadDigits(d + 1, 8).val = 0
<1> DEFINE zero == 0
           base == 10
           s == Numeral(n, base)
           k == d + 1
<1>0. zero = 0 /\ base = 10 /\ base \in 2 .. 16 /\ base \in Nat /\ base >= 2
  OBVIOUS
<1>1. EndsIn(d, zero, n, base)
  OBVIOUS
<1> HIDE DEF zero, base
<1>2. /\ Len(s) \in Nat \ {0} /\ (n < base => s = <<Digit[n + 1]>>)
  BY ONLY <1>0, n \in Nat, NumeralRounds
<1>3. \A i \in 0 .. Len(s) - 1 : TextAt(d + (zero + i)) = s[i + 1]
  BY <1>1 DEF EndsIn
<1>4. TextAt(d + (zero + Len(s))) = "NUL"
  BY <1>1 DEF EndsIn
<1>5. n > 0 => \E c \in 2 .. base : s[1] = Digit[c]
  BY ONLY <1>0, n \in Nat, NumeralDigits
<1> HIDE DEF s
<1>6. s[1] = "0"
  <2>1. 0 \in 0 .. Len(s) - 1 /\ d + (zero + 0) = d
    BY <1>0, <1>2
  <2> QED
    BY <1>3, <2>1
<1>7. n = 0
  <2> SUFFICES ASSUME n > 0 PROVE FALSE
    OBVIOUS
  <2>1. PICK c \in 2 .. base : s[1] = Digit[c]
    BY <1>5
  <2>2. c \in 1 .. 16 /\ c # 1
    BY <1>0
  <2>3. DigitValue("0") = 0 /\ DigitValue(Digit[c]) = c - 1
    BY <2>2, DigitFacts
  <2> QED
    BY <1>6, <2>1, <2>2, <2>3
<1>8. Len(s) = 1
  <2> DEFINE c == Digit[n + 1]
  <2>1. s = <<c>>
    BY <1>0, <1>2, <1>7
  <2> HIDE DEF c
  <2> QED
    BY ONLY <2>1, SingleIs
<1>9. TextAt(k) = "NUL"
  BY <1>0, <1>4, <1>8
<1>10. DigitValue("NUL") = 99
  BY DigitFacts DEF Symbols
<1> DEFINE C == {j \in Nat : DigitValue(TextAt(k + j)) < 8}
<1>11. Count(C) = 0
  <2>1. k + 0 = k
    OBVIOUS
  <2>2. 0 \notin C
    BY <1>9, <1>10, <2>1
  <2> HIDE DEF C
  <2>3. zero \in Nat /\ zero \notin C /\ \A j \in 0 .. zero - 1 : j \in C
    BY <1>0, <2>2
  <2>4. Count(C) = zero
    BY ONLY <2>3, CountIs
  <2> QED
    BY <1>0, <2>4
<1>12. DigitsFrom(k, 0, 8) = 0
  <2> DEFINE e == [j \in 0 .. zero |-> 0]
             b == 8
  <2>1. DOMAIN e = 0 .. zero /\ e[zero] = 0 /\ zero \in Nat /\ e = [j \in 0 .. zero |-> e[j]]
    BY <1>0
  <2> HIDE DEF e, b, k
  <2>2. DigitsRounds(e, zero, k, b)
    BY <1>0, <2>1 DEF DigitsRounds
  <2>3. DigitsFrom(k, zero, b) = e[zero]
    BY ONLY <2>1, <2>2, DigitsFromIs
  <2> QED
    BY <1>0, <2>1, <2>3 DEF b
<1>13. ReadDigits(k, 8) = [end |-> k + Count(C), val |-> DigitsFrom(k, Count(C), 8)]
  BY Zenon DEF ReadDigits
<1>14. ReadDigits(k, 8).val = 0
  <2> HIDE DEF C
  <2> QED
    BY <1>11, <1>12, <1>13
<1> QED
  BY <1>7, <1>14

\* With this base, digits with z zeros before them are read in base B.
ReadsIn(base, B, z) == B \in {10, 16} /\ (base = B \/ (base = 0 /\ B = 10 /\ z = 0))

\* A number without a prefix, for strtol in this base.
PlainNumber(sp, g, d, z, n, B, base) ==
    /\ sp \in Nat /\ g \in Int /\ d \in Nat /\ z \in Nat /\ n \in Nat
    /\ Preceded(sp, g, d) /\ EndsIn(d, z, n, B) /\ ReadsIn(base, B, z)

LEMMA StrtolPlain ==
  ASSUME NEW sp, NEW g, NEW d, NEW z, NEW n, NEW B, NEW base, PlainNumber(sp, g, d, z, n, B, base)
  PROVE  strtol(base) = Read(g, n)
<1> DEFINE m == z + Len(Numeral(n, B))
           C == {j \in Nat : TextAt(1 + j) = " "}
           k == 1 + Count(C)
<1>0. B \in 2 .. 16 /\ UINT \in Nat \ {0} /\ (base = B \/ (base = 0 /\ B = 10 /\ z = 0))
  BY FormatAssumption DEF ReadsIn, PlainNumber
<1>1. sp \in Nat /\ g \in Int /\ d \in Nat /\ z \in Nat /\ n \in Nat
  BY Zenon DEF PlainNumber
<1>8. Preceded(sp, g, d) /\ EndsIn(d, z, n, B)
  BY Zenon DEF PlainNumber
<1>2. DigitsAt(d, m, B)
  BY ONLY <1>0, <1>1, <1>8, EndsInDigits
<1> HIDE DEF m
<1>3. k = 1 + sp /\ AfterSign(k) = d /\ Sign(k) = g
  <2>1. /\ Count(C) = sp
        /\ AfterSign(1 + sp) = d /\ Sign(1 + sp) = g
    BY ONLY <1>0, <1>1, <1>2, <1>8, SignRead
  <2> QED
    BY <2>1
<1>4. TextAt(d + 1) # "x"
  BY ONLY <1>0, <1>1, <1>2, DigitsAre
<1>5. ReadDigits(d, B).val = n % UINT
  <2> DEFINE x == d + (z + Len(Numeral(n, B)))
  <2>1. ReadAs(d, z, n, B)
    BY ONLY <1>0, <1>1, <1>8, DigitsRead
  <2>2. ReadDigits(d, B) = [end |-> x, val |-> n % UINT]
    BY ONLY <2>1, Zenon DEF ReadAs
  <2> HIDE DEF x
  <2> QED
    BY ONLY <2>2
<1> DEFINE r == IF base \in {0, 16} /\ TextAt(d) = "0" /\ TextAt(d + 1) = "x" THEN ReadDigits(d + 2, 16)
                ELSE IF base = 0 /\ TextAt(d) = "0" THEN ReadDigits(d + 1, 8)
                ELSE ReadDigits(d, IF base = 0 THEN 10 ELSE base)
<1>6. r.val = n % UINT
  <2>1. CASE base = 0 /\ TextAt(d) = "0"
    <3>1. n = 0 /\ ReadDigits(d + 1, 8).val = 0
      <4>1. EndsIn(d, 0, n, 10)
        BY <1>0, <1>8, <2>1
      <4> QED
        BY <1>1, <2>1, <4>1, NoDigitsAfterZero
    <3>2. 0 % UINT = 0
      BY <1>0
    <3>3. r = ReadDigits(d + 1, 8)
      BY <1>4, <2>1
    <3> QED
      BY ONLY <3>1, <3>2, <3>3
  <2>2. CASE ~(base = 0 /\ TextAt(d) = "0")
    <3>1. (IF base = 0 THEN 10 ELSE base) = B
      BY <1>0
    <3>2. r = ReadDigits(d, B)
      BY ONLY <1>4, <2>2, <3>1, Zenon
    <3> QED
      BY ONLY <1>5, <3>2
  <2> QED
    BY <2>1, <2>2
<1>7. strtol(base) = Signed((Sign(k) * r.val) % UINT, UINT)
  <2>1. strtol(base) =
          LET e == AfterSign(k)
              o == IF base \in {0, 16} /\ TextAt(e) = "0" /\ TextAt(e + 1) = "x" THEN ReadDigits(e + 2, 16)
                   ELSE IF base = 0 /\ TextAt(e) = "0" THEN ReadDigits(e + 1, 8)
                   ELSE ReadDigits(e, IF base = 0 THEN 10 ELSE base)
          IN  Signed((Sign(k) * o.val) % UINT, UINT)
    BY Zenon DEF strtol
  <2> HIDE DEF k
  <2> QED
    BY ONLY <1>3, <2>1, Zenon
<1> HIDE DEF k, r
<1> QED
  BY ONLY <1>3, <1>6, <1>7, Zenon DEF Read

\* strtol of a number after 0x.
LEMMA StrtolPrefixed ==
  ASSUME TextAt(1) = "0", TextAt(2) = "x", NEW z \in Nat, NEW n \in Nat, EndsIn(3, z, n, 16), NEW base \in {0, 16}
  PROVE  strtol(base) = Read(1, n)
<1> DEFINE C == {j \in Nat : TextAt(1 + j) = " "}
           k == 1 + Count(C)
<1>1. Count(C) = 0
  <2> DEFINE zero == 0
  <2>1. zero \notin C
    <3>1. TextAt(1) # " "
      BY ONLY TextAt(1) = "0"
    <3>2. 1 + zero = 1
      OBVIOUS
    <3> QED
      BY ONLY <3>1, <3>2, Zenon
  <2>2. zero \in Nat /\ \A j \in 0 .. zero - 1 : j \in C
    OBVIOUS
  <2> HIDE DEF zero, C
  <2>3. Count(C) = zero
    BY ONLY <2>1, <2>2, CountIs
  <2> QED
    BY <2>3 DEF zero
<1> HIDE DEF C
<1>2. k = 1 /\ AfterSign(k) = 1 /\ Sign(k) = 1
  BY <1>1 DEF AfterSign, Sign
<1>3. ReadDigits(3, 16).val = n % UINT
  <2> DEFINE x == 3
             b == 16
  <2>1. x \in Nat /\ b \in 2 .. 16 /\ EndsIn(x, z, n, b)
    OBVIOUS
  <2> HIDE DEF x, b
  <2>2. ReadAs(x, z, n, b)
    BY ONLY <2>1, z \in Nat, n \in Nat, DigitsRead
  <2> DEFINE y == x + (z + Len(Numeral(n, b)))
  <2>3. ReadDigits(x, b) = [end |-> y, val |-> n % UINT]
    BY ONLY <2>2, Zenon DEF ReadAs
  <2> HIDE DEF y
  <2>4. ReadDigits(x, b).val = n % UINT
    BY ONLY <2>3
  <2> QED
    BY <2>4 DEF x, b
<1>4. strtol(base) =
        LET e == AfterSign(k)
            o == IF base \in {0, 16} /\ TextAt(e) = "0" /\ TextAt(e + 1) = "x" THEN ReadDigits(e + 2, 16)
                 ELSE IF base = 0 /\ TextAt(e) = "0" THEN ReadDigits(e + 1, 8)
                 ELSE ReadDigits(e, IF base = 0 THEN 10 ELSE base)
        IN  Signed((Sign(k) * o.val) % UINT, UINT)
  BY Zenon DEF strtol, C
<1> HIDE DEF k
<1> DEFINE o == IF base \in {0, 16} /\ TextAt(1) = "0" /\ TextAt(1 + 1) = "x" THEN ReadDigits(1 + 2, 16)
                ELSE IF base = 0 /\ TextAt(1) = "0" THEN ReadDigits(1 + 1, 8)
                ELSE ReadDigits(1, IF base = 0 THEN 10 ELSE base)
<1>5. strtol(base) = Signed((1 * o.val) % UINT, UINT)
  BY ONLY <1>2, <1>4, Zenon
<1>6. o = ReadDigits(3, 16)
  <2>1. 1 + 1 = 2 /\ 1 + 2 = 3
    OBVIOUS
  <2> QED
    BY ONLY <2>1, base \in {0, 16}, TextAt(1) = "0", TextAt(2) = "x", Zenon
<1> HIDE DEF o
<1> QED
  BY ONLY <1>3, <1>5, <1>6, Zenon DEF Read

\* atoi of a number that starts the text.
LEMMA AtoiPlain ==
  ASSUME NEW g \in Int, NEW d \in Nat, Preceded(0, g, d), NEW z \in Nat, NEW n \in Nat, EndsIn(d, z, n, 10)
  PROVE  atoi = [loc |-> (d + (z + Len(Numeral(n, 10)))) - 1, i |-> Read(g, n)]
<1> DEFINE b == 10
           x == d + (z + Len(Numeral(n, b)))
           m == z + Len(Numeral(n, b))
           zero == 0
           r == ReadDigits(d, b)
<1>0. b \in 2 .. 16 /\ zero = 0
  OBVIOUS
<1>1. d \in Nat /\ g \in Int /\ z \in Nat /\ n \in Nat
  OBVIOUS
<1>2. EndsIn(d, z, n, b) /\ Preceded(zero, g, d)
  OBVIOUS
<1>3. DigitsAt(d, m, b)
  <2> HIDE DEF b
  <2> QED
    BY ONLY <1>0, <1>1, <1>2, EndsInDigits
<1>4. r = [end |-> x, val |-> n % UINT]
  <2> HIDE DEF b
  <2>1. ReadAs(d, z, n, b)
    BY ONLY <1>0, <1>1, <1>2, DigitsRead
  <2> QED
    BY ONLY <2>1, Zenon DEF ReadAs
<1>5. m \in Nat \ {0} /\ x = d + m
  BY <1>3 DEF DigitsAt
<1>6. AfterSign(1) = d /\ Sign(1) = g
  <2> HIDE DEF m, zero, b
  <2>1. AfterSign(1 + zero) = d /\ Sign(1 + zero) = g
    BY ONLY <1>0, <1>1, <1>2, <1>3, SignRead
  <2>2. 1 + zero = 1
    BY <1>0
  <2> QED
    BY ONLY <2>1, <2>2, Zenon
<1>7. atoi = IF r.end = d THEN [loc |-> 0, i |-> 0]
             ELSE [loc |-> r.end - 1, i |-> Signed((Sign(1) * r.val) % UINT, UINT)]
  BY ONLY <1>6, Zenon DEF atoi, b
<1> HIDE DEF r, m
<1>8. r.end = x /\ r.val = n % UINT
  <2> HIDE DEF x
  <2> QED
    BY ONLY <1>4
<1>9. r.end # d
  BY <1>1, <1>5, <1>8
<1> HIDE DEF x
<1>10. atoi = [loc |-> x - 1, i |-> Read(g, n)]
  BY ONLY <1>6, <1>7, <1>8, <1>9, Zenon DEF Read
<1> QED
  BY ONLY <1>10, Zenon DEF x, b

\* Where the digits are in the text.
LEMMA DigitsLaidOut ==
  ASSUME NEW s, NEW q, NEW c, NEW n \in Nat, NEW base, Layout(s, q, c, Numeral(n, base)),
         NEW d, d = Len(s) + 1
  PROVE  /\ c = "0" \/ q = 0 => EndsIn(d, q, n, base)
         /\ EndsIn(d + q, 0, n, base)
<1> DEFINE D == Numeral(n, base)
           l == Len(D)
<1>1. /\ q \in Nat /\ Len(s) \in Nat /\ l \in Nat
      /\ \A i \in 0 .. q - 1 : TextAt(Len(s) + 1 + i) = c
      /\ \A i \in 0 .. l - 1 : TextAt(Len(s) + 1 + (q + i)) = D[i + 1]
      /\ TextAt(Len(s) + 1 + (q + l)) = "NUL"
  BY DEF Layout
<1> HIDE DEF D, l
<1>2. /\ \A i \in 0 .. q - 1 : TextAt(d + i) = c
      /\ \A i \in 0 .. l - 1 : TextAt(d + (q + i)) = D[i + 1]
      /\ TextAt(d + (q + l)) = "NUL"
  BY ONLY <1>1, d = Len(s) + 1, Zenon
<1>3. ASSUME c = "0" \/ q = 0 PROVE EndsIn(d, q, n, base)
  <2>1. ASSUME NEW i \in 0 .. q - 1 PROVE TextAt(d + i) = "0"
    <3>1. CASE c = "0"
      BY ONLY <1>2, <3>1, i \in 0 .. q - 1, Zenon
    <3>2. CASE q = 0
      <4>1. ~(i \in 0 .. 0 - 1)
        OBVIOUS
      <4> QED
        BY ONLY <3>2, <4>1, i \in 0 .. q - 1, Zenon
    <3> QED
      BY ONLY <1>3, <3>1, <3>2, Zenon
  <2> QED
    BY ONLY <1>2, <2>1, Zenon DEF EndsIn, D, l
<1>4. EndsIn(d + q, 0, n, base)
  <2>1. d \in Nat
    BY <1>1
  <2>2. \A i \in 0 .. 0 - 1 : TextAt((d + q) + i) = "0"
    OBVIOUS
  <2>3. ASSUME NEW i \in 0 .. l - 1 PROVE TextAt((d + q) + (0 + i)) = D[i + 1]
    <3>1. (d + q) + (0 + i) = d + (q + i)
      BY <1>1, <2>1
    <3> QED
      BY ONLY <1>2, <3>1, i \in 0 .. l - 1, Zenon
  <2>4. (d + q) + (0 + l) = d + (q + l)
    BY <1>1, <2>1
  <2>5. TextAt((d + q) + (0 + l)) = "NUL"
    BY ONLY <1>2, <2>4, Zenon
  <2> QED
    BY ONLY <2>2, <2>3, <2>5, Zenon DEF EndsIn, D, l
<1> QED
  BY <1>3, <1>4

\* The number is the same, to the last bit.
LEMMA SignedBack ==
  ASSUME NEW v \in Int, NEW g \in Int, NEW n \in Nat, (g = 1 /\ n = v) \/ (g = -1 /\ n = -v), n < UINT
  PROVE  Read(g, n) = Signed(v % UINT, UINT)
<1> DEFINE u == UINT
<1>1. u \in Nat \ {0}
  BY FormatAssumption
<1> HIDE DEF u
<1>2. n % u = n
  BY <1>1 DEF u
<1>3. g * n = v
  OBVIOUS
<1> DEFINE m == n % u
<1>4. g * m = v
  <2> HIDE DEF m
  <2>1. m = n
    BY <1>2 DEF m
  <2> QED
    BY ONLY <1>3, <2>1, Zenon
<1>5. (g * m) % u = v % u
  <2> DEFINE x == g * m
  <2>1. x = v
    BY <1>4
  <2> HIDE DEF x
  <2>2. x % u = v % u
    BY ONLY <2>1, Zenon
  <2> QED
    BY <2>2 DEF x
<1> QED
  BY ONLY <1>5, Zenon DEF Read, u, m

LEMMA NothingAt == \A x : \A i \in 0 .. 0 - 1 : TextAt(1 + i) = x
OBVIOUS

\* A number, as it was printed, is read back, if Readable says so.
NumReads(conv, v, c, w, base) ==
    /\ strtol(base) = Signed(v % UINT, UINT)
    /\ conv \in {"d", "u"} /\ (c = "0" \/ w = 0) => atoi = [loc |-> Len(text), i |-> Signed(v % UINT, UINT)]

LEMMA NegativeReads ==
  ASSUME NEW v \in Int, v < 0, -v < UINT, NEW q, NEW c, Layout(<<"-">>, q, c, Numeral(-v, 10)),
         c = "0" \/ q = 0, NEW base, base = 10 \/ (base = 0 /\ c # "0")
  PROVE  /\ strtol(base) = Signed(v % UINT, UINT)
         /\ atoi = [loc |-> Len(text), i |-> Signed(v % UINT, UINT)]
<1> DEFINE s == <<"-">>
           n == -v
           g == -1
           d == 2
           b == 10
           nil == 0
           D == Numeral(n, b)
<1>1. n \in Nat /\ g \in Int /\ d \in Nat /\ nil \in Nat /\ b \in {10, 16} /\ (g = -1 /\ n = -v) /\ n < UINT
  <2>1. n \in Nat /\ n = -v
    BY ONLY v \in Int, v < 0 DEF n
  <2>2. g \in Int /\ d \in Nat /\ nil \in Nat /\ b \in {10, 16} /\ g = -1
    BY ONLY TRUE DEF g, d, nil, b
  <2>3. n < UINT
    BY ONLY -v < UINT, Zenon DEF n
  <2> QED
    BY ONLY <2>1, <2>2, <2>3, Zenon
<1>2. Len(s) = 1 /\ s[1] = "-" /\ d = Len(s) + 1 /\ 1 \in 1 .. Len(s)
  BY ONLY TRUE DEF s, d
<1>3. Layout(s, q, c, D)
  OBVIOUS
<1>4. g = -1 /\ d = 2 /\ b = 10 /\ nil = 0 /\ (c = "0" \/ q = 0)
  OBVIOUS
<1> HIDE DEF s, n, g, d, b, nil
<1>5. EndsIn(d, q, n, b)
  BY ONLY <1>1, <1>2, <1>3, <1>4, DigitsLaidOut
<1> HIDE DEF D
<1>6. q \in Nat /\ Len(D) \in Nat /\ Len(text) = Len(s) + (q + Len(D)) /\ \A i \in 1 .. Len(s) : TextAt(i) = s[i]
  BY ONLY <1>3, Zenon DEF Layout
<1>7. Preceded(nil, g, d)
  <2>1. TextAt(1) = "-"
    BY ONLY <1>2, <1>6, Zenon
  <2>2. 1 + nil = 1 /\ d = nil + 2
    BY ONLY <1>4
  <2>3. \A i \in 0 .. nil - 1 : TextAt(1 + i) = " "
    BY ONLY <1>4, NothingAt
  <2> QED
    BY ONLY <1>4, <2>1, <2>2, <2>3, Zenon DEF Preceded
<1>8. ReadsIn(base, b, q)
  BY <1>1, <1>4 DEF ReadsIn
<1>9. strtol(base) = Read(g, n)
  <2>1. PlainNumber(nil, g, d, q, n, b, base)
    BY ONLY <1>1, <1>5, <1>6, <1>7, <1>8, Zenon DEF PlainNumber
  <2> QED
    BY ONLY <2>1, StrtolPlain
<1>10. Read(g, n) = Signed(v % UINT, UINT)
  BY ONLY <1>1, v \in Int, SignedBack
<1>11. atoi = [loc |-> (d + (q + Len(Numeral(n, 10)))) - 1, i |-> Read(g, n)]
  <2>1. EndsIn(d, q, n, 10) /\ Preceded(0, g, d)
    BY ONLY <1>4, <1>5, <1>7, Zenon
  <2> QED
    BY ONLY <1>1, <1>6, <2>1, AtoiPlain
<1>12. (d + (q + Len(D))) - 1 = Len(text)
  BY ONLY <1>2, <1>4, <1>6
<1>13. atoi = [loc |-> (d + (q + Len(D))) - 1, i |-> Read(g, n)]
  BY ONLY <1>4, <1>11, Zenon DEF D
<1> QED
  BY ONLY <1>9, <1>10, <1>12, <1>13, Zenon

LEMMA PointerReads ==
  ASSUME NEW v \in Nat, v < UINT, NEW q, NEW c, Layout(<<"0", "x">>, q, c, Numeral(v, 16)),
         c = "0" \/ q = 0, NEW base \in {0, 16}
  PROVE  strtol(base) = Signed(v % UINT, UINT)
<1> DEFINE s == <<"0", "x">>
           g == 1
           d == 3
           b == 16
<1>1. v \in Int /\ g \in Int /\ (g = 1 /\ v = v) /\ d = 3 /\ b = 16
  OBVIOUS
<1>2. s[1] = "0" /\ s[2] = "x" /\ d = Len(s) + 1 /\ 1 \in 1 .. Len(s) /\ 2 \in 1 .. Len(s)
  OBVIOUS
<1>3. Layout(s, q, c, Numeral(v, b))
  OBVIOUS
<1> HIDE DEF s, d, g, b
<1>4. EndsIn(d, q, v, b)
  BY ONLY <1>2, <1>3, v \in Nat, c = "0" \/ q = 0, DigitsLaidOut
<1>5. EndsIn(3, q, v, 16)
  BY ONLY <1>1, <1>4, Zenon
<1>6. q \in Nat /\ \A i \in 1 .. Len(s) : TextAt(i) = s[i]
  BY ONLY <1>3, Zenon DEF Layout
<1>7. TextAt(1) = "0" /\ TextAt(2) = "x"
  BY ONLY <1>2, <1>6, Zenon
<1>8. strtol(base) = Read(1, v)
  BY ONLY <1>5, <1>6, <1>7, v \in Nat, base \in {0, 16}, StrtolPrefixed
<1>9. Read(g, v) = Signed(v % UINT, UINT)
  BY ONLY <1>1, v \in Nat, v < UINT, SignedBack
<1> QED
  BY ONLY <1>1, <1>8, <1>9, Zenon

LEMMA PositiveReads ==
  ASSUME NEW v \in Nat, v < UINT, NEW q, NEW c, c = "0" \/ c = " ", NEW B \in {10, 16}, Layout(<<>>, q, c, Numeral(v, B)),
         NEW base, base = B \/ (base = 0 /\ B = 10 /\ c # "0")
  PROVE  /\ strtol(base) = Signed(v % UINT, UINT)
         /\ B = 10 /\ (c = "0" \/ q = 0) => atoi = [loc |-> Len(text), i |-> Signed(v % UINT, UINT)]
<1> DEFINE s == <<>>
           g == 1
           one == 1
           nil == 0
           D == Numeral(v, B)
           d == one + q
<1>1. v \in Int /\ g \in Int /\ (g = 1 /\ v = v) /\ one \in Nat /\ nil \in Nat
  BY ONLY v \in Nat DEF g, one, nil
<1>2. one = Len(s) + 1 /\ Len(s) = 0 /\ one = 1 /\ nil = 0
  BY ONLY EmptySeqs DEF s, one, nil
<1>3. Layout(s, q, c, D)
  OBVIOUS
<1> HIDE DEF s, g, one, nil
<1>4. /\ c = "0" \/ q = 0 => EndsIn(one, q, v, B)
      /\ EndsIn(one + q, 0, v, B)
  BY ONLY <1>2, <1>3, v \in Nat, DigitsLaidOut
<1> HIDE DEF D
<1>5. /\ q \in Nat /\ Len(D) \in Nat /\ Len(text) = Len(s) + (q + Len(D))
      /\ \A i \in 0 .. q - 1 : TextAt(Len(s) + 1 + i) = c
  BY ONLY <1>3, Zenon DEF Layout
<1>6. Read(g, v) = Signed(v % UINT, UINT)
  BY ONLY <1>1, v \in Nat, v < UINT, SignedBack
<1>7. Preceded(nil, g, one)
  <2>1. one = nil + 1
    BY ONLY <1>2
  <2>2. \A i \in 0 .. nil - 1 : TextAt(1 + i) = " "
    BY ONLY <1>2, NothingAt
  <2> QED
    BY ONLY <1>1, <2>1, <2>2, Zenon DEF Preceded
<1>8. strtol(base) = Read(g, v)
  <2>1. CASE c = "0"
    <3>1. EndsIn(one, q, v, B) /\ ReadsIn(base, B, q)
      BY ONLY <1>4, <2>1, B \in {10, 16}, base = B \/ (base = 0 /\ B = 10 /\ c # "0"), Zenon DEF ReadsIn
    <3> QED
      <4>1. PlainNumber(nil, g, one, q, v, B, base)
        BY ONLY <1>1, <1>5, <1>7, <3>1, v \in Nat, Zenon DEF PlainNumber
      <4> QED
        BY ONLY <4>1, StrtolPlain
  <2>2. CASE c = " "
    <3>1. EndsIn(d, nil, v, B) /\ ReadsIn(base, B, nil)
      BY ONLY <1>2, <1>4, B \in {10, 16}, base = B \/ (base = 0 /\ B = 10 /\ c # "0"), Zenon DEF ReadsIn, d
    <3>2. Len(s) + 1 = 1 /\ d \in Nat /\ d = q + 1
      BY ONLY <1>2, <1>5 DEF d
    <3>3. \A i \in 0 .. q - 1 : TextAt(1 + i) = " "
      BY ONLY <1>5, <2>2, <3>2, Zenon
    <3> HIDE DEF d
    <3>4. Preceded(q, g, d)
      BY ONLY <1>1, <3>2, <3>3, Zenon DEF Preceded
    <3> QED
      <4>1. PlainNumber(q, g, d, nil, v, B, base)
        BY ONLY <1>1, <1>5, <3>1, <3>2, <3>4, v \in Nat, Zenon DEF PlainNumber
      <4> QED
        BY ONLY <4>1, StrtolPlain
  <2> QED
    BY ONLY c = "0" \/ c = " ", <2>1, <2>2, Zenon
<1>9. ASSUME B = 10, c = "0" \/ q = 0 PROVE atoi = [loc |-> Len(text), i |-> Read(g, v)]
  <2>1. EndsIn(one, q, v, 10) /\ Preceded(0, g, one)
    BY ONLY <1>2, <1>4, <1>7, <1>9, Zenon
  <2>2. atoi = [loc |-> (one + (q + Len(Numeral(v, 10)))) - 1, i |-> Read(g, v)]
    BY ONLY <1>1, <1>5, <2>1, v \in Nat, AtoiPlain
  <2>3. (one + (q + Len(D))) - 1 = Len(text)
    BY ONLY <1>2, <1>5
  <2> QED
    BY ONLY <1>9, <2>2, <2>3, Zenon DEF D
<1> QED
  BY ONLY <1>6, <1>8, <1>9, Zenon

\* The text of a format of one piece.
LEMMA OnePieceText ==
  ASSUME FmtInv, mode \in {"done", "read"}, Len(job.pieces) = 1, NEW p, p = job.pieces[1]
  PROVE  text = p.means /\ IsPiece(p, job.lib, 1 = Pieces(job))
<1> DEFINE j == job
           m == MeaningOf(j)
           one == 1
           nil == 0
           x == p.means
<1>1. j \in Job /\ text = m
  <2>1. j \in Job /\ AtEnd(j, fp, text, ap)
    BY DEF FmtInv
  <2>2. Agrees(text, m, Len(m)) /\ IsSeq(m)
    BY <2>1, PlacesEnd DEF AtEnd
  <2> QED
    BY ONLY <2>1, <2>2, AgreesIsAll
<1>2. Pieces(j) = one /\ one \in 1 .. Pieces(j) /\ one - 1 = nil /\ p = j.pieces[one]
  BY DEF Pieces
<1>3. one = 1 /\ nil = 0
  OBVIOUS
<1> HIDE DEF one, nil, j
<1>4. /\ IsPart(MeaningOf(j), p.means, MeanPlace(j)[one - 1], MeanPlace(j)[one])
      /\ IsPiece(p, j.lib, one = Pieces(j))
  BY ONLY <1>1, <1>2, PieceAt
<1>5. MeanPlace(j)[nil] = 0 /\ MeanPlace(j)[one] = Len(m)
  <2>1. MeanPlace(j)[0] = 0 /\ MeanPlace(j)[Pieces(j)] = Len(MeaningOf(j))
    BY ONLY <1>1, PlacesEnd
  <2> QED
    BY ONLY <1>2, <1>3, <2>1, Zenon
<1>6. IsSeq(m)
  BY ONLY <1>1, PlacesEnd
<1> HIDE DEF m, x
<1>7. IsPart(m, x, 0, Len(m))
  BY ONLY <1>2, <1>4, <1>5, Zenon DEF m, x
<1>8. IsSeq(x) /\ Len(x) \in Nat /\ Len(m) = 0 + Len(x) /\ \A i \in 1 .. Len(x) : m[0 + i] = x[i]
  BY ONLY <1>7, Zenon DEF IsPart
<1>9. Len(m) = Len(x) /\ \A i \in 1 .. Len(m) : m[i] = x[i]
  <2>1. Len(m) = Len(x)
    BY ONLY <1>8
  <2>2. ASSUME NEW i \in 1 .. Len(m) PROVE m[i] = x[i]
    <3>1. i \in 1 .. Len(x) /\ 0 + i = i
      BY ONLY <1>8, <2>1, i \in 1 .. Len(m)
    <3> QED
      BY ONLY <1>8, <3>1, Zenon
  <2> QED
    BY ONLY <2>1, <2>2, Zenon
<1>10. m = x
  BY ONLY <1>6, <1>8, <1>9, SameSeq
<1> QED
  BY ONLY <1>1, <1>3, <1>4, <1>10, Zenon DEF x, j

\* A printed number, as a value, a width and the character that pads it.
IsPrinted(conv, v, w, c) ==
    /\ conv \in {"d", "u", "x", "p"} /\ v \in Int /\ w \in Nat /\ (c = "0" \/ c = " ")
    /\ v < UINT /\ -v < UINT /\ (conv # "d" => v >= 0)
    /\ text = Lead(conv, v) \o Padded(Numeral(IF v < 0 THEN -v ELSE v, NumBase(conv)), w, c)

PadOf(p) == IF p.esc.zero THEN "0" ELSE " "

\* Without a width nothing is padded, whatever the character.
LEMMA NoPadding ==
  ASSUME NEW s, IsSeq(s), NEW c, NEW d
  PROVE  Padded(s, 0, c) = Padded(s, 0, d)
<1> DEFINE k == 0 - Len(s)
<1>1. ~(k > 0)
  BY SeqFacts
<1> HIDE DEF k
<1>2. Pad(k, c) = <<>> /\ Pad(k, d) = <<>>
  BY ONLY <1>1 DEF Pad
<1> QED
  BY ONLY <1>2, Zenon DEF Padded, k

LEMMA NumberIsPrinted ==
  ASSUME FmtInv, mode \in {"done", "read"}, Len(job.pieces) = 1, NEW p, p = job.pieces[1],
         p.conv \in {"d", "u", "x", "p"}, ~TwoWords(p.esc, p.conv),
         p.esc.zero \/ p.esc.width = 0 \/ PadChar(p.esc) = " "
  PROVE  IsPrinted(p.conv, p.arg.v, p.esc.width, PadOf(p))
<1> DEFINE v == p.arg.v
           w == p.esc.width
           conv == p.conv
           c == PadOf(p)
           two == TwoWords(p.esc, conv)
           n == IF v < 0 THEN -v ELSE v
           B == NumBase(conv)
           N == Numeral(n, B)
           D == Padded(N, w, c)
<1>1. text = p.means /\ IsPiece(p, job.lib, 1 = Pieces(job))
  BY OnePieceText, Zenon
<1>2. IsLiteral(p) \/ IsUnknown(p, 1 = Pieces(job)) \/ \E a : IsConversion(p, job.lib, a)
  BY ONLY <1>1, PieceKinds, Zenon
<1>3. ~IsLiteral(p) /\ ~IsUnknown(p, 1 = Pieces(job))
  <2>1. p.conv # "none"
    BY ONLY p.conv \in {"d", "u", "x", "p"}
  <2>2. ASSUME NEW s, NEW args, NEW q, q = [conv |-> "none", chars |-> s, args |-> args, means |-> s] PROVE q.conv = "none"
    BY ONLY <2>2
  <2>3. IsLiteral(p) => p.conv = "none"
    <3> DEFINE args == <<>>
    <3> SUFFICES ASSUME IsLiteral(p) PROVE p.conv = "none"
      OBVIOUS
    <3>1. p = [conv |-> "none", chars |-> p.chars, args |-> args, means |-> p.chars]
      BY ONLY IsLiteral(p), Zenon DEF IsLiteral, Literal, args
    <3> HIDE DEF args
    <3> QED
      BY ONLY <2>2, <3>1, Zenon
  <2>4. IsUnknown(p, 1 = Pieces(job)) => p.conv = "none"
    <3> SUFFICES ASSUME IsUnknown(p, 1 = Pieces(job)) PROVE p.conv = "none"
      OBVIOUS
    <3>1. p = [conv |-> "none", chars |-> p.chars, args |-> p.args, means |-> p.chars]
      BY ONLY IsUnknown(p, 1 = Pieces(job)), Zenon DEF IsUnknown, Unknown
    <3> QED
      BY ONLY <2>2, <3>1, Zenon
  <2> QED
    BY ONLY <2>1, <2>3, <2>4, Zenon
<1>4. PICK a : IsConversion(p, job.lib, a)
  BY ONLY <1>2, <1>3, Zenon
<1>5. IsEscape(p.esc)
  BY ONLY <1>4, Zenon DEF IsConversion
<1>6. /\ v \in NumValues(two, conv)
      /\ p.means = Lead(conv, v) \o NumDigits(p.esc, conv, v)
  <2>1. conv # "s" /\ conv # "c" /\ conv # "%" /\ conv # "o"
    BY ONLY conv \in {"d", "u", "x", "p"}
  <2> HIDE DEF conv
  <2> QED
    BY ONLY <1>4, <2>1, Zenon DEF IsConversion, conv
<1>7. NumRange(two) = UINT
  BY ONLY ~TwoWords(p.esc, p.conv), Zenon DEF NumRange
<1>8. v \in IF conv = "d" THEN UINT \div 2 - UINT .. UINT \div 2 - 1 ELSE 0 .. UINT - 1
  BY ONLY <1>6, <1>7, Zenon DEF NumValues
<1>9. v \in Int /\ v < UINT /\ -v < UINT /\ (conv # "d" => v >= 0)
  <2> DEFINE u == UINT
             h == u \div 2
  <2>1. u \in Nat \ {0, 1}
    BY FormatAssumption
  <2> HIDE DEF u
  <2>2. h \in Nat /\ h >= 1 /\ h <= u
    BY ONLY <2>1 DEF h
  <2> HIDE DEF v, conv, h
  <2>3. v \in IF conv = "d" THEN h - u .. h - 1 ELSE 0 .. u - 1
    BY ONLY <1>8, Zenon DEF h, u
  <2>4. v \in Int /\ v < u /\ -v < u /\ (conv # "d" => v >= 0)
    BY ONLY <2>1, <2>2, <2>3
  <2> QED
    BY ONLY <2>4, Zenon DEF u
<1>10. w \in Nat
  BY ONLY <1>5, EscapeFields DEF IsEscape
<1>11. NumDigits(p.esc, conv, v) = D
  <2>1. NumDigits(p.esc, conv, v) = Padded(N, w, PadChar(p.esc))
    BY ONLY Zenon DEF NumDigits, NumeralOf, NumBase, N, n, B, w
  <2>2. CASE w = 0
    <3>1. n \in Nat
      <4> HIDE DEF v
      <4> QED
        BY ONLY <1>9
    <3>2. B \in Nat /\ B >= 2
      <4>1. B = 10 \/ B = 16
        <5>1. conv \in {"d", "u", "x", "p"}
          OBVIOUS
        <5> HIDE DEF conv
        <5> QED
          BY ONLY <5>1 DEF NumBase
      <4> QED
        BY ONLY <4>1
    <3> HIDE DEF n, B
    <3>3. IsSeq(N)
      BY ONLY <3>1, <3>2, NumeralRounds
    <3> HIDE DEF N, w, c
    <3>4. Padded(N, 0, PadChar(p.esc)) = Padded(N, 0, c)
      BY ONLY <3>3, NoPadding
    <3> QED
      BY ONLY <2>1, <2>2, <3>4, Zenon
  <2>3. CASE p.esc.zero \/ PadChar(p.esc) = " "
    <3>1. CASE p.esc.zero
      <4>1. PadChar(p.esc) = "0" /\ c = "0"
        BY ONLY <3>1, Zenon DEF PadChar, PadOf, c
      <4> QED
        BY ONLY <2>1, <4>1, Zenon
    <3>2. CASE ~p.esc.zero
      <4>1. PadChar(p.esc) = " " /\ c = " "
        BY ONLY <2>3, <3>2, Zenon DEF PadOf, c
      <4> QED
        BY ONLY <2>1, <4>1, Zenon
    <3> QED
      BY ONLY <3>1, <3>2, Zenon
  <2> QED
    BY ONLY <2>2, <2>3, p.esc.zero \/ p.esc.width = 0 \/ PadChar(p.esc) = " ", Zenon DEF w
<1>12. c = "0" \/ c = " "
  BY ONLY Zenon DEF PadOf, c
<1> HIDE DEF D
<1>13. text = Lead(conv, v) \o D
  BY ONLY <1>1, <1>6, <1>11, Zenon
<1> QED
  BY ONLY <1>9, <1>10, <1>12, <1>13, p.conv \in {"d", "u", "x", "p"}, Zenon DEF IsPrinted, D, N, n, B, v, w, conv, c

\* The bases that strtol can read a conversion in.
BaseFits(conv, c, base) ==
    \/ conv \in {"d", "u"} /\ (base = 10 \/ (base = 0 /\ c # "0"))
    \/ conv = "x" /\ base = 16
    \/ conv = "p" /\ base \in {0, 16}

LEMMA PrintedReads ==
  ASSUME NEW conv, NEW v, NEW w, NEW c, IsPrinted(conv, v, w, c), c = "0" \/ w = 0 \/ (v >= 0 /\ conv # "p"),
         NEW base, BaseFits(conv, c, base)
  PROVE  NumReads(conv, v, c, w, base)
<1> DEFINE n == IF v < 0 THEN -v ELSE v
           B == NumBase(conv)
           D == Numeral(n, B)
           s == Lead(conv, v)
           k == w - Len(D)
           q == Len(Pad(k, c))
<1>0. c = "0" \/ c = " "
  BY Zenon DEF IsPrinted
<1>1. /\ conv \in {"d", "u", "x", "p"} /\ v \in Int /\ w \in Nat
      /\ v < UINT /\ -v < UINT /\ (conv # "d" => v >= 0)
      /\ text = s \o (Pad(k, c) \o D)
  BY Zenon DEF IsPrinted, Padded
<1>2. n \in Nat
  BY ONLY <1>1 DEF n
<1>3. B \in {10, 16} /\ (conv \in {"d", "u"} => B = 10) /\ (conv \in {"x", "p"} => B = 16)
  BY ONLY <1>1 DEF B, NumBase
<1>4. IsSeq(D) /\ Len(D) \in Nat \ {0}
  <2>1. B \in Nat /\ B >= 2
    BY ONLY <1>3
  <2> HIDE DEF n, B
  <2> QED
    BY ONLY <1>2, <2>1, NumeralRounds DEF D
<1> HIDE DEF n, B, D
<1>5. k \in Int /\ (w = 0 => k <= 0)
  BY ONLY <1>1, <1>4 DEF k
<1> HIDE DEF k
<1>6. w = 0 => q = 0
  <2>1. k <= 0 => Len(Pad(k, c)) = 0
    BY ONLY <1>5, PadAt
  <2> QED
    BY ONLY <1>5, <2>1, Zenon DEF q
<1>7. IsSeq(s)
  <2> DEFINE a1 == <<"-">>
             a2 == <<"0", "x">>
             a3 == <<>>
  <2>1. IsSeq(a1) /\ IsSeq(a2) /\ IsSeq(a3)
    BY SingleIs, PairAt, EmptySeqs
  <2>2. s = a1 \/ s = a2 \/ s = a3
    BY ONLY Zenon DEF Lead, s, a1, a2, a3
  <2> HIDE DEF a1, a2, a3, s
  <2> QED
    BY ONLY <2>1, <2>2, Zenon
<1> HIDE DEF s
<1>8. Layout(s, q, c, D)
  BY ONLY <1>1, <1>4, <1>5, <1>7, LayoutIs DEF q
<1> HIDE DEF q
<1>9. CASE v < 0
  <2>1. conv = "d" /\ n = -v /\ B = 10 /\ ~(v >= 0)
    BY ONLY <1>1, <1>3, <1>9 DEF n
  <2>2. s = <<"-">>
    BY ONLY <1>9, Zenon DEF s, Lead
  <2>3. Layout(<<"-">>, q, c, Numeral(-v, 10))
    BY ONLY <1>8, <2>1, <2>2, Zenon DEF D
  <2>4. c = "0" \/ q = 0
    BY ONLY <1>6, <2>1, c = "0" \/ w = 0 \/ (v >= 0 /\ conv # "p"), Zenon
  <2>5. base = 10 \/ (base = 0 /\ c # "0")
    <3>1. conv # "x" /\ conv # "p"
      BY ONLY <2>1
    <3> QED
      BY ONLY <3>1, BaseFits(conv, c, base), Zenon DEF BaseFits
  <2>6. /\ strtol(base) = Signed(v % UINT, UINT)
        /\ atoi = [loc |-> Len(text), i |-> Signed(v % UINT, UINT)]
    BY ONLY <1>1, <1>9, <2>3, <2>4, <2>5, NegativeReads
  <2> QED
    BY ONLY <2>6, Zenon DEF NumReads
<1>10. CASE ~(v < 0)
  <2>1. v \in Nat /\ n = v
    BY ONLY <1>1, <1>10 DEF n
  <2>2. CASE conv = "p"
    <3>1. s = <<"0", "x">>
      BY ONLY <1>10, <2>2, Zenon DEF s, Lead
    <3>2. B = 16 /\ conv \notin {"d", "u"} /\ conv # "x"
      BY ONLY <1>3, <2>2
    <3>3. Layout(<<"0", "x">>, q, c, Numeral(v, 16))
      BY ONLY <1>8, <2>1, <3>1, <3>2, Zenon DEF D
    <3>4. c = "0" \/ q = 0
      BY ONLY <1>6, <2>2, c = "0" \/ w = 0 \/ (v >= 0 /\ conv # "p"), Zenon
    <3>5. base \in {0, 16}
      BY ONLY <3>2, BaseFits(conv, c, base), Zenon DEF BaseFits
    <3>6. strtol(base) = Signed(v % UINT, UINT)
      BY ONLY <1>1, <2>1, <3>3, <3>4, <3>5, PointerReads
    <3> QED
      BY ONLY <3>2, <3>6, Zenon DEF NumReads
  <2>3. CASE conv # "p"
    <3>1. s = <<>>
      BY ONLY <1>10, <2>3, Zenon DEF s, Lead
    <3>2. Layout(<<>>, q, c, Numeral(v, B))
      BY ONLY <1>8, <2>1, <3>1, Zenon DEF D
    <3>3. base = B \/ (base = 0 /\ B = 10 /\ c # "0")
      <4>1. conv \in {"d", "u"} => B = 10
        BY ONLY <1>3, Zenon
      <4>2. conv = "x" => B = 16
        BY ONLY <1>3
      <4> QED
        BY ONLY <2>3, <4>1, <4>2, BaseFits(conv, c, base), Zenon DEF BaseFits
    <3>4. /\ strtol(base) = Signed(v % UINT, UINT)
          /\ B = 10 /\ (c = "0" \/ q = 0) => atoi = [loc |-> Len(text), i |-> Signed(v % UINT, UINT)]
      BY ONLY <1>0, <1>1, <1>3, <2>1, <3>2, <3>3, PositiveReads
    <3>5. conv \in {"d", "u"} /\ (c = "0" \/ w = 0) => B = 10 /\ (c = "0" \/ q = 0)
      BY ONLY <1>3, <1>6, Zenon
    <3> QED
      BY ONLY <3>4, <3>5, Zenon DEF NumReads
  <2> QED
    BY ONLY <2>2, <2>3, Zenon
<1> QED
  BY ONLY <1>9, <1>10, Zenon

\* strtol and atoi read what was printed.
LEMMA ReadBackIsRight ==
  ASSUME FmtInv, NEW base, ReadBack(base)
  PROVE  ReadsBack'
<1>1. /\ mode \in {"done", "read"} /\ job' = job /\ text' = text
      /\ number' = [base |-> base, strtol |-> strtol(base), atoi |-> atoi]
  BY DEF ReadBack
<1> DEFINE x == strtol(base)
           y == atoi
           p == job.pieces[1]
<1>2. number' = [base |-> base, strtol |-> x, atoi |-> y]
  BY ONLY <1>1, Zenon DEF x, y
<1> HIDE DEF x, y
<1>3. number'.base = base /\ number'.strtol = x /\ number'.atoi = y
  BY ONLY <1>2
<1>4. ASSUME Len(job.pieces) = 1, p.conv \in {"d", "u", "x", "p"}, Readable(p, base)
      PROVE  /\ x = Signed(p.arg.v % UINT, UINT)
             /\ p.conv \in {"d", "u"} /\ (p.esc.zero \/ p.esc.width = 0) => y = [loc |-> Len(text), i |-> Signed(p.arg.v % UINT, UINT)]
  <2> DEFINE v == p.arg.v
             w == p.esc.width
             c == PadOf(p)
             conv == p.conv
  <2>1. /\ ~TwoWords(p.esc, p.conv)
        /\ p.esc.zero \/ w = 0 \/ (PadChar(p.esc) = " " /\ v >= 0 /\ conv # "p")
    BY ONLY <1>4, Zenon DEF Readable, v, w, conv
  <2>2. IsPrinted(conv, v, w, c)
    <3>1. p = job.pieces[1]
      OBVIOUS
    <3>2. p.esc.zero \/ p.esc.width = 0 \/ PadChar(p.esc) = " "
      BY ONLY <2>1, Zenon DEF w
    <3> HIDE DEF p
    <3> QED
      BY ONLY FmtInv, <1>1, <1>4, <2>1, <3>1, <3>2, NumberIsPrinted DEF conv, v, w, c
  <2>3. p.esc.zero => c = "0"
    BY ONLY Zenon DEF PadOf, c
  <2>4. ~p.esc.zero => c # "0"
    <3>1. " " # "0"
      OBVIOUS
    <3> QED
      BY ONLY <3>1, Zenon DEF PadOf, c
  <2>5. BaseFits(conv, c, base)
    BY ONLY <1>4, <2>4, Zenon DEF Readable, BaseFits, conv
  <2>6. c = "0" \/ w = 0 \/ (v >= 0 /\ conv # "p")
    BY ONLY <2>1, <2>3, Zenon
  <2> HIDE DEF conv, c, v, w, p
  <2>7. NumReads(conv, v, c, w, base)
    BY ONLY <2>2, <2>5, <2>6, PrintedReads
  <2> QED
    BY ONLY <2>3, <2>7, Zenon DEF NumReads, x, y, conv, v, w
<1> HIDE DEF p
<1>5. ReadsBack' <=> (mode' = "read" /\ Len(job.pieces) = 1 =>
                         (p.conv \in {"d", "u", "x", "p"} /\ Readable(p, base) =>
                            /\ x = Signed(p.arg.v % UINT, UINT)
                            /\ p.conv \in {"d", "u"} /\ (p.esc.zero \/ p.esc.width = 0) =>
                                  y = [loc |-> Len(text), i |-> Signed(p.arg.v % UINT, UINT)]))
  BY ONLY <1>1, <1>3, Zenon DEF ReadsBack, p
<1> QED
  BY ONLY <1>4, <1>5, Zenon

(***************************************************************************)
(* A number that was printed is read back as the same number, for every    *)
(* word size, value, width and padding that the reader skips: by strtol in *)
(* the base it was printed in, or by its prefix, and by atoi.              *)
(***************************************************************************)
THEOREM NumbersReadBack == LibSpec => []ReadsBack
<1>1. LibInit => ReadsBack
  <2>1. LibInit => mode # "read"
    BY DEF LibInit, FmtInit
  <2> QED
    BY ONLY <2>1, Zenon DEF ReadsBack
<1>2. FmtInv /\ ReadsBack /\ [LibNext]_<<strVars, fmtVars>> => ReadsBack'
  <2> SUFFICES ASSUME FmtInv, ReadsBack, [LibNext]_<<strVars, fmtVars>> PROVE ReadsBack'
    OBVIOUS
  <2>1. CASE vprintfmt
    <3>1. mode' # "read"
      BY <2>1 DEF vprintfmt, Plain, Percent, End, Flag, Width, Star, Conversion, Convert, Unrecognized
    <3> QED
      BY ONLY <3>1, Zenon DEF ReadsBack
  <2>2. ASSUME NEW base, ReadBack(base) PROVE ReadsBack'
    BY ONLY FmtInv, <2>2, ReadBackIsRight
  <2>3. CASE UNCHANGED fmtVars
    <3>1. mode' = mode /\ job' = job /\ text' = text /\ number' = number
      BY ONLY <2>3 DEF fmtVars
    <3> QED
      BY ONLY ReadsBack, <3>1, Zenon DEF ReadsBack
  <2> QED
    BY <2>1, <2>2, <2>3 DEF LibNext, FmtNext
<1>3. FmtInv /\ [LibNext]_<<strVars, fmtVars>> => FmtInv'
  BY FmtInvNext
<1> QED
  BY <1>1, <1>2, <1>3, FmtInvInit, PTL DEF LibSpec
=============================================================================
