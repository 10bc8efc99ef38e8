---------------------------- MODULE NumberProofs ----------------------------
(***************************************************************************)
(* Facts about numbers that the proofs about loops and addresses rest on:  *)
(* induction, in the form of sets (a property of numbers is the set of     *)
(* those that have it), and division.                                      *)
(***************************************************************************)
EXTENDS Integers, WellFoundedInduction, TLAPS

----------------------------------------------------------------------------
\* Induction.

\* A set of numbers has a least element.
LEMMA LeastNat ==
  ASSUME NEW S \in SUBSET Nat, S # {}
  PROVE  \E m \in S : \A k \in S : m <= k
<1> DEFINE R == {ss \in Nat \X Nat : ss[1] < ss[2]}
<1>1. IsWellFoundedOn(R, Nat)
  BY NatLessThanWellFounded, Zenon DEF OpToRel
<1> HIDE DEF R
<1>2. PICK m \in S : \A k \in S : ~(<<k, m>> \in R)
  BY <1>1, WFMin, Zenon
<1>3. ASSUME NEW k \in S PROVE m <= k
  <2>1. ~(<<k, m>> \in R)
    BY <1>2, Zenon
  <2> QED
    BY <2>1 DEF R
<1> QED
  BY <1>3

\* A set with 0, and with n + 1 for each n in it, has all numbers.
LEMMA SetInduction ==
  ASSUME NEW S \in SUBSET Nat, 0 \in S, \A n \in S : n + 1 \in S
  PROVE  S = Nat
<1>1. SUFFICES ASSUME Nat \ S # {} PROVE FALSE
  OBVIOUS
<1>2. PICK m \in Nat \ S : \A k \in Nat \ S : m <= k
  BY <1>1, LeastNat
<1>3. m - 1 \in S
  BY <1>2
<1> QED
  BY <1>2, <1>3

\* A set of numbers with a bound has a greatest element.
LEMMA GreatestNat ==
  ASSUME NEW S \in SUBSET Nat, S # {}, NEW n \in Nat, \A k \in S : k <= n
  PROVE  \E m \in S : \A k \in S : k <= m
<1> DEFINE T == {n - k : k \in S}
<1>1. T \in SUBSET Nat /\ T # {}
  <2>1. PICK k \in S : TRUE
    OBVIOUS
  <2>2. n - k \in T
    OBVIOUS
  <2>3. \A u \in T : u \in Nat
    OBVIOUS
  <2> QED
    BY <2>2, <2>3
<1>2. PICK t \in T : \A u \in T : t <= u
  <2> HIDE DEF T
  <2> QED
    BY <1>1, LeastNat
<1>3. PICK m \in S : t = n - m
  OBVIOUS
<1>4. ASSUME NEW k \in S PROVE k <= m
  <2>1. n - k \in T
    OBVIOUS
  <2>2. t <= n - k
    BY <1>2, <2>1
  <2> QED
    BY <1>3, <2>2
<1> QED
  BY <1>4

\* The states that a loop of n rounds goes through: F[k] is what round k does.
Rounds(F, S) == F \in [Nat -> [S -> S]]

Iterates(f, n, S, x, F) == f \in [0 .. n -> S] /\ f[0] = x /\ \A k \in 1 .. n : f[k] = F[k][f[k - 1]]

\* There are such states.
LEMMA IterationExists ==
  ASSUME NEW n \in Nat, NEW S, NEW x \in S, NEW F, Rounds(F, S)
  PROVE  \E f : Iterates(f, n, S, x, F)
<1> USE DEF Rounds, Iterates
<1> DEFINE T == {j \in Nat : \E f \in [0 .. j -> S] : f[0] = x /\ \A k \in 1 .. j : f[k] = F[k][f[k - 1]]}
<1>1. 0 \in T
  <2> DEFINE f == [k \in 0 .. 0 |-> x]
  <2>1. f \in [0 .. 0 -> S] /\ f[0] = x /\ \A k \in 1 .. 0 : f[k] = F[k][f[k - 1]]
    OBVIOUS
  <2> QED
    BY <2>1
<1>2. ASSUME NEW j \in T PROVE j + 1 \in T
  <2>1. j \in Nat /\ j + 1 \in Nat
    OBVIOUS
  <2>2. PICK f \in [0 .. j -> S] : f[0] = x /\ \A k \in 1 .. j : f[k] = F[k][f[k - 1]]
    OBVIOUS
  <2> HIDE DEF T
  <2> DEFINE g == [k \in 0 .. j + 1 |-> IF k = j + 1 THEN F[j + 1][f[j]] ELSE f[k]]
  <2>3. F[j + 1][f[j]] \in S
    BY <2>1
  <2>4. g \in [0 .. j + 1 -> S]
    BY <2>1, <2>2, <2>3
  <2>5. g[0] = x
    BY <2>1, <2>2
  <2>6. ASSUME NEW k \in 1 .. j + 1 PROVE g[k] = F[k][g[k - 1]]
    <3>1. CASE k = j + 1
      BY <2>1, <3>1
    <3>2. CASE k # j + 1
      BY <2>1, <2>2, <3>2
    <3> QED
      BY <3>1, <3>2
  <2> HIDE DEF g
  <2> QED
    BY <2>1, <2>4, <2>5, <2>6 DEF T
<1>3. T = Nat
  <2> HIDE DEF T
  <2> QED
    BY <1>1, <1>2, SetInduction DEF T
<1> QED
  BY <1>3

----------------------------------------------------------------------------
\* Division.

\* Division with remainder.
LEMMA DivFacts ==
  ASSUME NEW a \in Nat, NEW n \in Nat \ {0}
  PROVE  /\ a \div n \in Nat /\ a % n \in 0 .. n - 1
         /\ a = n * (a \div n) + (a % n)
  OBVIOUS

\* Numbers that differ by a multiple of n have the same remainder.
Congruent(a, b, n) == \E k \in Int : a = b + n * k

LEMMA SameRest ==
  ASSUME NEW a \in Nat, NEW b \in Nat, NEW n \in Nat \ {0}, Congruent(a, b, n)
  PROVE  a % n = b % n
<1>0. PICK k \in Int : a = b + n * k
  BY DEF Congruent
<1> DEFINE q == a \div n
           r == a % n
           p == b \div n
           s == b % n
<1>1. q \in Nat /\ r \in 0 .. n - 1 /\ a = n * q + r
  BY DivFacts
<1>2. p \in Nat /\ s \in 0 .. n - 1 /\ b = n * p + s
  BY DivFacts
<1> HIDE DEF q, r, p, s
<1> DEFINE d == q - p - k
<1>3. d \in Int /\ n * d = s - r
  BY <1>0, <1>1, <1>2
<1> HIDE DEF d
<1>4. d = 0
  <2>1. CASE d >= 1
    <3>1. n * d >= n
      BY <1>3, <2>1
    <3> QED
      BY <1>1, <1>2, <1>3, <3>1
  <2>2. CASE d <= -1
    <3>1. n * d <= -n
      BY <1>3, <2>2
    <3> QED
      BY <1>1, <1>2, <1>3, <3>1
  <2> QED
    BY <1>3, <2>1, <2>2
<1>5. r = s
  BY <1>1, <1>2, <1>3, <1>4
<1> QED
  BY <1>5 DEF r, s

\* Nothing remains of a multiple.
LEMMA MultipleRest ==
  ASSUME NEW d \in Nat, NEW n \in Nat \ {0}
  PROVE  (n * d) % n = 0
<1> DEFINE q == (n * d) \div n
           r == (n * d) % n
<1>1. n * d \in Nat
  OBVIOUS
<1>2. q \in Nat /\ r \in 0 .. n - 1 /\ n * d = n * q + r
  BY <1>1, DivFacts
<1> HIDE DEF q, r
<1>3. r = n * (d - q)
  BY <1>2
<1>4. ~(d - q >= 1) /\ ~(d - q <= -1)
  BY <1>2, <1>3
<1>5. d - q = 0
  BY <1>2, <1>4
<1> QED
  BY <1>2, <1>3, <1>5 DEF r

\* Multiples in order.
LEMMA MulOrder ==
  ASSUME NEW n \in Nat \ {0}, NEW a \in Int, NEW b \in Int
  PROVE  /\ a <= b => a * n <= b * n
         /\ a < b => a * n + n <= b * n
         /\ a * n < b * n + n => a <= b
         /\ a * n \in Int /\ (a + 1) * n = a * n + n
<1>1. ASSUME NEW c \in Int, NEW d \in Int, c <= d PROVE c * n <= d * n
  <2> DEFINE e == d - c
  <2>1. e \in Nat /\ d = c + e
    BY <1>1
  <2> HIDE DEF e
  <2>2. (c + e) * n = c * n + e * n /\ e * n >= 0
    BY <2>1
  <2> QED
    BY <2>1, <2>2
<1>2. (a + 1) * n = a * n + n /\ (b + 1) * n = b * n + n
  OBVIOUS
<1>3. a < b => (a + 1) * n <= b * n
  BY <1>1
<1>4. ASSUME a * n < b * n + n PROVE a <= b
  <2>1. SUFFICES ASSUME b + 1 <= a PROVE FALSE
    OBVIOUS
  <2>2. (b + 1) * n <= a * n
    BY <1>1, <2>1
  <2> QED
    BY <1>2, <1>4, <2>2
<1> QED
  BY <1>1, <1>2, <1>3, <1>4
=============================================================================
