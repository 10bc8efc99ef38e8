--------------------------- MODULE LibraryProofs ----------------------------
(***************************************************************************)
(* Strings: every memory and string function does what its contract says,  *)
(* for every memory, word size and placement of the arguments.  Format: no *)
(* step of vprintfmt loses a character, or writes past a buffer, for every *)
(* size of them (FormatProofs makes that a theorem of the specification).  *)
(***************************************************************************)
EXTENDS Format, NumberProofs, SequenceTheorems

----------------------------------------------------------------------------
\* Loops.

\* Count stops at the first number that is not in C.
LEMMA CountIs ==
  ASSUME NEW C, NEW n \in Nat, n \notin C, \A j \in 0 .. n - 1 : j \in C
  PROVE  Count(C) = n
<1> DEFINE Rest(k) == {j \in Nat : j \notin C /\ k <= j}
           Stop(S)  == IF S = {} THEN 0 ELSE CHOOSE j \in S : \A i \in S : j <= i
           from == CHOOSE f : f = [k \in Nat |-> IF k \in C THEN f[k + 1] ELSE k]
           g == [k \in Nat |-> Stop(Rest(k))]
<1>1. ASSUME NEW k \in Nat PROVE g[k] = IF k \in C THEN g[k + 1] ELSE k
  <2>1. CASE k \in C
    <3>1. Rest(k) = Rest(k + 1)
      BY <2>1
    <3>2. g[k] = Stop(Rest(k)) /\ g[k + 1] = Stop(Rest(k + 1))
      OBVIOUS
    <3> HIDE DEF Rest, Stop, g
    <3> QED
      BY <2>1, <3>1, <3>2
  <2>2. CASE k \notin C
    <3>1. k \in Rest(k) /\ \A i \in Rest(k) : k <= i
      BY <2>2
    <3>2. \A j \in Rest(k) : (\A i \in Rest(k) : j <= i) => j = k
      BY <3>1
    <3> HIDE DEF Rest
    <3>3. Stop(Rest(k)) = k
      BY <3>1, <3>2
    <3> HIDE DEF Stop
    <3> QED
      BY <2>2, <3>3
  <2> QED
    BY <2>1, <2>2
<1>2. g = [k \in Nat |-> IF k \in C THEN g[k + 1] ELSE k]
  <2> DEFINE h == [k \in Nat |-> IF k \in C THEN g[k + 1] ELSE k]
  <2>1. DOMAIN g = Nat /\ g = [k \in DOMAIN g |-> g[k]]
    <3> HIDE DEF Rest, Stop
    <3> QED
      OBVIOUS
  <2> HIDE DEF g
  <2>2. \A k \in Nat : g[k] = h[k]
    BY <1>1
  <2>3. g = h
    BY <2>1, <2>2
  <2> QED
    BY <2>3
<1> HIDE DEF g
<1>3. from = [k \in Nat |-> IF k \in C THEN from[k + 1] ELSE k]
  BY <1>2
<1>4. Count(C) = from[0]
  BY DEF Count
<1> HIDE DEF from
<1>5. \A k \in Nat : from[k] = IF k \in C THEN from[k + 1] ELSE k
  BY <1>3
<1> DEFINE T == {j \in Nat : j <= n => from[n - j] = n}
<1>6. 0 \in T
  BY <1>5
<1>7. ASSUME NEW j \in T PROVE j + 1 \in T
  <2>1. SUFFICES ASSUME j + 1 <= n PROVE from[n - (j + 1)] = n
    OBVIOUS
  <2> DEFINE k == n - (j + 1)
  <2>2. k \in Nat /\ k \in 0 .. n - 1 /\ k + 1 = n - j /\ j <= n
    BY <2>1
  <2>3. from[n - j] = n
    BY <2>2
  <2> HIDE DEF k, T
  <2>4. k \in C
    BY <2>2
  <2>5. from[k] = n
    BY <1>5, <2>2, <2>3, <2>4
  <2> QED
    BY <2>5 DEF k
<1>8. T = Nat
  <2> HIDE DEF T
  <2> QED
    BY <1>6, <1>7, SetInduction DEF T
<1>9. n \in T
  BY <1>8
<1>10. from[n - n] = n /\ n - n = 0
  BY <1>9
<1> QED
  BY <1>4, <1>10

\* Count, when one knows only that the loop ends.
LEMMA CountFacts ==
  ASSUME NEW C, NEW e \in Nat, e \notin C
  PROVE  /\ Count(C) \in 0 .. e /\ Count(C) \notin C
         /\ \A j \in 0 .. Count(C) - 1 : j \in C
<1> DEFINE S == {k \in Nat : k \notin C}
<1>1. S \in SUBSET Nat /\ S # {} /\ e \in S
  OBVIOUS
<1> HIDE DEF S
<1>2. PICK n \in S : \A k \in S : n <= k
  BY <1>1, LeastNat
<1>3. n \in Nat /\ n \notin C /\ n <= e
  BY <1>1, <1>2 DEF S
<1>4. ASSUME NEW j \in 0 .. n - 1 PROVE j \in C
  <2>1. j \in Nat /\ ~(n <= j)
    BY <1>3
  <2>2. j \notin S
    BY <1>2, <2>1
  <2> QED
    BY <2>1, <2>2 DEF S
<1>5. Count(C) = n
  BY <1>3, <1>4, CountIs
<1> QED
  BY <1>3, <1>4, <1>5

----------------------------------------------------------------------------
\* Moves.

Memory == [Addr -> Byte]

\* One round of a move by units, o bytes away from the start.
Round(m, d, s, unit, o) ==
    [x \in Addr |-> IF x \in d + o .. d + o + unit - 1 THEN m[x - d + s] ELSE m[x]]

LEMMA RoundFacts ==
  ASSUME NEW m \in Memory, NEW d \in Int, NEW s \in Int, NEW unit \in Nat, NEW o \in Int,
         0 <= s + o, s + o + unit <= MEM
  PROVE  Round(m, d, s, unit, o) \in Memory
<1>1. MEM \in Nat
  BY StringsAssumption
<1>2. ASSUME NEW x \in Addr PROVE (IF x \in d + o .. d + o + unit - 1 THEN m[x - d + s] ELSE m[x]) \in Byte
  <2>1. CASE x \in d + o .. d + o + unit - 1
    <3>1. x - d + s \in Addr
      BY <1>1, <2>1 DEF Addr
    <3>2. m[x - d + s] \in Byte
      BY <3>1 DEF Memory
    <3> QED
      BY <2>1, <3>2
  <2>2. CASE ~(x \in d + o .. d + o + unit - 1)
    BY <2>2 DEF Memory
  <2> QED
    BY <2>1, <2>2
<1> QED
  BY <1>2 DEF Round, Memory

\* P[k] is where round k is, from the start; what it reads is in memory.
Offsets(P, unit, count, step) == \A k \in 1 .. count : step * unit * (k - 1) = P[k]

SourceInMemory(m, P, d, s, unit, count, step) ==
    /\ m \in Memory /\ d \in Int /\ s \in Int /\ unit \in Nat /\ count \in Nat /\ step \in Int
    /\ P \in [1 .. count -> Int] /\ \A k \in 1 .. count : 0 <= s + P[k] /\ s + P[k] + unit <= MEM

MoveRounds(after, m, d, s, unit, count, P) ==
    /\ after \in [0 .. count -> Memory] /\ after[0] = m
    /\ \A k \in 1 .. count : after[k] = Round(after[k - 1], d, s, unit, P[k])

\* The rounds that RepMovs makes.
LEMMA RepMovsRounds ==
  ASSUME NEW m, NEW d, NEW s, NEW unit, NEW count, NEW step, NEW P,
         Offsets(P, unit, count, step), SourceInMemory(m, P, d, s, unit, count, step)
  PROVE  \E after : MoveRounds(after, m, d, s, unit, count, P) /\ RepMovs(m, d, s, unit, count, step) = after[count]
<1>0. /\ m \in Memory /\ d \in Int /\ s \in Int /\ unit \in Nat /\ count \in Nat /\ step \in Int
      /\ P \in [1 .. count -> Int]
  BY DEF SourceInMemory
<1> USE <1>0
<1> DEFINE Step(k, v) == Round(v, d, s, unit, P[k])
           Code(k, v) == [x \in Addr |-> LET o == step * unit * (k - 1)
                                         IN  IF x \in d + o .. d + o + unit - 1 THEN v[x - d + s] ELSE v[x]]
           F == [k \in Nat |-> [v \in Memory |-> IF k \in 1 .. count THEN Step(k, v) ELSE v]]
           IsRun(f) == f = [k \in 0 .. count |-> IF k = 0 THEN m ELSE Code(k, f[k - 1])]
<1>1. ASSUME NEW k \in 1 .. count, NEW v \in Memory PROVE Step(k, v) \in Memory
  <2>1. P[k] \in Int /\ 0 <= s + P[k] /\ s + P[k] + unit <= MEM
    BY DEF SourceInMemory
  <2> QED
    BY <2>1, RoundFacts
<1>2. F \in [Nat -> [Memory -> Memory]]
  <2> HIDE DEF Step
  <2> QED
    BY <1>1
<1>3. \A k \in 1 .. count : \A v \in Memory : F[k][v] = Step(k, v)
  <2> HIDE DEF Step
  <2> QED
    OBVIOUS
<1> HIDE DEF F
<1>4. PICK f : Iterates(f, count, Memory, m, F)
  BY <1>2, IterationExists DEF Rounds
<1>15. /\ f \in [0 .. count -> Memory] /\ f[0] = m
       /\ \A k \in 1 .. count : f[k] = F[k][f[k - 1]]
  BY <1>4 DEF Iterates
<1>14. ASSUME NEW k \in 1 .. count, NEW v PROVE Code(k, v) = Step(k, v)
  <2>1. step * unit * (k - 1) = P[k]
    BY DEF Offsets
  <2> DEFINE q == step * unit * (k - 1)
  <2>2. Code(k, v) = [x \in Addr |-> IF x \in d + q .. d + q + unit - 1 THEN v[x - d + s] ELSE v[x]]
    OBVIOUS
  <2>3. q = P[k]
    BY <2>1
  <2> HIDE DEF q, Code
  <2> QED
    BY <2>2, <2>3 DEF Round
<1> HIDE DEF Step, Code
<1>5. \A k \in 1 .. count : f[k] = Step(k, f[k - 1])
  <2> TAKE k \in 1 .. count
  <2>1. k - 1 \in 0 .. count
    OBVIOUS
  <2>2. f[k - 1] \in Memory
    BY <1>15, <2>1
  <2> QED
    BY <1>3, <1>15, <2>2
<1>6. IsRun(f)
  <2> DEFINE h == [k \in 0 .. count |-> IF k = 0 THEN m ELSE Code(k, f[k - 1])]
  <2>1. ASSUME NEW k \in 0 .. count PROVE f[k] = h[k]
    <3>1. CASE k = 0
      BY <1>15, <3>1
    <3>2. CASE k \in 1 .. count
      BY <1>5, <1>14, <3>2
    <3> QED
      BY <3>1, <3>2
  <2>2. f = h
    BY <1>15, <2>1
  <2> QED
    BY <2>2
<1> DEFINE after == CHOOSE g : IsRun(g)
<1>7. IsRun(after)
  BY <1>6
<1>8. RepMovs(m, d, s, unit, count, step) = after[count]
  BY DEF RepMovs, Code
<1> HIDE DEF after
<1>9. after[0] = m /\ \A k \in 1 .. count : after[k] = Step(k, after[k - 1])
  BY <1>7, <1>14
<1> DEFINE T == {k \in Nat : k <= count => after[k] \in Memory}
<1>10. 0 \in T
  BY <1>9
<1>11. ASSUME NEW k \in T PROVE k + 1 \in T
  <2>1. SUFFICES ASSUME k + 1 <= count PROVE after[k + 1] \in Memory
    OBVIOUS
  <2>2. k + 1 \in 1 .. count /\ k + 1 - 1 = k /\ after[k] \in Memory
    BY <2>1
  <2>3. after[k + 1] = Step(k + 1, after[k])
    BY <1>9, <2>2
  <2> QED
    BY <1>1, <2>2, <2>3
<1>12. T = Nat
  <2> HIDE DEF T
  <2> QED
    BY <1>10, <1>11, SetInduction DEF T
<1>13. after \in [0 .. count -> Memory]
  <2>1. \A k \in 0 .. count : after[k] \in Memory
    BY <1>12
  <2>2. DOMAIN after = 0 .. count /\ after = [k \in DOMAIN after |-> after[k]]
    BY <1>7
  <2> QED
    BY <2>1, <2>2
<1> QED
  BY <1>8, <1>9, <1>13 DEF Step, MoveRounds

\* The bytes done after k rounds.
LEMMA BytesDone ==
  ASSUME NEW unit \in Nat \ {0}, NEW count \in Nat
  PROVE  \E W \in [0 .. count -> Nat] :
            /\ W[0] = 0 /\ W[count] = unit * count
            /\ \A k \in 1 .. count : W[k] = W[k - 1] + unit /\ unit * (k - 1) = W[k - 1]
            /\ \A k \in 0 .. count : W[k] <= W[count]
<1> DEFINE W == [k \in 0 .. count |-> unit * k]
<1>1. ASSUME NEW k \in 0 .. count PROVE W[k] \in Nat /\ W[k] <= W[count]
  <2>1. unit * k \in Nat /\ k * unit = unit * k /\ count * unit = unit * count
    OBVIOUS
  <2>2. k * unit <= count * unit
    BY MulOrder
  <2> QED
    BY <2>1, <2>2
<1>2. ASSUME NEW k \in 1 .. count PROVE W[k] = W[k - 1] + unit /\ unit * (k - 1) = W[k - 1]
  <2>1. unit * k = unit * (k - 1) + unit
    OBVIOUS
  <2> QED
    BY <2>1
<1>3. W[0] = 0 /\ W[count] = unit * count /\ W \in [0 .. count -> Nat]
  <2>1. unit * 0 = 0
    OBVIOUS
  <2>2. \A k \in 0 .. count : unit * k \in Nat
    OBVIOUS
  <2> QED
    BY <2>1, <2>2
<1> HIDE DEF W
<1> QED
  BY <1>1, <1>2, <1>3

\* A move of n bytes, from m to r.
Moved(m, r, d, s, n) ==
    r \in Memory /\ \A x \in Addr : r[x] = IF d <= x /\ x < d + n THEN m[x - d + s] ELSE m[x]

\* Upwards, no byte is read after it was written.
LEMMA RepMovsUp ==
  ASSUME NEW m \in Memory, NEW d \in Nat, NEW s \in Nat, NEW unit \in Nat \ {0}, NEW count \in Nat, NEW n \in Nat,
         n = unit * count, d + n <= MEM, s + n <= MEM, ~(s < d /\ d < s + n)
  PROVE  Moved(m, RepMovs(m, d, s, unit, count, 1), d, s, n)
<1>1. MEM \in Nat
  BY StringsAssumption
<1>2. PICK W \in [0 .. count -> Nat] :
            /\ W[0] = 0 /\ W[count] = unit * count
            /\ \A k \in 1 .. count : W[k] = W[k - 1] + unit /\ unit * (k - 1) = W[k - 1]
            /\ \A k \in 0 .. count : W[k] <= W[count]
  BY BytesDone
<1>3. ASSUME NEW k \in 1 .. count
      PROVE  /\ 1 * unit * (k - 1) = W[k - 1] /\ W[k - 1] \in Nat /\ W[k] \in Nat
             /\ W[k] = W[k - 1] + unit /\ W[k] <= n
  <2>1. k \in 0 .. count /\ k - 1 \in 0 .. count
    OBVIOUS
  <2>2. 1 * unit = unit
    OBVIOUS
  <2> QED
    BY <1>2, <2>1, <2>2
<1> DEFINE P == [k \in 1 .. count |-> W[k - 1]]
<1>4. /\ P \in [1 .. count -> Int]
      /\ \A k \in 1 .. count : 0 <= s + P[k] /\ s + P[k] + unit <= MEM
      /\ \A k \in 1 .. count : P[k] = W[k - 1]
  <2>1. ASSUME NEW k \in 1 .. count
        PROVE  W[k - 1] \in Nat /\ 0 <= s + W[k - 1] /\ s + W[k - 1] + unit <= MEM
    <3>1. W[k - 1] \in Nat /\ W[k] \in Nat /\ W[k] = W[k - 1] + unit /\ W[k] <= n
      BY <1>3
    <3> QED
      BY <1>1, <3>1
  <2> QED
    BY <2>1
<1>10. Offsets(P, unit, count, 1)
  <2>1. ASSUME NEW k \in 1 .. count PROVE 1 * unit * (k - 1) = P[k]
    BY <1>3
  <2> QED
    BY <2>1 DEF Offsets
<1> HIDE DEF P
<1>11. PICK after : MoveRounds(after, m, d, s, unit, count, P) /\ RepMovs(m, d, s, unit, count, 1) = after[count]
  <2>1. SourceInMemory(m, P, d, s, unit, count, 1)
    BY <1>4 DEF SourceInMemory
  <2> DEFINE one == 1
  <2>2. Offsets(P, unit, count, one) /\ SourceInMemory(m, P, d, s, unit, count, one)
    BY <1>10, <2>1
  <2> HIDE DEF one
  <2>3. \E after : MoveRounds(after, m, d, s, unit, count, P) /\ RepMovs(m, d, s, unit, count, one) = after[count]
    BY ONLY <2>2, RepMovsRounds
  <2> QED
    BY <2>3 DEF one
<1>5. /\ after \in [0 .. count -> Memory] /\ after[0] = m
      /\ \A k \in 1 .. count : after[k] = Round(after[k - 1], d, s, unit, P[k])
      /\ RepMovs(m, d, s, unit, count, 1) = after[count]
  BY <1>11 DEF MoveRounds
<1> DEFINE Done(k) == \A x \in Addr : after[k][x] = IF d <= x /\ x < d + W[k] THEN m[x - d + s] ELSE m[x]
           T == {k \in Nat : k <= count => Done(k)}
<1>6. 0 \in T
  <2>1. Done(0)
    BY <1>2, <1>5 DEF Addr
  <2> QED
    BY <2>1
<1>7. ASSUME NEW k \in T PROVE k + 1 \in T
  <2>1. SUFFICES ASSUME k + 1 <= count PROVE Done(k + 1)
    OBVIOUS
  <2> DEFINE j == k + 1
             w == W[k]
             f == after[k]
  <2>0. k \in Nat /\ (k <= count => Done(k))
    <3> HIDE DEF Done
    <3> QED
      OBVIOUS
  <2>2. j \in 1 .. count /\ k \in 0 .. count /\ j - 1 = k
    <3> HIDE DEF Done, T
    <3> QED
      BY <2>0, <2>1
  <2>3. Done(k)
    <3> HIDE DEF Done
    <3> QED
      BY <2>0, <2>2
  <2> HIDE DEF j
  <2>4. w \in Nat /\ W[j] = w + unit /\ w + unit <= n /\ P[j] = w
    BY <1>3, <1>4, <2>2
  <2>5. after[j] = Round(f, d, s, unit, w)
    BY <1>5, <2>2, <2>4
  <2>6. \A x \in Addr : f[x] = IF d <= x /\ x < d + w THEN m[x - d + s] ELSE m[x]
    BY <2>3
  <2> HIDE DEF w, f, Done, T
  <2>7. ASSUME NEW x \in Addr
        PROVE  after[j][x] = IF d <= x /\ x < d + w + unit THEN m[x - d + s] ELSE m[x]
    <3>1. x \in Int /\ after[j][x] = IF x \in d + w .. d + w + unit - 1 THEN f[x - d + s] ELSE f[x]
      BY <2>5 DEF Round, Addr
    <3>2. CASE x \in d + w .. d + w + unit - 1
      <4> DEFINE y == x - d + s
      <4>1. y \in Addr /\ ~(d <= y /\ y < d + w)
        BY <1>1, <2>4, <3>2 DEF Addr
      <4> HIDE DEF y
      <4>2. f[y] = m[y]
        BY <2>6, <4>1
      <4>3. d <= x /\ x < d + w + unit
        BY <2>4, <3>2
      <4> QED
        BY <3>1, <3>2, <4>2, <4>3 DEF y
    <3>3. CASE ~(x \in d + w .. d + w + unit - 1)
      <4>1. (d <= x /\ x < d + w + unit) <=> (d <= x /\ x < d + w)
        BY <2>4, <3>1, <3>3
      <4>2. after[j][x] = f[x]
        BY <3>1, <3>3
      <4> QED
        BY <2>6, <4>1, <4>2
    <3> QED
      BY <3>2, <3>3
  <2>8. Done(j)
    <3>1. d + w + unit = d + W[j]
      BY <2>4
    <3> QED
      BY <2>7, <3>1 DEF Done
  <2> QED
    BY <2>8 DEF j
<1>8. T = Nat
  <2> HIDE DEF T
  <2> QED
    BY <1>6, <1>7, SetInduction DEF T
<1>9. Done(count) /\ W[count] = n /\ after[count] \in Memory
  <2>1. count \in T /\ count \in 0 .. count
    BY <1>8
  <2> QED
    BY <1>2, <1>5, <2>1
<1> QED
  BY <1>5, <1>9 DEF Moved

\* And downwards, from the last unit.
LEMMA RepMovsDown ==
  ASSUME NEW m \in Memory, NEW d \in Nat, NEW s \in Nat, NEW unit \in Nat \ {0}, NEW count \in Nat, NEW n \in Nat,
         n = unit * count, d + n <= MEM, s + n <= MEM, s < d
  PROVE  Moved(m, RepMovs(m, d + n - unit, s + n - unit, unit, count, -1), d, s, n)
<1> DEFINE D == d + n - unit
           E == s + n - unit
<1>0. D \in Int /\ E \in Int
  OBVIOUS
<1>1. MEM \in Nat
  BY StringsAssumption
<1>2. PICK W \in [0 .. count -> Nat] :
            /\ W[0] = 0 /\ W[count] = unit * count
            /\ \A k \in 1 .. count : W[k] = W[k - 1] + unit /\ unit * (k - 1) = W[k - 1]
            /\ \A k \in 0 .. count : W[k] <= W[count]
  BY BytesDone
<1>3. ASSUME NEW k \in 1 .. count
      PROVE  /\ -1 * unit * (k - 1) = -W[k - 1] /\ W[k - 1] \in Nat /\ W[k] \in Nat
             /\ W[k] = W[k - 1] + unit /\ W[k] <= n
  <2>1. k \in 0 .. count /\ k - 1 \in 0 .. count
    OBVIOUS
  <2>2. W[k - 1] \in Nat /\ unit * (k - 1) = W[k - 1]
    BY <1>2, <2>1
  <2>3. -1 * unit * (k - 1) = -(unit * (k - 1))
    OBVIOUS
  <2>4. -1 * unit * (k - 1) = -W[k - 1]
    BY <2>2, <2>3
  <2> QED
    BY <1>2, <2>1, <2>4
<1> DEFINE P == [k \in 1 .. count |-> -W[k - 1]]
<1>4. /\ P \in [1 .. count -> Int]
      /\ \A k \in 1 .. count : 0 <= E + P[k] /\ E + P[k] + unit <= MEM
      /\ \A k \in 1 .. count : P[k] = -W[k - 1]
  <2>1. ASSUME NEW k \in 1 .. count
        PROVE  -W[k - 1] \in Int /\ 0 <= E + -W[k - 1] /\ E + -W[k - 1] + unit <= MEM
    <3>1. W[k - 1] \in Nat /\ W[k] \in Nat /\ W[k] = W[k - 1] + unit /\ W[k] <= n
      BY <1>3
    <3> QED
      BY <1>1, <3>1
  <2> QED
    BY <2>1
<1>10. Offsets(P, unit, count, -1)
  <2>1. ASSUME NEW k \in 1 .. count PROVE -1 * unit * (k - 1) = P[k]
    BY <1>3
  <2> QED
    BY <2>1 DEF Offsets
<1> HIDE DEF P, D, E
<1>11. PICK after : MoveRounds(after, m, D, E, unit, count, P) /\ RepMovs(m, D, E, unit, count, -1) = after[count]
  <2>1. SourceInMemory(m, P, D, E, unit, count, -1)
    BY <1>0, <1>4 DEF SourceInMemory
  <2> DEFINE one == -1
  <2>2. Offsets(P, unit, count, one) /\ SourceInMemory(m, P, D, E, unit, count, one)
    BY <1>10, <2>1
  <2> HIDE DEF one
  <2>3. \E after : MoveRounds(after, m, D, E, unit, count, P) /\ RepMovs(m, D, E, unit, count, one) = after[count]
    BY ONLY <2>2, RepMovsRounds
  <2> QED
    BY <2>3 DEF one
<1>5. /\ after \in [0 .. count -> Memory] /\ after[0] = m
      /\ \A k \in 1 .. count : after[k] = Round(after[k - 1], D, E, unit, P[k])
      /\ RepMovs(m, D, E, unit, count, -1) = after[count]
  BY <1>11 DEF MoveRounds
<1> DEFINE Done(k) == \A x \in Addr : after[k][x] = IF d + n - W[k] <= x /\ x < d + n THEN m[x - d + s] ELSE m[x]
           T == {k \in Nat : k <= count => Done(k)}
<1>6. 0 \in T
  <2>1. Done(0)
    BY <1>2, <1>5 DEF Addr
  <2> QED
    BY <2>1
<1>7. ASSUME NEW k \in T PROVE k + 1 \in T
  <2>1. SUFFICES ASSUME k + 1 <= count PROVE Done(k + 1)
    OBVIOUS
  <2> DEFINE j == k + 1
             w == W[k]
             f == after[k]
  <2>0. k \in Nat /\ (k <= count => Done(k))
    <3> HIDE DEF Done
    <3> QED
      OBVIOUS
  <2>2. j \in 1 .. count /\ k \in 0 .. count /\ j - 1 = k
    <3> HIDE DEF Done, T
    <3> QED
      BY <2>0, <2>1
  <2>3. Done(k)
    <3> HIDE DEF Done
    <3> QED
      BY <2>0, <2>2
  <2> HIDE DEF j
  <2>4. w \in Nat /\ W[j] = w + unit /\ w + unit <= n /\ P[j] = -w
    BY <1>3, <1>4, <2>2
  <2>5. after[j] = Round(f, D, E, unit, -w)
    BY <1>5, <2>2, <2>4
  <2>6. \A x \in Addr : f[x] = IF d + n - w <= x /\ x < d + n THEN m[x - d + s] ELSE m[x]
    BY <2>3
  <2> HIDE DEF w, f, Done, T
  <2>7. ASSUME NEW x \in Addr
        PROVE  after[j][x] = IF d + n - (w + unit) <= x /\ x < d + n THEN m[x - d + s] ELSE m[x]
    <3>1. x \in Int /\ after[j][x] = IF x \in d + n - unit - w .. d + n - w - 1 THEN f[x - d + s] ELSE f[x]
      <4>1. x \in Int /\ after[j][x] = IF x \in D + -w .. D + -w + unit - 1 THEN f[x - D + E] ELSE f[x]
        BY <2>5 DEF Round, Addr
      <4>2. D + -w = d + n - unit - w /\ D + -w + unit - 1 = d + n - w - 1 /\ x - D + E = x - d + s
        BY <2>4, <4>1 DEF D, E
      <4> QED
        BY <4>1, <4>2
    <3>2. CASE x \in d + n - unit - w .. d + n - w - 1
      <4> DEFINE y == x - d + s
      <4>1. y \in Addr /\ ~(d + n - w <= y /\ y < d + n)
        BY <1>1, <2>4, <3>2 DEF Addr
      <4> HIDE DEF y
      <4>2. f[y] = m[y]
        BY <2>6, <4>1
      <4>3. d + n - (w + unit) <= x /\ x < d + n
        BY <2>4, <3>2
      <4> QED
        BY <3>1, <3>2, <4>2, <4>3 DEF y
    <3>3. CASE ~(x \in d + n - unit - w .. d + n - w - 1)
      <4>1. (d + n - (w + unit) <= x /\ x < d + n) <=> (d + n - w <= x /\ x < d + n)
        BY <2>4, <3>1, <3>3
      <4>2. after[j][x] = f[x]
        BY <3>1, <3>3
      <4> QED
        BY <2>6, <4>1, <4>2
    <3> QED
      BY <3>2, <3>3
  <2>8. Done(j)
    <3>1. d + n - (w + unit) = d + n - W[j]
      BY <2>4
    <3> QED
      BY <2>7, <3>1 DEF Done
  <2> QED
    BY <2>8 DEF j
<1>8. T = Nat
  <2> HIDE DEF T
  <2> QED
    BY <1>6, <1>7, SetInduction DEF T
<1>9. Done(count) /\ W[count] = n /\ after[count] \in Memory
  <2>1. count \in T /\ count \in 0 .. count
    BY <1>8
  <2> QED
    BY <1>2, <1>5, <2>1
<1> QED
  <2>1. d + n - W[count] = d
    BY <1>9
  <2> QED
    BY <1>5, <1>9, <2>1 DEF Moved, D, E

LEMMA UnitFacts ==
  ASSUME NEW p \in Int, NEW q \in Int, NEW n \in Nat
  PROVE  /\ Unit(p, q, n) \in Nat \ {0} /\ n \div Unit(p, q, n) \in Nat
         /\ n = Unit(p, q, n) * (n \div Unit(p, q, n))
<1>1. WORD \in Nat \ {0}
  BY StringsAssumption
<1>2. CASE Unit(p, q, n) = 1
  BY <1>2
<1>3. CASE n % WORD = 0 /\ Unit(p, q, n) = WORD
  BY <1>1, <1>3, DivFacts
<1>4. Unit(p, q, n) = 1 \/ (n % WORD = 0 /\ Unit(p, q, n) = WORD)
  BY DEF Unit
<1> QED
  BY <1>2, <1>3, <1>4

\* memmove moves, whichever way the regions overlap.
LEMMA MemmoveMoves ==
  ASSUME NEW m \in Memory, NEW d \in Addr, NEW s \in Addr, NEW n \in Nat, InMem(d, n), InMem(s, n)
  PROVE  Moved(m, memmove(m, d, s, n), d, s, n)
<1>1. d \in Nat /\ s \in Nat /\ d + n <= MEM /\ s + n <= MEM
  BY DEF Addr, InMem
<1>2. CASE Backwards(d, s, n)
  <2> DEFINE unit == Unit(s + n, d + n, n)
             count == n \div unit
  <2>1. unit \in Nat \ {0} /\ count \in Nat /\ n = unit * count
    BY <1>1, UnitFacts
  <2>2. s < d
    BY <1>2 DEF Backwards
  <2>3. memmove(m, d, s, n) = RepMovs(m, d + n - unit, s + n - unit, unit, count, -1)
    BY <1>2 DEF memmove
  <2> HIDE DEF unit, count
  <2>4. Moved(m, RepMovs(m, d + n - unit, s + n - unit, unit, count, -1), d, s, n)
    BY <1>1, <2>1, <2>2, RepMovsDown
  <2> QED
    BY <2>3, <2>4
<1>3. CASE ~Backwards(d, s, n)
  <2> DEFINE unit == Unit(s, d, n)
             count == n \div unit
  <2>1. unit \in Nat \ {0} /\ count \in Nat /\ n = unit * count
    BY <1>1, UnitFacts
  <2>2. ~(s < d /\ d < s + n)
    BY <1>1, <1>3 DEF Backwards
  <2>3. memmove(m, d, s, n) = RepMovs(m, d, s, unit, count, 1)
    BY <1>3 DEF memmove
  <2> HIDE DEF unit, count
  <2>4. Moved(m, RepMovs(m, d, s, unit, count, 1), d, s, n)
    BY <1>1, <2>1, <2>2, RepMovsUp
  <2> QED
    BY <2>3, <2>4
<1> QED
  BY <1>2, <1>3

LEMMA MoveKeepsContract ==
  ASSUME NEW m \in Memory, NEW d \in Addr, NEW s \in Addr, NEW n \in Nat, InMem(d, n), InMem(s, n)
  PROVE  memmove(m, d, s, n) \in Memory /\ Moves(m, memmove(m, d, s, n), d, s, n)
<1> DEFINE r == memmove(m, d, s, n)
<1>1. d \in Nat /\ s \in Nat /\ d + n <= MEM /\ s + n <= MEM /\ MEM \in Nat
  BY StringsAssumption DEF Addr, InMem
<1>2. r \in Memory /\ \A x \in Addr : r[x] = IF d <= x /\ x < d + n THEN m[x - d + s] ELSE m[x]
  BY MemmoveMoves DEF Moved
<1> HIDE DEF r
<1>3. ASSUME NEW k \in 1 .. n PROVE r[d + k - 1] = m[s + k - 1]
  <2> DEFINE x == d + k - 1
  <2>1. x \in Addr /\ d <= x /\ x < d + n /\ x - d + s = s + k - 1
    BY <1>1 DEF Addr
  <2> HIDE DEF x
  <2>2. r[x] = m[s + k - 1]
    BY <1>2, <2>1
  <2> QED
    BY <2>2 DEF x
<1>4. Bytes(r, d, n) = Bytes(m, s, n)
  BY <1>3 DEF Bytes
<1>5. OnlyChanged(m, r, d, n)
  BY <1>2 DEF OnlyChanged, Region
<1> QED
  BY <1>2, <1>4, <1>5 DEF Moves, r

----------------------------------------------------------------------------
\* Fills.

\* The low byte of any integer.
LEMMA LowByte == \A c \in Int : c % BYTE \in Byte
<1>1. BYTE \in Nat \ {0, 1}
  BY StringsAssumption
<1> QED
  BY <1>1 DEF Byte

LEMMA ShiftedIn ==
  ASSUME NEW a \in Nat, NEW c \in Byte
  PROVE  /\ a * BYTE + c \in Nat /\ (a * BYTE + c) \div BYTE = a
         /\ (a * BYTE + c) % BYTE = c
<1>1. BYTE \in Nat \ {0, 1} /\ c \in Nat /\ c < BYTE
  BY StringsAssumption DEF Byte
<1> DEFINE v == a * BYTE + c
           q == v \div BYTE
           t == v % BYTE
<1>2. v \in Nat /\ a * BYTE \in Nat
  BY <1>1
<1>3. q \in Nat /\ t \in 0 .. BYTE - 1 /\ v = BYTE * q + t
  BY <1>1, <1>2, DivFacts
<1> HIDE DEF q, t
<1>4. BYTE * q = q * BYTE /\ q * BYTE \in Nat
  BY <1>1, <1>3
<1>5. q <= a
  <2>1. q * BYTE < a * BYTE + BYTE
    BY <1>1, <1>2, <1>3, <1>4
  <2> QED
    BY <1>1, <1>3, <2>1, MulOrder
<1>6. a <= q
  <2>1. a * BYTE < q * BYTE + BYTE
    BY <1>1, <1>2, <1>3, <1>4
  <2> QED
    BY <1>1, <1>3, <2>1, MulOrder
<1>7. q = a
  BY <1>3, <1>5, <1>6
<1>8. t = c
  BY <1>1, <1>2, <1>3, <1>4, <1>7
<1> QED
  BY <1>2, <1>7, <1>8 DEF q, t

\* The bytes that Spread shifts in.
Spreads(B, c) ==
    /\ B \in [0 .. WORD -> Nat] /\ B[0] = 0
    /\ \A k \in 1 .. WORD : B[k] = B[k - 1] * BYTE + (c % BYTE)

LEMMA SpreadRounds ==
  ASSUME NEW c \in Int
  PROVE  \E B : Spreads(B, c) /\ Spread(c) = B[WORD]
<1> DEFINE b == c % BYTE
           Step(v) == v * BYTE + b
           F == [k \in Nat |-> [v \in Nat |-> Step(v)]]
           IsRun(f) == f = [k \in 0 .. WORD |-> IF k = 0 THEN 0 ELSE Step(f[k - 1])]
<1>1. b \in Byte /\ WORD \in Nat
  BY StringsAssumption, LowByte
<1> HIDE DEF b
<1>2. ASSUME NEW v \in Nat PROVE Step(v) \in Nat
  BY <1>1, ShiftedIn
<1> HIDE DEF Step
<1>3. Rounds(F, Nat) /\ \A k \in Nat, v \in Nat : F[k][v] = Step(v)
  BY <1>2 DEF Rounds
<1> HIDE DEF F
<1>4. PICK f : Iterates(f, WORD, Nat, 0, F)
  <2> DEFINE zero == 0
  <2>1. zero \in Nat
    OBVIOUS
  <2> HIDE DEF zero
  <2>2. \E f : Iterates(f, WORD, Nat, zero, F)
    BY ONLY <1>1, <1>3, <2>1, IterationExists
  <2> QED
    BY <2>2 DEF zero
<1>5. /\ f \in [0 .. WORD -> Nat] /\ f[0] = 0
      /\ \A k \in 1 .. WORD : f[k] = F[k][f[k - 1]]
  BY <1>4 DEF Iterates
<1>6. \A k \in 1 .. WORD : f[k] = Step(f[k - 1])
  <2> TAKE k \in 1 .. WORD
  <2>1. k - 1 \in 0 .. WORD /\ k \in Nat
    BY <1>1
  <2>2. f[k - 1] \in Nat
    BY <1>5, <2>1
  <2> QED
    BY <1>3, <1>5, <2>1, <2>2
<1>7. IsRun(f)
  <2> DEFINE h == [k \in 0 .. WORD |-> IF k = 0 THEN 0 ELSE Step(f[k - 1])]
  <2>1. \A k \in 0 .. WORD : f[k] = h[k]
    BY <1>1, <1>5, <1>6
  <2>2. f = h
    BY <1>5, <2>1
  <2> QED
    BY <2>2
<1> DEFINE B == CHOOSE g : IsRun(g)
<1>8. IsRun(B)
  BY <1>7
<1>9. Spread(c) = B[WORD]
  BY DEF Spread, Step, b
<1> HIDE DEF B
<1>10. B[0] = 0 /\ \A k \in 1 .. WORD : B[k] = Step(B[k - 1])
  BY <1>1, <1>8
<1> DEFINE T == {k \in Nat : k <= WORD => B[k] \in Nat}
<1>11. 0 \in T
  BY <1>10
<1>12. ASSUME NEW k \in T PROVE k + 1 \in T
  <2>1. SUFFICES ASSUME k + 1 <= WORD PROVE B[k + 1] \in Nat
    OBVIOUS
  <2>2. k + 1 \in 1 .. WORD /\ k + 1 - 1 = k /\ B[k] \in Nat
    BY <1>1, <2>1
  <2>3. B[k + 1] = Step(B[k])
    BY <1>10, <2>2
  <2> QED
    BY <1>2, <2>2, <2>3
<1>13. T = Nat
  <2> HIDE DEF T
  <2> QED
    BY <1>11, <1>12, SetInduction DEF T
<1>14. B \in [0 .. WORD -> Nat]
  <2>1. \A k \in 0 .. WORD : B[k] \in Nat
    BY <1>13
  <2>2. DOMAIN B = 0 .. WORD /\ B = [k \in DOMAIN B |-> B[k]]
    BY <1>8
  <2> QED
    BY <2>1, <2>2
<1> QED
  BY <1>9, <1>10, <1>14 DEF Step, b, Spreads

\* The shifts of ByteOf.
Shifts(f, w, i) ==
    /\ f \in [0 .. i -> Nat] /\ f[0] = w
    /\ \A k \in 1 .. i : f[k] = f[k - 1] \div BYTE

LEMMA ShiftRounds ==
  ASSUME NEW w \in Nat, NEW i \in Nat
  PROVE  \E f : Shifts(f, w, i) /\ ByteOf(w, i) = f[i] % BYTE
<1> DEFINE Step(v) == v \div BYTE
           F == [k \in Nat |-> [v \in Nat |-> Step(v)]]
           IsRun(f) == f = [k \in 0 .. i |-> IF k = 0 THEN w ELSE Step(f[k - 1])]
<1>1. BYTE \in Nat \ {0}
  BY StringsAssumption
<1>2. ASSUME NEW v \in Nat PROVE Step(v) \in Nat
  BY <1>1, DivFacts
<1> HIDE DEF Step
<1>3. Rounds(F, Nat) /\ \A k \in Nat, v \in Nat : F[k][v] = Step(v)
  BY <1>2 DEF Rounds
<1> HIDE DEF F
<1>4. PICK f : Iterates(f, i, Nat, w, F)
  BY <1>3, IterationExists
<1>5. /\ f \in [0 .. i -> Nat] /\ f[0] = w
      /\ \A k \in 1 .. i : f[k] = F[k][f[k - 1]]
  BY <1>4 DEF Iterates
<1>6. \A k \in 1 .. i : f[k] = Step(f[k - 1])
  <2> TAKE k \in 1 .. i
  <2>1. k - 1 \in 0 .. i /\ k \in Nat
    OBVIOUS
  <2>2. f[k - 1] \in Nat
    BY <1>5, <2>1
  <2> QED
    BY <1>3, <1>5, <2>1, <2>2
<1>7. IsRun(f)
  <2> DEFINE h == [k \in 0 .. i |-> IF k = 0 THEN w ELSE Step(f[k - 1])]
  <2>1. \A k \in 0 .. i : f[k] = h[k]
    BY <1>5, <1>6
  <2>2. f = h
    BY <1>5, <2>1
  <2> QED
    BY <2>2
<1> DEFINE g == CHOOSE s : IsRun(s)
<1>8. IsRun(g)
  BY <1>7
<1>9. ByteOf(w, i) = g[i] % BYTE
  BY DEF ByteOf, Step
<1> HIDE DEF g
<1>10. g[0] = w /\ \A k \in 1 .. i : g[k] = Step(g[k - 1])
  BY <1>8
<1> DEFINE T == {k \in Nat : k <= i => g[k] \in Nat}
<1>11. 0 \in T
  BY <1>10
<1>12. ASSUME NEW k \in T PROVE k + 1 \in T
  <2>1. SUFFICES ASSUME k + 1 <= i PROVE g[k + 1] \in Nat
    OBVIOUS
  <2>2. k + 1 \in 1 .. i /\ k + 1 - 1 = k /\ g[k] \in Nat
    BY <2>1
  <2>3. g[k + 1] = Step(g[k])
    BY <1>10, <2>2
  <2> QED
    BY <1>2, <2>2, <2>3
<1>13. T = Nat
  <2> HIDE DEF T
  <2> QED
    BY <1>11, <1>12, SetInduction DEF T
<1>14. g \in [0 .. i -> Nat]
  <2>1. \A k \in 0 .. i : g[k] \in Nat
    BY <1>13
  <2>2. DOMAIN g = 0 .. i /\ g = [k \in DOMAIN g |-> g[k]]
    BY <1>8
  <2> QED
    BY <2>1, <2>2
<1> QED
  BY <1>9, <1>10, <1>14 DEF Step, Shifts

\* Every byte of the word is the low byte of c.
LEMMA SpreadBytes ==
  ASSUME NEW c \in Int, NEW i \in 0 .. WORD - 1
  PROVE  ByteOf(Spread(c), i) = c % BYTE
<1> DEFINE b == c % BYTE
<1>1. b \in Byte /\ WORD \in Nat /\ i \in Nat
  BY StringsAssumption, LowByte
<1>2. PICK B : Spreads(B, c) /\ Spread(c) = B[WORD]
  BY SpreadRounds
<1>3. B \in [0 .. WORD -> Nat] /\ \A k \in 1 .. WORD : B[k] = B[k - 1] * BYTE + b
  BY <1>2 DEF Spreads
<1>4. Spread(c) \in Nat
  BY <1>1, <1>2, <1>3
<1>5. PICK f : Shifts(f, Spread(c), i) /\ ByteOf(Spread(c), i) = f[i] % BYTE
  BY <1>1, <1>4, ShiftRounds
<1>6. /\ f \in [0 .. i -> Nat] /\ f[0] = B[WORD]
      /\ \A k \in 1 .. i : f[k] = f[k - 1] \div BYTE
  BY <1>2, <1>5 DEF Shifts
<1> HIDE DEF b
<1>7. ASSUME NEW k \in 1 .. WORD PROVE B[k] \div BYTE = B[k - 1] /\ B[k] % BYTE = b
  <2>1. B[k - 1] \in Nat /\ B[k] = B[k - 1] * BYTE + b
    BY <1>1, <1>3
  <2> DEFINE a == B[k - 1]
  <2> HIDE DEF a
  <2>2. a \in Nat /\ B[k] = a * BYTE + b
    BY <2>1 DEF a
  <2>3. B[k] \div BYTE = a /\ B[k] % BYTE = b
    BY <1>1, <2>2, ShiftedIn
  <2> QED
    BY <2>3 DEF a
<1> DEFINE T == {k \in Nat : k <= i => f[k] = B[WORD - k]}
<1>8. 0 \in T
  BY <1>1, <1>6
<1>9. ASSUME NEW k \in T PROVE k + 1 \in T
  <2>1. SUFFICES ASSUME k + 1 <= i PROVE f[k + 1] = B[WORD - (k + 1)]
    OBVIOUS
  <2> DEFINE j == WORD - k
  <2>2. k + 1 \in 1 .. i /\ k + 1 - 1 = k /\ j \in 1 .. WORD /\ j - 1 = WORD - (k + 1) /\ f[k] = B[j]
    BY <1>1, <2>1
  <2>3. f[k + 1] = f[k] \div BYTE
    BY <1>6, <2>2
  <2> HIDE DEF j
  <2>4. f[k + 1] = B[j - 1]
    BY <1>7, <2>2, <2>3
  <2> QED
    BY <2>2, <2>4
<1>10. T = Nat
  <2> HIDE DEF T
  <2> QED
    BY <1>8, <1>9, SetInduction DEF T
<1> DEFINE j == WORD - i
<1>11. f[i] = B[j] /\ j \in 1 .. WORD
  BY <1>1, <1>10
<1> HIDE DEF j
<1>12. f[i] % BYTE = b
  BY <1>7, <1>11
<1> QED
  BY <1>5, <1>12 DEF b

\* memset fills with the low byte, by words or by bytes.
LEMMA MemsetKeepsContract ==
  ASSUME NEW m \in Memory, NEW v \in Addr, NEW c \in Int, NEW n \in Nat
  PROVE  memset(m, v, c, n) \in Memory /\ Fills(m, memset(m, v, c, n), v, c, n)
<1> DEFINE r == memset(m, v, c, n)
           unit == Unit(v, 0, n)
           w == IF unit = WORD THEN Spread(c) ELSE c % BYTE
           b == c % BYTE
<1>1. v \in Nat /\ WORD \in Nat \ {0} /\ b \in Byte
  BY StringsAssumption, LowByte DEF Addr
<1>2. unit = WORD \/ unit = 1
  BY DEF Unit
<1>3. r = [x \in Addr |-> IF x \in Region(v, n) THEN ByteOf(w, (x - v) % unit) ELSE m[x]]
  BY DEF memset
<1> HIDE DEF r, unit
<1>4. ASSUME NEW x \in Region(v, n) PROVE ByteOf(w, (x - v) % unit) = b
  <2>1. x - v \in Nat
    BY <1>1 DEF Region, Addr
  <2>2. CASE unit = WORD
    <3>1. (x - v) % WORD \in 0 .. WORD - 1
      BY <1>1, <2>1, DivFacts
    <3>2. ByteOf(Spread(c), (x - v) % WORD) = b
      BY <3>1, SpreadBytes
    <3> QED
      BY <2>2, <3>2
  <2>3. CASE unit = 1 /\ unit # WORD
    <3>1. (x - v) % 1 = 0
      BY <2>1
    <3>2. ByteOf(b, 0) = b
      <4>1. b \in Nat /\ b % BYTE = b
        BY <1>1, StringsAssumption DEF Byte
      <4> HIDE DEF b
      <4>2. PICK f : Shifts(f, b, 0) /\ ByteOf(b, 0) = f[0] % BYTE
        BY <4>1, ShiftRounds
      <4>3. f[0] = b
        BY <4>2 DEF Shifts
      <4> QED
        BY <4>1, <4>2, <4>3
    <3> QED
      BY <2>3, <3>1, <3>2
  <2> QED
    BY <1>2, <2>2, <2>3
<1>5. \A x \in Addr : r[x] = IF x \in Region(v, n) THEN b ELSE m[x]
  BY <1>3, <1>4
<1>6. r \in Memory
  <2>1. \A x \in Addr : r[x] \in Byte
    BY <1>1, <1>5 DEF Memory
  <2>2. DOMAIN r = Addr /\ r = [x \in DOMAIN r |-> r[x]]
    BY <1>3
  <2> QED
    BY <2>1, <2>2 DEF Memory
<1>7. Fills(m, r, v, c, n)
  BY <1>5 DEF Fills, OnlyChanged, Region
<1> QED
  BY <1>6, <1>7 DEF r

----------------------------------------------------------------------------
\* Strings.

Least(a, b) == IF a < b THEN a ELSE b

\* The string at p ends at e.
EndsAt(m, p, e) == e \in Addr /\ p <= e /\ m[e] = 0 /\ \A x \in p .. e - 1 : m[x] # 0

LEMMA StringEnds ==
  ASSUME NEW m \in Memory, NEW p \in Addr, \E x \in Addr : p <= x /\ m[x] = 0
  PROVE  \E e \in Addr : EndsAt(m, p, e)
<1> DEFINE S == {x \in Addr : p <= x /\ m[x] = 0}
<1>1. S \in SUBSET Nat /\ S # {}
  BY DEF Addr
<1> HIDE DEF S
<1>2. PICK e \in S : \A x \in S : e <= x
  BY <1>1, LeastNat
<1>3. e \in Addr /\ p <= e /\ m[e] = 0
  BY <1>2 DEF S
<1>4. ASSUME NEW x \in p .. e - 1 PROVE m[x] # 0
  <2>1. p \in Nat /\ e \in Nat /\ e < MEM /\ MEM \in Nat
    BY <1>3, StringsAssumption DEF Addr
  <2>2. x \in Addr /\ p <= x /\ ~(e <= x)
    BY <2>1 DEF Addr
  <2> QED
    BY <1>2, <2>2 DEF S
<1> QED
  BY <1>3, <1>4 DEF EndsAt

\* What Text is.
LEMMA TextFacts ==
  ASSUME NEW m \in Memory, NEW p \in Addr, NEW e \in Addr, EndsAt(m, p, e)
  PROVE  /\ Text(m, p) \in Seq(Byte) /\ Len(Text(m, p)) = e - p /\ e - p \in Nat
         /\ \A k \in 1 .. e - p : Text(m, p)[k] = m[p + k - 1] /\ m[p + k - 1] # 0 /\ p + k - 1 \in Addr
<1> DEFINE f == CHOOSE i \in Addr : p <= i /\ m[i] = 0 /\ \A x \in p .. i - 1 : m[x] # 0
<1>1. p <= e /\ m[e] = 0 /\ (\A x \in p .. e - 1 : m[x] # 0) /\ p \in Nat /\ e \in Nat /\ MEM \in Nat
  BY StringsAssumption DEF EndsAt, Addr
<1>2. f \in Addr /\ p <= f /\ m[f] = 0 /\ \A x \in p .. f - 1 : m[x] # 0
  BY <1>1
<1>3. Text(m, p) = [k \in 1 .. f - p |-> m[p + k - 1]]
  BY DEF Text
<1> HIDE DEF f
<1>4. f = e
  <2>1. f \in Nat
    BY <1>2 DEF Addr
  <2>2. ASSUME f < e PROVE FALSE
    <3>1. f \in p .. e - 1
      BY <1>1, <1>2, <2>1, <2>2
    <3> QED
      BY <1>1, <1>2, <3>1
  <2>3. ASSUME e < f PROVE FALSE
    <3>1. e \in p .. f - 1
      BY <1>1, <1>2, <2>1, <2>3
    <3> QED
      BY <1>1, <1>2, <3>1
  <2> QED
    BY <1>1, <2>1, <2>2, <2>3
<1>5. e - p \in Nat
  BY <1>1
<1>6. ASSUME NEW k \in 1 .. e - p PROVE p + k - 1 \in Addr /\ m[p + k - 1] \in Byte /\ m[p + k - 1] # 0
  <2>1. p + k - 1 \in Addr /\ p + k - 1 \in p .. e - 1
    BY <1>1 DEF Addr
  <2> QED
    BY <1>1, <2>1 DEF Memory
<1> DEFINE t == [k \in 1 .. e - p |-> m[p + k - 1]]
<1>7. Text(m, p) = t
  BY <1>3, <1>4
<1>8. t \in Seq(Byte) /\ Len(t) = e - p /\ \A k \in 1 .. e - p : t[k] = m[p + k - 1]
  BY <1>5, <1>6
<1> HIDE DEF t
<1> QED
  BY <1>5, <1>6, <1>7, <1>8

LEMMA CutFacts ==
  ASSUME NEW t \in Seq(Byte), NEW n \in Nat
  PROVE  /\ Cut(t, n) \in Seq(Byte) /\ Len(Cut(t, n)) = Least(Len(t), n)
         /\ \A k \in 1 .. Least(Len(t), n) : Cut(t, n)[k] = t[k] /\ k \in 1 .. Len(t)
<1> DEFINE l == Least(Len(t), n)
<1>1. Cut(t, n) = SubSeq(t, 1, l) /\ Len(t) \in Nat
  BY DEF Cut, Least
<1>2. l \in Nat /\ l <= Len(t) /\ (l = Len(t) \/ l = n)
  BY <1>1 DEF Least
<1> HIDE DEF l
<1>3. /\ SubSeq(t, 1, l) \in Seq(Byte) /\ Len(SubSeq(t, 1, l)) = l
      /\ \A k \in 1 .. l : SubSeq(t, 1, l)[k] = t[k]
  BY <1>2
<1>4. \A k \in 1 .. l : k \in 1 .. Len(t)
  BY <1>1, <1>2
<1> QED
  BY <1>1, <1>3, <1>4 DEF l

LEMMA Lengths ==
  ASSUME NEW m \in Memory, NEW p \in Addr, NEW e \in Addr, EndsAt(m, p, e), NEW n \in Nat
  PROVE  /\ strlen(m, p) = e - p
         /\ strnlen(m, p, n) = Least(e - p, n)
         /\ n > 0 => Lcpy(m, p, n) = Least(e - p, n - 1)
<1>1. p <= e /\ m[e] = 0 /\ (\A x \in p .. e - 1 : m[x] # 0) /\ p \in Nat /\ e \in Nat
  BY DEF EndsAt, Addr
<1>2. ASSUME NEW j \in 0 .. e - p - 1 PROVE m[p + j] # 0
  <2>1. p + j \in p .. e - 1
    BY <1>1
  <2> QED
    BY <1>1, <2>1
<1>3. p + (e - p) = e /\ e - p \in Nat
  BY <1>1
<1>4. strlen(m, p) = e - p
  <2> DEFINE C == {k \in Nat : m[p + k] # 0}
             l == e - p
  <2>1. l \in Nat /\ l \notin C /\ \A j \in 0 .. l - 1 : j \in C
    BY <1>1, <1>2, <1>3
  <2> HIDE DEF C, l
  <2>2. Count(C) = l
    BY <2>1, CountIs
  <2> QED
    BY <2>2 DEF strlen, C, l
<1>5. ASSUME NEW b \in Nat PROVE Count({k \in Nat : k < b /\ m[p + k] # 0}) = Least(e - p, b)
  <2> DEFINE C == {k \in Nat : k < b /\ m[p + k] # 0}
             l == Least(e - p, b)
  <2>1. l \in Nat /\ l <= e - p /\ l <= b /\ (l = e - p \/ l = b)
    BY <1>3 DEF Least
  <2>2. l \notin C
    BY <1>1, <1>3, <2>1
  <2>3. \A j \in 0 .. l - 1 : j \in C
    BY <1>2, <1>3, <2>1
  <2> HIDE DEF C, l
  <2>4. Count(C) = l
    BY <2>1, <2>2, <2>3, CountIs
  <2> QED
    BY <2>4 DEF C, l
<1>6. strnlen(m, p, n) = Least(e - p, n)
  BY <1>5 DEF strnlen
<1>7. n > 0 => Lcpy(m, p, n) = Least(e - p, n - 1)
  <2>1. SUFFICES ASSUME n > 0 PROVE Lcpy(m, p, n) = Least(e - p, n - 1)
    OBVIOUS
  <2> DEFINE b == n - 1
  <2>2. b \in Nat
    BY <2>1
  <2>3. Lcpy(m, p, n) = Count({k \in Nat : k < b /\ m[p + k] # 0})
    BY DEF Lcpy
  <2> HIDE DEF b
  <2>4. Lcpy(m, p, n) = Least(e - p, b)
    BY <1>5, <2>2, <2>3
  <2> QED
    BY <2>4 DEF b
<1> QED
  BY <1>4, <1>6, <1>7

\* A string that was copied without its end, with a NUL put after it.
LEMMA CopiedText ==
  ASSUME NEW m \in Memory, NEW r \in Memory, NEW s \in Addr, NEW e \in Addr, EndsAt(m, s, e),
         NEW d \in Addr, NEW l \in Nat, l <= e - s, d + l \in Addr, r[d + l] = 0,
         \A k \in 0 .. l - 1 : r[d + k] = m[s + k]
  PROVE  EndsAt(r, d, d + l) /\ Text(r, d) = Cut(Text(m, s), l) /\ Len(Text(r, d)) = l
<1>1. d \in Nat /\ s \in Nat /\ e \in Nat
  BY DEF Addr
<1>2. /\ Text(m, s) \in Seq(Byte) /\ Len(Text(m, s)) = e - s /\ e - s \in Nat
      /\ \A k \in 1 .. e - s : Text(m, s)[k] = m[s + k - 1] /\ m[s + k - 1] # 0
  BY TextFacts
<1>3. ASSUME NEW k \in 1 .. l PROVE r[d + k - 1] = m[s + k - 1] /\ k \in 1 .. e - s
  <2> DEFINE j == k - 1
  <2>1. j \in 0 .. l - 1 /\ d + j = d + k - 1 /\ s + j = s + k - 1 /\ k \in 1 .. e - s
    BY <1>1, <1>2
  <2> HIDE DEF j
  <2>2. r[d + j] = m[s + j]
    BY <2>1
  <2> QED
    BY <2>1, <2>2
<1>4. EndsAt(r, d, d + l)
  <2>1. ASSUME NEW x \in d .. d + l - 1 PROVE r[x] # 0
    <3> DEFINE k == x - d + 1
    <3>1. k \in 1 .. l /\ x = d + k - 1
      BY <1>1
    <3> HIDE DEF k
    <3>2. r[x] = m[s + k - 1] /\ k \in 1 .. e - s
      BY <1>3, <3>1
    <3> QED
      BY <1>2, <3>2
  <2> DEFINE f == d + l
  <2>2. d <= f /\ f \in Addr /\ r[f] = 0 /\ \A x \in d .. f - 1 : r[x] # 0
    BY <1>1, <2>1
  <2> HIDE DEF f
  <2>3. EndsAt(r, d, f)
    BY ONLY <2>2 DEF EndsAt
  <2> QED
    BY <2>3 DEF f
<1> DEFINE f == d + l
<1>5. f \in Addr /\ f - d = l /\ EndsAt(r, d, f)
  BY <1>1, <1>4
<1> HIDE DEF f
<1>6. /\ Text(r, d) \in Seq(Byte) /\ Len(Text(r, d)) = l
      /\ \A k \in 1 .. l : Text(r, d)[k] = r[d + k - 1]
  BY <1>5, TextFacts
<1> DEFINE t == Text(r, d)
           u == Text(m, s)
           v == Cut(u, l)
<1>7. v \in Seq(Byte) /\ Len(v) = l /\ \A k \in 1 .. l : v[k] = u[k]
  <2>1. Least(Len(u), l) = l
    BY <1>2 DEF Least
  <2>2. u \in Seq(Byte)
    BY <1>2
  <2> HIDE DEF u
  <2> QED
    BY ONLY l \in Nat, <2>1, <2>2, CutFacts
<1>8. \A k \in 1 .. l : t[k] = v[k]
  BY <1>2, <1>3, <1>6, <1>7
<1>9. t \in Seq(Byte) /\ Len(t) = l
  BY <1>6
<1> HIDE DEF t, v
<1>10. t = v
  BY <1>7, <1>8, <1>9
<1> QED
  BY <1>4, <1>6, <1>10 DEF t, v

\* The regions do not overlap, or the copy could not be upwards.
LEMMA ApartUp ==
  ASSUME NEW d \in Addr, NEW s \in Addr, NEW n \in Nat, Apart(d, s, n), InMem(d, n), NEW l \in 0 .. n
  PROVE  ~(s < d /\ d < s + l)
<1>1. SUFFICES ASSUME s < d, d < s + l PROVE FALSE
  OBVIOUS
<1>2. d \in Nat /\ s \in Nat /\ n > 0
  BY <1>1 DEF Addr
<1>3. d \in Region(d, n) /\ d \in Region(s, n)
  BY <1>1, <1>2 DEF Region
<1> QED
  BY <1>3 DEF Apart

LEMMA StrcpyKeepsContract ==
  ASSUME NEW m \in Memory, NEW d \in Addr, NEW s \in Addr, NEW e \in Addr, EndsAt(m, s, e),
         InMem(d, strlen(m, s) + 1), Apart(d, s, strlen(m, s) + 1)
  PROVE  strcpy(m, d, s) \in Memory /\ Copies(m, strcpy(m, d, s), d, s)
<1> DEFINE l == e - s
           n == l + 1
           r == strcpy(m, d, s)
<1>1. d \in Nat /\ s \in Nat /\ e \in Nat /\ s <= e /\ e < MEM /\ m[e] = 0 /\ MEM \in Nat
  BY StringsAssumption DEF Addr, EndsAt
<1>2. l \in Nat /\ n \in Nat /\ s + l = e
  BY <1>1
<1>3. strlen(m, s) = l
  <2>1. 0 \in Nat
    OBVIOUS
  <2> QED
    BY <2>1, Lengths
<1>4. d + n <= MEM /\ s + n <= MEM
  BY <1>1, <1>2, <1>3 DEF InMem
<1>5. ~(s < d /\ d < s + n)
  <2>1. n \in 0 .. n /\ Apart(d, s, n) /\ InMem(d, n)
    BY <1>2, <1>3
  <2> HIDE DEF n
  <2> QED
    BY <1>2, <2>1, ApartUp
<1>6. Moved(m, r, d, s, n)
  <2> DEFINE one == 1
  <2>1. one \in Nat \ {0} /\ n = one * n /\ r = RepMovs(m, d, s, one, n, 1)
    BY <1>2, <1>3 DEF strcpy
  <2> HIDE DEF n, r, one
  <2> QED
    BY <1>1, <1>2, <1>4, <1>5, <2>1, RepMovsUp
<1>7. r \in Memory /\ \A x \in Addr : r[x] = IF d <= x /\ x < d + n THEN m[x - d + s] ELSE m[x]
  BY <1>6 DEF Moved
<1> HIDE DEF r
<1>8. ASSUME NEW k \in 0 .. l PROVE d + k \in Addr /\ r[d + k] = m[s + k]
  <2> DEFINE x == d + k
  <2>1. x \in Addr /\ d <= x /\ x < d + n /\ x - d + s = s + k
    BY <1>1, <1>2, <1>4 DEF Addr
  <2> HIDE DEF x
  <2>2. r[x] = m[s + k]
    BY <1>7, <2>1
  <2> QED
    BY <2>1, <2>2 DEF x
<1>9. l \in 0 .. l /\ \A k \in 0 .. l - 1 : k \in 0 .. l
  BY <1>2
<1>10. d + l \in Addr /\ r[d + l] = 0 /\ \A k \in 0 .. l - 1 : r[d + k] = m[s + k]
  BY <1>1, <1>2, <1>8, <1>9
<1>11. Text(r, d) = Cut(Text(m, s), l)
  <2>1. l <= e - s
    BY <1>1
  <2> HIDE DEF l
  <2> QED
    BY <1>2, <1>7, <1>10, <2>1, CopiedText
<1>12. Cut(Text(m, s), l) = Text(m, s) /\ Len(Text(m, s)) = l
  <2>1. Text(m, s) \in Seq(Byte) /\ Len(Text(m, s)) = l
    BY TextFacts
  <2> DEFINE t == Text(m, s)
  <2> HIDE DEF t, l
  <2>2. Least(Len(t), l) = l
    BY <1>2, <2>1 DEF Least, t
  <2>4. t \in Seq(Byte) /\ Len(t) = l
    BY <2>1 DEF t
  <2>3. Cut(t, l) \in Seq(Byte) /\ Len(Cut(t, l)) = l /\ \A k \in 1 .. l : Cut(t, l)[k] = t[k]
    <3> DEFINE c == Cut(t, l)
               b == Least(Len(t), l)
    <3>1. l \in Nat
      BY <1>2
    <3>2. c \in Seq(Byte) /\ Len(c) = b /\ \A k \in 1 .. b : c[k] = t[k]
      BY ONLY <2>4, <3>1, CutFacts
    <3>3. b = l
      BY <2>2
    <3> HIDE DEF b, c
    <3>4. c \in Seq(Byte) /\ Len(c) = l /\ \A k \in 1 .. l : c[k] = t[k]
      BY ONLY <3>2, <3>3, Zenon
    <3> QED
      BY <3>4 DEF c
  <2>5. Cut(t, l) = t
    BY <1>2, <2>3, <2>4
  <2> QED
    BY <2>1, <2>5 DEF t
<1>13. OnlyChanged(m, r, d, n)
  BY <1>7 DEF OnlyChanged, Region
<1> QED
  BY <1>7, <1>11, <1>12, <1>13 DEF Copies, r

LEMMA StrncpyKeepsContract ==
  ASSUME NEW m \in Memory, NEW d \in Addr, NEW s \in Addr, NEW e \in Addr, EndsAt(m, s, e),
         NEW n \in Nat, InMem(d, n)
  PROVE  strncpy(m, d, s, n) \in Memory /\ CopiesPadded(m, strncpy(m, d, s, n), d, s, n)
<1> DEFINE r == strncpy(m, d, s, n)
           l == strnlen(m, s, n)
<1>1. d \in Nat /\ s \in Nat /\ e \in Nat /\ d + n <= MEM /\ e < MEM /\ MEM \in Nat
  BY StringsAssumption DEF Addr, InMem
<1>2. /\ Text(m, s) \in Seq(Byte) /\ Len(Text(m, s)) = e - s /\ e - s \in Nat
      /\ \A k \in 1 .. e - s : Text(m, s)[k] = m[s + k - 1] /\ s + k - 1 \in Addr
  BY TextFacts
<1>3. l = Least(e - s, n)
  BY Lengths
<1>4. l \in Nat /\ l <= e - s /\ l <= n /\ (l = e - s \/ l = n)
  BY <1>2, <1>3 DEF Least
<1>5. r = [x \in Addr |-> IF x \in Region(d, n) THEN IF x - d < l THEN m[s + x - d] ELSE 0 ELSE m[x]]
  BY DEF strncpy
<1> HIDE DEF r, l
<1>6. ASSUME NEW x \in Addr PROVE r[x] \in Byte
  <2>1. CASE x \in Region(d, n) /\ x - d < l
    <3>1. s + x - d \in Addr
      BY <1>1, <1>2, <1>4, <2>1 DEF Region, Addr
    <3> QED
      BY <1>5, <2>1, <3>1 DEF Memory
  <2>2. 0 \in Byte
    BY StringsAssumption DEF Byte
  <2> QED
    BY <1>5, <2>1, <2>2 DEF Memory
<1>7. r \in Memory
  <2>1. DOMAIN r = Addr /\ r = [x \in DOMAIN r |-> r[x]]
    BY <1>5
  <2> QED
    BY <1>6, <2>1 DEF Memory
<1>8. ASSUME NEW k \in 1 .. n
      PROVE  r[d + k - 1] = IF k <= Len(Text(m, s)) THEN Text(m, s)[k] ELSE 0
  <2> DEFINE x == d + k - 1
  <2>1. x \in Region(d, n) /\ x \in Addr /\ s + x - d = s + k - 1 /\ (x - d < l <=> k <= l)
    BY <1>1, <1>4 DEF Region, Addr
  <2> HIDE DEF x
  <2>2. r[x] = IF k <= l THEN m[s + k - 1] ELSE 0
    BY <1>5, <2>1
  <2>3. k <= l <=> k <= e - s
    BY <1>2, <1>4
  <2>4. r[x] = IF k <= e - s THEN Text(m, s)[k] ELSE 0
    BY <1>2, <2>2, <2>3
  <2> QED
    BY <1>2, <2>4 DEF x
<1>9. OnlyChanged(m, r, d, n)
  BY <1>5 DEF OnlyChanged
<1> QED
  BY <1>7, <1>8, <1>9 DEF CopiesPadded, r

LEMMA StrlcpyKeepsContract ==
  ASSUME NEW m \in Memory, NEW d \in Addr, NEW s \in Addr, NEW e \in Addr, EndsAt(m, s, e),
         NEW n \in Nat, InMem(d, n), Apart(d, s, n)
  PROVE  /\ strlcpy(m, d, s, n) \in Memory
         /\ CopiesCut(m, strlcpy(m, d, s, n), d, s, n, IF n > 0 THEN Lcpy(m, s, n) ELSE 0)
<1>1. d \in Nat /\ s \in Nat /\ e \in Nat /\ s <= e /\ d + n <= MEM /\ e < MEM /\ MEM \in Nat
  BY StringsAssumption DEF Addr, InMem, EndsAt
<1>2. CASE n = 0
  BY <1>2 DEF strlcpy, CopiesCut, OnlyChanged
<1>3. CASE n > 0
  <2> DEFINE l == Lcpy(m, s, n)
             q == RepMovs(m, d, s, 1, l, 1)
             r == strlcpy(m, d, s, n)
  <2>1. l = Least(e - s, n - 1)
    BY <1>3, Lengths
  <2>2. l \in Nat /\ l <= e - s /\ l <= n - 1 /\ (l = e - s \/ l = n - 1)
    BY <1>1, <1>3, <2>1 DEF Least
  <2>3. r = [q EXCEPT ![d + l] = 0]
    BY <1>3 DEF strlcpy
  <2> HIDE DEF l, r
  <2>4. d + l <= MEM /\ s + l <= MEM /\ d + l \in Addr /\ l \in 0 .. n
    BY <1>1, <2>2 DEF Addr
  <2>5. ~(s < d /\ d < s + l)
    BY <2>4, ApartUp
  <2>6. Moved(m, q, d, s, l)
    <3> DEFINE one == 1
               qq == RepMovs(m, d, s, one, l, 1)
    <3>1. one \in Nat \ {0} /\ l = one * l /\ q = qq
      BY <2>2
    <3> HIDE DEF q, one
    <3>2. Moved(m, qq, d, s, l)
      BY <1>1, <2>2, <2>4, <2>5, <3>1, RepMovsUp
    <3> QED
      BY <3>1, <3>2
  <2>7. q \in Memory /\ \A x \in Addr : q[x] = IF d <= x /\ x < d + l THEN m[x - d + s] ELSE m[x]
    BY <2>6 DEF Moved
  <2> HIDE DEF q
  <2>8. r \in Memory /\ r[d + l] = 0 /\ \A x \in Addr : x # d + l => r[x] = q[x]
    <3>1. 0 \in Byte
      BY StringsAssumption DEF Byte
    <3> QED
      BY <2>3, <2>4, <2>7, <3>1 DEF Memory
  <2>9. ASSUME NEW k \in 0 .. l - 1 PROVE r[d + k] = m[s + k]
    <3> DEFINE x == d + k
    <3>1. x \in Addr /\ x # d + l /\ d <= x /\ x < d + l /\ x - d + s = s + k
      BY <1>1, <2>2, <2>4 DEF Addr
    <3> HIDE DEF x
    <3>2. r[x] = m[s + k]
      BY <2>7, <2>8, <3>1
    <3> QED
      BY <3>2 DEF x
  <2>10. Text(r, d) = Cut(Text(m, s), l) /\ Len(Text(r, d)) = l
    BY <2>2, <2>4, <2>8, <2>9, CopiedText
  <2>11. Cut(Text(m, s), l) = Cut(Text(m, s), n - 1)
    <3>1. Len(Text(m, s)) = e - s
      BY TextFacts
    <3>2. (IF e - s < l THEN e - s ELSE l) = IF e - s < n - 1 THEN e - s ELSE n - 1
      BY <1>1, <1>3, <2>2, <2>1 DEF Least
    <3> QED
      BY <3>1, <3>2 DEF Cut
  <2>12. OnlyChanged(m, r, d, n)
    <3>1. ASSUME NEW x \in Addr \ Region(d, n) PROVE r[x] = m[x]
      <4>1. x \in Nat /\ ~(d <= x /\ x < d + n)
        BY DEF Region, Addr
      <4>2. x # d + l /\ ~(d <= x /\ x < d + l)
        BY <1>1, <2>2, <4>1
      <4> QED
        BY <2>7, <2>8, <4>2
    <3> QED
      BY <3>1 DEF OnlyChanged
  <2> QED
    BY <1>3, <2>8, <2>10, <2>11, <2>12 DEF CopiesCut, l, r
<1> QED
  BY <1>2, <1>3

----------------------------------------------------------------------------
\* Comparisons.

\* The sequences agree up to k, and not after it.
PartAt(t, u, k) ==
    /\ k \in Nat /\ k <= Len(t) /\ k <= Len(u)
    /\ \A j \in 1 .. k : t[j] = u[j]
    /\ k < Len(t) /\ k < Len(u) => t[k + 1] # u[k + 1]

LEMMA PrecedesAt ==
  ASSUME NEW t \in Seq(Byte), NEW u \in Seq(Byte), NEW k, PartAt(t, u, k)
  PROVE  Precedes(t, u) <=> k < Len(u) /\ (k = Len(t) \/ t[k + 1] < u[k + 1])
<1>1. /\ k \in Nat /\ k <= Len(t) /\ k <= Len(u) /\ Len(t) \in Nat /\ Len(u) \in Nat
      /\ \A j \in 1 .. k : t[j] = u[j]
      /\ k < Len(t) /\ k < Len(u) => t[k + 1] # u[k + 1]
  BY DEF PartAt
<1>2. ASSUME k < Len(u), k = Len(t) \/ t[k + 1] < u[k + 1] PROVE Precedes(t, u)
  <2>1. k \in 0 .. Len(t)
    BY <1>1
  <2> QED
    BY <1>1, <1>2, <2>1 DEF Precedes
<1>3. ASSUME Precedes(t, u) PROVE k < Len(u) /\ (k = Len(t) \/ t[k + 1] < u[k + 1])
  <2>1. PICK i \in 0 .. Len(t) : /\ i < Len(u) /\ \A j \in 1 .. i : t[j] = u[j]
                                 /\ i = Len(t) \/ t[i + 1] < u[i + 1]
    BY <1>3 DEF Precedes
  <2>2. ASSUME i < k PROVE FALSE
    <3>1. i + 1 \in 1 .. k /\ i # Len(t) /\ i + 1 \in 1 .. Len(t)
      BY <1>1, <2>1, <2>2
    <3>2. t[i + 1] = u[i + 1] /\ t[i + 1] < u[i + 1] /\ t[i + 1] \in Byte
      BY <1>1, <2>1, <3>1
    <3> QED
      BY <3>2 DEF Byte
  <2>3. ASSUME k < i PROVE FALSE
    <3>1. k + 1 \in 1 .. i /\ k < Len(t) /\ k < Len(u)
      BY <1>1, <2>1, <2>3
    <3> QED
      BY <1>1, <2>1, <3>1
  <2>4. i = k
    BY <1>1, <2>1, <2>2, <2>3
  <2> QED
    BY <2>1, <2>4
<1> QED
  BY <1>2, <1>3

LEMMA PartSymmetric == \A t, u, k : PartAt(t, u, k) => PartAt(u, t, k)
BY DEF PartAt

\* The byte after k, and 0 for the end.
After(t, k) == IF k < Len(t) THEN t[k + 1] ELSE 0

\* The difference at the place where they part tells the order, if a sequence
\* that goes on there does not go on with 0.
LEMMA OrderAt ==
  ASSUME NEW t \in Seq(Byte), NEW u \in Seq(Byte), NEW k, PartAt(t, u, k),
         k = Len(t) => After(u, k) # 0 \/ k = Len(u),
         k = Len(u) => After(t, k) # 0 \/ k = Len(t)
  PROVE  Order(After(t, k) - After(u, k), t, u)
<1>1. /\ k \in Nat /\ k <= Len(t) /\ k <= Len(u) /\ Len(t) \in Nat /\ Len(u) \in Nat
      /\ k < Len(t) /\ k < Len(u) => t[k + 1] # u[k + 1]
  BY DEF PartAt
<1> DEFINE a == After(t, k)
           b == After(u, k)
<1>2. /\ k < Len(t) => a = t[k + 1] /\ a \in Nat
      /\ k = Len(t) => a = 0
  <2>1. ASSUME k < Len(t) PROVE a = t[k + 1] /\ a \in Nat
    <3>1. k + 1 \in 1 .. Len(t)
      BY <1>1, <2>1
    <3>2. t[k + 1] \in Byte
      BY <3>1
    <3> QED
      BY <2>1, <3>2 DEF After, Byte
  <2> QED
    BY <1>1, <2>1 DEF After
<1>3. /\ k < Len(u) => b = u[k + 1] /\ b \in Nat
      /\ k = Len(u) => b = 0
  <2>1. ASSUME k < Len(u) PROVE b = u[k + 1] /\ b \in Nat
    <3>1. k + 1 \in 1 .. Len(u)
      BY <1>1, <2>1
    <3>2. u[k + 1] \in Byte
      BY <3>1
    <3> QED
      BY <2>1, <3>2 DEF After, Byte
  <2> QED
    BY <1>1, <2>1 DEF After
<1>4. Precedes(t, u) <=> k < Len(u) /\ (k = Len(t) \/ t[k + 1] < u[k + 1])
  BY PrecedesAt
<1>5. Precedes(u, t) <=> k < Len(t) /\ (k = Len(u) \/ u[k + 1] < t[k + 1])
  BY PartSymmetric, PrecedesAt
<1>6. (k = Len(t) => b # 0 \/ k = Len(u)) /\ (k = Len(u) => a # 0 \/ k = Len(t))
  OBVIOUS
<1> HIDE DEF a, b
<1>7. a \in Nat /\ b \in Nat
  BY <1>1, <1>2, <1>3
<1>8. a - b < 0 <=> Precedes(t, u)
  BY <1>1, <1>2, <1>3, <1>4, <1>6, <1>7
<1>9. a - b > 0 <=> Precedes(u, t)
  BY <1>1, <1>2, <1>3, <1>5, <1>6, <1>7
<1> QED
  BY <1>8, <1>9 DEF Order, a, b

\* The bytes of a string and its end, by the offset.
LEMMA TextBytes ==
  ASSUME NEW m \in Memory, NEW p \in Addr, NEW e \in Addr, EndsAt(m, p, e)
  PROVE  /\ Text(m, p) \in Seq(Byte) /\ Len(Text(m, p)) = e - p /\ e - p \in Nat
         /\ m[p + (e - p)] = 0
         /\ \A j \in 0 .. e - p - 1 : Text(m, p)[j + 1] = m[p + j] /\ m[p + j] # 0
<1>1. /\ Text(m, p) \in Seq(Byte) /\ Len(Text(m, p)) = e - p /\ e - p \in Nat
      /\ \A k \in 1 .. e - p : Text(m, p)[k] = m[p + k - 1] /\ m[p + k - 1] # 0 /\ p + k - 1 \in Addr
  BY TextFacts
<1>2. p \in Nat /\ e \in Nat /\ m[e] = 0
  BY DEF Addr, EndsAt
<1>3. p + (e - p) = e
  BY <1>2
<1>4. ASSUME NEW j \in 0 .. e - p - 1 PROVE Text(m, p)[j + 1] = m[p + j] /\ m[p + j] # 0
  <2> DEFINE k == j + 1
  <2>1. k \in 1 .. e - p /\ p + k - 1 = p + j
    BY <1>1, <1>2
  <2> HIDE DEF k
  <2>2. Text(m, p)[k] = m[p + j] /\ m[p + j] # 0
    BY <1>1, <2>1
  <2> QED
    BY <2>2 DEF k
<1> QED
  BY <1>1, <1>2, <1>3, <1>4

LEMMA StrcmpKeepsContract ==
  ASSUME NEW m \in Memory, NEW p \in Addr, NEW q \in Addr, NEW e \in Addr, NEW f \in Addr,
         EndsAt(m, p, e), EndsAt(m, q, f)
  PROVE  Order(strcmp(m, p, q), Text(m, p), Text(m, q))
<1> DEFINE t == Text(m, p)
           u == Text(m, q)
           a == e - p
           b == f - q
           C == {j \in Nat : m[p + j] # 0 /\ m[p + j] = m[q + j]}
           k == Count(C)
<1>1. /\ t \in Seq(Byte) /\ Len(t) = a /\ a \in Nat /\ m[p + a] = 0
      /\ \A j \in 0 .. a - 1 : t[j + 1] = m[p + j] /\ m[p + j] # 0
  BY TextBytes
<1>2. /\ u \in Seq(Byte) /\ Len(u) = b /\ b \in Nat /\ m[q + b] = 0
      /\ \A j \in 0 .. b - 1 : u[j + 1] = m[q + j] /\ m[q + j] # 0
  BY TextBytes
<1> HIDE DEF t, u, a, b
<1>3. a \notin C
  BY <1>1
<1>4. k \in 0 .. a /\ k \notin C /\ \A j \in 0 .. k - 1 : j \in C
  <2> HIDE DEF C
  <2> QED
    BY <1>1, <1>3, CountFacts
<1>5. strcmp(m, p, q) = m[p + k] - m[q + k]
  BY DEF strcmp
<1> HIDE DEF k
<1>6. k \in Nat /\ k <= a
  BY <1>1, <1>4
<1>7. k <= b
  <2>1. SUFFICES ASSUME b < k PROVE FALSE
    BY <1>2, <1>6
  <2>2. b \in 0 .. k - 1
    BY <1>2, <1>6, <2>1
  <2>3. b \in C
    BY <1>4, <2>2
  <2> QED
    BY <1>2, <2>3
<1>8. ASSUME NEW i \in 1 .. k PROVE t[i] = u[i]
  <2> DEFINE j == i - 1
  <2>1. j \in 0 .. k - 1 /\ j \in 0 .. a - 1 /\ j \in 0 .. b - 1 /\ i = j + 1
    BY <1>1, <1>2, <1>6, <1>7
  <2> HIDE DEF j
  <2>2. j \in C
    BY <1>4, <2>1
  <2>3. m[p + j] = m[q + j]
    BY <2>2
  <2> QED
    BY <1>1, <1>2, <2>1, <2>3
<1>9. m[p + k] = After(t, k)
  <2>1. k = a \/ k \in 0 .. a - 1
    BY <1>1, <1>6
  <2> QED
    BY <1>1, <1>6, <2>1 DEF After
<1>10. m[q + k] = After(u, k)
  <2>1. k = b \/ k \in 0 .. b - 1
    BY <1>2, <1>6, <1>7
  <2> QED
    BY <1>2, <1>6, <2>1 DEF After
<1>11. k < a => After(t, k) = t[k + 1] /\ t[k + 1] # 0
  <2>1. k < a => k \in 0 .. a - 1
    BY <1>1, <1>6
  <2> QED
    BY <1>1, <2>1 DEF After
<1>12. k < b => After(u, k) = u[k + 1] /\ u[k + 1] # 0
  <2>1. k < b => k \in 0 .. b - 1
    BY <1>2, <1>6
  <2> QED
    BY <1>2, <2>1 DEF After
<1>13. PartAt(t, u, k)
  <2>1. ASSUME k < a, k < b PROVE t[k + 1] # u[k + 1]
    <3>1. m[p + k] # 0
      BY <1>9, <1>11, <2>1
    <3>2. m[p + k] # m[q + k]
      BY <1>4, <1>6, <3>1
    <3> QED
      BY <1>9, <1>10, <1>11, <1>12, <2>1, <3>2
  <2> HIDE DEF C
  <2> QED
    BY <1>1, <1>2, <1>6, <1>7, <1>8, <2>1 DEF PartAt
<1>14. /\ k = Len(t) => After(u, k) # 0 \/ k = Len(u)
       /\ k = Len(u) => After(t, k) # 0 \/ k = Len(t)
  BY <1>1, <1>2, <1>6, <1>7, <1>11, <1>12
<1> HIDE DEF C
<1>15. Order(After(t, k) - After(u, k), t, u)
  BY <1>1, <1>2, <1>13, <1>14, OrderAt
<1> QED
  BY <1>5, <1>9, <1>10, <1>15 DEF t, u

\* The same for a string cut after n bytes.
LEMMA CutBytes ==
  ASSUME NEW m \in Memory, NEW p \in Addr, NEW e \in Addr, EndsAt(m, p, e), NEW n \in Nat
  PROVE  LET t == Cut(Text(m, p), n)
             a == Least(e - p, n)
         IN  /\ t \in Seq(Byte) /\ Len(t) = a /\ a \in Nat /\ a <= n /\ (a < n => m[p + a] = 0)
             /\ \A j \in 0 .. a - 1 : t[j + 1] = m[p + j] /\ m[p + j] # 0
<1> DEFINE s == Text(m, p)
           l == e - p
           a == Least(l, n)
           t == Cut(s, n)
<1>1. /\ s \in Seq(Byte) /\ Len(s) = l /\ l \in Nat /\ m[p + l] = 0
      /\ \A j \in 0 .. l - 1 : s[j + 1] = m[p + j] /\ m[p + j] # 0
  BY TextBytes
<1> HIDE DEF s, l
<1>2. /\ t \in Seq(Byte) /\ Len(t) = a
      /\ \A k \in 1 .. a : t[k] = s[k]
  <2>1. s \in Seq(Byte)
    BY <1>1
  <2>2. /\ Cut(s, n) \in Seq(Byte) /\ Len(Cut(s, n)) = Least(Len(s), n)
        /\ \A k \in 1 .. Least(Len(s), n) : Cut(s, n)[k] = s[k] /\ k \in 1 .. Len(s)
    BY ONLY <2>1, n \in Nat, CutFacts
  <2> QED
    BY <1>1, <2>2
<1>3. a \in Nat /\ a <= n /\ a <= l /\ (a < n => a = l)
  BY <1>1 DEF Least
<1> HIDE DEF a, t
<1>4. ASSUME NEW j \in 0 .. a - 1 PROVE t[j + 1] = m[p + j] /\ m[p + j] # 0
  <2>1. j \in 0 .. l - 1 /\ j + 1 \in 1 .. a
    BY <1>1, <1>3
  <2> QED
    BY <1>1, <1>2, <2>1
<1>5. a < n => m[p + a] = 0
  BY <1>1, <1>3
<1> QED
  BY <1>2, <1>3, <1>4, <1>5 DEF a, t, s, l

LEMMA StrncmpKeepsContract ==
  ASSUME NEW m \in Memory, NEW p \in Addr, NEW q \in Addr, NEW e \in Addr, NEW f \in Addr,
         EndsAt(m, p, e), EndsAt(m, q, f), NEW n \in Nat
  PROVE  Order(strncmp(m, p, q, n), Cut(Text(m, p), n), Cut(Text(m, q), n))
<1> DEFINE t == Cut(Text(m, p), n)
           u == Cut(Text(m, q), n)
           a == Least(e - p, n)
           b == Least(f - q, n)
           C == {j \in Nat : j < n /\ m[p + j] # 0 /\ m[p + j] = m[q + j]}
           k == Count(C)
<1>1. /\ t \in Seq(Byte) /\ Len(t) = a /\ a \in Nat /\ a <= n /\ (a < n => m[p + a] = 0)
      /\ \A j \in 0 .. a - 1 : t[j + 1] = m[p + j] /\ m[p + j] # 0
  BY CutBytes
<1>2. /\ u \in Seq(Byte) /\ Len(u) = b /\ b \in Nat /\ b <= n /\ (b < n => m[q + b] = 0)
      /\ \A j \in 0 .. b - 1 : u[j + 1] = m[q + j] /\ m[q + j] # 0
  BY CutBytes
<1> HIDE DEF t, u, a, b
<1>3. a \notin C
  BY <1>1
<1>4. k \in 0 .. a /\ k \notin C /\ \A j \in 0 .. k - 1 : j \in C
  <2> HIDE DEF C
  <2> QED
    BY <1>1, <1>3, CountFacts
<1>5. strncmp(m, p, q, n) = IF k = n THEN 0 ELSE m[p + k] - m[q + k]
  BY DEF strncmp
<1> HIDE DEF k
<1>6. k \in Nat /\ k <= a
  BY <1>1, <1>4
<1>7. k <= b
  <2>1. SUFFICES ASSUME b < k PROVE FALSE
    BY <1>2, <1>6
  <2>2. b \in 0 .. k - 1
    BY <1>2, <1>6, <2>1
  <2>3. b \in C
    BY <1>4, <2>2
  <2> QED
    BY <1>2, <2>3
<1>8. ASSUME NEW i \in 1 .. k PROVE t[i] = u[i]
  <2> DEFINE j == i - 1
  <2>1. j \in 0 .. k - 1 /\ j \in 0 .. a - 1 /\ j \in 0 .. b - 1 /\ i = j + 1
    BY <1>1, <1>2, <1>6, <1>7
  <2> HIDE DEF j
  <2>2. j \in C
    BY <1>4, <2>1
  <2>3. m[p + j] = m[q + j]
    BY <2>2
  <2> QED
    BY <1>1, <1>2, <2>1, <2>3
<1>9. k # n => m[p + k] = After(t, k)
  <2>1. k = a \/ k \in 0 .. a - 1
    BY <1>1, <1>6
  <2> QED
    BY <1>1, <1>6, <2>1 DEF After
<1>10. k # n => m[q + k] = After(u, k)
  <2>1. k = b \/ k \in 0 .. b - 1
    BY <1>2, <1>6, <1>7
  <2> QED
    BY <1>2, <1>6, <1>7, <2>1 DEF After
<1>11. k < a => After(t, k) = t[k + 1] /\ t[k + 1] # 0
  <2>1. k < a => k \in 0 .. a - 1
    BY <1>1, <1>6
  <2> QED
    BY <1>1, <2>1 DEF After
<1>12. k < b => After(u, k) = u[k + 1] /\ u[k + 1] # 0
  <2>1. k < b => k \in 0 .. b - 1
    BY <1>2, <1>6
  <2> QED
    BY <1>2, <2>1 DEF After
<1>13. PartAt(t, u, k)
  <2>1. ASSUME k < a, k < b PROVE t[k + 1] # u[k + 1]
    <3>0. k # n /\ k < n
      BY <1>1, <1>6, <2>1
    <3>1. m[p + k] # 0
      BY <1>9, <1>11, <2>1, <3>0
    <3>2. m[p + k] # m[q + k]
      BY <1>4, <1>6, <3>0, <3>1
    <3> QED
      BY <1>9, <1>10, <1>11, <1>12, <2>1, <3>0, <3>2
  <2> HIDE DEF C
  <2> QED
    BY <1>1, <1>2, <1>6, <1>7, <1>8, <2>1 DEF PartAt
<1>14. /\ k = Len(t) => After(u, k) # 0 \/ k = Len(u)
       /\ k = Len(u) => After(t, k) # 0 \/ k = Len(t)
  BY <1>1, <1>2, <1>6, <1>7, <1>11, <1>12
<1> HIDE DEF C
<1>15. Order(After(t, k) - After(u, k), t, u)
  BY <1>1, <1>2, <1>13, <1>14, OrderAt
<1>16. k = n => After(t, k) = 0 /\ After(u, k) = 0
  BY <1>1, <1>2, <1>6, <1>7 DEF After
<1>17. strncmp(m, p, q, n) = After(t, k) - After(u, k)
  BY <1>5, <1>9, <1>10, <1>16
<1> QED
  BY <1>15, <1>17 DEF t, u

\* The bytes compared by memcmp may be 0, but there are as many of both.
LEMMA MemcmpKeepsContract ==
  ASSUME NEW m \in Memory, NEW p \in Addr, NEW q \in Addr, NEW n \in Nat, InMem(p, n), InMem(q, n)
  PROVE  Order(memcmp(m, p, q, n), Bytes(m, p, n), Bytes(m, q, n))
<1> DEFINE t == Bytes(m, p, n)
           u == Bytes(m, q, n)
           C == {j \in Nat : j < n /\ m[p + j] = m[q + j]}
           k == Count(C)
<1>1. p \in Nat /\ q \in Nat /\ p + n <= MEM /\ q + n <= MEM /\ MEM \in Nat
  BY StringsAssumption DEF Addr, InMem
<1>2. ASSUME NEW x \in Addr, x + n <= MEM
      PROVE  /\ Bytes(m, x, n) \in Seq(Byte) /\ Len(Bytes(m, x, n)) = n
             /\ \A j \in 0 .. n - 1 : Bytes(m, x, n)[j + 1] = m[x + j]
  <2> DEFINE v == Bytes(m, x, n)
  <2>1. v = [i \in 1 .. n |-> m[x + i - 1]]
    BY DEF Bytes
  <2>2. ASSUME NEW i \in 1 .. n PROVE m[x + i - 1] \in Byte
    <3>1. x + i - 1 \in Addr
      BY <1>1, <1>2 DEF Addr
    <3> QED
      BY <3>1 DEF Memory
  <2> HIDE DEF v
  <2>3. v \in Seq(Byte) /\ Len(v) = n
    BY <2>1, <2>2
  <2>4. ASSUME NEW j \in 0 .. n - 1 PROVE v[j + 1] = m[x + j]
    <3> DEFINE i == j + 1
    <3>1. i \in 1 .. n /\ x + i - 1 = x + j
      BY DEF Addr
    <3> HIDE DEF i
    <3>2. v[i] = m[x + j]
      BY <2>1, <3>1
    <3> QED
      BY <3>2 DEF i
  <2> QED
    BY <2>3, <2>4 DEF v
<1>3. t \in Seq(Byte) /\ Len(t) = n /\ \A j \in 0 .. n - 1 : t[j + 1] = m[p + j]
  BY <1>1, <1>2
<1>4. u \in Seq(Byte) /\ Len(u) = n /\ \A j \in 0 .. n - 1 : u[j + 1] = m[q + j]
  BY <1>1, <1>2
<1> HIDE DEF t, u
<1>5. n \notin C
  OBVIOUS
<1>6. k \in 0 .. n /\ k \notin C /\ \A j \in 0 .. k - 1 : j \in C
  <2> HIDE DEF C
  <2> QED
    BY <1>5, CountFacts
<1>7. memcmp(m, p, q, n) = IF k < n THEN m[p + k] - m[q + k] ELSE 0
  BY DEF memcmp
<1> HIDE DEF k
<1>8. ASSUME NEW i \in 1 .. k PROVE t[i] = u[i]
  <2> DEFINE j == i - 1
  <2>1. j \in 0 .. k - 1 /\ j \in 0 .. n - 1 /\ i = j + 1
    BY <1>6
  <2> HIDE DEF j
  <2>2. j \in C
    BY <1>6, <2>1
  <2>3. m[p + j] = m[q + j]
    BY <2>2
  <2> QED
    BY <1>3, <1>4, <2>1, <2>3
<1>9. ASSUME k < n PROVE t[k + 1] = m[p + k] /\ u[k + 1] = m[q + k] /\ t[k + 1] # u[k + 1]
  <2>1. k \in 0 .. n - 1 /\ k \in Nat
    BY <1>6, <1>9
  <2>2. m[p + k] # m[q + k]
    BY <1>6, <1>9, <2>1
  <2> QED
    BY <1>3, <1>4, <2>1, <2>2
<1> HIDE DEF C
<1>10. PartAt(t, u, k)
  BY <1>3, <1>4, <1>6, <1>8, <1>9 DEF PartAt
<1>11. k = Len(t) <=> k = Len(u)
  BY <1>3, <1>4
<1>12. Order(After(t, k) - After(u, k), t, u)
  BY <1>3, <1>4, <1>10, <1>11, OrderAt
<1>13. memcmp(m, p, q, n) = After(t, k) - After(u, k)
  BY <1>3, <1>4, <1>6, <1>7, <1>9 DEF After
<1> QED
  BY <1>12, <1>13 DEF t, u

----------------------------------------------------------------------------
\* Searches.

LEMMA FirstIs ==
  ASSUME NEW S \in SUBSET Nat, NEW x \in S, \A y \in S : x <= y
  PROVE  First(S) = x
<1>1. \A z \in S : (\A y \in S : z <= y) => z = x
  OBVIOUS
<1>2. S # {}
  OBVIOUS
<1> QED
  BY <1>1, <1>2 DEF First

\* A search of n bytes from s, one after the other, for one with property P.
LEMMA SearchFacts ==
  ASSUME NEW s \in Addr, NEW n \in Nat, s + n <= MEM, NEW P, NEW k \in 0 .. n,
         \A j \in 0 .. k - 1 : s + j \notin P, k < n => s + k \in P
  PROVE  First({x \in Region(s, n) : x \in P}) = IF k < n THEN s + k ELSE NULL
<1> DEFINE S == {x \in Region(s, n) : x \in P}
<1>1. s \in Nat /\ MEM \in Nat
  BY StringsAssumption DEF Addr
<1>2. ASSUME NEW x \in S PROVE x \in Nat /\ s + k <= x /\ x < s + n
  <2>1. x \in Nat /\ s <= x /\ x < s + n /\ x \in P
    BY DEF Region, Addr
  <2>2. ASSUME x < s + k PROVE FALSE
    <3> DEFINE j == x - s
    <3>1. j \in 0 .. k - 1 /\ s + j = x
      BY <1>1, <2>1, <2>2
    <3> HIDE DEF j
    <3> QED
      BY <2>1, <3>1
  <2> QED
    BY <1>1, <2>1, <2>2
<1>3. k < n => s + k \in S
  BY <1>1 DEF Region, Addr
<1> HIDE DEF S
<1>4. CASE k < n
  <2> DEFINE x == s + k
  <2>1. x \in S /\ S \in SUBSET Nat /\ \A y \in S : x <= y
    BY <1>2, <1>3, <1>4
  <2> HIDE DEF x
  <2>2. First(S) = x
    BY <2>1, FirstIs
  <2> QED
    BY <1>4, <2>2 DEF x, S
<1>5. CASE ~(k < n)
  <2>1. S = {}
    <3>1. SUFFICES ASSUME NEW x \in S PROVE FALSE
      OBVIOUS
    <3> QED
      BY <1>1, <1>2, <1>5
  <2>2. First(S) = NULL
    BY <2>1 DEF First
  <2> QED
    BY <1>5, <2>2 DEF S
<1> QED
  BY <1>4, <1>5

LEMMA MemchrKeepsContract ==
  ASSUME NEW m \in Memory, NEW s \in Addr, NEW c, NEW n \in Nat, InMem(s, n)
  PROVE  memchr(m, s, c, n) = First({x \in Region(s, n) : m[x] = c % BYTE})
<1> DEFINE v == c % BYTE
           C == {j \in Nat : j < n /\ m[s + j] # v}
           P == {x \in Addr : m[x] = v}
           k == Count(C)
<1>1. n \notin C
  OBVIOUS
<1>2. k \in 0 .. n /\ k \notin C /\ \A j \in 0 .. k - 1 : j \in C
  <2> HIDE DEF C
  <2> QED
    BY <1>1, CountFacts
<1>3. memchr(m, s, c, n) = IF k < n THEN s + k ELSE NULL
  BY DEF memchr
<1> HIDE DEF k, v
<1>4. s + n <= MEM /\ s \in Nat /\ MEM \in Nat
  BY StringsAssumption DEF InMem, Addr
<1>5. \A j \in 0 .. k - 1 : s + j \notin P
  BY <1>2
<1>6. ASSUME k < n PROVE s + k \in P
  <2>1. s + k \in Addr
    BY <1>2, <1>4, <1>6 DEF Addr
  <2> QED
    BY <1>2, <1>6, <2>1
<1>7. {x \in Region(s, n) : x \in P} = {x \in Region(s, n) : m[x] = v}
  BY DEF Region
<1> HIDE DEF P, C
<1>8. First({x \in Region(s, n) : x \in P}) = IF k < n THEN s + k ELSE NULL
  BY <1>2, <1>4, <1>5, <1>6, SearchFacts
<1> QED
  BY <1>3, <1>7, <1>8 DEF v

\* strfind stops at the end of the string at the latest.
LEMMA StrfindStops ==
  ASSUME NEW m \in Memory, NEW s \in Addr, NEW e \in Addr, EndsAt(m, s, e), NEW c \in Byte
  PROVE  \E k \in 0 .. e - s :
            /\ strfind(m, s, c) = s + k /\ s + k \in Addr
            /\ \A j \in 0 .. k - 1 : m[s + j] # 0 /\ m[s + j] # c
            /\ m[s + k] = 0 \/ m[s + k] = c
            /\ m[s + k] = 0 <=> k = e - s
<1> DEFINE l == e - s
           C == {j \in Nat : m[s + j] # 0 /\ m[s + j] # c}
           k == Count(C)
<1>1. l \in Nat /\ m[s + l] = 0 /\ \A j \in 0 .. l - 1 : m[s + j] # 0
  BY TextBytes
<1>2. s \in Nat /\ e \in Nat /\ MEM \in Nat /\ e < MEM
  BY StringsAssumption DEF Addr
<1>3. s + l < MEM
  BY <1>2
<1> HIDE DEF l
<1>4. l \notin C
  BY <1>1
<1>5. k \in 0 .. l /\ k \notin C /\ \A j \in 0 .. k - 1 : j \in C
  <2> HIDE DEF C
  <2> QED
    BY <1>1, <1>4, CountFacts
<1>6. strfind(m, s, c) = s + k
  BY DEF strfind
<1> HIDE DEF k
<1>7. s + k \in Addr /\ k \in Nat
  BY <1>1, <1>2, <1>3, <1>5 DEF Addr
<1>8. m[s + k] = 0 \/ m[s + k] = c
  BY <1>5, <1>7
<1>9. m[s + k] = 0 <=> k = l
  <2>1. k # l => k \in 0 .. l - 1
    BY <1>1, <1>5
  <2> QED
    BY <1>1, <2>1
<1>10. \A j \in 0 .. k - 1 : m[s + j] # 0 /\ m[s + j] # c
  BY <1>5
<1> QED
  BY <1>5, <1>6, <1>7, <1>8, <1>9, <1>10 DEF l

LEMMA StrfindKeepsContract ==
  ASSUME NEW m \in Memory, NEW s \in Addr, NEW e \in Addr, EndsAt(m, s, e), NEW c \in Byte
  PROVE  strfind(m, s, c) = First({x \in Region(s, Len(Text(m, s)) + 1) : m[x] \in {c, 0}})
<1> DEFINE l == e - s
           n == l + 1
           P == {x \in Addr : m[x] \in {c, 0}}
<1>1. Len(Text(m, s)) = l /\ l \in Nat
  BY TextBytes
<1>2. PICK k \in 0 .. e - s :
            /\ strfind(m, s, c) = s + k /\ s + k \in Addr
            /\ \A j \in 0 .. k - 1 : m[s + j] # 0 /\ m[s + j] # c
            /\ m[s + k] = 0 \/ m[s + k] = c
            /\ m[s + k] = 0 <=> k = e - s
  BY StrfindStops
<1>3. s + n <= MEM
  BY StringsAssumption DEF Addr
<1>4. n \in Nat /\ k \in 0 .. n /\ k < n
  BY <1>1
<1>5. s + k \in P /\ \A j \in 0 .. k - 1 : s + j \notin P
  BY <1>2
<1>6. {x \in Region(s, n) : x \in P} = {x \in Region(s, n) : m[x] \in {c, 0}}
  BY DEF Region
<1> HIDE DEF n, P
<1>7. First({x \in Region(s, n) : x \in P}) = s + k
  BY <1>3, <1>4, <1>5, SearchFacts
<1> QED
  BY <1>1, <1>2, <1>6, <1>7 DEF n

LEMMA StrchrKeepsContract ==
  ASSUME NEW m \in Memory, NEW s \in Addr, NEW e \in Addr, EndsAt(m, s, e), NEW c \in Byte
  PROVE  strchr(m, s, c) = First({x \in Region(s, Len(Text(m, s))) : m[x] = c})
<1> DEFINE l == e - s
           P == {x \in Addr : m[x] = c}
<1>1. Len(Text(m, s)) = l /\ l \in Nat
  BY TextBytes
<1>2. PICK k \in 0 .. e - s :
            /\ strfind(m, s, c) = s + k /\ s + k \in Addr
            /\ \A j \in 0 .. k - 1 : m[s + j] # 0 /\ m[s + j] # c
            /\ m[s + k] = 0 \/ m[s + k] = c
            /\ m[s + k] = 0 <=> k = e - s
  BY StrfindStops
<1>3. s + l <= MEM
  BY StringsAssumption DEF Addr
<1>4. k \in 0 .. l /\ (k = l <=> ~(k < l))
  BY <1>1
<1>5. (k < l => s + k \in P) /\ \A j \in 0 .. k - 1 : s + j \notin P
  BY <1>1, <1>2
<1>6. {x \in Region(s, l) : x \in P} = {x \in Region(s, l) : m[x] = c}
  BY DEF Region
<1>7. strchr(m, s, c) = IF k < l THEN s + k ELSE NULL
  BY <1>2, <1>4 DEF strchr
<1> HIDE DEF l, P
<1>8. First({x \in Region(s, l) : x \in P}) = IF k < l THEN s + k ELSE NULL
  BY <1>1, <1>3, <1>4, <1>5, SearchFacts
<1> QED
  BY <1>1, <1>6, <1>7, <1>8

----------------------------------------------------------------------------
\* The calls.

LEMMA CallKeeps ==
  ASSUME NEW f, NEW a, NEW b, NEW n, NEW m, NEW r,
         Call(f, a, b, n, m, r), m \in Memory, Contract(f, a, b, n, mem, m, r)
  PROVE  (mem \in Memory /\ KeepsContract)'
<1> DEFINE c == [f |-> f, a |-> a, b |-> b, n |-> n]
<1>1. call' = c /\ before' = mem /\ mem' = m /\ ret' = r
  BY DEF Call
<1>2. c.f = f /\ c.a = a /\ c.b = b /\ c.n = n
  OBVIOUS
<1>3. KeepsContract' <=> Contract(c.f, c.a, c.b, c.n, mem, m, r)
  <2>1. KeepsContract' <=> Contract(call'.f, call'.a, call'.b, call'.n, before', mem', ret')
    BY DEF KeepsContract
  <2> QED
    BY <1>1, <2>1
<1>4. Memory' = Memory
  BY DEF Memory, Addr, Byte
<1> QED
  BY <1>1, <1>2, <1>3, <1>4

\* A call of a function of a string finds its end.
LEMMA Ends ==
  ASSUME mem \in Memory, NEW p \in Addr, Terminated(p)
  PROVE  \E e \in Addr : EndsAt(mem, p, e)
BY StringEnds DEF Terminated

\* Strings and calls: every call leaves a memory and keeps its contract.
StrInv == mem \in Memory /\ KeepsContract

LEMMA SetCallKeeps ==
  ASSUME StrInv, NEW p \in Addr, NEW c \in Fill, NEW n \in 0 .. MEM, SetCall(p, c, n)
  PROVE  StrInv'
<1> DEFINE m == memset(mem, p, c, n)
<1>1. mem \in Memory /\ n \in Nat /\ c \in Int
  BY StringsAssumption DEF StrInv
<1>2. m \in Memory /\ Fills(mem, m, p, c, n)
  BY <1>1, MemsetKeepsContract
<1>3. Call("memset", p, c, n, m, p)
  BY DEF SetCall
<1> HIDE DEF m
<1>4. Contract("memset", p, c, n, mem, m, p)
  BY <1>2 DEF Contract
<1> QED
  BY ONLY <1>2, <1>3, <1>4, CallKeeps DEF StrInv

LEMMA MoveCallKeeps ==
  ASSUME StrInv, NEW p \in Addr, NEW q \in Addr, NEW n \in 0 .. MEM, MoveCall(p, q, n)
  PROVE  StrInv'
<1> DEFINE m == memmove(mem, p, q, n)
<1>1. mem \in Memory /\ n \in Nat
  BY StringsAssumption DEF StrInv
<1>2. m \in Memory /\ Moves(mem, m, p, q, n)
  BY <1>1, MoveKeepsContract DEF MoveCall
<1>3. Call("memmove", p, q, n, m, p)
  BY DEF MoveCall
<1> HIDE DEF m
<1>4. Contract("memmove", p, q, n, mem, m, p)
  BY <1>2 DEF Contract
<1> QED
  BY ONLY <1>2, <1>3, <1>4, CallKeeps DEF StrInv

LEMMA StrcpyCallKeeps ==
  ASSUME StrInv, NEW p \in Addr, NEW q \in Addr, StrcpyCall(p, q)
  PROVE  StrInv'
<1> DEFINE m == strcpy(mem, p, q)
           z == 0
<1>1. mem \in Memory
  BY DEF StrInv
<1>2. PICK e \in Addr : EndsAt(mem, q, e)
  BY <1>1, Ends DEF StrcpyCall
<1>3. m \in Memory /\ Copies(mem, m, p, q)
  BY <1>1, <1>2, StrcpyKeepsContract DEF StrcpyCall
<1>4. Call("strcpy", p, q, z, m, p)
  BY DEF StrcpyCall
<1> HIDE DEF m, z
<1>5. Contract("strcpy", p, q, z, mem, m, p)
  BY <1>3 DEF Contract
<1> QED
  BY ONLY <1>3, <1>4, <1>5, CallKeeps DEF StrInv

LEMMA BoundedCopyCallKeeps ==
  ASSUME StrInv, NEW p \in Addr, NEW q \in Addr, NEW n \in 0 .. MEM, BoundedCopyCall(p, q, n)
  PROVE  StrInv'
<1> DEFINE m == strncpy(mem, p, q, n)
           l == strlcpy(mem, p, q, n)
           r == IF n > 0 THEN Lcpy(mem, q, n) ELSE 0
<1>1. mem \in Memory /\ n \in Nat /\ InMem(p, n) /\ Apart(p, q, n)
  BY StringsAssumption DEF StrInv, BoundedCopyCall
<1>2. PICK e \in Addr : EndsAt(mem, q, e)
  BY <1>1, Ends DEF BoundedCopyCall
<1>3. m \in Memory /\ CopiesPadded(mem, m, p, q, n)
  BY <1>1, <1>2, StrncpyKeepsContract
<1>4. l \in Memory /\ CopiesCut(mem, l, p, q, n, r)
  BY <1>1, <1>2, StrlcpyKeepsContract
<1>5. Call("strncpy", p, q, n, m, p) \/ Call("strlcpy", p, q, n, l, r)
  BY DEF BoundedCopyCall
<1> HIDE DEF m, l, r
<1>6. Contract("strncpy", p, q, n, mem, m, p) /\ Contract("strlcpy", p, q, n, mem, l, r)
  BY <1>3, <1>4 DEF Contract
<1> QED
  BY ONLY <1>3, <1>4, <1>5, <1>6, CallKeeps DEF StrInv

LEMMA LengthCallKeeps ==
  ASSUME StrInv, NEW p \in Addr, NEW n \in 0 .. MEM, LengthCall(p, n)
  PROVE  StrInv'
<1> DEFINE z == 0
           t == Text(mem, p)
           r == strlen(mem, p)
           s == strnlen(mem, p, n)
<1>1. mem \in Memory /\ n \in Nat
  BY StringsAssumption DEF StrInv
<1>2. PICK e \in Addr : EndsAt(mem, p, e)
  BY <1>1, Ends DEF LengthCall
<1>3. t \in Seq(Byte) /\ Len(t) = e - p
  BY <1>1, <1>2, TextFacts
<1>4. r = e - p /\ s = Least(e - p, n)
  BY <1>1, <1>2, Lengths
<1>5. Call("strlen", p, z, n, mem, r) \/ Call("strnlen", p, z, n, mem, s)
  BY DEF LengthCall
<1> HIDE DEF t
<1>6. Len(Cut(t, n)) = Least(Len(t), n)
  BY <1>1, <1>3, CutFacts
<1>7. r = Len(t) /\ s = Len(Cut(t, n))
  BY <1>3, <1>4, <1>6
<1> HIDE DEF z, r, s
<1>8. Contract("strlen", p, z, n, mem, mem, r) /\ Contract("strnlen", p, z, n, mem, mem, s)
  BY <1>7 DEF Contract, t
<1> QED
  BY ONLY <1>1, <1>5, <1>8, CallKeeps DEF StrInv

LEMMA CompareCallKeeps ==
  ASSUME StrInv, NEW p \in Addr, NEW q \in Addr, NEW n \in 0 .. MEM, CompareCall(p, q, n)
  PROVE  StrInv'
<1>1. mem \in Memory /\ n \in Nat
  BY StringsAssumption DEF StrInv
<1>2. CASE InMem(p, n) /\ InMem(q, n) /\ Call("memcmp", p, q, n, mem, memcmp(mem, p, q, n))
  <2> DEFINE r == memcmp(mem, p, q, n)
  <2>1. Order(r, Bytes(mem, p, n), Bytes(mem, q, n))
    BY <1>1, <1>2, MemcmpKeepsContract
  <2>2. Call("memcmp", p, q, n, mem, r)
    BY <1>2
  <2> HIDE DEF r
  <2>3. Contract("memcmp", p, q, n, mem, mem, r)
    BY <2>1 DEF Contract
  <2> QED
    BY ONLY <1>1, <2>2, <2>3, CallKeeps DEF StrInv
<1>3. CASE /\ Terminated(p) /\ Terminated(q)
           /\ \/ n = 0 /\ Call("strcmp", p, q, n, mem, strcmp(mem, p, q))
              \/ Call("strncmp", p, q, n, mem, strncmp(mem, p, q, n))
  <2> DEFINE r == strcmp(mem, p, q)
             s == strncmp(mem, p, q, n)
  <2>1. PICK e \in Addr : EndsAt(mem, p, e)
    BY <1>1, <1>3, Ends
  <2>2. PICK f \in Addr : EndsAt(mem, q, f)
    BY <1>1, <1>3, Ends
  <2>3. Order(r, Text(mem, p), Text(mem, q))
    BY <1>1, <2>1, <2>2, StrcmpKeepsContract
  <2>4. Order(s, Cut(Text(mem, p), n), Cut(Text(mem, q), n))
    BY <1>1, <2>1, <2>2, StrncmpKeepsContract
  <2>5. Call("strcmp", p, q, n, mem, r) \/ Call("strncmp", p, q, n, mem, s)
    BY <1>3
  <2> HIDE DEF r, s
  <2>6. Contract("strcmp", p, q, n, mem, mem, r) /\ Contract("strncmp", p, q, n, mem, mem, s)
    BY <2>3, <2>4 DEF Contract
  <2> QED
    BY ONLY <1>1, <2>5, <2>6, CallKeeps DEF StrInv
<1> QED
  BY <1>2, <1>3 DEF CompareCall

LEMMA SearchCallKeeps ==
  ASSUME StrInv, NEW p \in Addr, NEW c \in Fill, NEW n \in 0 .. MEM, SearchCall(p, c, n)
  PROVE  StrInv'
<1>1. mem \in Memory /\ n \in Nat
  BY StringsAssumption DEF StrInv
<1>2. CASE InMem(p, n) /\ Call("memchr", p, c, n, mem, memchr(mem, p, c, n))
  <2> DEFINE r == memchr(mem, p, c, n)
  <2>1. r = First({x \in Region(p, n) : mem[x] = c % BYTE})
    BY <1>1, <1>2, MemchrKeepsContract
  <2>2. Call("memchr", p, c, n, mem, r)
    BY <1>2
  <2> HIDE DEF r
  <2>3. Contract("memchr", p, c, n, mem, mem, r)
    BY <2>1 DEF Contract
  <2> QED
    BY ONLY <1>1, <2>2, <2>3, CallKeeps DEF StrInv
<1>3. CASE /\ Terminated(p) /\ n = 0 /\ c \in Byte
           /\ \/ Call("strchr", p, c, n, mem, strchr(mem, p, c))
              \/ Call("strfind", p, c, n, mem, strfind(mem, p, c))
  <2> DEFINE r == strchr(mem, p, c)
             s == strfind(mem, p, c)
  <2>1. PICK e \in Addr : EndsAt(mem, p, e)
    BY <1>1, <1>3, Ends
  <2>2. r = First({x \in Region(p, Len(Text(mem, p))) : mem[x] = c})
    BY <1>1, <1>3, <2>1, StrchrKeepsContract
  <2>3. s = First({x \in Region(p, Len(Text(mem, p)) + 1) : mem[x] \in {c, 0}})
    BY <1>1, <1>3, <2>1, StrfindKeepsContract
  <2>4. Call("strchr", p, c, n, mem, r) \/ Call("strfind", p, c, n, mem, s)
    BY <1>3
  <2> HIDE DEF r, s
  <2>5. Contract("strchr", p, c, n, mem, mem, r) /\ Contract("strfind", p, c, n, mem, mem, s)
    BY <2>2, <2>3 DEF Contract
  <2> QED
    BY ONLY <1>1, <2>4, <2>5, CallKeeps DEF StrInv
<1> QED
  BY <1>2, <1>3 DEF SearchCall

\* No call has been made yet, or none is under way.
LEMMA ReadyKeeps == ASSUME call = Ready PROVE KeepsContract
BY DEF Ready, KeepsContract, Contract

LEMMA ReturnedKeeps == ASSUME StrInv, Returned PROVE StrInv'
<1>1. call' = Ready /\ mem' = mem /\ Ready' = Ready /\ Memory' = Memory
  BY DEF Returned, Ready, Memory, Addr, Byte
<1>2. KeepsContract'
  <2>1. call'.f = "none"
    BY <1>1 DEF Ready
  <2>2. KeepsContract' <=> Contract(call'.f, call'.a, call'.b, call'.n, before', mem', ret')
    BY DEF KeepsContract
  <2> QED
    BY <2>1, <2>2 DEF Contract
<1> QED
  BY <1>1, <1>2 DEF StrInv

LEMMA StrNextKeeps == ASSUME StrInv, StrNext PROVE StrInv'
<1>1. CASE AnyCall
  <2>1. PICK p \in Addr, n \in 0 .. MEM :
          \/ LengthCall(p, n)
          \/ \E c \in Fill : SetCall(p, c, n) \/ SearchCall(p, c, n)
          \/ \E q \in Addr :
                \/ MoveCall(p, q, n) \/ BoundedCopyCall(p, q, n) \/ CompareCall(p, q, n)
                \/ n = 0 /\ StrcpyCall(p, q)
    BY <1>1 DEF AnyCall
  <2> QED
    BY <2>1, LengthCallKeeps, SetCallKeeps, SearchCallKeeps, MoveCallKeeps, BoundedCopyCallKeeps,
       CompareCallKeeps, StrcpyCallKeeps
<1> QED
  BY <1>1, ReturnedKeeps DEF StrNext

(***************************************************************************)
(* The contract of the memory and string functions holds after every call, *)
(* for every memory and word size, every placement, alignment, overlap and *)
(* length of the arguments: memmove's choice of the direction and of the   *)
(* unit never lets it read a byte it has already written, the copies stay  *)
(* in their bounds, and comparisons and searches stop where they must.     *)
(***************************************************************************)
THEOREM StringsKeepContract == LibSpec => []KeepsContract
<1>1. LibInit => StrInv
  <2> SUFFICES ASSUME LibInit PROVE StrInv
    OBVIOUS
  <2>1. call = Ready
    BY DEF LibInit, StrInit
  <2>2. mem \in Memory
    <3>1. 0 \in Byte
      BY StringsAssumption DEF Byte
    <3> QED
      BY <3>1 DEF LibInit, StrInit, Memory
  <2> QED
    BY <2>1, <2>2, ReadyKeeps DEF StrInv
<1>2. StrInv /\ [LibNext]_<<strVars, fmtVars>> => StrInv'
  <2> SUFFICES ASSUME StrInv, [LibNext]_<<strVars, fmtVars>> PROVE StrInv'
    OBVIOUS
  <2>1. CASE StrNext
    BY <2>1, StrNextKeeps
  <2>2. CASE UNCHANGED strVars
    <3>1. mem' = mem /\ call' = call /\ before' = before /\ ret' = ret
      BY <2>2 DEF strVars
    <3>2. KeepsContract' <=> KeepsContract
      BY <3>1 DEF KeepsContract
    <3>3. Memory' = Memory
      BY DEF Memory, Addr, Byte
    <3> QED
      BY <3>1, <3>2, <3>3 DEF StrInv
  <2> QED
    BY <2>1, <2>2 DEF LibNext
<1>3. StrInv => KeepsContract
  BY DEF StrInv
<1> QED
  BY <1>1, <1>2, <1>3, PTL DEF LibSpec

----------------------------------------------------------------------------
\* Sequences, whatever they are of.

IsSeq(s) == \E S : s \in Seq(S)

LEMMA SeqOver ==
  ASSUME NEW s, NEW t, IsSeq(s), IsSeq(t)
  PROVE  \E S : s \in Seq(S) /\ t \in Seq(S)
<1>1. PICK S : s \in Seq(S)
  BY DEF IsSeq
<1>2. PICK T : t \in Seq(T)
  BY DEF IsSeq
<1>3. ASSUME NEW U, NEW u \in Seq(U), NEW V, U \subseteq V PROVE u \in Seq(V)
  <2>1. Len(u) \in Nat /\ u \in [1 .. Len(u) -> U]
    OBVIOUS
  <2>2. u \in [1 .. Len(u) -> V]
    BY <1>3, <2>1
  <2> QED
    BY <2>1, <2>2
<1>4. s \in Seq(S \cup T) /\ t \in Seq(S \cup T)
  BY <1>1, <1>2, <1>3
<1> QED
  BY <1>4

LEMMA SeqFacts ==
  ASSUME NEW s, IsSeq(s), NEW c
  PROVE  /\ Len(s) \in Nat /\ IsSeq(<<c>>)
         /\ IsSeq(Append(s, c)) /\ Len(Append(s, c)) = Len(s) + 1
         /\ \E S : s \in Seq(S) /\ c \in S
<1>1. <<c>> \in Seq({c})
  OBVIOUS
<1>2. IsSeq(<<c>>)
  BY <1>1 DEF IsSeq
<1>3. PICK S : s \in Seq(S) /\ <<c>> \in Seq(S)
  BY <1>2, SeqOver
<1>4. c \in S
  <2>1. <<c>>[1] \in S
    BY <1>3
  <2> QED
    BY <2>1
<1>5. Append(s, c) \in Seq(S) /\ Len(Append(s, c)) = Len(s) + 1 /\ Len(s) \in Nat
  BY <1>3, <1>4
<1> QED
  BY <1>2, <1>3, <1>4, <1>5 DEF IsSeq

LEMMA ConcatFacts ==
  ASSUME NEW s, NEW t, IsSeq(s), IsSeq(t)
  PROVE  IsSeq(s \o t) /\ Len(s \o t) = Len(s) + Len(t)
<1>1. PICK S : s \in Seq(S) /\ t \in Seq(S)
  BY SeqOver
<1>2. s \o t \in Seq(S) /\ Len(s \o t) = Len(s) + Len(t)
  BY <1>1
<1> QED
  BY <1>2 DEF IsSeq

\* s \o (t with c) is s \o t with c.
LEMMA ConcatAppend ==
  ASSUME NEW s, NEW t, IsSeq(s), IsSeq(t), NEW c
  PROVE  s \o Append(t, c) = Append(s \o t, c)
<1>1. PICK S : s \in Seq(S) /\ t \in Seq(S)
  BY SeqOver
<1>2. PICK T : t \in Seq(T) /\ c \in T
  BY SeqFacts
<1>3. IsSeq(Append(t, c)) /\ IsSeq(s \o t) /\ IsSeq(s \o Append(t, c)) /\ IsSeq(Append(s \o t, c))
  BY SeqFacts, ConcatFacts
<1>4. PICK U : s \in Seq(U) /\ Append(t, c) \in Seq(U)
  BY <1>3, SeqOver
<1>5. PICK V : s \o t \in Seq(V) /\ c \in V
  BY <1>3, SeqFacts
<1>6. /\ Len(s) \in Nat /\ Len(t) \in Nat /\ Len(Append(t, c)) = Len(t) + 1 /\ Len(s \o t) = Len(s) + Len(t)
      /\ \A k \in 1 .. Len(s) : (s \o t)[k] = s[k]
      /\ \A k \in 1 .. Len(t) : (s \o t)[Len(s) + k] = t[k]
      /\ \A k \in 1 .. Len(t) : Append(t, c)[k] = t[k]
      /\ Append(t, c)[Len(t) + 1] = c
  BY <1>1, <1>2
<1>7. /\ Len(s \o Append(t, c)) = Len(s) + Len(t) + 1
      /\ \A k \in 1 .. Len(s) : (s \o Append(t, c))[k] = s[k]
      /\ \A k \in 1 .. Len(t) + 1 : (s \o Append(t, c))[Len(s) + k] = Append(t, c)[k]
  BY <1>4, <1>6
<1>8. /\ Len(Append(s \o t, c)) = Len(s) + Len(t) + 1
      /\ \A k \in 1 .. Len(s) + Len(t) : Append(s \o t, c)[k] = (s \o t)[k]
      /\ Append(s \o t, c)[Len(s) + Len(t) + 1] = c
  BY <1>5, <1>6
<1> DEFINE a == s \o Append(t, c)
           b == Append(s \o t, c)
           n == Len(s) + Len(t) + 1
<1>9. ASSUME NEW k \in 1 .. n PROVE a[k] = b[k]
  <2>1. CASE k \in 1 .. Len(s)
    <3>1. k \in 1 .. Len(s) + Len(t)
      BY <1>6, <2>1
    <3> QED
      BY <1>6, <1>7, <1>8, <2>1, <3>1
  <2>2. CASE k \notin 1 .. Len(s)
    <3> DEFINE j == k - Len(s)
    <3>1. j \in 1 .. Len(t) + 1 /\ k = Len(s) + j
      BY <1>6, <2>2
    <3> HIDE DEF j
    <3>2. a[k] = Append(t, c)[j]
      BY <1>7, <3>1
    <3>3. CASE j = Len(t) + 1
      <4>1. k = n
        BY <1>6, <3>1, <3>3
      <4> QED
        BY <1>6, <1>8, <3>2, <3>3, <4>1
    <3>4. CASE j \in 1 .. Len(t)
      <4>1. k \in 1 .. Len(s) + Len(t)
        BY <1>6, <3>1, <3>4
      <4> QED
        BY <1>6, <1>8, <3>1, <3>2, <3>4, <4>1
    <3> QED
      BY <1>6, <3>1, <3>3, <3>4
  <2> QED
    BY <2>1, <2>2
<1>10. PICK S2 : a \in Seq(S2) /\ b \in Seq(S2)
  BY <1>3, SeqOver
<1>11. Len(a) = n /\ Len(b) = n
  BY <1>7, <1>8
<1> HIDE DEF a, b
<1>12. a = b
  <2>1. \A k \in 1 .. Len(a) : a[k] = b[k]
    BY <1>9, <1>11
  <2> HIDE DEF n
  <2> QED
    BY <1>10, <1>11, <2>1, SeqEqual
<1> QED
  BY <1>12 DEF a, b

\* Of a sequence with c, the cut is the same, or all of it.
LEMMA CutAppend ==
  ASSUME NEW t, IsSeq(t), NEW c, NEW n \in Nat
  PROVE  /\ Len(t) < n => Cut(t, n) = t /\ Cut(Append(t, c), n) = Append(t, c)
         /\ ~(Len(t) < n) => Cut(Append(t, c), n) = Cut(t, n) /\ Len(Cut(t, n)) = n
         /\ IsSeq(Cut(t, n)) /\ Len(Cut(t, n)) <= n
<1>1. PICK S : t \in Seq(S) /\ c \in S
  BY SeqFacts
<1> DEFINE u == Append(t, c)
           l == Len(t)
<1>2. u \in Seq(S) /\ Len(u) = l + 1 /\ l \in Nat /\ \A k \in 1 .. l : u[k] = t[k]
  BY <1>1
<1>3. ASSUME NEW v \in Seq(S), NEW i \in 0 .. Len(v)
      PROVE  LET w == SubSeq(v, 1, i) IN w \in Seq(S) /\ Len(w) = i /\ \A k \in 1 .. i : w[k] = v[k]
  OBVIOUS
<1> HIDE DEF u
<1>4. ASSUME NEW v \in Seq(S) PROVE SubSeq(v, 1, Len(v)) = v
  <2> DEFINE w == SubSeq(v, 1, Len(v))
  <2>1. w \in Seq(S) /\ Len(w) = Len(v) /\ \A k \in 1 .. Len(v) : w[k] = v[k]
    BY <1>3
  <2> HIDE DEF w
  <2>2. w = v
    BY <2>1, SeqEqual
  <2> QED
    BY <2>2 DEF w
<1>5. CASE l < n
  <2>1. Cut(t, n) = SubSeq(t, 1, l)
    BY <1>5 DEF Cut
  <2>2. Cut(u, n) = SubSeq(u, 1, l + 1)
    <3>1. (IF l + 1 < n THEN l + 1 ELSE n) = l + 1
      BY <1>2, <1>5
    <3> QED
      BY <1>2, <3>1 DEF Cut
  <2>3. Cut(t, n) = t /\ Cut(u, n) = u
    BY <1>1, <1>2, <1>4, <2>1, <2>2
  <2> QED
    BY <1>1, <1>2, <1>5, <2>3 DEF IsSeq, u
<1>6. CASE ~(l < n)
  <2> DEFINE a == SubSeq(t, 1, n)
             b == SubSeq(u, 1, n)
  <2>1. Cut(t, n) = a
    BY <1>6 DEF Cut
  <2>2. Cut(u, n) = b
    <3>1. (IF l + 1 < n THEN l + 1 ELSE n) = n
      BY <1>2, <1>6
    <3> QED
      BY <1>2, <3>1 DEF Cut
  <2>3. n \in 0 .. Len(t) /\ n \in 0 .. Len(u)
    BY <1>2, <1>6
  <2>4. /\ a \in Seq(S) /\ Len(a) = n /\ \A k \in 1 .. n : a[k] = t[k]
        /\ b \in Seq(S) /\ Len(b) = n /\ \A k \in 1 .. n : b[k] = u[k]
    BY <1>1, <1>2, <1>3, <2>3
  <2> HIDE DEF a, b
  <2>5. \A k \in 1 .. n : a[k] = b[k]
    <3>1. \A k \in 1 .. n : k \in 1 .. l
      BY <1>2, <1>6
    <3> QED
      BY <1>2, <2>4, <3>1
  <2>6. a = b
    BY <2>4, <2>5, SeqEqual
  <2> QED
    BY <1>6, <2>1, <2>2, <2>4, <2>6 DEF IsSeq, u
<1> QED
  BY <1>5, <1>6

----------------------------------------------------------------------------
\* The consumers.

Room == IF job.size > 0 THEN job.size - 1 ELSE 0

CallOK == job.call \in {"printf", "vsprintf", "vsnprintf"} /\ job.size \in Nat

\* What the consumer has made of the text t so far.
Taken(b, t) ==
    /\ b = [buf |-> b.buf, cnt |-> b.cnt, console |-> b.console]
    /\ IsSeq(t) /\ IsSeq(b.buf) /\ b.cnt = Len(t)
    /\ job.call = "printf" => /\ Len(b.buf) + 1 <= MAX_BUF - 1
                              /\ ~Contains(t, "NUL") => IsSeq(b.console) /\ b.console \o b.buf = t
    /\ job.call = "vsprintf" => b.buf = t
    /\ job.call = "vsnprintf" => b.buf = Cut(t, Room)

\* A record with two fields changed.
Store(b, v, w) == [b EXCEPT !.buf = v, !.cnt = w]

LEMMA Stored ==
  ASSUME NEW b, NEW x, NEW y, NEW z, b = [buf |-> x, cnt |-> y, console |-> z], NEW v, NEW w
  PROVE  Store(b, v, w) = [buf |-> v, cnt |-> w, console |-> z]
<1> USE DEF Store
<1> DEFINE a == [b EXCEPT !.buf = v]
<1>1. [b EXCEPT !.buf = v, !.cnt = w] = [a EXCEPT !.cnt = w]
  OBVIOUS
<1>2. a = [buf |-> v, cnt |-> y, console |-> z]
  OBVIOUS
<1> HIDE DEF a
<1> QED
  BY <1>1, <1>2

\* A NUL that is not in a sequence is in no part of it.
LEMMA NoNul ==
  ASSUME NEW t, IsSeq(t), NEW c, ~Contains(Append(t, c), "NUL")
  PROVE  ~Contains(t, "NUL") /\ c # "NUL"
<1>1. PICK S : t \in Seq(S) /\ c \in S
  BY SeqFacts
<1>2. Len(t) \in Nat /\ Len(Append(t, c)) = Len(t) + 1 /\ Append(t, c)[Len(t) + 1] = c
      /\ \A k \in 1 .. Len(t) : Append(t, c)[k] = t[k]
  BY <1>1
<1>3. \A k \in 1 .. Len(t) + 1 : Append(t, c)[k] # "NUL"
  BY <1>2 DEF Contains
<1> QED
  BY <1>2, <1>3 DEF Contains

LEMMA NoNulSuffix ==
  ASSUME NEW s, NEW t, IsSeq(s), IsSeq(t), ~Contains(s \o t, "NUL")
  PROVE  UpToNul(t) = t
<1>1. PICK S : s \in Seq(S) /\ t \in Seq(S)
  BY SeqOver
<1>2. /\ Len(s) \in Nat /\ Len(t) \in Nat /\ Len(s \o t) = Len(s) + Len(t)
      /\ \A k \in 1 .. Len(t) : (s \o t)[Len(s) + k] = t[k]
  BY <1>1
<1>3. \A i \in 1 .. Len(s) + Len(t) : (s \o t)[i] # "NUL"
  BY <1>2 DEF Contains
<1>4. ASSUME NEW k \in 1 .. Len(t) PROVE t[k] # "NUL"
  <2> DEFINE i == Len(s) + k
  <2>1. i \in 1 .. Len(s) + Len(t)
    BY <1>2
  <2>2. (s \o t)[i] = t[k]
    BY <1>2
  <2> HIDE DEF i
  <2> QED
    BY <1>3, <2>1, <2>2
<1>5. ~Contains(t, "NUL")
  BY <1>4 DEF Contains
<1> QED
  BY <1>5 DEF UpToNul

\* The buffer is flushed: what was to come is on the console.
LEMMA FlushTakes ==
  ASSUME NEW b, NEW t, IsSeq(t), IsSeq(b.buf), b = [buf |-> b.buf, cnt |-> b.cnt, console |-> b.console],
         ~Contains(t, "NUL") => IsSeq(b.console) /\ b.console \o b.buf = t
  PROVE  LET g == Flush(b)
         IN  /\ g = [buf |-> g.buf, cnt |-> g.cnt, console |-> g.console]
             /\ g.buf = <<>> /\ g.cnt = b.cnt
             /\ ~Contains(t, "NUL") => IsSeq(g.console) /\ g.console = t
<1> DEFINE buf == b.buf
           cnt == b.cnt
           console == b.console
           g == Flush(b)
<1>1. g = [buf |-> <<>>, cnt |-> cnt, console |-> console \o UpToNul(buf)]
  <2>1. b = [buf |-> buf, cnt |-> cnt, console |-> console]
    OBVIOUS
  <2> HIDE DEF buf, cnt, console
  <2>2. g = [b EXCEPT !.console = @ \o UpToNul(buf), !.buf = <<>>]
    BY DEF Flush, buf
  <2> HIDE DEF g
  <2> QED
    BY <2>1, <2>2
<1>2. ASSUME ~Contains(t, "NUL") PROVE UpToNul(buf) = buf /\ console \o buf = t
  BY <1>2, NoNulSuffix
<1> HIDE DEF buf, cnt, console, g
<1>3. /\ g = [buf |-> g.buf, cnt |-> g.cnt, console |-> g.console] /\ g.buf = <<>> /\ g.cnt = cnt
      /\ g.console = console \o UpToNul(buf)
  BY <1>1
<1> QED
  BY <1>2, <1>3 DEF g, cnt

LEMMA PutchTakes ==
  ASSUME CallOK, NEW b, NEW t, NEW c, Taken(b, t)
  PROVE  Taken(putch(b, c), Append(t, c))
<1> DEFINE u == Append(t, c)
           buf == b.buf
           cnt == b.cnt
           console == b.console
           more == Append(buf, c)
           filled == [buf |-> more, cnt |-> cnt + 1, console |-> console]
<1>1. /\ b = [buf |-> buf, cnt |-> cnt, console |-> console]
      /\ IsSeq(t) /\ IsSeq(buf) /\ cnt = Len(t)
      /\ job.call = "printf" => /\ Len(buf) + 1 <= MAX_BUF - 1
                                /\ ~Contains(t, "NUL") => IsSeq(console) /\ console \o buf = t
      /\ job.call = "vsprintf" => buf = t
      /\ job.call = "vsnprintf" => buf = Cut(t, Room)
  BY DEF Taken
<1>2. /\ IsSeq(u) /\ IsSeq(more) /\ Len(u) = Len(t) + 1 /\ Len(more) = Len(buf) + 1
      /\ Len(t) \in Nat /\ Len(buf) \in Nat
  BY <1>1, SeqFacts
<1>3. ASSUME job.call = "printf", ~Contains(u, "NUL") PROVE IsSeq(console) /\ console \o more = u
  <2>1. ~Contains(t, "NUL")
    BY <1>1, <1>3, NoNul
  <2>2. IsSeq(console) /\ console \o buf = t
    BY <1>1, <1>3, <2>1
  <2>3. IsSeq(buf)
    BY <1>1
  <2> HIDE DEF buf, console
  <2>4. console \o Append(buf, c) = Append(console \o buf, c)
    <3>1. IsSeq(console) /\ IsSeq(buf)
      BY <2>2, <2>3
    <3> QED
      BY ONLY <3>1, ConcatAppend, SMTT(60)
  <2> QED
    BY ONLY <2>2, <2>4, Zenon DEF more, u
<1>4. /\ filled = [b EXCEPT !.buf = Append(@, c), !.cnt = @ + 1]
      /\ filled.buf = more /\ filled.cnt = cnt + 1 /\ filled.console = console
  <2> DEFINE k == cnt + 1
  <2>1. [b EXCEPT !.buf = Append(@, c), !.cnt = @ + 1] = Store(b, more, k)
    BY DEF Store
  <2>2. b = [buf |-> buf, cnt |-> cnt, console |-> console]
    BY <1>1
  <2>3. filled = [buf |-> more, cnt |-> k, console |-> console]
    OBVIOUS
  <2> HIDE DEF buf, cnt, console, more, k, filled
  <2>4. Store(b, more, k) = filled
    BY ONLY <2>2, <2>3, Stored
  <2>5. filled.buf = more /\ filled.cnt = k /\ filled.console = console
    BY ONLY <2>3
  <2> QED
    BY ONLY <2>1, <2>4, <2>5, Zenon DEF k
<1> HIDE DEF buf, cnt, console
<1>5. MAX_BUF \in Nat /\ MAX_BUF >= 2
  BY FormatAssumption
<1> HIDE DEF u, more, filled
<1>6. CASE job.call = "printf"
  <2>1. putch(b, c) = IF Len(more) = MAX_BUF - 1 THEN Flush(filled) ELSE filled
    BY <1>4, <1>6 DEF putch, printf_putch
  <2>2. CASE Len(more) = MAX_BUF - 1
    <3> DEFINE g == Flush(filled)
    <3>1. filled = [buf |-> filled.buf, cnt |-> filled.cnt, console |-> filled.console]
      BY <1>4 DEF filled
    <3>2. /\ g = [buf |-> g.buf, cnt |-> g.cnt, console |-> g.console]
          /\ g.buf = <<>> /\ g.cnt = filled.cnt
          /\ ~Contains(u, "NUL") => IsSeq(g.console) /\ g.console = u
      <4>1. IsSeq(u) /\ IsSeq(filled.buf)
        BY <1>2, <1>4
      <4>2. ~Contains(u, "NUL") => IsSeq(filled.console) /\ filled.console \o filled.buf = u
        BY ONLY <1>3, <1>4, <1>6, Zenon
      <4> QED
        BY ONLY <3>1, <4>1, <4>2, FlushTakes, Zenon
    <3> HIDE DEF g
    <3>3. IsSeq(<<>>) /\ Len(<<>>) = 0
      <4>1. <<>> \in Seq({0})
        OBVIOUS
      <4> QED
        BY <4>1 DEF IsSeq
    <3>4. g.cnt = Len(u) /\ Len(g.buf) + 1 <= MAX_BUF - 1
      BY <1>1, <1>2, <1>4, <1>5, <3>2, <3>3
    <3>5. ~Contains(u, "NUL") => g.console \o g.buf = u
      <4>1. ASSUME IsSeq(u) PROVE u \o <<>> = u
        <5>1. PICK S : u \in Seq(S)
          BY <4>1 DEF IsSeq
        <5> QED
          BY <5>1
      <4> QED
        BY <1>2, <3>2, <4>1
    <3> QED
      BY <1>2, <1>6, <2>1, <2>2, <3>2, <3>3, <3>4, <3>5 DEF Taken, g, u
  <2>3. CASE Len(more) # MAX_BUF - 1
    <3>1. Len(more) + 1 <= MAX_BUF - 1
      BY <1>1, <1>2, <1>5, <1>6, <2>3
    <3>2. filled = [buf |-> filled.buf, cnt |-> filled.cnt, console |-> filled.console]
      BY <1>4 DEF filled
    <3> QED
      BY <1>1, <1>2, <1>3, <1>4, <1>6, <2>1, <2>3, <3>1, <3>2 DEF Taken, u
  <2> QED
    BY <2>2, <2>3
<1>7. CASE job.call # "printf"
  <2> DEFINE keep == job.call = "vsprintf" \/ Len(buf) < job.size - 1
             g == [buf |-> IF keep THEN more ELSE buf, cnt |-> cnt + 1, console |-> console]
  <2>1. putch(b, c) = g
    <3>1. putch(b, c) = [b EXCEPT !.buf = IF job.call = "vsprintf" \/ Len(@) < job.size - 1
                                            THEN Append(@, c) ELSE @, !.cnt = @ + 1]
      BY <1>7 DEF putch, sprintputch
    <3> QED
      BY <1>1, <3>1 DEF more
  <2>2. g = [buf |-> g.buf, cnt |-> g.cnt, console |-> g.console]
        /\ g.buf = (IF keep THEN more ELSE buf) /\ g.cnt = cnt + 1
    OBVIOUS
  <2> HIDE DEF g
  <2>3. job.call = "vsprintf" => g.buf = u
    BY <1>1, <2>2 DEF u, more
  <2>4. job.call = "vsnprintf" => g.buf = Cut(u, Room)
    <3> SUFFICES ASSUME job.call = "vsnprintf" PROVE g.buf = Cut(u, Room)
      OBVIOUS
    <3>1. job.size \in Nat /\ Room \in Nat /\ \A l \in Nat : l < job.size - 1 <=> l < Room
      BY DEF CallOK, Room
    <3>2. /\ Len(t) < Room => Cut(t, Room) = t /\ Cut(u, Room) = u
          /\ ~(Len(t) < Room) => Cut(u, Room) = Cut(t, Room) /\ Len(Cut(t, Room)) = Room
      BY <1>1, <3>1, CutAppend DEF u
    <3>3. buf = Cut(t, Room)
      BY <1>1
    <3>4. keep <=> Len(buf) < Room
      BY <1>2, <3>1
    <3>5. CASE Len(t) < Room
      BY <2>2, <3>2, <3>3, <3>4, <3>5 DEF more, u
    <3>6. CASE ~(Len(t) < Room)
      BY <2>2, <3>1, <3>2, <3>3, <3>4, <3>6
    <3> QED
      BY <3>5, <3>6
  <2>5. IsSeq(g.buf) /\ g.cnt = Len(u)
    BY <1>1, <1>2, <2>2
  <2> QED
    BY <1>2, <1>7, <2>1, <2>2, <2>3, <2>4, <2>5 DEF Taken, u
<1> QED
  BY <1>6, <1>7

----------------------------------------------------------------------------
\* All characters of a text, one after the other.

PutRun(f, n, s) == f = [k \in 0 .. n |-> IF k = 0 THEN out ELSE putch(f[k - 1], s[k])]

LEMMA PutRuns ==
  ASSUME NEW s, NEW n \in Nat
  PROVE  \E f : PutRun(f, n, s)
<1> DEFINE T == {i \in Nat : \E f : PutRun(f, i, s)}
<1>1. 0 \in T
  <2> DEFINE f == [k \in 0 .. 0 |-> out]
             g == [k \in 0 .. 0 |-> IF k = 0 THEN out ELSE putch(f[k - 1], s[k])]
  <2>1. \A k \in 0 .. 0 : f[k] = g[k]
    OBVIOUS
  <2>2. f = g
    BY <2>1
  <2>3. PutRun(f, 0, s)
    BY <2>2 DEF PutRun
  <2> QED
    BY <2>3
<1>2. ASSUME NEW i \in T PROVE i + 1 \in T
  <2>1. PICK f : PutRun(f, i, s)
    OBVIOUS
  <2>2. i \in Nat
    OBVIOUS
  <2> DEFINE g == [k \in 0 .. i + 1 |-> IF k <= i THEN f[k] ELSE putch(f[i], s[i + 1])]
             h == [k \in 0 .. i + 1 |-> IF k = 0 THEN out ELSE putch(g[k - 1], s[k])]
  <2>3. f[0] = out /\ \A k \in 1 .. i : f[k] = putch(f[k - 1], s[k])
    BY <2>1, <2>2 DEF PutRun
  <2>4. ASSUME NEW k \in 0 .. i + 1 PROVE g[k] = h[k]
    <3> HIDE DEF T
    <3>1. CASE k = 0
      BY <2>2, <2>3, <3>1
    <3>2. CASE k \in 1 .. i
      <4>1. g[k] = f[k] /\ g[k - 1] = f[k - 1]
        BY <2>2, <3>2
      <4> QED
        BY <2>2, <2>3, <3>2, <4>1
    <3>3. CASE k = i + 1
      <4>1. g[k] = putch(f[i], s[k]) /\ k - 1 = i /\ g[k - 1] = f[i] /\ k # 0
        BY <2>2, <3>3
      <4> QED
        BY <4>1
    <3> QED
      BY <2>2, <3>1, <3>2, <3>3
  <2>5. g = h
    BY <2>4
  <2>6. PutRun(g, i + 1, s)
    BY <2>5 DEF PutRun
  <2> QED
    BY <2>2, <2>6
<1>3. T = Nat
  <2> HIDE DEF T
  <2> QED
    BY <1>1, <1>2, SetInduction DEF T
<1> QED
  BY <1>3

\* A part of a sequence, and one more.
LEMMA OneMore == ASSUME NEW s, IsSeq(s), NEW k \in 0 .. Len(s) - 1
  PROVE  /\ IsSeq(SubSeq(s, 1, k)) /\ SubSeq(s, 1, k + 1) = Append(SubSeq(s, 1, k), s[k + 1])
         /\ SubSeq(s, 1, 0) = <<>> /\ SubSeq(s, 1, Len(s)) = s
<1>1. PICK S : s \in Seq(S)
  BY DEF IsSeq
<1>2. ASSUME NEW i \in 0 .. Len(s)
      PROVE  LET w == SubSeq(s, 1, i) IN w \in Seq(S) /\ Len(w) = i /\ \A j \in 1 .. i : w[j] = s[j]
  BY <1>1
<1> DEFINE a == SubSeq(s, 1, k)
           b == SubSeq(s, 1, k + 1)
           c == Append(a, s[k + 1])
<1>3. k \in Nat /\ k \in 0 .. Len(s) /\ k + 1 \in 0 .. Len(s) /\ k + 1 \in 1 .. Len(s) /\ Len(s) \in Nat
  BY <1>1
<1>4. /\ a \in Seq(S) /\ Len(a) = k /\ \A j \in 1 .. k : a[j] = s[j]
      /\ b \in Seq(S) /\ Len(b) = k + 1 /\ \A j \in 1 .. k + 1 : b[j] = s[j]
      /\ s[k + 1] \in S
  BY <1>1, <1>2, <1>3
<1> HIDE DEF a, b
<1>5. c \in Seq(S) /\ Len(c) = k + 1 /\ c[k + 1] = s[k + 1] /\ \A j \in 1 .. k : c[j] = a[j]
  BY <1>3, <1>4
<1>6. \A j \in 1 .. k + 1 : b[j] = c[j]
  BY <1>3, <1>4, <1>5
<1> HIDE DEF c
<1>7. b = c
  BY <1>4, <1>5, <1>6, SeqEqual
<1>8. SubSeq(s, 1, Len(s)) = s
  <2> DEFINE w == SubSeq(s, 1, Len(s))
  <2>1. w \in Seq(S) /\ Len(w) = Len(s) /\ \A j \in 1 .. Len(s) : w[j] = s[j]
    BY <1>2, <1>3
  <2> HIDE DEF w
  <2>2. w = s
    BY <1>1, <2>1, SeqEqual
  <2> QED
    BY <2>2 DEF w
<1>9. SubSeq(s, 1, 0) = <<>>
  BY <1>1
<1> QED
  BY <1>4, <1>7, <1>8, <1>9 DEF IsSeq, a, b, c

\* A text that is put is taken.
LEMMA PutTakes ==
  ASSUME CallOK, Taken(out, text), NEW s, IsSeq(s), Put(s)
  PROVE  \E b, t : Taken(b, t) /\ out' = b /\ text' = t
<1> DEFINE n == Len(s)
           Part(k) == text \o SubSeq(s, 1, k)
           after == CHOOSE f : PutRun(f, n, s)
<1>1. n \in Nat /\ IsSeq(text)
  BY SeqFacts DEF Taken
<1>2. out' = after[n] /\ text' = text \o s
  BY DEF Put, PutRun
<1>3. PutRun(after, n, s)
  BY <1>1, PutRuns
<1> HIDE DEF after, n
<1>4. after[0] = out /\ \A k \in 1 .. n : after[k] = putch(after[k - 1], s[k])
  BY <1>1, <1>3 DEF PutRun
<1>5. ASSUME n = 0 PROVE Taken(after[n], text \o s)
  <2>1. PICK S : s \in Seq(S) /\ text \in Seq(S)
    BY <1>1, SeqOver
  <2>2. text \o s = text
    BY <1>5, <2>1 DEF n
  <2> QED
    BY <1>4, <1>5, <2>2
<1>6. ASSUME n # 0 PROVE Taken(after[n], text \o s)
  <2> DEFINE T == {k \in Nat : k <= n => Taken(after[k], Part(k))}
  <2>0. SubSeq(s, 1, 0) = <<>> /\ SubSeq(s, 1, n) = s
    <3>1. 0 \in 0 .. Len(s) - 1
      BY <1>1, <1>6 DEF n
    <3> QED
      BY <3>1, OneMore DEF n
  <2>1. 0 \in T
    <3>1. PICK S : text \in Seq(S)
      BY <1>1 DEF IsSeq
    <3>2. Part(0) = text
      BY <2>0, <3>1
    <3> HIDE DEF Part
    <3> QED
      BY <1>4, <3>2
  <2>2. ASSUME NEW k \in T PROVE k + 1 \in T
    <3>1. SUFFICES ASSUME k + 1 <= n PROVE Taken(after[k + 1], Part(k + 1))
      OBVIOUS
    <3>2. k \in Nat /\ k \in 0 .. n - 1 /\ k <= n /\ k + 1 \in 1 .. n /\ k + 1 - 1 = k
      <4> HIDE DEF Part
      <4> QED
        BY <1>1, <3>1
    <3>3. Taken(after[k], Part(k))
      BY <3>2
    <3> DEFINE c == s[k + 1]
    <3>4. after[k + 1] = putch(after[k], c)
      BY <1>4, <3>2
    <3>5. /\ IsSeq(SubSeq(s, 1, k)) /\ SubSeq(s, 1, k + 1) = Append(SubSeq(s, 1, k), c)
      BY <3>2, OneMore DEF n
    <3>6. Part(k + 1) = Append(Part(k), c)
      <4> DEFINE p == SubSeq(s, 1, k)
      <4> HIDE DEF c, p
      <4>1. text \o Append(p, c) = Append(text \o p, c)
        BY ONLY <1>1, <3>5, ConcatAppend DEF p
      <4> QED
        BY <3>5, <4>1 DEF p
    <3> HIDE DEF Part, c
    <3>7. Taken(putch(after[k], c), Append(Part(k), c))
      BY <3>3, PutchTakes
    <3> QED
      BY <3>4, <3>6, <3>7
  <2>3. T = Nat
    <3> HIDE DEF T
    <3> QED
      BY <2>1, <2>2, SetInduction DEF T
  <2>4. Taken(after[n], Part(n))
    BY <1>1, <2>3
  <2> QED
    BY <2>0, <2>4
<1> QED
  BY <1>2, <1>5, <1>6

----------------------------------------------------------------------------
\* What the conversions print are sequences.

LEMMA PadIsSeq == ASSUME NEW n \in Int, NEW c PROVE IsSeq(Pad(n, c))
<1>1. CASE n > 0
  <2>1. [k \in 1 .. n |-> c] \in Seq({c})
    BY <1>1
  <2> QED
    BY <1>1, <2>1 DEF Pad, IsSeq
<1>2. CASE ~(n > 0)
  <2>1. <<>> \in Seq({c})
    OBVIOUS
  <2> QED
    BY <1>2, <2>1 DEF Pad, IsSeq
<1> QED
  BY <1>1, <1>2

\* The digits of the numbers up to n, for every width.
Digits(f, n, w, base, padc) ==
    (IF n >= base THEN f[n \div base][w - 1] ELSE Pad(w - 1, padc)) \o <<Digit[(n % base) + 1]>>

PrintRun(f, num, base, padc) == f = [n \in 0 .. num |-> [w \in Int |-> Digits(f, n, w, base, padc)]]

LEMMA Smaller ==
  ASSUME NEW n \in Nat, NEW base \in Nat, base >= 2, n >= base
  PROVE  n \div base \in 0 .. n - 1
<1>1. n \div base \in Nat /\ n % base \in 0 .. base - 1 /\ n = base * (n \div base) + (n % base)
  <2>1. base \in Nat \ {0}
    OBVIOUS
  <2> QED
    BY ONLY <2>1, n \in Nat, DivFacts
<1> DEFINE q == n \div base
<1> HIDE DEF q
<1>2. q \in Nat /\ n >= base * q
  BY <1>1 DEF q
<1>3. base * q >= 2 * q
  <2>1. q = 0 \/ q \in Nat \ {0}
    BY <1>2
  <2>2. ASSUME q \in Nat \ {0} PROVE 2 * q <= base * q
    <3> DEFINE two == 2
    <3>1. two \in Int /\ base \in Int /\ two <= base
      OBVIOUS
    <3> HIDE DEF two
    <3>2. two * q <= base * q
      BY ONLY <2>2, <3>1, MulOrder
    <3> QED
      BY <3>2 DEF two
  <2>3. ASSUME q = 0 PROVE 2 * q <= base * q
    BY <2>3
  <2> QED
    BY <1>2, <2>1, <2>2, <2>3
<1> DEFINE p == base * q
<1>4. p \in Nat
  BY <1>2
<1> HIDE DEF p
<1>5. n >= p /\ p >= 2 * q
  BY <1>2, <1>3 DEF p
<1>6. q <= n - 1
  BY <1>2, <1>4, <1>5
<1> QED
  BY <1>2, <1>6 DEF q

LEMMA PrintRuns ==
  ASSUME NEW num \in Nat, NEW base \in Nat, base >= 2, NEW padc
  PROVE  \E f : PrintRun(f, num, base, padc)
<1> DEFINE T == {i \in Nat : \E f : PrintRun(f, i, base, padc)}
<1>0. ASSUME NEW n \in Nat, NEW w \in Int, NEW f, NEW g, n >= base => f[n \div base] = g[n \div base]
      PROVE  Digits(f, n, w, base, padc) = Digits(g, n, w, base, padc)
  BY <1>0 DEF Digits
<1>1. 0 \in T
  <2> DEFINE e == <<>>
             f == [n \in 0 .. 0 |-> [w \in Int |-> Digits(e, n, w, base, padc)]]
             g == [n \in 0 .. 0 |-> [w \in Int |-> Digits(f, n, w, base, padc)]]
  <2>1. ASSUME NEW n \in 0 .. 0 PROVE [w \in Int |-> Digits(e, n, w, base, padc)] = [w \in Int |-> Digits(f, n, w, base, padc)]
    <3>1. n \in Nat /\ ~(n >= base)
      OBVIOUS
    <3>2. ASSUME NEW w \in Int PROVE Digits(e, n, w, base, padc) = Digits(f, n, w, base, padc)
      <4> HIDE DEF e, f
      <4> QED
        BY <1>0, <3>1
    <3> HIDE DEF e, f
    <3> QED
      BY <3>2
  <2>2. f = g
    <3> HIDE DEF e
    <3> QED
      BY <2>1
  <2> HIDE DEF f
  <2>3. PrintRun(f, 0, base, padc)
    BY <2>2 DEF PrintRun
  <2> QED
    BY <2>3
<1>2. ASSUME NEW i \in T PROVE i + 1 \in T
  <2>1. PICK f : PrintRun(f, i, base, padc)
    OBVIOUS
  <2>2. i \in Nat
    OBVIOUS
  <2> HIDE DEF T
  <2> DEFINE g == [n \in 0 .. i + 1 |-> IF n <= i THEN f[n] ELSE [w \in Int |-> Digits(f, n, w, base, padc)]]
             h == [n \in 0 .. i + 1 |-> [w \in Int |-> Digits(g, n, w, base, padc)]]
  <2>3. \A n \in 0 .. i : f[n] = [w \in Int |-> Digits(f, n, w, base, padc)]
    BY <2>1 DEF PrintRun
  <2>4. \A n \in 0 .. i : g[n] = f[n]
    BY <2>2
  <2>5. ASSUME NEW n \in 0 .. i + 1 PROVE g[n] = [w \in Int |-> Digits(f, n, w, base, padc)]
    BY <2>2, <2>3
  <2> HIDE DEF g
  <2>6. ASSUME NEW n \in 0 .. i + 1, NEW w \in Int PROVE Digits(f, n, w, base, padc) = Digits(g, n, w, base, padc)
    <3>1. ASSUME n >= base PROVE f[n \div base] = g[n \div base]
      <4>1. n \div base \in 0 .. n - 1
        <5>1. n \in Nat
          BY <2>2
        <5> QED
          BY ONLY <3>1, <5>1, base \in Nat, base >= 2, Smaller
      <4> DEFINE q == n \div base
      <4> HIDE DEF q
      <4>2. q \in 0 .. i
        BY <2>2, <4>1 DEF q
      <4> QED
        BY <2>4, <4>2 DEF q
    <3>2. n \in Nat
      BY <2>2
    <3> QED
      BY <1>0, <3>1, <3>2
  <2>7. ASSUME NEW n \in 0 .. i + 1 PROVE g[n] = h[n]
    <3>1. [w \in Int |-> Digits(f, n, w, base, padc)] = [w \in Int |-> Digits(g, n, w, base, padc)]
      BY <2>6
    <3> QED
      BY <2>5, <3>1
  <2>8. g = h
    <3>1. DOMAIN g = 0 .. i + 1 /\ g = [n \in DOMAIN g |-> g[n]]
      BY DEF g
    <3>2. DOMAIN h = 0 .. i + 1 /\ h = [n \in DOMAIN h |-> h[n]]
      OBVIOUS
    <3> HIDE DEF h
    <3> QED
      BY <2>7, <3>1, <3>2
  <2>9. PrintRun(g, i + 1, base, padc)
    BY <2>8 DEF PrintRun
  <2> QED
    BY <2>2, <2>9 DEF T
<1>3. T = Nat
  <2> HIDE DEF T
  <2> QED
    BY <1>1, <1>2, SetInduction DEF T
<1> QED
  BY <1>3

LEMMA PrintnumIsSeq ==
  ASSUME NEW num \in Nat, NEW base \in Nat, base >= 2, NEW width \in Int, NEW padc
  PROVE  IsSeq(printnum(num, base, width, padc))
<1> DEFINE print == CHOOSE f : PrintRun(f, num, base, padc)
<1>1. printnum(num, base, width, padc) = print[num][width]
  BY DEF printnum, PrintRun, Digits
<1>2. PrintRun(print, num, base, padc)
  BY PrintRuns
<1> HIDE DEF print
<1>3. \A n \in 0 .. num : \A w \in Int : print[n][w] = Digits(print, n, w, base, padc)
  <2>1. \A n \in 0 .. num : print[n] = [w \in Int |-> Digits(print, n, w, base, padc)]
    BY <1>2 DEF PrintRun
  <2> QED
    BY <2>1
<1> DEFINE T == {i \in Nat : \A n \in 0 .. i : n <= num => \A w \in Int : IsSeq(print[n][w])}
<1>4. ASSUME NEW n \in Nat, n <= num, NEW w \in Int,
             \A k \in 0 .. n - 1 : \A v \in Int : IsSeq(print[k][v])
      PROVE  IsSeq(print[n][w])
  <2> DEFINE s == IF n >= base THEN print[n \div base][w - 1] ELSE Pad(w - 1, padc)
             c == Digit[(n % base) + 1]
  <2>1. IsSeq(s)
    <3>1. CASE n >= base
      <4>1. n \div base \in 0 .. n - 1
        BY ONLY <3>1, n \in Nat, base \in Nat, base >= 2, Smaller
      <4>2. IsSeq(print[n \div base][w - 1])
        <5>1. w - 1 \in Int
          OBVIOUS
        <5> QED
          BY <1>4, <4>1, <5>1
      <4> QED
        BY <3>1, <4>2
    <3>2. CASE ~(n >= base)
      <4>1. w - 1 \in Int
        OBVIOUS
      <4> QED
        BY <3>2, <4>1, PadIsSeq
    <3> QED
      BY <3>1, <3>2
  <2>2. print[n][w] = s \o <<c>>
    <3>1. n \in 0 .. num
      BY <1>4
    <3>2. print[n][w] = Digits(print, n, w, base, padc)
      BY <1>3, <3>1
    <3>3. Digits(print, n, w, base, padc) = s \o <<c>>
      BY Zenon DEF Digits
    <3> QED
      BY <3>2, <3>3, Zenon
  <2> HIDE DEF s, c
  <2>3. IsSeq(<<c>>)
    BY <2>1, SeqFacts
  <2> QED
    BY <2>1, <2>2, <2>3, ConcatFacts
<1>5. 0 \in T
  <2>1. ASSUME NEW n \in 0 .. 0, n <= num, NEW w \in Int PROVE IsSeq(print[n][w])
    <3>1. n \in Nat /\ \A k \in 0 .. n - 1 : \A v \in Int : IsSeq(print[k][v])
      OBVIOUS
    <3> QED
      BY <1>4, <2>1, <3>1
  <2> QED
    BY <2>1
<1>6. ASSUME NEW i \in T PROVE i + 1 \in T
  <2>1. i \in Nat /\ \A n \in 0 .. i : n <= num => \A w \in Int : IsSeq(print[n][w])
    OBVIOUS
  <2> HIDE DEF T
  <2>2. ASSUME NEW n \in 0 .. i + 1, n <= num, NEW w \in Int PROVE IsSeq(print[n][w])
    <3>1. n \in Nat /\ \A k \in 0 .. n - 1 : \A v \in Int : IsSeq(print[k][v])
      BY <2>1, <2>2
    <3> QED
      BY <1>4, <2>2, <3>1
  <2> QED
    BY <2>1, <2>2 DEF T
<1>7. T = Nat
  <2> HIDE DEF T
  <2> QED
    BY <1>5, <1>6, SetInduction DEF T
<1>8. num \in T /\ num \in 0 .. num
  BY <1>7
<1>9. IsSeq(print[num][width])
  BY <1>8
<1> QED
  BY <1>1, <1>9

LEMMA DigitValueFacts ==
  /\ \A c : DigitValue(c) \in Nat
  /\ ~(DigitValue("NUL") < 10)
<1>1. DOMAIN Digit = 1 .. 16
  BY DEF Digit
<1>2. ASSUME NEW c PROVE DigitValue(c) \in Nat
  <2>1. CASE \E d \in DOMAIN Digit : Digit[d] = c
    <3> DEFINE d == CHOOSE d \in DOMAIN Digit : Digit[d] = c
    <3>1. d \in 1 .. 16
      BY <1>1, <2>1
    <3>2. DigitValue(c) = d - 1
      BY <2>1 DEF DigitValue
    <3> HIDE DEF d
    <3> QED
      BY <3>1, <3>2
  <2>2. CASE ~(\E d \in DOMAIN Digit : Digit[d] = c)
    BY <2>2 DEF DigitValue
  <2> QED
    BY <2>1, <2>2
<1>3. \A d \in 1 .. 16 : Digit[d] # "NUL"
  BY DEF Digit
<1>4. DigitValue("NUL") = 99
  BY <1>1, <1>3 DEF DigitValue
<1> QED
  BY <1>2, <1>4

ValueRun(f, n, s) == f = [k \in 0 .. n |-> IF k = 0 THEN 0 ELSE f[k - 1] * 10 + DigitValue(s[k])]

LEMMA ValueRuns ==
  ASSUME NEW s, NEW n \in Nat
  PROVE  \E f : ValueRun(f, n, s)
<1> DEFINE Step(k, v) == v * 10 + DigitValue(s[k])
           F == [k \in Nat |-> [v \in Nat |-> Step(k, v)]]
<1>1. ASSUME NEW k \in Nat, NEW v \in Nat PROVE Step(k, v) \in Nat
  <2>1. DigitValue(s[k]) \in Nat
    BY DigitValueFacts
  <2> QED
    BY <2>1
<1>2. Rounds(F, Nat) /\ 0 \in Nat
  <2> HIDE DEF Step
  <2> QED
    BY <1>1 DEF Rounds
<1>3. \A k \in Nat : \A v \in Nat : F[k][v] = Step(k, v)
  <2> HIDE DEF Step
  <2> QED
    OBVIOUS
<1> DEFINE zero == 0
<1> HIDE DEF F, zero
<1>4. PICK f : Iterates(f, n, Nat, zero, F)
  <2>1. zero \in Nat
    BY DEF zero
  <2> QED
    BY ONLY <1>2, <2>1, n \in Nat, IterationExists
<1>5. f \in [0 .. n -> Nat] /\ f[0] = 0 /\ \A k \in 1 .. n : f[k] = F[k][f[k - 1]]
  BY <1>4 DEF Iterates, zero
<1> DEFINE g == [k \in 0 .. n |-> IF k = 0 THEN 0 ELSE Step(k, f[k - 1])]
<1>6. ASSUME NEW k \in 0 .. n PROVE f[k] = g[k]
  <2>1. CASE k = 0
    BY <1>5, <2>1
  <2>2. CASE k \in 1 .. n
    <3>1. k \in Nat /\ k - 1 \in 0 .. n
      BY <2>2
    <3>2. f[k - 1] \in Nat
      BY <1>5, <3>1
    <3>3. f[k] = Step(k, f[k - 1])
      BY <1>3, <1>5, <2>2, <3>1, <3>2
    <3> HIDE DEF Step
    <3> QED
      BY <2>2, <3>3
  <2> QED
    BY <2>1, <2>2
<1>7. f = g
  <2>1. DOMAIN f = 0 .. n /\ f = [k \in DOMAIN f |-> f[k]]
    BY <1>5
  <2>2. DOMAIN g = 0 .. n /\ g = [k \in DOMAIN g |-> g[k]]
    OBVIOUS
  <2> HIDE DEF g
  <2> QED
    BY <1>6, <2>1, <2>2
<1> QED
  BY <1>7 DEF ValueRun

LEMMA ValueOfIsNat == ASSUME NEW s, Len(s) \in Nat PROVE ValueOf(s) \in Nat
<1> DEFINE n == Len(s)
           value == CHOOSE f : ValueRun(f, n, s)
<1>1. ValueOf(s) = value[n]
  BY DEF ValueOf, ValueRun
<1>2. ValueRun(value, n, s)
  BY ValueRuns
<1> HIDE DEF value, n
<1>3. n \in Nat
  BY DEF n
<1>4. value[0] = 0 /\ \A k \in 1 .. n : value[k] = value[k - 1] * 10 + DigitValue(s[k])
  BY <1>2, <1>3 DEF ValueRun
<1> DEFINE T == {k \in Nat : k <= n => value[k] \in Nat}
<1>5. 0 \in T
  BY <1>4
<1>6. ASSUME NEW k \in T PROVE k + 1 \in T
  <2>1. SUFFICES ASSUME k + 1 <= n PROVE value[k + 1] \in Nat
    OBVIOUS
  <2>2. k \in Nat /\ k + 1 \in 1 .. n /\ k + 1 - 1 = k /\ value[k] \in Nat
    BY <1>3, <2>1
  <2>3. DigitValue(s[k + 1]) \in Nat
    BY DigitValueFacts
  <2>4. value[k + 1] = value[k] * 10 + DigitValue(s[k + 1])
    BY <1>4, <2>2
  <2> QED
    BY <2>2, <2>3, <2>4
<1>7. T = Nat
  <2> HIDE DEF T
  <2> QED
    BY <1>5, <1>6, SetInduction DEF T
<1>8. value[n] \in Nat
  BY <1>3, <1>7
<1> QED
  BY <1>1, <1>8

----------------------------------------------------------------------------
\* vprintfmt.

Specs == [padc : {" ", "-", "0"}, width : Int, precision : Int, lflag : Nat, altflag : BOOLEAN]

\* What is kept while the format is read; an escape has its % behind it.
Reading ==
    /\ CallOK /\ IsSeq(fmt)
    /\ fp \in Nat \ {0}
    /\ spec \in Specs
    /\ mode = "escape" => \E k \in 1 .. fp - 1 : At(k) = "%"

\* The consumer has all of the text, and printf's buffer is empty.
Given(b, t) ==
    /\ IsSeq(b.buf) /\ b.cnt = Len(t)
    /\ job.call = "printf" => Len(b.buf) + 1 <= MAX_BUF - 1 /\ (~Contains(t, "NUL") => b.console = t)
    /\ job.call = "vsprintf" => b.buf = t
    /\ job.call = "vsnprintf" => b.buf = Cut(t, Room) /\ Len(b.buf) <= Room

OutInv ==
    mode # "idle" =>
        /\ Reading /\ mode \in {"text", "escape", "done", "read"}
        /\ mode \in {"text", "escape"} => Taken(out, text)
        /\ mode \in {"done", "read"} => Given(out, text)

\* The digits of a width end in the format, or with it.
LEMMA DigitsEndIsNat ==
  ASSUME IsSeq(fmt), fp \in Nat \ {0}
  PROVE  /\ DigitsEnd(fp) \in Nat /\ fp <= DigitsEnd(fp) /\ Len(SubSeq(fmt, fp, DigitsEnd(fp) - 1)) \in Nat
         /\ DigitValue(At(fp)) < 10 => fp < DigitsEnd(fp)
<1> DEFINE C == {j \in Nat : DigitValue(At(fp + j)) < 10}
           e == Len(fmt)
<1>1. e \in Nat
  <2>1. PICK S : fmt \in Seq(S)
    BY DEF IsSeq
  <2> QED
    BY <2>1
<1>2. e \notin C
  <2>1. At(fp + e) = "NUL"
    BY <1>1 DEF At
  <2> QED
    BY <2>1, DigitValueFacts
<1> HIDE DEF e
<1>3. Count(C) \in Nat /\ (DigitValue(At(fp)) < 10 => Count(C) # 0)
  <2>1. DigitValue(At(fp)) < 10 => 0 \in C
    <3>1. fp + 0 = fp
      OBVIOUS
    <3> QED
      BY <3>1
  <2> HIDE DEF C
  <2>2. Count(C) \in 0 .. e /\ Count(C) \notin C
    BY <1>1, <1>2, CountFacts
  <2> QED
    BY <1>1, <2>1, <2>2
<1>4. DigitsEnd(fp) = fp + Count(C)
  BY DEF DigitsEnd
<1> DEFINE d == DigitsEnd(fp)
           r == SubSeq(fmt, fp, d - 1)
<1>5. d \in Nat /\ fp <= d /\ (DigitValue(At(fp)) < 10 => fp < d)
  <2> HIDE DEF C
  <2> QED
    BY <1>3, <1>4
<1> HIDE DEF d, C
<1>6. Len(r) \in Nat
  <2> DEFINE n == d - fp
  <2>1. n \in Nat /\ r = [i \in 1 .. n |-> fmt[i + fp - 1]]
    BY <1>5
  <2> HIDE DEF r, n
  <2> QED
    BY <2>1
<1> QED
  BY <1>5, <1>6 DEF d

\* What a step does not change.
Same == job' = job /\ fmt' = fmt /\ number' = number

LEMMA TakenNext ==
  ASSUME NEW b, NEW t, Taken(b, t), out' = b, text' = t, job' = job
  PROVE  Taken(out, text)'
BY DEF Taken, Room

LEMMA GivenNext ==
  ASSUME NEW b, NEW t, Given(b, t), out' = b, text' = t, job' = job
  PROVE  Given(out, text)'
BY DEF Given, Room

\* A step that puts s and goes back to the text after the character.
LEMMA PutsOn ==
  ASSUME OutInv, mode \in {"text", "escape"}, Same, NEW s, IsSeq(s), Put(s), mode' = "text",
         fp' \in Nat \ {0}, spec' = spec
  PROVE  OutInv'
<1>1. Reading /\ Taken(out, text) /\ mode \in {"text", "escape"}
  BY DEF OutInv
<1>2. PICK b, t : Taken(b, t) /\ out' = b /\ text' = t
  BY <1>1, PutTakes DEF Reading
<1>3. Taken(out, text)'
  BY <1>2, TakenNext DEF Same
<1>4. Reading'
  BY <1>1 DEF Reading, CallOK, Same
<1> QED
  BY <1>3, <1>4 DEF OutInv

\* A step that puts nothing.
LEMMA PutsNothing ==
  ASSUME OutInv, mode \in {"text", "escape"}, Same, UNCHANGED <<out, text>>, mode' \in {"text", "escape"}, Reading'
  PROVE  OutInv'
<1>1. Taken(out, text)
  BY DEF OutInv
<1>2. out' = out /\ text' = text /\ job' = job
  BY DEF Same
<1>3. Taken(out, text)'
  BY <1>1, <1>2, TakenNext
<1> QED
  BY <1>3 DEF OutInv

LEMMA PlainKeeps == ASSUME OutInv, Plain, Same PROVE OutInv'
<1>1. Reading /\ mode = "text" /\ Put(<<At(fp)>>) /\ fp' = fp + 1 /\ mode' = mode /\ spec' = spec
  BY DEF OutInv, Plain
<1> DEFINE c == At(fp)
<1> HIDE DEF c
<1>2. IsSeq(<<c>>)
  <2>1. <<c>> \in Seq({c})
    OBVIOUS
  <2> QED
    BY <2>1 DEF IsSeq
<1>3. fp' \in Nat \ {0}
  BY <1>1 DEF Reading
<1> DEFINE s == <<c>>
<1>4. Put(s)
  BY <1>1 DEF c
<1> HIDE DEF s
<1> QED
  BY <1>1, <1>2, <1>3, <1>4, PutsOn DEF s

LEMMA PercentKeeps == ASSUME OutInv, Percent, Same PROVE OutInv'
<1>1. /\ Reading /\ mode = "text" /\ At(fp) = "%" /\ mode' = "escape" /\ spec' = FreshSpec /\ fp' = fp + 1
      /\ UNCHANGED <<out, text>>
  BY DEF OutInv, Percent
<1>2. /\ CallOK /\ IsSeq(fmt) /\ fp \in Nat \ {0} /\ fmt' = fmt /\ job' = job
  BY <1>1 DEF Reading, Same
<1>3. FreshSpec \in Specs
  BY DEF FreshSpec, Specs
<1>4. (\E k \in 1 .. fp - 1 : At(k) = "%")'
  <2>1. fp \in 1 .. fp' - 1
    BY <1>1, <1>2
  <2>2. \E k \in 1 .. fp' - 1 : At(k) = "%"
    BY <1>1, <2>1
  <2> QED
    BY <1>2, <2>2 DEF At
<1>5. CallOK' /\ IsSeq(fmt)'
  BY <1>2 DEF CallOK
<1>6. fp' \in Nat \ {0}
  BY <1>1, <1>2
<1>7. Reading'
  BY <1>1, <1>3, <1>4, <1>5, <1>6 DEF Reading
<1> QED
  BY <1>1, <1>7, PutsNothing

LEMMA EndKeeps == ASSUME OutInv, End, Same PROVE OutInv'
<1>1. /\ Reading /\ Taken(out, text) /\ mode = "text" /\ mode' = "done" /\ UNCHANGED <<fp, spec, text>>
      /\ out' = IF job.call = "printf" THEN Flush(out) ELSE out
  BY DEF OutInv, End
<1>2. CallOK
  BY <1>1 DEF Reading
<1>3. /\ out = [buf |-> out.buf, cnt |-> out.cnt, console |-> out.console]
      /\ IsSeq(text) /\ IsSeq(out.buf) /\ out.cnt = Len(text)
      /\ job.call = "printf" => /\ Len(out.buf) + 1 <= MAX_BUF - 1
                                /\ ~Contains(text, "NUL") => IsSeq(out.console) /\ out.console \o out.buf = text
      /\ job.call = "vsprintf" => out.buf = text
      /\ job.call = "vsnprintf" => out.buf = Cut(text, Room)
  BY <1>1 DEF Taken
<1>4. Given(out', text)
  <2>1. CASE job.call = "printf"
    <3> DEFINE g == Flush(out)
    <3>1. g.buf = <<>> /\ g.cnt = out.cnt /\ (~Contains(text, "NUL") => g.console = text)
      BY <1>3, <2>1, FlushTakes
    <3> HIDE DEF g
    <3>2. MAX_BUF \in Nat /\ MAX_BUF >= 2 /\ Len(<<>>) = 0
      BY FormatAssumption
    <3>3. out' = g
      BY <1>1, <2>1 DEF g
    <3>4. IsSeq(<<>>)
      <4>1. <<>> \in Seq({0})
        OBVIOUS
      <4> QED
        BY <4>1 DEF IsSeq
    <3> QED
      BY <1>3, <2>1, <3>1, <3>2, <3>3, <3>4 DEF Given
  <2>2. CASE job.call # "printf"
    <3>1. out' = out
      BY <1>1, <2>2
    <3>2. job.call = "vsnprintf" => Len(out.buf) <= Room
      <4>1. Room \in Nat
        BY <1>2 DEF Room, CallOK
      <4>2. Len(Cut(text, Room)) <= Room
        BY <1>3, <4>1, CutAppend
      <4> QED
        BY <1>3, <4>2
    <3> QED
      BY <1>3, <2>2, <3>1, <3>2 DEF Given
  <2> QED
    BY <2>1, <2>2
<1>5. Given(out, text)'
  <2>1. text' = text /\ job' = job
    BY <1>1 DEF Same
  <2> QED
    BY <1>4, <2>1, GivenNext
<1>6. Reading'
  BY <1>1 DEF Reading, CallOK, Same
<1> QED
  BY <1>1, <1>5, <1>6 DEF OutInv

\* A step on in an escape.
LEMMA EscapeGoesOn ==
  ASSUME Reading, mode = "escape", Same, mode' = "escape", fp' \in Nat, fp < fp',
         spec' \in Specs
  PROVE  Reading'
<1>1. /\ CallOK /\ IsSeq(fmt) /\ fp \in Nat \ {0} /\ fmt' = fmt /\ job' = job
      /\ \E k \in 1 .. fp - 1 : At(k) = "%"
  BY DEF Reading, Same
<1>2. (\E k \in 1 .. fp - 1 : At(k) = "%")'
  <2>1. PICK k \in 1 .. fp - 1 : At(k) = "%"
    BY <1>1
  <2> DEFINE i == fp'
  <2>2. fp \in Nat /\ i \in Nat /\ fp < i /\ k \in 1 .. fp - 1
    BY <1>1
  <2> HIDE DEF i
  <2>4. k \in 1 .. i - 1
    BY ONLY <2>2
  <2>3. \E j \in 1 .. fp' - 1 : At(j) = "%"
    BY <2>1, <2>4 DEF i
  <2> QED
    BY <1>1, <2>3 DEF At
<1>3. CallOK' /\ IsSeq(fmt)' /\ fp' \in Nat \ {0}
  BY <1>1 DEF CallOK
<1> QED
  BY <1>2, <1>3 DEF Reading

LEMMA FlagKeeps == ASSUME OutInv, Flag, Same PROVE OutInv'
<1>1. Reading /\ mode = "escape" /\ fp' = fp + 1 /\ mode' = mode /\ UNCHANGED <<out, text>>
  BY DEF OutInv, Flag
<1>2. fp \in Nat \ {0} /\ spec \in Specs
  BY <1>1 DEF Reading
<1>3. spec' \in Specs
  <2>1. CASE At(fp) \in {"-", "0"} /\ spec' = [spec EXCEPT !.padc = At(fp)]
    BY <1>2, <2>1 DEF Specs
  <2>2. CASE spec' = [spec EXCEPT !.width = IF @ < 0 THEN 0 ELSE @]
    <3> DEFINE w == IF spec.width < 0 THEN 0 ELSE spec.width
    <3>1. spec.width \in Int
      BY <1>2 DEF Specs
    <3>2. w \in Int /\ spec' = [spec EXCEPT !.width = w]
      BY <2>2, <3>1
    <3> HIDE DEF w
    <3> QED
      BY <1>2, <3>2 DEF Specs
  <2>3. CASE spec' = [spec EXCEPT !.altflag = TRUE]
    BY <1>2, <2>3 DEF Specs
  <2>4. CASE spec' = [spec EXCEPT !.lflag = @ + 1]
    <3> DEFINE l == spec.lflag + 1
    <3>1. spec.lflag \in Nat
      BY <1>2 DEF Specs
    <3>2. l \in Nat /\ spec' = [spec EXCEPT !.lflag = l]
      BY <2>4, <3>1
    <3> HIDE DEF l
    <3> QED
      BY <1>2, <3>2 DEF Specs
  <2> QED
    BY <2>1, <2>2, <2>3, <2>4 DEF Flag
<1>4. fp' \in Nat /\ fp < fp'
  BY <1>1, <1>2
<1>5. Reading'
  BY <1>1, <1>3, <1>4, EscapeGoesOn
<1> QED
  BY <1>1, <1>5, PutsNothing

LEMMA SizedFacts == ASSUME spec \in Specs, NEW n \in Int PROVE Sized(n) \in Specs
<1>1. CASE spec.width < 0
  <2> DEFINE r == [spec EXCEPT !.width = n]
  <2>1. r \in Specs
    BY DEF Specs
  <2> DEFINE p == -1
  <2>2. Sized(n) = [r EXCEPT !.precision = p] /\ p \in Int
    BY <1>1 DEF Sized
  <2> HIDE DEF r, p
  <2> QED
    BY <2>1, <2>2 DEF Specs
<1>2. CASE ~(spec.width < 0)
  BY <1>2 DEF Specs, Sized
<1> QED
  BY <1>1, <1>2

LEMMA WidthKeeps == ASSUME OutInv, Width, Same PROVE OutInv'
<1> DEFINE v == ValueOf(SubSeq(fmt, fp, DigitsEnd(fp) - 1))
<1>1. /\ Reading /\ mode = "escape" /\ DigitValue(At(fp)) \in 1 .. 9 /\ spec' = Sized(v) /\ fp' = DigitsEnd(fp)
      /\ mode' = mode /\ UNCHANGED <<out, text>>
  BY DEF OutInv, Width
<1>2. fp \in Nat \ {0} /\ spec \in Specs /\ IsSeq(fmt)
  BY <1>1 DEF Reading
<1>3. DigitsEnd(fp) \in Nat /\ fp < DigitsEnd(fp) /\ v \in Nat
  <2>1. DigitValue(At(fp)) < 10
    BY <1>1
  <2>2. DigitsEnd(fp) \in Nat /\ fp < DigitsEnd(fp) /\ Len(SubSeq(fmt, fp, DigitsEnd(fp) - 1)) \in Nat
    BY <1>2, <2>1, DigitsEndIsNat
  <2>3. v \in Nat
    BY <2>2, ValueOfIsNat
  <2> QED
    BY <2>2, <2>3
<1> HIDE DEF v
<1>4. spec' \in Specs
  BY <1>1, <1>2, <1>3, SizedFacts
<1>5. Reading'
  BY <1>1, <1>3, <1>4, EscapeGoesOn
<1> QED
  BY <1>1, <1>5, PutsNothing

LEMMA StarKeeps == ASSUME OutInv, ArgumentsFit, Star, Same PROVE OutInv'
<1> DEFINE v == ap[1].w
<1>1. /\ Reading /\ mode = "escape" /\ At(fp) = "*" /\ spec' = Sized(v) /\ fp' = fp + 1
      /\ mode' = mode /\ UNCHANGED <<out, text>>
  BY DEF OutInv, Star
<1>2. fp \in Nat \ {0} /\ spec \in Specs
  BY <1>1 DEF Reading
<1>3. v \in Int
  BY <1>1 DEF ArgumentsFit
<1> HIDE DEF v
<1>4. spec' \in Specs /\ fp' \in Nat /\ fp < fp'
  BY <1>1, <1>2, <1>3, SizedFacts
<1>5. Reading'
  BY <1>1, <1>4, EscapeGoesOn
<1> QED
  BY <1>1, <1>5, PutsNothing

LEMMA ConcatIsSeq == \A s, t : IsSeq(s) /\ IsSeq(t) => IsSeq(s \o t)
BY ConcatFacts

LEMMA OneIsSeq == \A c : IsSeq(<<c>>)
<1>1. \A c : <<c>> \in Seq({c})
  OBVIOUS
<1> QED
  BY <1>1 DEF IsSeq

\* A conversion that takes n arguments and puts s.
LEMMA ConvertKeeps ==
  ASSUME OutInv, Same, NEW c, NEW n, NEW s, IsSeq(s), Convert(c, n, s)
  PROVE  OutInv'
<1>1. mode = "escape" /\ Put(s) /\ mode' = "text" /\ fp' = fp + 1 /\ spec' = spec
  BY DEF Convert
<1>2. Reading
  BY <1>1 DEF OutInv
<1>3. fp \in Nat \ {0}
  BY <1>2 DEF Reading
<1>4. fp' \in Nat \ {0}
  BY <1>1, <1>3
<1> QED
  BY <1>1, <1>4, PutsOn

LEMMA ConvertStringIsSeq ==
  ASSUME spec \in Specs, "s" \in DOMAIN ap[1] => IsSeq(ap[1].s)
  PROVE  IsSeq(ConvertString)
<1> DEFINE p     == IF "s" \in DOMAIN ap[1] THEN ap[1].s ELSE NullText
           shown == IF spec.precision < 0 THEN p ELSE Cut(p, spec.precision)
           seen  == [k \in DOMAIN shown |-> IF spec.altflag /\ shown[k] \in Unseen THEN "?" ELSE shown[k]]
           rest  == spec.width - Len(shown)
           padleft == Pad(rest, spec.padc)
           padright  == Pad(rest, " ")
<1>1. spec.width \in Int /\ spec.precision \in Int
  BY DEF Specs
<1>2. IsSeq(p)
  <2>1. NullText \in Seq({"(", "n", "u", "l", ")"})
    BY DEF NullText
  <2> QED
    BY <2>1 DEF IsSeq
<1> HIDE DEF p
<1>3. IsSeq(shown)
  <2>1. CASE spec.precision < 0
    BY <1>2, <2>1
  <2>2. CASE ~(spec.precision < 0)
    <3>1. spec.precision \in Nat
      BY <1>1, <2>2
    <3> DEFINE q == spec.precision
    <3> HIDE DEF q
    <3>2. IsSeq(Cut(p, q))
      BY <1>2, <3>1, CutAppend DEF q
    <3> QED
      BY <2>2, <3>2 DEF q
  <2> QED
    BY <2>1, <2>2
<1> HIDE DEF shown
<1>4. Len(shown) \in Nat
  BY <1>3, SeqFacts
<1>5. IsSeq(seen)
  <2>1. PICK S : shown \in Seq(S)
    BY <1>3 DEF IsSeq
  <2>2. DOMAIN shown = 1 .. Len(shown)
    BY <2>1
  <2> DEFINE T == S \cup {"?"}
             V(k) == IF spec.altflag /\ shown[k] \in Unseen THEN "?" ELSE shown[k]
  <2>3. \A k \in 1 .. Len(shown) : V(k) \in T
    BY <2>1
  <2> HIDE DEF T, V
  <2>4. [k \in 1 .. Len(shown) |-> V(k)] \in Seq(T)
    BY <1>4, <2>3
  <2> QED
    BY <2>2, <2>4 DEF IsSeq, V
<1> HIDE DEF seen
<1>6. IsSeq(padleft) /\ IsSeq(padright)
  <2>1. rest \in Int
    BY <1>1, <1>4
  <2> HIDE DEF rest
  <2> QED
    BY <2>1, PadIsSeq
<1> HIDE DEF padleft, padright, rest
<1>7. ConvertString = IF spec.width > 0 /\ spec.padc # "-" THEN padleft \o seen ELSE seen \o padright
  BY DEF ConvertString, p, shown, seen, rest, padleft, padright
<1>8. IsSeq(padleft \o seen) /\ IsSeq(seen \o padright)
  BY <1>5, <1>6, ConcatIsSeq
<1> QED
  BY <1>7, <1>8

\* Numbers that are taken as words.
LEMMA NumberFacts ==
  ASSUME spec \in Specs, \A k \in 1 .. Words : IsWord(k)
  PROVE  getuint \in Nat /\ getint \in Int /\ Magnitude(getint) \in Nat
<1>1. UINT \in Nat \ {0} /\ spec.lflag \in Nat
  BY FormatAssumption DEF Specs
<1>2. ULONGLONG \in Nat \ {0}
  BY <1>1 DEF ULONGLONG
<1>3. getuint \in Nat
  <2>1. CASE spec.lflag >= 2
    <3>1. 1 \in 1 .. Words /\ 2 \in 1 .. Words
      BY <2>1 DEF Words
    <3>2. ap[1].w \in 0 .. UINT - 1 /\ ap[2].w \in 0 .. UINT - 1
      BY <3>1 DEF IsWord
    <3> DEFINE a == ap[1].w
               b == ap[2].w
    <3>3. a \in Nat /\ b \in Nat
      BY <1>1, <3>2
    <3>4. getuint = a + UINT * b
      BY <2>1 DEF getuint
    <3> HIDE DEF a, b
    <3> QED
      BY <1>1, <3>3, <3>4
  <2>2. CASE ~(spec.lflag >= 2)
    <3>1. 1 \in 1 .. Words
      BY <2>2 DEF Words
    <3>2. ap[1].w \in 0 .. UINT - 1
      BY <3>1 DEF IsWord
    <3> QED
      BY <1>1, <2>2, <3>2 DEF getuint
  <2> QED
    BY <2>1, <2>2
<1>4. \A v \in Nat : \A r \in Nat : Signed(v, r) \in Int
  BY DEF Signed
<1>5. getint \in Int
  BY <1>1, <1>2, <1>3, <1>4 DEF getint
<1>6. Magnitude(getint) \in Nat
  <2> DEFINE v == getint
  <2>1. v \in Int
    BY <1>5
  <2> HIDE DEF v
  <2>2. CASE v < 0
    <3>1. -v \in Nat
      BY <2>1, <2>2
    <3>2. (-v) % ULONGLONG \in 0 .. ULONGLONG - 1
      BY ONLY <1>2, <3>1, DivFacts
    <3> QED
      BY <1>2, <2>2, <3>2 DEF Magnitude, v
  <2>3. CASE ~(v < 0)
    BY <2>1, <2>3 DEF Magnitude, v
  <2> QED
    BY <2>2, <2>3
<1> QED
  BY <1>3, <1>5, <1>6

LEMMA PrintnumberIsSeq ==
  ASSUME spec \in Specs, NEW num \in Nat, NEW base \in {8, 10, 16}
  PROVE  IsSeq(printnumber(num, base))
<1>1. spec.width \in Int
  BY DEF Specs
<1> DEFINE w == spec.width
           c == spec.padc
<1>2. w \in Int /\ base \in Nat /\ base >= 2
  BY <1>1
<1>3. printnumber(num, base) = printnum(num, base, w, c)
  BY DEF printnumber
<1> HIDE DEF w, c
<1>4. IsSeq(printnum(num, base, w, c))
  BY ONLY <1>2, num \in Nat, PrintnumIsSeq
<1> QED
  BY <1>3, <1>4

LEMMA ConversionKeeps == ASSUME OutInv, ArgumentsFit, Conversion, Same PROVE OutInv'
<1>1. mode = "escape"
  BY DEF Conversion, Convert
<1>2. Reading
  BY <1>1 DEF OutInv
<1>3. spec \in Specs
  BY <1>2 DEF Reading
<1>4. /\ At(fp) = "s" /\ "s" \in DOMAIN ap[1] => ap[1].s \in Seq(STRING)
      /\ At(fp) = "p" => IsWord(1)
      /\ At(fp) \in {"d", "u", "x"} \/ (At(fp) = "o" /\ job.lib = "kern") => \A k \in 1 .. Words : IsWord(k)
  BY <1>1 DEF ArgumentsFit
<1>5. \A c, n, s : Convert(c, n, s) => At(fp) = c
  BY DEF Convert
<1>6. CASE Convert("c", 1, <<ap[1].c>>)
  <2> DEFINE s == <<ap[1].c>>
  <2>1. IsSeq(s)
    BY OneIsSeq
  <2> HIDE DEF s
  <2> QED
    BY <1>6, <2>1, ConvertKeeps DEF s
<1>7. CASE Convert("s", 1, ConvertString)
  <2>1. "s" \in DOMAIN ap[1] => IsSeq(ap[1].s)
    BY <1>4, <1>5, <1>7 DEF IsSeq
  <2>2. IsSeq(ConvertString)
    BY <1>3, <2>1, ConvertStringIsSeq
  <2> QED
    BY <1>7, <2>2, ConvertKeeps
<1>8. CASE Convert("d", Words, (IF getint < 0 THEN <<"-">> ELSE <<>>) \o printnumber(Magnitude(getint), 10))
  <2> DEFINE a == IF getint < 0 THEN <<"-">> ELSE <<>>
             b == printnumber(Magnitude(getint), 10)
             s == a \o b
  <2>1. \A k \in 1 .. Words : IsWord(k)
    BY <1>4, <1>5, <1>8
  <2>2. Magnitude(getint) \in Nat
    BY <1>3, <2>1, NumberFacts
  <2>3. IsSeq(b)
    BY <1>3, <2>2, PrintnumberIsSeq
  <2>4. IsSeq(a)
    <3>1. <<>> \in Seq({0})
      OBVIOUS
    <3>2. IsSeq(<<>>)
      BY <3>1 DEF IsSeq
    <3> QED
      BY <3>2, OneIsSeq
  <2> HIDE DEF a, b
  <2>5. IsSeq(s)
    BY <2>3, <2>4, ConcatIsSeq
  <2>6. Convert("d", Words, s)
    BY <1>8 DEF a, b
  <2> HIDE DEF s
  <2> QED
    BY <2>5, <2>6, ConvertKeeps
<1>9. CASE Convert("u", Words, printnumber(getuint, 10))
  <2>1. \A k \in 1 .. Words : IsWord(k)
    BY <1>4, <1>5, <1>9
  <2>2. IsSeq(printnumber(getuint, 10))
    BY <1>3, <2>1, NumberFacts, PrintnumberIsSeq
  <2> QED
    BY <1>9, <2>2, ConvertKeeps
<1>10. CASE job.lib = "kern" /\ Convert("o", Words, printnumber(getuint, 8))
  <2>1. \A k \in 1 .. Words : IsWord(k)
    BY <1>4, <1>5, <1>10
  <2>2. IsSeq(printnumber(getuint, 8))
    BY <1>3, <2>1, NumberFacts, PrintnumberIsSeq
  <2> QED
    BY <1>10, <2>2, ConvertKeeps
<1>11. CASE Convert("o", 0, <<"X", "X", "X">>)
  <2> DEFINE s == <<"X", "X", "X">>
  <2>1. s \in Seq({"X"})
    OBVIOUS
  <2>2. IsSeq(s)
    BY <2>1 DEF IsSeq
  <2> HIDE DEF s
  <2> QED
    BY <1>11, <2>2, ConvertKeeps DEF s
<1>12. CASE Convert("p", 1, <<"0", "x">> \o printnumber(ap[1].w, 16))
  <2> DEFINE a == <<"0", "x">>
             b == printnumber(ap[1].w, 16)
             s == a \o b
  <2>1. ap[1].w \in Nat
    <3>1. ap[1].w \in 0 .. UINT - 1
      BY <1>4, <1>5, <1>12 DEF IsWord
    <3> QED
      BY <3>1, FormatAssumption
  <2>2. IsSeq(b)
    BY <1>3, <2>1, PrintnumberIsSeq
  <2>3. a \in Seq({"0", "x"})
    OBVIOUS
  <2>4. IsSeq(a)
    BY <2>3 DEF IsSeq
  <2>5. Convert("p", 1, s)
    BY <1>12
  <2> HIDE DEF a, b
  <2>6. IsSeq(s)
    BY <2>2, <2>4, ConcatIsSeq
  <2> HIDE DEF s
  <2> QED
    BY <2>5, <2>6, ConvertKeeps
<1>13. CASE Convert("x", Words, printnumber(getuint, 16))
  <2>1. \A k \in 1 .. Words : IsWord(k)
    BY <1>4, <1>5, <1>13
  <2>2. IsSeq(printnumber(getuint, 16))
    BY <1>3, <2>1, NumberFacts, PrintnumberIsSeq
  <2> QED
    BY <1>13, <2>2, ConvertKeeps
<1>14. CASE Convert("%", 0, <<"%">>)
  <2>1. IsSeq(<<"%">>)
    BY OneIsSeq
  <2> DEFINE s == <<"%">>
  <2> HIDE DEF s
  <2> QED
    BY <1>14, <2>1, ConvertKeeps DEF s
<1> QED
  BY <1>6, <1>7, <1>8, <1>9, <1>10, <1>11, <1>12, <1>13, <1>14 DEF Conversion

\* The % that the escape began with is found again.
LEMMA UnrecognizedKeeps == ASSUME OutInv, Unrecognized, Same PROVE OutInv'
<1> DEFINE Nearest(k) == At(k) = "%" /\ \A j \in k + 1 .. fp - 1 : At(j) # "%"
           p == CHOOSE k \in 1 .. fp - 1 : Nearest(k)
           s == <<"%">>
<1>1. mode = "escape" /\ Put(s) /\ fp' = 1 + p /\ mode' = "text" /\ spec' = spec
  BY DEF Unrecognized
<1>2. Reading
  BY <1>1 DEF OutInv
<1>3. fp \in Nat \ {0} /\ \E k \in 1 .. fp - 1 : At(k) = "%"
  BY <1>1, <1>2 DEF Reading
<1>4. \E k \in 1 .. fp - 1 : Nearest(k)
  <2> DEFINE S == {k \in 1 .. fp - 1 : At(k) = "%"}
  <2>1. S \in SUBSET Nat /\ S # {} /\ fp \in Nat /\ \A k \in S : k <= fp
    BY <1>3
  <2>2. PICK m \in S : \A k \in S : k <= m
    <3> HIDE DEF S
    <3> QED
      BY <2>1, GreatestNat
  <2>3. m \in 1 .. fp - 1 /\ At(m) = "%"
    BY <2>2
  <2>4. ASSUME NEW j \in m + 1 .. fp - 1 PROVE At(j) # "%"
    <3>1. j \in 1 .. fp - 1 /\ ~(j <= m)
      BY <1>3, <2>3
    <3> QED
      BY <2>2, <3>1
  <2> QED
    BY <2>3, <2>4
<1>5. p \in 1 .. fp - 1
  <2> HIDE DEF Nearest
  <2> QED
    BY <1>4
<1> HIDE DEF p
<1>6. fp' \in Nat \ {0}
  BY <1>1, <1>3, <1>5
<1>7. IsSeq(s)
  BY OneIsSeq
<1> HIDE DEF s
<1> QED
  BY <1>1, <1>6, <1>7, PutsOn

LEMMA ReadBackKeeps == ASSUME OutInv, NEW base, ReadBack(base) PROVE OutInv'
<1>1. /\ mode \in {"done", "read"} /\ mode' = "read" /\ UNCHANGED <<job, fmt, fp, spec, out, text>>
  BY DEF ReadBack
<1>2. Reading /\ Given(out, text)
  BY <1>1 DEF OutInv
<1>3. Given(out, text)'
  BY <1>1, <1>2, GivenNext
<1>4. Reading'
  BY <1>1, <1>2 DEF Reading, CallOK
<1> QED
  BY <1>1, <1>3, <1>4 DEF OutInv
=============================================================================
