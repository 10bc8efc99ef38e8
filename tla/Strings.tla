------------------------------ MODULE Strings -------------------------------
(***************************************************************************)
(* The memory and string functions of kern/lib/string.c and                *)
(* user/lib/string.c, which are the same code where both have a function,  *)
(* called in any order on one small memory.                                *)
(*                                                                         *)
(* memset and memmove use the CPU's repeated string instructions, by words *)
(* where everything is aligned and by bytes otherwise, upwards or          *)
(* downwards; RepMovs is such an instruction, one unit after the other.    *)
(***************************************************************************)
EXTENDS Integers, Sequences

CONSTANTS MEM,    \* bytes of memory
          BYTE,   \* values of a byte, 256 in the code
          WORD,   \* bytes of a word, 4 in the code
          Fill    \* arguments for the value of memset, not only bytes

ASSUME StringsAssumption ==
    /\ MEM \in Nat /\ BYTE \in Nat \ {0, 1} /\ WORD \in Nat \ {0}
    /\ Fill \subseteq Int

VARIABLES mem,
          call,    \* the call just made, or Ready
          before,  \* history: the memory it was made with
          ret      \* what it returned

strVars == <<mem, call, before, ret>>

Addr  == 0 .. MEM - 1
Byte  == 0 .. BYTE - 1
NULL  == -1
Ready == [f |-> "none", a |-> 0, b |-> 0, n |-> 0]

\* The bytes of [p, p + n), if all are in memory.
Region(p, n) == {x \in Addr : p <= x /\ x < p + n}
InMem(p, n)  == p + n <= MEM

\* A string starts at p: there is a NUL at or after it.
Terminated(p) == \E x \in Addr : p <= x /\ mem[x] = 0

----------------------------------------------------------------------------
\* Faulty forms of the definitions below, for checking the properties.

\* Backwards only if the regions overlap in more than one byte.
BackwardsLate(d, s, n) == s < d /\ s + n > d + 1

----------------------------------------------------------------------------
\* The instructions rep movs and rep stos.

Unit(p, q, n) == IF p % WORD = 0 /\ q % WORD = 0 /\ n % WORD = 0 THEN WORD ELSE 1

RepMovs(m, d, s, unit, count, step) ==
    LET after[k \in 0 .. count] ==
          IF k = 0 THEN m
          ELSE LET o == step * unit * (k - 1)
               IN  [x \in Addr |-> IF x \in d + o .. d + o + unit - 1
                                     THEN after[k - 1][x - d + s] ELSE after[k - 1][x]]
    IN  after[count]

\* The low byte of c, shifted into every byte of a word.
Spread(c) ==
    LET bytes[k \in 0 .. WORD] == IF k = 0 THEN 0 ELSE bytes[k - 1] * BYTE + (c % BYTE)
    IN  bytes[WORD]

\* Byte i of a word w.
ByteOf(w, i) ==
    LET shifted[k \in 0 .. i] == IF k = 0 THEN w ELSE shifted[k - 1] \div BYTE
    IN  shifted[i] % BYTE

----------------------------------------------------------------------------
\* What the functions do to the memory m.

memset(m, v, c, n) ==
    LET w == IF Unit(v, 0, n) = WORD THEN Spread(c) ELSE c % BYTE
    IN  [x \in Addr |-> IF x \in Region(v, n) THEN ByteOf(w, (x - v) % Unit(v, 0, n)) ELSE m[x]]

Backwards(d, s, n) == s < d /\ s + n > d

memmove(m, d, s, n) ==
    IF Backwards(d, s, n)
    THEN LET unit == Unit(s + n, d + n, n)
         IN  RepMovs(m, d + n - unit, s + n - unit, unit, n \div unit, -1)
    ELSE LET unit == Unit(s, d, n)
         IN  RepMovs(m, d, s, unit, n \div unit, 1)

\* A loop that counts up from 0 through the numbers of C.
Count(C) ==
    LET from[k \in Nat] == IF k \in C THEN from[k + 1] ELSE k
    IN  from[0]

strlen(m, s) == Count({k \in Nat : m[s + k] # 0})

strnlen(m, s, size) == Count({k \in Nat : k < size /\ m[s + k] # 0})

strcpy(m, d, s) == RepMovs(m, d, s, 1, strlen(m, s) + 1, 1)

\* src stays at the NUL, so that dst is padded with it.
strncpy(m, d, s, size) ==
    LET n == strnlen(m, s, size)
    IN  [x \in Addr |-> IF x \in Region(d, size)
                          THEN IF x - d < n THEN m[s + x - d] ELSE 0
                          ELSE m[x]]

Lcpy(m, s, size) == Count({k \in Nat : k < size - 1 /\ m[s + k] # 0})

strlcpy(m, d, s, size) ==
    IF size > 0
      THEN [RepMovs(m, d, s, 1, Lcpy(m, s, size), 1) EXCEPT ![d + Lcpy(m, s, size)] = 0]
      ELSE m

\* The end of the common part of two strings, and their difference there.
strncmp(m, p, q, n) ==
    LET k == Count({j \in Nat : j < n /\ m[p + j] # 0 /\ m[p + j] = m[q + j]})
    IN  IF k = n THEN 0 ELSE m[p + k] - m[q + k]

strcmp(m, p, q) ==
    LET k == Count({j \in Nat : m[p + j] # 0 /\ m[p + j] = m[q + j]})
    IN  m[p + k] - m[q + k]

strfind(m, s, c) == s + Count({k \in Nat : m[s + k] # 0 /\ m[s + k] # c})

strchr(m, s, c) == IF m[strfind(m, s, c)] # 0 THEN strfind(m, s, c) ELSE NULL

memcmp(m, p, q, n) ==
    LET k == Count({j \in Nat : j < n /\ m[p + j] = m[q + j]})
    IN  IF k < n THEN m[p + k] - m[q + k] ELSE 0

memchr(m, s, c, n) ==
    LET k == Count({j \in Nat : j < n /\ m[s + j] # c % BYTE})
    IN  IF k < n THEN s + k ELSE NULL

----------------------------------------------------------------------------
StrInit ==
    /\ mem \in [Addr -> Byte]
    /\ call = Ready /\ before = mem /\ ret = 0

\* A call f(a, b, n) leaves memory m and returns r.
Call(f, a, b, n, m, r) ==
    /\ call' = [f |-> f, a |-> a, b |-> b, n |-> n]
    /\ before' = mem /\ mem' = m /\ ret' = r

Apart(d, s, n) == Region(d, n) \cap Region(s, n) = {}

SetCall(v, c, n) == InMem(v, n) /\ Call("memset", v, c, n, memset(mem, v, c, n), v)

\* memcpy is memmove.
MoveCall(d, s, n) ==
    InMem(d, n) /\ InMem(s, n) /\ Call("memmove", d, s, n, memmove(mem, d, s, n), d)

StrcpyCall(d, s) ==
    /\ Terminated(s) /\ InMem(d, strlen(mem, s) + 1) /\ Apart(d, s, strlen(mem, s) + 1)
    /\ Call("strcpy", d, s, 0, strcpy(mem, d, s), d)

BoundedCopyCall(d, s, n) ==
    /\ Terminated(s) /\ InMem(d, n) /\ Apart(d, s, n)
    /\ \/ Call("strncpy", d, s, n, strncpy(mem, d, s, n), d)
       \/ Call("strlcpy", d, s, n, strlcpy(mem, d, s, n), IF n > 0 THEN Lcpy(mem, s, n) ELSE 0)

LengthCall(s, n) ==
    /\ Terminated(s)
    /\ \/ n = 0 /\ Call("strlen", s, 0, n, mem, strlen(mem, s))
       \/ Call("strnlen", s, 0, n, mem, strnlen(mem, s, n))

CompareCall(p, q, n) ==
    \/ /\ Terminated(p) /\ Terminated(q)
       /\ \/ n = 0 /\ Call("strcmp", p, q, n, mem, strcmp(mem, p, q))
          \/ Call("strncmp", p, q, n, mem, strncmp(mem, p, q, n))
    \/ InMem(p, n) /\ InMem(q, n) /\ Call("memcmp", p, q, n, mem, memcmp(mem, p, q, n))

SearchCall(s, c, n) ==
    \/ /\ Terminated(s) /\ n = 0 /\ c \in Byte
       /\ \/ Call("strchr", s, c, n, mem, strchr(mem, s, c))
          \/ Call("strfind", s, c, n, mem, strfind(mem, s, c))
    \/ InMem(s, n) /\ Call("memchr", s, c, n, mem, memchr(mem, s, c, n))

Returned == call # Ready /\ call' = Ready /\ before' = mem /\ mem' = mem /\ ret' = 0

AnyCall ==
    /\ call = Ready
    /\ \E p \in Addr, n \in 0 .. MEM :
          \/ LengthCall(p, n)
          \/ \E c \in Fill : SetCall(p, c, n) \/ SearchCall(p, c, n)
          \/ \E q \in Addr :
                \/ MoveCall(p, q, n) \/ BoundedCopyCall(p, q, n) \/ CompareCall(p, q, n)
                \/ n = 0 /\ StrcpyCall(p, q)

StrNext == AnyCall \/ Returned

StrSpec == StrInit /\ [][StrNext]_strVars

----------------------------------------------------------------------------
\* The string at p in the memory m, and the sign of a number.
Text(m, p) ==
    LET end == CHOOSE e \in Addr : p <= e /\ m[e] = 0 /\ \A x \in p .. e - 1 : m[x] # 0
    IN  [k \in 1 .. end - p |-> m[p + k - 1]]

Bytes(m, p, n) == [k \in 1 .. n |-> m[p + k - 1]]

Cut(t, n) == SubSeq(t, 1, IF Len(t) < n THEN Len(t) ELSE n)

\* t comes before u: it is a proper prefix, or smaller where they first differ.
Precedes(t, u) ==
    \E k \in 0 .. Len(t) :
        /\ k < Len(u) /\ \A j \in 1 .. k : t[j] = u[j]
        /\ k = Len(t) \/ t[k + 1] < u[k + 1]

Order(r, t, u) == (r < 0 <=> Precedes(t, u)) /\ (r > 0 <=> Precedes(u, t))

OnlyChanged(m1, m2, p, n) == \A x \in Addr \ Region(p, n) : m2[x] = m1[x]

\* The least address of those in S, if any.
First(S) == IF S = {} THEN NULL ELSE CHOOSE x \in S : \A y \in S : x <= y

\* The memory m2 is what a move, a fill or a copy makes of m1.
Moves(m1, m2, d, s, n) == Bytes(m2, d, n) = Bytes(m1, s, n) /\ OnlyChanged(m1, m2, d, n)

Fills(m1, m2, v, c, n) == (\A x \in Region(v, n) : m2[x] = c % BYTE) /\ OnlyChanged(m1, m2, v, n)

Copies(m1, m2, d, s) ==
    Text(m2, d) = Text(m1, s) /\ OnlyChanged(m1, m2, d, Len(Text(m1, s)) + 1)

CopiesPadded(m1, m2, d, s, n) ==
    /\ \A k \in 1 .. n : m2[d + k - 1] = IF k <= Len(Text(m1, s)) THEN Text(m1, s)[k] ELSE 0
    /\ OnlyChanged(m1, m2, d, n)

\* strlcpy returns the length of what it has copied.
CopiesCut(m1, m2, d, s, n, r) ==
    /\ n > 0 => Text(m2, d) = Cut(Text(m1, s), n - 1)
    /\ r = IF n > 0 THEN Len(Text(m2, d)) ELSE 0
    /\ OnlyChanged(m1, m2, d, n)

\* What a call f(a, b, n) promises, which made the memory m2 of m1 and
\* returned r.
Contract(f, a, b, n, m1, m2, r) ==
    /\ f = "memmove" => Moves(m1, m2, a, b, n)
    /\ f = "memset"  => Fills(m1, m2, a, b, n)
    /\ f = "strcpy"  => Copies(m1, m2, a, b)
    /\ f = "strncpy" => CopiesPadded(m1, m2, a, b, n)
    /\ f = "strlcpy" => CopiesCut(m1, m2, a, b, n, r)
    /\ f = "strlen"  => r = Len(Text(m2, a))
    /\ f = "strnlen" => r = Len(Cut(Text(m2, a), n))
    /\ f = "strcmp"  => Order(r, Text(m2, a), Text(m2, b))
    /\ f = "strncmp" => Order(r, Cut(Text(m2, a), n), Cut(Text(m2, b), n))
    /\ f = "memcmp"  => Order(r, Bytes(m2, a, n), Bytes(m2, b, n))
    /\ f = "strchr"  => r = First({x \in Region(a, Len(Text(m2, a))) : m2[x] = b})
    /\ f = "strfind" => r = First({x \in Region(a, Len(Text(m2, a)) + 1) : m2[x] \in {b, 0}})
    /\ f = "memchr"  => r = First({x \in Region(a, n) : m2[x] = b % BYTE})

(***************************************************************************)
(* What a caller relies on, for every placement, alignment and overlap of  *)
(* the arguments: a move gives the destination what the source held before *)
(* the call, a copy of a string is that string, cut and terminated or      *)
(* padded as the function says, nothing outside the destination changes,   *)
(* and lengths, comparisons and searches agree with the strings as         *)
(* sequences of unsigned bytes.                                            *)
(***************************************************************************)
KeepsContract == Contract(call.f, call.a, call.b, call.n, before, mem, ret)
=============================================================================
