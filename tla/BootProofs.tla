---------------------------- MODULE BootProofs ------------------------------
(***************************************************************************)
(* Boot: the kernel is in memory as it was linked when its C code starts,  *)
(* for every size of sectors and pages, every kernel that satisfies what   *)
(* the linker promises, and every map of the BIOS.  Loader: elf_load gives *)
(* the process the program that was linked, in pages of its own, and the   *)
(* copies between kernel and user memory move what they are asked to.      *)
(***************************************************************************)
EXTENDS Loader, NumberProofs

----------------------------------------------------------------------------
\* Rounding.

LEMMA RounddownFacts ==
  ASSUME NEW a \in Nat
  PROVE  /\ Rounddown(a, SECTOR_SIZE) \in Nat /\ Rounddown(a, SECTOR_SIZE) <= a
         /\ a - Rounddown(a, SECTOR_SIZE) = a % SECTOR_SIZE
         /\ Rounddown(a, SECTOR_SIZE) = SECTOR_SIZE * (a \div SECTOR_SIZE)
<1>1. SECTOR_SIZE \in Nat \ {0}
  BY BootAssumption
<1>2. /\ a \div SECTOR_SIZE \in Nat /\ a % SECTOR_SIZE \in 0 .. SECTOR_SIZE - 1
      /\ a = SECTOR_SIZE * (a \div SECTOR_SIZE) + (a % SECTOR_SIZE)
  BY <1>1, DivFacts
<1> DEFINE q == a \div SECTOR_SIZE
           r == a % SECTOR_SIZE
           m == SECTOR_SIZE * q
<1>3. q \in Nat /\ r \in Nat /\ a = m + r /\ Rounddown(a, SECTOR_SIZE) = a - r /\ m \in Nat
  BY <1>1, <1>2 DEF Rounddown
<1> HIDE DEF q, r, m
<1>4. /\ Rounddown(a, SECTOR_SIZE) \in Nat /\ Rounddown(a, SECTOR_SIZE) <= a
      /\ a - Rounddown(a, SECTOR_SIZE) = r /\ Rounddown(a, SECTOR_SIZE) = m
  BY <1>3
<1> QED
  BY <1>4 DEF q, r, m

(***************************************************************************)
(* The parts of a sector before a segment and before its bytes in the file *)
(* are equally long: pages are whole sectors, and the addresses that are   *)
(* masked away whole pages.                                                *)
(***************************************************************************)
LEMMA SectorsAlign ==
  ASSUME NEW va \in Nat, NEW offset \in Nat, va % PAGESIZE = offset % PAGESIZE
  PROVE  /\ va % MASK \in Nat /\ va % MASK < MASK
         /\ (va % MASK) % SECTOR_SIZE = offset % SECTOR_SIZE
<1>1. /\ SECTOR_SIZE \in Nat \ {0} /\ PAGESIZE \in Nat \ {0} /\ MASK \in Nat \ {0}
      /\ PAGESIZE % SECTOR_SIZE = 0 /\ MASK % PAGESIZE = 0
  BY BootAssumption
<1> DEFINE S == SECTOR_SIZE
           P == PAGESIZE
           M == MASK
           k == P \div S
           m == M \div P
           a == va \div M
           p == va % M
           b == va \div P
           c == offset \div P
           r == va % P
<1>2. P = S * k /\ k \in Nat
  BY <1>1, DivFacts
<1>3. M = P * m /\ m \in Nat
  BY <1>1, DivFacts
<1>4. va = M * a + p /\ a \in Nat /\ p \in 0 .. M - 1
  BY <1>1, DivFacts
<1>5. va = P * b + r /\ b \in Nat /\ r \in Nat
  <2>1. va = P * (va \div P) + (va % P) /\ va \div P \in Nat /\ va % P \in 0 .. P - 1
    <3> HIDE DEF P
    <3>1. P \in Nat \ {0}
      BY <1>1 DEF P
    <3> QED
      BY <3>1, DivFacts
  <2> QED
    BY <2>1
<1>6. offset = P * c + r /\ c \in Nat
  BY <1>1, DivFacts
<1> HIDE DEF k, m, a, p, b, c, r
<1> DEFINE d == k * (b - c - m * a)
<1>7. d \in Int /\ p = offset + S * d
  <2>1. p = offset + P * (b - c) - M * a
    BY <1>1, <1>2, <1>3, <1>4, <1>5, <1>6
  <2>2. M * a = P * (m * a)
    BY <1>1, <1>3, <1>4
  <2>3. P * (b - c) - P * (m * a) = P * (b - c - m * a)
    BY <1>1, <1>3, <1>4, <1>5, <1>6
  <2>4. P * (b - c - m * a) = S * d
    BY <1>1, <1>2, <1>3, <1>4, <1>5, <1>6
  <2>5. d \in Int
    BY <1>2, <1>3, <1>4, <1>5, <1>6
  <2> QED
    BY <1>1, <1>2, <1>3, <1>4, <1>5, <1>6, <2>1, <2>2, <2>3, <2>4, <2>5
<1> HIDE DEF d
<1>8. p % S = offset % S
  <2>1. Congruent(p, offset, S)
    BY <1>7 DEF Congruent
  <2> QED
    BY <1>1, <1>4, <2>1, SameRest
<1> QED
  BY <1>1, <1>4, <1>8 DEF p

----------------------------------------------------------------------------
(***************************************************************************)
(* Segments, with the headers as the first of them, and what holds of one  *)
(* and of two of them by Linked.                                           *)
(***************************************************************************)
SegmentGood(s) ==
  /\ s \in Segment /\ Phys(s) \in Nat /\ Phys(s) < MASK
  /\ s.memsz = 0 => Phys(s) % SECTOR_SIZE = 0
  /\ s.memsz > 0 => /\ Phys(s) % SECTOR_SIZE = s.offset % SECTOR_SIZE
                    /\ s.filesz <= s.memsz /\ Phys(s) + s.memsz <= KMEM

Before(t, s) ==
  t.memsz > 0 /\ s.memsz > 0 =>
    \/ Phys(t) + t.memsz <= Rounddown(Phys(s), SECTOR_SIZE)
    \/ Phys(s) - s.offset = Phys(t) - t.offset

LEMMA HeaderGood ==
  ASSUME machine \in Machines
  PROVE  SegmentGood(SegmentAt(0)) /\ Phys(SegmentAt(0)) = ELFHDR /\ SegmentAt(0).offset = 0
         /\ SegmentAt(0).memsz = HEADER * SECTOR_SIZE /\ SegmentAt(0).filesz = HEADER * SECTOR_SIZE
         /\ HEADER * SECTOR_SIZE \in Nat /\ HEADER * SECTOR_SIZE > 0
<1>1. /\ SECTOR_SIZE \in Nat \ {0} /\ MASK \in Nat \ {0} /\ ELFHDR \in Nat /\ KMEM \in Nat
      /\ KMEM <= MASK /\ ELFHDR % SECTOR_SIZE = 0 /\ ELFHDR + HEADER * SECTOR_SIZE <= KMEM
  BY BootAssumption
<1> DEFINE s == SegmentAt(0)
           h == HEADER * SECTOR_SIZE
<1>2. h \in Nat /\ h > 0
  BY <1>1 DEF HEADER
<1>3. s = [offset |-> 0, va |-> ELFHDR, filesz |-> h, memsz |-> h]
  BY DEF SegmentAt
<1>4. ELFHDR + h <= KMEM
  BY <1>1
<1> HIDE DEF s, h
<1>5. s \in Segment /\ s.offset = 0 /\ s.va = ELFHDR /\ s.filesz = h /\ s.memsz = h
  BY <1>1, <1>2, <1>3 DEF Segment
<1>6. Phys(s) = ELFHDR
  <2>1. ELFHDR < MASK
    BY <1>1, <1>2, <1>4
  <2>2. ELFHDR % MASK = ELFHDR
    BY <1>1, <2>1
  <2> QED
    BY <1>5, <2>2 DEF Phys
<1>7. 0 % SECTOR_SIZE = 0
  BY <1>1
<1>8. ELFHDR < MASK
  BY <1>1, <1>2, <1>4
<1>9. SegmentGood(s)
  BY <1>1, <1>2, <1>4, <1>5, <1>6, <1>7, <1>8 DEF SegmentGood
<1> QED
  BY <1>2, <1>5, <1>6, <1>9 DEF s, h

LEMMA KernelSegment ==
  ASSUME machine \in Machines, NEW i \in 1 .. Len(Kernel.phs)
  PROVE  /\ SegmentAt(i) = Kernel.phs[i] /\ SegmentGood(Kernel.phs[i])
         /\ Kernel.phs[i].memsz > 0 =>
              /\ Phys(Kernel.phs[i]) + Kernel.phs[i].filesz <= Kernel.edata
              /\ Rounddown(Phys(Kernel.phs[i]), SECTOR_SIZE) >= ELFHDR + HEADER * SECTOR_SIZE
<1> DEFINE k == Kernel
           s == Kernel.phs[i]
<1>1. Linked(k)
  BY BootAssumption DEF Kernel
<1> HIDE DEF k
<1>2. k.phs \in Seq(Segment)
  BY <1>1 DEF Linked
<1>3. i \in DOMAIN k.phs /\ k.phs[i] \in Segment
  BY <1>2 DEF k
<1>4. k.end <= KMEM /\ k.end \in Nat /\ k.edata \in Nat
  BY <1>1 DEF Linked
<1>5. /\ k.phs[i].memsz = 0 => Phys(k.phs[i]) % SECTOR_SIZE = 0
      /\ k.phs[i].memsz # 0 =>
           /\ k.phs[i].va % PAGESIZE = k.phs[i].offset % PAGESIZE
           /\ k.phs[i].filesz <= k.phs[i].memsz
           /\ Phys(k.phs[i]) + k.phs[i].filesz <= k.edata /\ Phys(k.phs[i]) + k.phs[i].memsz <= k.end
           /\ Rounddown(Phys(k.phs[i]), SECTOR_SIZE) >= ELFHDR + HEADER * SECTOR_SIZE
  BY <1>1, <1>3 DEF Linked
<1>6. s = k.phs[i]
  BY DEF k
<1> HIDE DEF s
<1>7. /\ s \in Segment /\ s.va \in Nat /\ s.offset \in Nat /\ s.memsz \in Nat /\ s.filesz \in Nat
  BY <1>3, <1>6 DEF Segment
<1>8. Phys(s) \in Nat /\ Phys(s) < MASK
  <2>1. MASK \in Nat \ {0}
    BY BootAssumption
  <2>2. s.va % MASK \in 0 .. MASK - 1
    BY <1>7, <2>1, DivFacts
  <2> QED
    BY <2>1, <2>2 DEF Phys
<1>9. s.memsz # 0 => Phys(s) % SECTOR_SIZE = s.offset % SECTOR_SIZE
  BY <1>5, <1>6, <1>7, SectorsAlign DEF Phys
<1>10. KMEM \in Nat
  BY BootAssumption
<1>11. SegmentGood(s)
  BY <1>4, <1>5, <1>6, <1>7, <1>8, <1>9, <1>10 DEF SegmentGood
<1>12. SegmentAt(i) = s
  BY DEF SegmentAt, s
<1> QED
  BY <1>5, <1>6, <1>7, <1>11, <1>12 DEF s, k

LEMMA SegmentsGood ==
  ASSUME machine \in Machines, NEW i \in 0 .. Len(Kernel.phs)
  PROVE  SegmentGood(SegmentAt(i))
<1>1. Len(Kernel.phs) \in Nat
  BY BootAssumption DEF Linked, Kernel
<1>2. CASE i = 0
  BY <1>2, HeaderGood
<1>3. CASE i \in 1 .. Len(Kernel.phs)
  BY <1>3, KernelSegment
<1> QED
  BY <1>1, <1>2, <1>3

LEMMA SegmentsInOrder ==
  ASSUME machine \in Machines, NEW i \in 0 .. Len(Kernel.phs), NEW j \in 0 .. i - 1
  PROVE  Before(SegmentAt(j), SegmentAt(i))
<1>1. Len(Kernel.phs) \in Nat /\ i \in 1 .. Len(Kernel.phs)
  BY BootAssumption DEF Linked, Kernel
<1> DEFINE s == SegmentAt(i)
           t == SegmentAt(j)
<1>2. s = Kernel.phs[i]
  BY <1>1 DEF SegmentAt
<1>3. CASE j = 0
  <2>1. Phys(t) + t.memsz = ELFHDR + HEADER * SECTOR_SIZE
    BY <1>3, HeaderGood
  <2>2. s.memsz > 0 => Rounddown(Phys(s), SECTOR_SIZE) >= ELFHDR + HEADER * SECTOR_SIZE
    BY <1>1, <1>2, KernelSegment
  <2> HIDE DEF s, t
  <2>3. Before(t, s)
    <3>1. SUFFICES ASSUME s.memsz > 0 PROVE Phys(t) + t.memsz <= Rounddown(Phys(s), SECTOR_SIZE)
      BY DEF Before
    <3> DEFINE x == Rounddown(Phys(s), SECTOR_SIZE)
               y == ELFHDR + HEADER * SECTOR_SIZE
    <3>2. x >= y /\ Phys(t) + t.memsz = y
      BY <2>1, <2>2, <3>1
    <3> HIDE DEF x, y
    <3>3. y <= x
      BY <3>2
    <3> QED
      BY <3>2, <3>3 DEF x
  <2> QED
    BY <2>3 DEF s, t
<1>4. CASE j \in 1 .. i - 1
  <2> DEFINE k == Kernel
  <2>1. Linked(k)
    BY BootAssumption DEF Kernel
  <2>2. i \in DOMAIN k.phs
    BY <1>1, <2>1 DEF Linked
  <2>3. t = Kernel.phs[j]
    BY <1>4 DEF SegmentAt
  <2> HIDE DEF s, t
  <2>4. s = k.phs[i] /\ t = k.phs[j]
    BY <1>2, <2>3
  <2> HIDE DEF k
  <2>5. s.memsz # 0 /\ t.memsz > 0 =>
          \/ Phys(t) + t.memsz <= Rounddown(Phys(s), SECTOR_SIZE)
          \/ Phys(s) - s.offset = Phys(t) - t.offset
    BY <1>4, <2>1, <2>2, <2>4 DEF Linked
  <2>6. Before(t, s)
    BY <2>5 DEF Before
  <2> QED
    BY <2>6 DEF s, t
<1> QED
  BY <1>1, <1>3, <1>4

LEMMA LbaFacts ==
  ASSUME machine \in Machines, Bootable # {}
  PROVE  bootable_lba \in Nat
<1>1. machine.table \in [1 .. 4 -> [bootable : BOOLEAN, first_lba : Nat]]
  BY BootAssumption
<1>2. Bootable \subseteq 1 .. 4
  BY <1>1 DEF Bootable
<1>3. \E i \in Bootable : \A j \in Bootable : i <= j
  <2>1. CASE 1 \in Bootable
    BY <1>2, <2>1
  <2>2. CASE 1 \notin Bootable /\ 2 \in Bootable
    BY <1>2, <2>2
  <2>3. CASE 1 \notin Bootable /\ 2 \notin Bootable /\ 3 \in Bootable
    BY <1>2, <2>3
  <2>4. CASE 1 \notin Bootable /\ 2 \notin Bootable /\ 3 \notin Bootable
    <3>1. \A x \in Bootable : x = 4
      BY <1>2, <2>4
    <3>2. 4 \in Bootable
      BY <3>1
    <3> QED
      BY <3>1, <3>2
  <2> QED
    BY <2>1, <2>2, <2>3, <2>4
<1> DEFINE c == CHOOSE i \in Bootable : \A j \in Bootable : i <= j
<1>4. c \in Bootable
  BY <1>3
<1>5. bootable_lba = machine.table[c].first_lba
  BY DEF bootable_lba
<1> HIDE DEF c
<1> QED
  BY <1>1, <1>2, <1>4, <1>5

----------------------------------------------------------------------------
(***************************************************************************)
(* One sector, and the start of a section: k is the kernel's memory, L the *)
(* first sector of the partition, v the address and q the sector.          *)
(***************************************************************************)
LoadedIn(k, L, s, a) == \A x \in FilePart(s) : x < a => k[x] = L * SECTOR_SIZE + (s.offset + x - Phys(s))

Placed(q, L, s, v) == q * SECTOR_SIZE = L * SECTOR_SIZE + (s.offset + v - Phys(s))

SectorAt(k2, k, v, q) ==
  k2 = [x \in KAddr |-> IF In(x, v, SECTOR_SIZE) THEN Disk(q)[x - v] ELSE k[x]]

BytesOf(k2, k, v, q) ==
  \A x \in KAddr : /\ In(x, v, SECTOR_SIZE) => k2[x] = q * SECTOR_SIZE + (x - v)
                   /\ ~In(x, v, SECTOR_SIZE) => k2[x] = k[x]

LEMMA SectorBytes ==
  ASSUME NEW k \in [KAddr -> Int], NEW v \in Nat, NEW q \in Nat, NEW k2, SectorAt(k2, k, v, q)
  PROVE  k2 \in [KAddr -> Int] /\ BytesOf(k2, k, v, q)
<1>1. SECTOR_SIZE \in Nat \ {0} /\ KMEM \in Nat
  BY BootAssumption
<1>2. k2 = [x \in KAddr |-> IF In(x, v, SECTOR_SIZE) THEN Disk(q)[x - v] ELSE k[x]]
  BY DEF SectorAt
<1>3. \A i \in 0 .. SECTOR_SIZE - 1 : Disk(q)[i] = q * SECTOR_SIZE + i
  BY DEF Disk
<1>4. \A x \in KAddr : In(x, v, SECTOR_SIZE) => x - v \in 0 .. SECTOR_SIZE - 1
  BY <1>1 DEF In, KAddr
<1>5. \A x \in KAddr : In(x, v, SECTOR_SIZE) => k2[x] = q * SECTOR_SIZE + (x - v) /\ x - v \in Int
  BY <1>2, <1>3, <1>4
<1>6. \A x \in KAddr : ~In(x, v, SECTOR_SIZE) => k2[x] = k[x]
  BY <1>2
<1>7. q * SECTOR_SIZE \in Int
  BY <1>1
<1>8. \A x \in KAddr : k2[x] \in Int
  BY <1>5, <1>6, <1>7
<1>9. k2 \in [KAddr -> Int]
  BY <1>2, <1>8
<1> QED
  BY <1>5, <1>6, <1>9 DEF BytesOf

LEMMA SectorRead ==
  ASSUME NEW L \in Nat, NEW k \in [KAddr -> Int], NEW s, SegmentGood(s), s.memsz > 0,
         NEW v \in Nat, NEW q \in Nat, Rounddown(Phys(s), SECTOR_SIZE) <= v, Placed(q, L, s, v),
         NEW k2, SectorAt(k2, k, v, q)
  PROVE  /\ LoadedIn(k, L, s, v) => LoadedIn(k2, L, s, v + SECTOR_SIZE)
         /\ \A t : SegmentGood(t) /\ Before(t, s) /\ LoadedIn(k, L, t, KMEM) => LoadedIn(k2, L, t, KMEM)
         /\ Placed(q + 1, L, s, v + SECTOR_SIZE)
<1>1. SECTOR_SIZE \in Nat \ {0} /\ KMEM \in Nat
  BY BootAssumption
<1>2. s.offset \in Nat /\ Phys(s) \in Nat
  BY DEF SegmentGood, Segment
<1> DEFINE A == q * SECTOR_SIZE
           B == L * SECTOR_SIZE
           r == Rounddown(Phys(s), SECTOR_SIZE)
<1>3. A \in Int /\ B \in Int /\ A = B + (s.offset + v - Phys(s)) /\ r \in Nat /\ r <= v
  BY <1>1, <1>2, RounddownFacts DEF Placed
<1>4. \A x \in KAddr : /\ In(x, v, SECTOR_SIZE) => k2[x] = A + (x - v)
                       /\ ~In(x, v, SECTOR_SIZE) => k2[x] = k[x]
  <2>1. BytesOf(k2, k, v, q)
    BY SectorBytes
  <2> QED
    BY <2>1 DEF BytesOf
<1>5. \A x \in KAddr : x \in Nat
  BY <1>1 DEF KAddr
<1>6. (q + 1) * SECTOR_SIZE = A + SECTOR_SIZE
  BY <1>1
<1> HIDE DEF A, B, r
<1>7. \A x \in KAddr : In(x, v, SECTOR_SIZE) => k2[x] = B + (s.offset + x - Phys(s))
  BY <1>2, <1>3, <1>4, <1>5
<1>8. ASSUME LoadedIn(k, L, s, v) PROVE LoadedIn(k2, L, s, v + SECTOR_SIZE)
  <2> SUFFICES ASSUME NEW x \in FilePart(s), x < v + SECTOR_SIZE
               PROVE  k2[x] = B + (s.offset + x - Phys(s))
    BY DEF LoadedIn, B
  <2>1. x \in KAddr
    BY DEF FilePart
  <2>2. CASE x < v
    <3>1. ~In(x, v, SECTOR_SIZE)
      BY <1>5, <2>1, <2>2 DEF In
    <3>2. k[x] = B + (s.offset + x - Phys(s))
      BY <1>8, <2>2 DEF LoadedIn, B
    <3> QED
      BY <1>4, <2>1, <3>1, <3>2
  <2>3. CASE ~(x < v)
    <3>1. In(x, v, SECTOR_SIZE)
      BY <1>5, <2>1, <2>3 DEF In
    <3> QED
      BY <1>7, <2>1, <3>1
  <2> QED
    BY <2>2, <2>3
<1>9. ASSUME NEW t, SegmentGood(t), Before(t, s), LoadedIn(k, L, t, KMEM) PROVE LoadedIn(k2, L, t, KMEM)
  <2> SUFFICES ASSUME NEW x \in FilePart(t), x < KMEM
               PROVE  k2[x] = B + (t.offset + x - Phys(t))
    BY DEF LoadedIn, B
  <2>1. x \in KAddr /\ t.memsz > 0 /\ x < Phys(t) + t.filesz
    BY DEF FilePart, In
  <2>2. t.offset \in Nat /\ Phys(t) \in Nat /\ t.filesz \in Nat /\ t.memsz \in Nat /\ t.filesz <= t.memsz
    BY <1>9, <2>1 DEF SegmentGood, Segment
  <2>3. k[x] = B + (t.offset + x - Phys(t))
    BY <1>9 DEF LoadedIn, B
  <2>4. CASE ~In(x, v, SECTOR_SIZE)
    BY <1>4, <2>1, <2>3, <2>4
  <2>5. CASE In(x, v, SECTOR_SIZE)
    <3>1. ~(Phys(t) + t.memsz <= r)
      BY <1>3, <1>5, <2>1, <2>2, <2>5 DEF In
    <3>2. Phys(s) - s.offset = Phys(t) - t.offset
      BY <1>9, <2>1, <3>1 DEF Before, r
    <3>3. s.offset + x - Phys(s) = t.offset + x - Phys(t)
      BY <1>2, <1>5, <2>1, <2>2, <3>2
    <3> QED
      BY <1>7, <2>1, <2>5, <3>3
  <2> QED
    BY <2>4, <2>5
<1>10. Placed(q + 1, L, s, v + SECTOR_SIZE)
  <2>1. A + SECTOR_SIZE = B + (s.offset + (v + SECTOR_SIZE) - Phys(s))
    BY <1>1, <1>2, <1>3
  <2> QED
    BY <1>6, <2>1 DEF Placed, B
<1> QED
  BY <1>8, <1>9, <1>10

\* readsection begins where the bytes before the segment in its sector belong.
LEMMA SectionStart ==
  ASSUME NEW L \in Nat, NEW s, SegmentGood(s)
  PROVE  /\ Rounddown(Phys(s), SECTOR_SIZE) \in Nat /\ (s.offset \div SECTOR_SIZE) + L \in Nat
         /\ s.memsz = 0 => ~(Rounddown(Phys(s), SECTOR_SIZE) < Phys(s) + s.memsz)
         /\ s.memsz > 0 => Placed((s.offset \div SECTOR_SIZE) + L, L, s, Rounddown(Phys(s), SECTOR_SIZE))
         /\ \A k : LoadedIn(k, L, s, Rounddown(Phys(s), SECTOR_SIZE))
<1>1. SECTOR_SIZE \in Nat \ {0} /\ KMEM \in Nat
  BY BootAssumption
<1>2. s.offset \in Nat /\ Phys(s) \in Nat /\ s.memsz \in Nat /\ s.filesz \in Nat
  BY DEF SegmentGood, Segment
<1> DEFINE r == Rounddown(Phys(s), SECTOR_SIZE)
           d == s.offset \div SECTOR_SIZE
           m == Phys(s) % SECTOR_SIZE
<1>3. r \in Nat /\ r <= Phys(s) /\ Phys(s) - r = m
  BY <1>2, RounddownFacts
<1>4. d \in Nat /\ s.offset = SECTOR_SIZE * d + (s.offset % SECTOR_SIZE)
  BY <1>1, <1>2, DivFacts
<1>5. /\ s.memsz = 0 => m = 0
      /\ s.memsz > 0 => m = s.offset % SECTOR_SIZE
  BY DEF SegmentGood
<1> HIDE DEF r, d, m
<1>6. s.memsz = 0 => ~(r < Phys(s) + s.memsz)
  BY <1>2, <1>3, <1>5
<1>7. s.memsz > 0 => Placed(d + L, L, s, r)
  <2> DEFINE A == SECTOR_SIZE * d
             B == L * SECTOR_SIZE
  <2>1. (d + L) * SECTOR_SIZE = A + B /\ A \in Int /\ B \in Int
    BY <1>1, <1>4
  <2> HIDE DEF A, B
  <2>2. s.memsz > 0 => A + B = B + (s.offset + r - Phys(s))
    BY <1>2, <1>3, <1>4, <1>5, <2>1 DEF A
  <2> QED
    BY <2>1, <2>2 DEF Placed, B
<1>8. \A k : LoadedIn(k, L, s, r)
  <2> SUFFICES ASSUME NEW x \in FilePart(s), x < r PROVE FALSE
    BY DEF LoadedIn
  <2>1. x \in Nat /\ Phys(s) <= x
    BY <1>1 DEF FilePart, In, KAddr
  <2> QED
    BY <1>2, <1>3, <2>1
<1>9. d + L \in Nat
  BY <1>4
<1> QED
  BY <1>3, <1>6, <1>7, <1>8, <1>9 DEF r, d

----------------------------------------------------------------------------
\* The invariant of the section being read, by value.
Reading(s, v, e, q, L, k) ==
  /\ v \in Nat /\ q \in Nat /\ e = Phys(s) + s.memsz /\ (s.memsz = 0 => ~(v < e))
  /\ s.memsz > 0 => Rounddown(Phys(s), SECTOR_SIZE) <= v /\ Placed(q, L, s, v)
  /\ LoadedIn(k, L, s, v)

LEMMA ReadingNow ==
  ASSUME SectionInv, pc = "load_kernel"
  PROVE  /\ Bootable # {} /\ ph \in 0 .. Len(Kernel.phs) /\ section \in Section
         /\ Reading(SegmentAt(ph), section.va, section.end_va, section.sector, bootable_lba, kmem)
         /\ \A i \in 0 .. ph - 1 : LoadedIn(kmem, bootable_lba, SegmentAt(i), KMEM)
  BY DEF SectionInv, Reading, LoadedBelow, LoadedIn, Placed, FileByte, MoreToRead, Section

LEMMA ReadingNext ==
  ASSUME machine' = machine, Bootable # {}, ph' \in 0 .. Len(Kernel.phs),
         NEW s, s = SegmentAt(ph'), section' \in Section,
         Reading(s, section'.va, section'.end_va, section'.sector, bootable_lba, kmem'),
         \A i \in 0 .. ph' - 1 : LoadedIn(kmem', bootable_lba, SegmentAt(i), KMEM)
  PROVE  SectionInv'
<1>1. Bootable' = Bootable /\ bootable_lba' = bootable_lba /\ Kernel' = Kernel
  BY DEF Bootable, bootable_lba, Kernel
<1>2. \A i : SegmentAt(i)' = SegmentAt(i)
  BY <1>1 DEF SegmentAt
<1>3. SegmentAt(ph)' = s
  BY <1>1 DEF SegmentAt
<1>4. \A t, a : LoadedIn(kmem', bootable_lba, t, a) => LoadedBelow(t, a)'
  BY <1>1 DEF LoadedIn, LoadedBelow, FileByte
<1> QED
  BY <1>1, <1>2, <1>3, <1>4 DEF SectionInv, Reading, Placed, FileByte, MoreToRead

----------------------------------------------------------------------------
\* The map of the BIOS.

LEMMA MapFacts ==
  ASSUME machine \in Machines
  PROVE  /\ machine.map \in Seq(MapRow) /\ Len(machine.map) \in Nat /\ Len(machine.map) > 0
         /\ \A i \in 1 .. Len(machine.map) : machine.map[i] \in MapRow /\ machine.map[i] # ZeroRow
         /\ ZeroRow \in MapRow
<1> DEFINE T == MapRow \ {ZeroRow}
           m == machine.map
<1>1. m \in Seq(T) /\ m # <<>>
  BY BootAssumption
<1> HIDE DEF m
<1>2. Len(m) \in Nat /\ \A i \in 1 .. Len(m) : m[i] \in T
  <2> HIDE DEF T
  <2> QED
    BY <1>1
<1>3. Len(m) > 0
  BY <1>1, <1>2
<1>4. m \in Seq(MapRow)
  BY <1>1
<1>5. ZeroRow \in MapRow
  BY DEF ZeroRow, MapRow
<1> QED
  BY <1>2, <1>3, <1>4, <1>5 DEF m, T

LEMMA E820Keeps == ASSUME MapInv, E820 PROVE MapInv'
<1> DEFINE n == Len(machine.map)
           T == MapRow
<1>1. /\ machine \in Machines /\ n \in Nat /\ n > 0 /\ machine' = machine /\ mbi' = mbi
      /\ pc = "e820" /\ row \in 0 .. n /\ row < n /\ row <= SMAP_ROWS /\ ZeroRow \in T
      /\ \A i \in 1 .. n : machine.map[i] \in T
  BY MapFacts DEF MapInv, E820
<1>2. smap \in Seq(T) /\ Len(smap) = SMAP_ROWS /\ \A i \in 1 .. row : smap[i] = machine.map[i]
  BY <1>1 DEF MapInv
<1>3. CASE Halt /\ UNCHANGED <<smap, row>>
  BY <1>1, <1>3 DEF MapInv, Halt
<1>4. CASE ~(Halt /\ UNCHANGED <<smap, row>>)
  <2> DEFINE m == machine.map
             at(i) == IF i = row + 1 THEN m[i] ELSE IF LastRow /\ i = row + 2 THEN ZeroRow ELSE smap[i]
  <2>1. /\ smap' = [i \in 1 .. SMAP_ROWS |-> at(i)] /\ row' = row + 1
        /\ pc' = IF Overrun THEN "overrun" ELSE IF LastRow THEN "boot1main" ELSE "e820"
    BY <1>4 DEF E820
  <2>2. SMAP_ROWS \in Nat
    BY BootAssumption
  <2>3. LastRow <=> row + 1 = n
    BY DEF LastRow
  <2>4. \A i \in 1 .. SMAP_ROWS : at(i) \in T
    <3>1. row + 1 \in 1 .. n
      BY <1>1
    <3> HIDE DEF T
    <3> QED
      BY <1>1, <1>2, <3>1
  <2>5. smap' \in Seq(T) /\ Len(smap') = SMAP_ROWS
    <3> HIDE DEF at, T
    <3>1. smap' \in [1 .. SMAP_ROWS -> T]
      BY <2>1, <2>4
    <3> QED
      BY <2>1, <2>2, <3>1
  <2>6. CASE Overrun
    <3>1. n >= SMAP_ROWS
      <4>1. LastRow => row + 2 > SMAP_ROWS
        BY <2>6 DEF Overrun
      <4>2. ~LastRow => row + 1 > SMAP_ROWS
        BY <2>6 DEF Overrun
      <4> QED
        BY <1>1, <2>2, <2>3, <4>1, <4>2
    <3> QED
      BY <1>1, <2>1, <2>5, <2>6, <3>1 DEF MapInv
  <2>7. CASE ~Overrun
    <3>1. row + 1 <= SMAP_ROWS /\ (LastRow => row + 2 <= SMAP_ROWS)
      BY <1>1, <2>2, <2>7 DEF Overrun
    <3>2. \A i \in 1 .. SMAP_ROWS : smap'[i] = at(i)
      BY <2>1
    <3>3. \A i \in 1 .. row + 1 : smap'[i] = machine.map[i]
      <4> TAKE i \in 1 .. row + 1
      <4>1. i \in 1 .. SMAP_ROWS /\ (i = row + 1 \/ (i \in 1 .. row /\ i # row + 1 /\ i # row + 2))
        BY <1>1, <2>2, <3>1
      <4> QED
        BY <1>2, <3>2, <4>1
    <3>4. LastRow => smap'[row + 2] = ZeroRow
      <4>1. LastRow => row + 2 \in 1 .. SMAP_ROWS /\ row + 2 # row + 1
        BY <1>1, <2>2, <3>1
      <4> QED
        BY <3>2, <4>1
    <3>5. row + 1 \in 0 .. n /\ row + 1 + 1 = row + 2 /\ (LastRow => row + 1 < SMAP_ROWS)
      BY <1>1, <2>2, <3>1
    <3>6. pc' = "e820" => row + 1 < n
      BY <1>1, <2>1, <2>3, <2>7
    <3>7. pc' \in {"e820", "boot1main"} /\ (pc' = "boot1main" => LastRow)
      BY <2>1, <2>7
    <3> HIDE DEF n
    <3>8. n = Len(machine'.map)
      BY <1>1 DEF n
    <3> QED
      BY <1>1, <2>1, <2>3, <2>5, <3>1, <3>3, <3>4, <3>5, <3>6, <3>7, <3>8 DEF MapInv
  <2> QED
    BY <2>6, <2>7
<1> QED
  BY <1>3, <1>4

\* parse_e820 counts all rows, and what it counts are the rows of the BIOS.
LEMMA RowsCounted ==
  ASSUME MapInv, pc # "overrun", row = Len(machine.map), row < SMAP_ROWS, smap[row + 1] = ZeroRow
  PROVE  parse_e820 = Len(machine.map) /\ SubSeq(smap, 1, Len(machine.map)) = machine.map
<1> DEFINE n == Len(machine.map)
           Z(x) == smap[x + 1] = ZeroRow /\ \A i \in 1 .. x : smap[i] # ZeroRow
<1>1. /\ n \in Nat /\ machine.map \in Seq(MapRow)
      /\ \A i \in 1 .. n : machine.map[i] # ZeroRow
  BY MapFacts DEF MapInv
<1>2. /\ smap \in Seq(MapRow) /\ Len(smap) = SMAP_ROWS /\ n < Len(smap)
      /\ \A i \in 1 .. n : smap[i] = machine.map[i]
  BY DEF MapInv
<1>3. n \in 0 .. Len(smap) - 1 /\ Z(n)
  BY <1>1, <1>2
<1>4. \A x \in 0 .. Len(smap) - 1 : Z(x) => x = n
  <2> SUFFICES ASSUME NEW x \in 0 .. Len(smap) - 1, Z(x), x # n PROVE FALSE
    OBVIOUS
  <2>1. x \in Nat /\ (x < n \/ n < x)
    BY <1>1, <1>2
  <2>2. CASE x < n
    <3>1. x + 1 \in 1 .. n
      BY <1>1, <2>1, <2>2
    <3> QED
      BY <1>1, <1>2, <3>1
  <2>3. CASE n < x
    <3>1. n + 1 \in 1 .. x
      BY <1>1, <2>1, <2>3
    <3> QED
      BY <3>1
  <2> QED
    BY <2>1, <2>2, <2>3
<1>5. parse_e820 = CHOOSE x \in 0 .. Len(smap) - 1 : Z(x)
  BY DEF parse_e820
<1> HIDE DEF Z
<1>6. parse_e820 = n
  BY <1>3, <1>4, <1>5
<1>7. SubSeq(smap, 1, n) = machine.map
  <2> DEFINE T == MapRow
             m == machine.map
             u == SubSeq(smap, 1, n)
  <2>1. smap \in Seq(T) /\ m \in Seq(T) /\ Len(m) = n
    BY <1>1, <1>2
  <2> HIDE DEF T, n, m
  <2>2. u \in Seq(T) /\ Len(u) = n /\ \A i \in 1 .. n : u[i] = smap[i]
    BY <1>1, <1>2, <2>1
  <2>3. \A i \in 1 .. n : u[i] = m[i]
    BY <1>2, <2>2 DEF m
  <2> HIDE DEF u
  <2>4. u = m
    BY <2>1, <2>2, <2>3
  <2> QED
    BY <2>4 DEF u, m
<1> QED
  BY <1>6, <1>7

----------------------------------------------------------------------------
\* One lemma for each step.

LEMMA Boot1mainKeeps == ASSUME BootInv, boot1main PROVE BootInv'
<1>1. /\ machine \in Machines /\ machine' = machine /\ smap' = smap /\ row' = row /\ kmem' = kmem
      /\ pc = "boot1main" /\ row = Len(machine.map) /\ row < SMAP_ROWS /\ smap[row + 1] = ZeroRow
  BY DEF BootInv, MapInv, boot1main
<1>2. StartInv' /\ (pc' = "load_kernel" \/ pc' = "panic")
  BY <1>1 DEF BootInv, StartInv, boot1main
<1>3. CASE Bootable = {}
  <2>1. pc' = "panic" /\ mbi' = mbi
    BY <1>3 DEF boot1main
  <2>2. MapInv' /\ SectionInv'
    BY <1>1, <2>1 DEF BootInv, MapInv, SectionInv
  <2> QED
    BY <1>2, <2>2 DEF BootInv
<1>4. CASE Bootable # {}
  <2> DEFINE s == SegmentAt(0)
             L == bootable_lba
             r == Rounddown(Phys(s), SECTOR_SIZE)
             q == (s.offset \div SECTOR_SIZE) + L
  <2>1. /\ mbi' = parse_e820 /\ ph' = 0 /\ pc' = "load_kernel"
        /\ readsection(ELFHDR, SECTOR_SIZE * HEADER, 0)
    BY <1>4 DEF boot1main
  <2>2. /\ SegmentGood(s) /\ s.va = ELFHDR /\ s.offset = 0
        /\ s.memsz = SECTOR_SIZE * HEADER /\ L \in Nat
    <3>1. SECTOR_SIZE \in Nat
      BY BootAssumption
    <3>2. HEADER * SECTOR_SIZE = SECTOR_SIZE * HEADER
      BY <3>1 DEF HEADER
    <3>3. s.va = ELFHDR
      BY DEF SegmentAt
    <3> QED
      BY <1>1, <1>4, <3>2, <3>3, HeaderGood, LbaFacts
  <2>3. section' = [va |-> r, end_va |-> Phys(s) + s.memsz, sector |-> q]
    BY <2>1, <2>2 DEF readsection, Phys
  <2>31. section' \in Section
    <3>1. Phys(s) + s.memsz \in Nat
      BY <2>2 DEF SegmentGood, Segment
    <3>2. r \in Nat /\ q \in Nat
      BY <2>2, SectionStart
    <3> HIDE DEF s, r, q
    <3> QED
      BY <2>3, <3>1, <3>2 DEF Section
  <2>4. mbi' = Len(machine.map)
    BY <1>1, <2>1, RowsCounted DEF BootInv
  <2>5. MapInv'
    BY <1>1, <2>1, <2>4 DEF BootInv, MapInv
  <2> HIDE DEF s, L
  <2>6. Reading(s, r, Phys(s) + s.memsz, q, L, kmem')
    <3>1. r <= r
      BY <2>2, SectionStart
    <3> QED
      BY <2>2, <3>1, SectionStart DEF Reading
  <2> HIDE DEF r, q
  <2>7. Reading(s, section'.va, section'.end_va, section'.sector, L, kmem')
    BY <2>3, <2>6
  <2>8. 0 \in 0 .. Len(Kernel.phs)
    BY <1>1, BootAssumption DEF Linked, Kernel
  <2>9. SectionInv'
    <3>1. s = SegmentAt(ph') /\ ph' \in 0 .. Len(Kernel.phs)
      BY <2>1, <2>8 DEF s
    <3>2. \A i \in 0 .. ph' - 1 : LoadedIn(kmem', bootable_lba, SegmentAt(i), KMEM)
      BY <2>1
    <3> QED
      BY <1>1, <1>4, <2>31, <2>7, <3>1, <3>2, ReadingNext DEF L
  <2> QED
    BY <1>2, <2>5, <2>9 DEF BootInv
<1> QED
  BY <1>3, <1>4

LEMMA ReadsectorKeeps == ASSUME BootInv, readsector PROVE BootInv'
<1> DEFINE s == SegmentAt(ph)
           L == bootable_lba
           v == section.va
           q == section.sector
<1>1. /\ machine \in Machines /\ machine' = machine /\ smap' = smap /\ row' = row /\ mbi' = mbi
      /\ pc = "load_kernel" /\ pc' = pc /\ ph' = ph /\ kmem \in [KAddr -> Int]
      /\ section.va < section.end_va /\ SectorAt(kmem', kmem, v, q)
  BY DEF BootInv, MapInv, StartInv, readsector, MoreToRead, SectorAt
<1>2. MapInv'
  BY <1>1 DEF BootInv, MapInv
<1>3. /\ Bootable # {} /\ ph \in 0 .. Len(Kernel.phs) /\ section \in Section
      /\ Reading(s, v, section.end_va, q, L, kmem)
      /\ \A i \in 0 .. ph - 1 : LoadedIn(kmem, L, SegmentAt(i), KMEM)
  BY <1>1, ReadingNow DEF BootInv
<1>4. SegmentGood(s) /\ L \in Nat
  BY <1>1, <1>3, SegmentsGood, LbaFacts
<1>5. \A i \in 0 .. ph - 1 : SegmentGood(SegmentAt(i)) /\ Before(SegmentAt(i), s)
  <2> TAKE i \in 0 .. ph - 1
  <2>1. i \in 0 .. Len(Kernel.phs)
    BY <1>1, <1>3, BootAssumption DEF Linked, Kernel
  <2> QED
    BY <1>1, <1>3, <2>1, SegmentsGood, SegmentsInOrder
<1> DEFINE v2 == v + SECTOR_SIZE
<1>6. section' = [section EXCEPT !.va = v2 % (2 * MASK), !.sector = q + 1]
  BY DEF readsector
<1>7. /\ v \in Nat /\ q \in Nat /\ section.end_va = Phys(s) + s.memsz /\ v < Phys(s) + s.memsz
      /\ s.memsz > 0 /\ Rounddown(Phys(s), SECTOR_SIZE) <= v /\ Placed(q, L, s, v) /\ LoadedIn(kmem, L, s, v)
      /\ Phys(s) \in Nat
  <2>1. s.memsz \in Nat /\ Phys(s) \in Nat
    BY <1>4 DEF SegmentGood, Segment
  <2>2. s.memsz # 0 /\ section.end_va = Phys(s) + s.memsz
    BY <1>1, <1>3 DEF Reading
  <2> QED
    BY <1>1, <1>3, <2>1, <2>2 DEF Reading
\* The address does not wrap.
<1>8. v2 % (2 * MASK) = v2 /\ v2 \in Nat
  <2>1. /\ SECTOR_SIZE \in Nat \ {0} /\ PAGESIZE \in Nat \ {0} /\ PAGESIZE % SECTOR_SIZE = 0
        /\ MASK \in Nat \ {0} /\ MASK % PAGESIZE = 0 /\ KMEM \in Nat /\ KMEM <= MASK
    BY BootAssumption
  <2>2. PAGESIZE <= MASK /\ SECTOR_SIZE <= PAGESIZE
    <3>1. \A a, n \in Nat \ {0} : a % n = 0 => n <= a
      BY SMTT(30)
    <3> QED
      BY <2>1, <3>1
  <2>3. Phys(s) + s.memsz <= KMEM
    BY <1>4, <1>7 DEF SegmentGood
  <2>4. s.memsz \in Nat
    BY <1>4 DEF SegmentGood, Segment
  <2>5. v < MASK
    BY <1>7, <2>1, <2>3, <2>4
  <2>6. v2 \in Nat /\ v2 < 2 * MASK
    BY <1>7, <2>1, <2>2, <2>5
  <2> HIDE DEF v2
  <2>7. v2 % (2 * MASK) = v2
    BY <2>1, <2>6
  <2> QED
    BY <2>6, <2>7
<1>9. section' = [section EXCEPT !.va = v2, !.sector = q + 1]
  BY <1>6, <1>8
<1>10. section'.va = v2 /\ section'.sector = q + 1 /\ section'.end_va = section.end_va /\ section' \in Section
  <2> DEFINE q2 == q + 1
  <2>1. section \in Section /\ v2 \in Nat /\ q2 \in Nat /\ section' = [section EXCEPT !.va = v2, !.sector = q2]
    BY <1>3, <1>7, <1>8, <1>9
  <2> HIDE DEF v2, q2, q, v
  <2>2. section'.va = v2 /\ section'.sector = q2 /\ section'.end_va = section.end_va /\ section' \in Section
    BY <2>1 DEF Section
  <2> QED
    BY <2>2 DEF q2
<1>11. /\ LoadedIn(kmem', L, s, v2) /\ Placed(q + 1, L, s, v2)
       /\ \A i \in 0 .. ph - 1 : LoadedIn(kmem', L, SegmentAt(i), KMEM)
  <2> HIDE DEF s, L, v, q
  <2>1. /\ LoadedIn(kmem', L, s, v + SECTOR_SIZE) /\ Placed(q + 1, L, s, v + SECTOR_SIZE)
        /\ \A t : SegmentGood(t) /\ Before(t, s) /\ LoadedIn(kmem, L, t, KMEM) => LoadedIn(kmem', L, t, KMEM)
    BY <1>1, <1>4, <1>7, SectorRead
  <2> QED
    BY <1>3, <1>5, <2>1
<1>12. Reading(s, section'.va, section'.end_va, section'.sector, L, kmem')
  <2>1. Rounddown(Phys(s), SECTOR_SIZE) <= v2
    <3>1. SECTOR_SIZE \in Nat /\ Rounddown(Phys(s), SECTOR_SIZE) \in Nat
      BY <1>7, BootAssumption, RounddownFacts
    <3> QED
      BY <1>7, <3>1
  <2>2. s.memsz # 0 /\ q + 1 \in Nat
    BY <1>7
  <2> HIDE DEF v2, s, L, q
  <2> QED
    BY <1>7, <1>8, <1>10, <1>11, <2>1, <2>2 DEF Reading
<1>13. SectionInv'
  <2> HIDE DEF s, L
  <2>1. s = SegmentAt(ph')
    BY <1>1 DEF s
  <2>2. Reading(s, section'.va, section'.end_va, section'.sector, bootable_lba, kmem')
    BY <1>12 DEF L
  <2>3. \A i \in 0 .. ph' - 1 : LoadedIn(kmem', bootable_lba, SegmentAt(i), KMEM)
    BY <1>1, <1>11 DEF L
  <2> QED
    BY <1>1, <1>3, <1>10, <2>1, <2>2, <2>3, ReadingNext
<1>14. StartInv'
  <2>1. kmem' \in [KAddr -> Int]
    BY <1>1, <1>7, SectorBytes
  <2> QED
    BY <1>1, <2>1 DEF StartInv
<1> QED
  BY <1>2, <1>13, <1>14 DEF BootInv

LEMMA LoadKernelKeeps == ASSUME BootInv, load_kernel PROVE BootInv'
<1> DEFINE s == SegmentAt(ph)
           L == bootable_lba
<1>1. /\ machine \in Machines /\ machine' = machine /\ smap' = smap /\ row' = row /\ mbi' = mbi
      /\ pc = "load_kernel" /\ kmem' = kmem /\ kmem \in [KAddr -> Int] /\ ~MoreToRead
  BY DEF BootInv, MapInv, StartInv, load_kernel
<1>2. /\ Bootable # {} /\ ph \in 0 .. Len(Kernel.phs) /\ section \in Section
      /\ Reading(s, section.va, section.end_va, section.sector, L, kmem)
      /\ \A i \in 0 .. ph - 1 : LoadedIn(kmem, L, SegmentAt(i), KMEM)
  BY <1>1, ReadingNow DEF BootInv
<1>3. Len(Kernel.phs) \in Nat
  BY <1>1, BootAssumption DEF Linked, Kernel
<1>4. SegmentGood(s) /\ L \in Nat
  BY <1>1, <1>2, SegmentsGood, LbaFacts
\* The segment that was read last is complete.
<1>5. LoadedIn(kmem, L, s, KMEM)
  <2> SUFFICES ASSUME NEW x \in FilePart(s)
               PROVE  kmem[x] = L * SECTOR_SIZE + (s.offset + x - Phys(s))
    BY DEF LoadedIn
  <2> HIDE DEF s, L
  <2>1. x \in Nat /\ s.memsz > 0 /\ x < Phys(s) + s.filesz
    <3>1. KMEM \in Nat
      BY BootAssumption
    <3> QED
      BY <3>1 DEF FilePart, In, KAddr
  <2>2. s.filesz \in Nat /\ s.memsz \in Nat /\ Phys(s) \in Nat /\ s.filesz <= s.memsz
    BY <1>4, <2>1 DEF SegmentGood, Segment
  <2>3. section.va \in Nat /\ section.end_va = Phys(s) + s.memsz /\ ~(section.va < section.end_va)
    BY <1>1, <1>2 DEF Reading, MoreToRead
  <2>4. x < section.va
    BY <2>1, <2>2, <2>3
  <2> QED
    BY <1>2, <2>4 DEF Reading, LoadedIn
<1>6. \A i \in 0 .. ph : LoadedIn(kmem, L, SegmentAt(i), KMEM)
  <2> TAKE i \in 0 .. ph
  <2>1. i \in 0 .. ph - 1 \/ i = ph
    BY <1>2, <1>3
  <2> QED
    BY <1>2, <1>5, <2>1
<1>7. CASE pc' = "panic" /\ UNCHANGED <<ph, section>>
  BY <1>1, <1>7 DEF BootInv, MapInv, SectionInv, StartInv
<1>8. CASE /\ ph < Len(Kernel.phs) /\ ph' = ph + 1 /\ pc' = pc
           /\ readsection(Kernel.phs[ph + 1].va, Kernel.phs[ph + 1].memsz, Kernel.phs[ph + 1].offset)
  <2> DEFINE t == Kernel.phs[ph + 1]
             r == Rounddown(Phys(t), SECTOR_SIZE)
             q == (t.offset \div SECTOR_SIZE) + L
  <2>1. ph' \in 1 .. Len(Kernel.phs) /\ ph' \in 0 .. Len(Kernel.phs) /\ ph' = ph + 1
    BY <1>2, <1>3, <1>8
  <2>2. t = SegmentAt(ph') /\ SegmentGood(t)
    <3>1. t = Kernel.phs[ph']
      BY <2>1
    <3>2. SegmentAt(ph') = Kernel.phs[ph'] /\ SegmentGood(Kernel.phs[ph'])
      BY <1>1, <2>1, KernelSegment
    <3> QED
      BY <3>1, <3>2
  <2>3. section' = [va |-> r, end_va |-> Phys(t) + t.memsz, sector |-> q]
    BY <1>8 DEF readsection, Phys
  <2> HIDE DEF t, L
  <2>4. /\ r \in Nat /\ q \in Nat
        /\ t.memsz = 0 => ~(r < Phys(t) + t.memsz)
        /\ t.memsz > 0 => Placed(q, L, t, r)
        /\ LoadedIn(kmem, L, t, r)
    BY <1>4, <2>2, SectionStart
  <2>5. Phys(t) + t.memsz \in Nat
    BY <2>2 DEF SegmentGood, Segment
  <2> HIDE DEF r, q
  <2>6. section' \in Section
    BY <2>3, <2>4, <2>5 DEF Section
  <2>7. Reading(t, section'.va, section'.end_va, section'.sector, L, kmem')
    <3>1. r <= r
      BY <2>4
    <3> QED
      BY <1>1, <2>3, <2>4, <3>1 DEF Reading, r
  <2>8. \A i \in 0 .. ph' - 1 : LoadedIn(kmem', L, SegmentAt(i), KMEM)
    <3>1. ph' - 1 = ph
      BY <1>2, <2>1
    <3> QED
      BY <1>1, <1>6, <3>1
  <2>9. SectionInv'
    <3>1. Reading(t, section'.va, section'.end_va, section'.sector, bootable_lba, kmem')
      BY <2>7 DEF L
    <3>2. \A i \in 0 .. ph' - 1 : LoadedIn(kmem', bootable_lba, SegmentAt(i), KMEM)
      BY <2>8 DEF L
    <3> QED
      BY <1>1, <1>2, <2>1, <2>2, <2>6, <3>1, <3>2, ReadingNext
  <2>10. MapInv' /\ StartInv'
    BY <1>1, <1>8 DEF BootInv, MapInv, StartInv
  <2> QED
    BY <2>9, <2>10 DEF BootInv
<1>9. CASE ph = Len(Kernel.phs) /\ pc' = "start"
  <2>1. MapInv' /\ SectionInv'
    BY <1>1, <1>9 DEF BootInv, MapInv, SectionInv
  <2>2. \A i \in DOMAIN Kernel.phs : \A x \in FilePart(Kernel.phs[i]) :
           kmem[x] = FileByte(Kernel.phs[i].offset + x - Phys(Kernel.phs[i]))
    <3> TAKE i \in DOMAIN Kernel.phs
    <3> TAKE x \in FilePart(Kernel.phs[i])
    <3>1. i \in 1 .. Len(Kernel.phs) /\ i \in 0 .. ph
      BY <1>1, <1>9, BootAssumption DEF Linked, Kernel
    <3>2. SegmentAt(i) = Kernel.phs[i]
      BY <1>1, <3>1, KernelSegment
    <3>3. LoadedIn(kmem, L, Kernel.phs[i], KMEM)
      BY <1>6, <3>1, <3>2
    <3>4. x < KMEM
      <4>1. KMEM \in Nat
        BY BootAssumption
      <4> QED
        BY <4>1 DEF FilePart, KAddr
    <3> QED
      BY <3>3, <3>4 DEF LoadedIn, FileByte
  <2>3. StartInv'
    <3>1. Kernel' = Kernel /\ bootable_lba' = bootable_lba
      BY <1>1 DEF Kernel, bootable_lba, Bootable
    <3> QED
      BY <1>1, <1>9, <2>2, <3>1 DEF StartInv, FileByte
  <2> QED
    BY <2>1, <2>3 DEF BootInv
<1> QED
  BY <1>7, <1>8, <1>9 DEF load_kernel

LEMMA KernelFacts ==
  ASSUME machine \in Machines
  PROVE  /\ Kernel.edata \in Nat /\ Kernel.kstack \in Nat /\ Kernel.end \in Nat /\ Kernel.multiboot_ptr \in KAddr
         /\ Kernel.edata <= Kernel.kstack /\ Kernel.kstack + PAGESIZE <= Kernel.end /\ Kernel.end <= KMEM
         /\ PAGESIZE \in Nat /\ PAGESIZE > 0 /\ KMEM \in Nat
         /\ \A i \in DOMAIN Kernel.phs : \A x \in FilePart(Kernel.phs[i]) :
               x \in KAddr /\ x \in Nat /\ x < Kernel.edata
<1>1. Linked(Kernel) /\ PAGESIZE \in Nat /\ PAGESIZE > 0 /\ KMEM \in Nat
  BY BootAssumption DEF Kernel
<1>2. /\ Kernel.edata \in Nat /\ Kernel.kstack \in Nat /\ Kernel.end \in Nat /\ Kernel.multiboot_ptr \in KAddr
      /\ Kernel.edata <= Kernel.kstack /\ Kernel.kstack + PAGESIZE <= Kernel.end /\ Kernel.end <= KMEM
  BY <1>1 DEF Linked
<1>3. \A i \in DOMAIN Kernel.phs : \A x \in FilePart(Kernel.phs[i]) :
         x \in KAddr /\ x \in Nat /\ x < Kernel.edata
  <2> TAKE i \in DOMAIN Kernel.phs
  <2> DEFINE s == Kernel.phs[i]
  <2> TAKE x \in FilePart(s)
  <2>1. i \in 1 .. Len(Kernel.phs)
    BY <1>1 DEF Linked
  <2>2. SegmentGood(s) /\ (s.memsz > 0 => Phys(s) + s.filesz <= Kernel.edata)
    BY <2>1, KernelSegment
  <2> HIDE DEF s
  <2>3. x \in KAddr /\ x \in Nat /\ s.memsz > 0 /\ x < Phys(s) + s.filesz
    BY <1>1 DEF FilePart, In, KAddr
  <2>4. Phys(s) \in Nat /\ s.filesz \in Nat
    BY <2>2 DEF SegmentGood, Segment
  <2> QED
    BY <1>2, <2>2, <2>3, <2>4
<1> QED
  BY <1>1, <1>2, <1>3

LEMMA StartKeeps == ASSUME BootInv, start PROVE BootInv'
<1> DEFINE e == Kernel.kstack + PAGESIZE - 1
           b == Kernel.multiboot_ptr
<1>1. /\ machine \in Machines /\ machine' = machine /\ smap' = smap /\ row' = row /\ mbi' = mbi
      /\ pc = "start" /\ pc' = "seg_init" /\ kmem \in [KAddr -> Int]
      /\ kmem' = [kmem EXCEPT ![b] = MBI, ![e] = MBI]
      /\ \A i \in DOMAIN Kernel.phs : \A x \in FilePart(Kernel.phs[i]) \ {b} :
             kmem[x] = FileByte(Kernel.phs[i].offset + x - Phys(Kernel.phs[i]))
  BY DEF BootInv, MapInv, StartInv, start
<1>2. MapInv' /\ SectionInv'
  BY <1>1 DEF BootInv, MapInv, SectionInv
<1>3. /\ b \in KAddr /\ e \in KAddr /\ Kernel.edata <= e /\ e \in Nat /\ Kernel.edata \in Nat
  BY <1>1, KernelFacts DEF KAddr
<1>4. \A i \in DOMAIN Kernel.phs : \A x \in FilePart(Kernel.phs[i]) : x \in KAddr /\ x \in Nat /\ x < Kernel.edata
  BY <1>1, KernelFacts
<1>5. Kernel' = Kernel /\ bootable_lba' = bootable_lba
  BY <1>1 DEF Kernel, bootable_lba, Bootable
<1>6. MBI \in Int
  BY DEF MBI
<1>7. kmem' \in [KAddr -> Int] /\ kmem'[e] = MBI /\ \A x \in KAddr \ {b, e} : kmem'[x] = kmem[x]
  <2> HIDE DEF b, e
  <2> QED
    BY <1>1, <1>3, <1>6
<1>8. \A i \in DOMAIN Kernel.phs : \A x \in FilePart(Kernel.phs[i]) \ {b} :
         kmem'[x] = FileByte(Kernel.phs[i].offset + x - Phys(Kernel.phs[i]))
  <2> TAKE i \in DOMAIN Kernel.phs
  <2> TAKE x \in FilePart(Kernel.phs[i]) \ {b}
  <2>1. x \in KAddr \ {b, e}
    <3> HIDE DEF b, e
    <3> QED
      BY <1>3, <1>4
  <2> QED
    BY <1>1, <1>7, <2>1
<1>9. StartInv'
  <2>1. (kmem[Kernel.kstack + PAGESIZE - 1] = MBI)'
    BY <1>5, <1>7
  <2>2. (\A i \in DOMAIN Kernel.phs : \A x \in FilePart(Kernel.phs[i]) \ {Kernel.multiboot_ptr} :
            kmem[x] = FileByte(Kernel.phs[i].offset + x - Phys(Kernel.phs[i])))'
    BY <1>5, <1>8 DEF FileByte
  <2>3. pc' = "seg_init" /\ kmem' \in [KAddr -> Int]
    BY <1>1, <1>7
  <2> QED
    BY <2>1, <2>2, <2>3 DEF StartInv
<1> QED
  BY <1>2, <1>9 DEF BootInv

LEMMA SegInitKeeps == ASSUME BootInv, seg_init PROVE BootInv'
<1> DEFINE e == Kernel.kstack + PAGESIZE - 1
           b == Kernel.multiboot_ptr
<1>1. /\ machine \in Machines /\ machine' = machine /\ smap' = smap /\ row' = row /\ mbi' = mbi
      /\ pc = "seg_init" /\ pc' = "main" /\ kmem \in [KAddr -> Int]
      /\ kmem' = [x \in KAddr |-> IF Cleared(x) THEN 0 ELSE kmem[x]]
      /\ kmem[e] = MBI
      /\ \A i \in DOMAIN Kernel.phs : \A x \in FilePart(Kernel.phs[i]) \ {b} :
             kmem[x] = FileByte(Kernel.phs[i].offset + x - Phys(Kernel.phs[i]))
  BY DEF BootInv, MapInv, StartInv, seg_init
<1>2. MapInv' /\ SectionInv'
  BY <1>1 DEF BootInv, MapInv, SectionInv
<1>3. /\ Kernel.edata \in Nat /\ Kernel.kstack \in Nat /\ Kernel.end \in Nat
      /\ Kernel.edata <= Kernel.kstack /\ Kernel.kstack + PAGESIZE <= Kernel.end /\ Kernel.end <= KMEM
      /\ PAGESIZE \in Nat /\ PAGESIZE > 0 /\ KMEM \in Nat
  BY <1>1, KernelFacts
<1>4. Kernel' = Kernel /\ bootable_lba' = bootable_lba
  BY <1>1 DEF Kernel, bootable_lba, Bootable
<1>5. kmem' \in [KAddr -> Int] /\ \A x \in KAddr : kmem'[x] = IF Cleared(x) THEN 0 ELSE kmem[x]
  BY <1>1
<1>6. \A i \in DOMAIN Kernel.phs : \A x \in FilePart(Kernel.phs[i]) \ {b} :
         kmem'[x] = FileByte(Kernel.phs[i].offset + x - Phys(Kernel.phs[i]))
  <2> TAKE i \in DOMAIN Kernel.phs
  <2> TAKE x \in FilePart(Kernel.phs[i]) \ {b}
  <2>1. x \in KAddr /\ x \in Nat /\ x < Kernel.edata
    BY <1>1, KernelFacts
  <2>2. ~Cleared(x)
    BY <1>3, <2>1 DEF Cleared
  <2> QED
    BY <1>1, <1>5, <2>1, <2>2
<1>7. kmem'[e] = MBI
  <2>1. e \in KAddr
    BY <1>3 DEF KAddr
  <2>2. ~Cleared(e)
    BY <1>3 DEF Cleared
  <2> QED
    BY <1>1, <1>5, <2>1, <2>2
<1>8. \A x \in Kernel.edata .. Kernel.end - 1 : ~In(x, Kernel.kstack, PAGESIZE) => kmem'[x] = 0
  <2> SUFFICES ASSUME NEW x \in Kernel.edata .. Kernel.end - 1, ~In(x, Kernel.kstack, PAGESIZE)
               PROVE  kmem'[x] = 0
    OBVIOUS
  <2>1. x \in KAddr
    BY <1>3 DEF KAddr
  <2>2. Cleared(x)
    BY <1>3 DEF Cleared, In
  <2> QED
    BY <1>5, <2>1, <2>2
<1>9. StartInv'
  BY <1>1, <1>4, <1>5, <1>6, <1>7, <1>8 DEF StartInv, FileByte
<1> QED
  BY <1>2, <1>9 DEF BootInv

\* Once the kernel runs, the loader of programs leaves pc and the map alone.
LEMMA LoaderKeeps ==
  ASSUME BootInv, machine' = machine, smap' = smap, row' = row, mbi' = mbi,
         \/ pc' \in {"elf_load", "panic", "halted", "e820"} /\ pc \notin {"loaded", "astray"} /\ kmem' = kmem
         \/ pc' \in {"loaded", "astray"},
         pc # "overrun", pc' = "e820" => pc = "boot0"
  PROVE  BootInv'
<1>1. MapInv'
  BY DEF BootInv, MapInv
<1>2. SectionInv' /\ StartInv'
  BY DEF BootInv, SectionInv, StartInv
<1> QED
  BY <1>1, <1>2 DEF BootInv

LEMMA BootStep ==
  ASSUME BootInv, [LoadNext]_<<bootVars, loadVars>>
  PROVE  BootInv'
<1>1. CASE BootNext
  <2>1. CASE LoadBoot1
    BY <2>1, LoaderKeeps DEF LoadBoot1, Halt
  <2>2. CASE E820
    <3>1. MapInv'
      BY <2>2, E820Keeps DEF BootInv
    <3>2. pc = "e820" /\ pc' \in {"halted", "overrun", "e820", "boot1main"} /\ kmem' = kmem
      BY <2>2 DEF E820, Halt
    <3>3. SectionInv' /\ StartInv'
      BY <3>2 DEF BootInv, SectionInv, StartInv
    <3> QED
      BY <3>1, <3>3 DEF BootInv
  <2> QED
    BY <1>1, <2>1, <2>2, Boot1mainKeeps, ReadsectorKeeps, LoadKernelKeeps, StartKeeps, SegInitKeeps DEF BootNext
<1>2. CASE pc = "main" /\ \E p \in Programs : elf_load(p)
  BY <1>2, LoaderKeeps DEF elf_load
<1>3. CASE ElfStep
  <2>1. CASE NextHeader \/ SegmentEnd
    BY <2>1, LoaderKeeps DEF NextHeader, SegmentEnd
  <2>2. CASE LoadPage
    BY <2>2, LoaderKeeps DEF LoadPage, bootVars
  <2>3. CASE LoadDll
    BY <2>3, LoaderKeeps DEF LoadDll
  <2> QED
    BY <1>3, <2>1, <2>2, <2>3 DEF ElfStep
<1>4. CASE MayCopy /\ \E a \in CopyArgs : CopyOut(a) \/ CopyIn(a) \/ CopyAstray(a)
  <2>1. /\ pc = "loaded" /\ pc' \in {"loaded", "astray"}
        /\ machine' = machine /\ smap' = smap /\ row' = row /\ mbi' = mbi
    BY <1>4 DEF MayCopy, CopyOut, CopyIn, CopyAstray, bootVars
  <2> QED
    BY <2>1, LoaderKeeps
<1>5. CASE UNCHANGED <<bootVars, loadVars>>
  <2>1. /\ machine' = machine /\ pc' = pc /\ smap' = smap /\ row' = row /\ mbi' = mbi
        /\ kmem' = kmem /\ section' = section /\ ph' = ph
    BY <1>5 DEF bootVars
  <2>2. MapInv'
    BY <2>1 DEF BootInv, MapInv
  <2>3. Kernel' = Kernel /\ bootable_lba' = bootable_lba /\ Bootable' = Bootable
    BY <2>1 DEF Kernel, bootable_lba, Bootable
  <2>4. StartInv'
    BY <2>1, <2>3 DEF BootInv, StartInv, FileByte
  <2>5. SectionInv'
    BY <2>1, <2>3 DEF BootInv, SectionInv, SegmentAt, LoadedBelow, FileByte, MoreToRead
  <2> QED
    BY <2>2, <2>4, <2>5 DEF BootInv
<1> QED
  BY <1>1, <1>2, <1>3, <1>4, <1>5 DEF LoadNext

----------------------------------------------------------------------------
(***************************************************************************)
(* The boot loader's invariant holds throughout, whatever is loaded and    *)
(* copied afterwards.                                                      *)
(***************************************************************************)
THEOREM BootInvariant == LoadSpec => []BootInv
<1>1. LoadInit => BootInv
  <2> SUFFICES ASSUME LoadInit PROVE BootInv
    OBVIOUS
  <2> DEFINE T == MapRow
             n == Len(machine.map)
  <2>1. /\ machine \in Machines /\ pc = "boot0" /\ row = 0
        /\ smap = [i \in 1 .. SMAP_ROWS |-> ZeroRow]
        /\ kmem = [x \in KAddr |-> Junk]
    BY DEF LoadInit, BootInit
  <2>2. n \in Nat /\ n > 0 /\ ZeroRow \in T
    BY <2>1, MapFacts
  <2>3. smap \in Seq(T) /\ Len(smap) = SMAP_ROWS
    <3> HIDE DEF n, T
    <3>1. SMAP_ROWS \in Nat /\ smap \in [1 .. SMAP_ROWS -> T]
      BY <2>1, <2>2, BootAssumption
    <3> QED
      BY <2>1, <3>1
  <2>4. MapInv
    BY <2>1, <2>2, <2>3, BootAssumption DEF MapInv
  <2>5. SectionInv /\ StartInv
    BY <2>1 DEF SectionInv, StartInv, Junk
  <2> QED
    BY <2>4, <2>5 DEF BootInv
<1>2. BootInv /\ [LoadNext]_<<bootVars, loadVars>> => BootInv'
  BY BootStep
<1> QED
  BY <1>1, <1>2, PTL DEF LoadSpec

(***************************************************************************)
(* kern_main starts with every byte of every segment in place, the bss     *)
(* zero but for the stack that is in use, and all rows of the BIOS's map,  *)
(* and the headers are intact while load_kernel uses them.  Only a map     *)
(* that does not fit boot1's space is written over its code.               *)
(***************************************************************************)
THEOREM KernelLoadedAsLinked == LoadSpec => []KernelLoaded
<1>1. BootInv => KernelLoaded
  <2> SUFFICES ASSUME BootInv PROVE KernelLoaded
    OBVIOUS
  <2>1. machine \in Machines
    BY DEF BootInv, MapInv
  <2>2. ASSUME pc = "load_kernel", ph > 0, NEW i \in 0 .. HEADER * SECTOR_SIZE - 1
        PROVE  kmem[ELFHDR + i] = FileByte(i)
    <3> DEFINE s == SegmentAt(0)
               x == ELFHDR + i
               h == HEADER * SECTOR_SIZE
    <3>1. /\ s.memsz = h /\ s.filesz = h /\ s.offset = 0 /\ Phys(s) = ELFHDR /\ h \in Nat /\ h > 0
      BY <2>1, HeaderGood
    <3>2. ELFHDR \in Nat /\ KMEM \in Nat /\ ELFHDR + h <= KMEM
      BY BootAssumption
    <3>3. LoadedIn(kmem, bootable_lba, s, KMEM)
      <4>1. ph \in 0 .. Len(Kernel.phs) /\ \A j \in 0 .. ph - 1 : LoadedIn(kmem, bootable_lba, SegmentAt(j), KMEM)
        BY <2>2, ReadingNow DEF BootInv
      <4>2. ph \in Nat
        BY <2>1, <4>1, BootAssumption DEF Linked, Kernel
      <4>3. 0 \in 0 .. ph - 1
        BY <2>2, <4>2
      <4> QED
        BY <4>1, <4>3
    <3> HIDE DEF s, h
    <3>4. i \in 0 .. h - 1
      BY DEF h
    <3>5. x \in FilePart(s) /\ x < KMEM
      BY <3>1, <3>2, <3>4 DEF FilePart, In, KAddr
    <3>6. s.offset + x - Phys(s) = i
      BY <3>1, <3>2, <3>4
    <3>7. kmem[x] = bootable_lba * SECTOR_SIZE + (s.offset + x - Phys(s))
      BY <3>3, <3>5 DEF LoadedIn
    <3> QED
      BY <3>6, <3>7 DEF FileByte
  <2>3. ASSUME pc = "main" PROVE SubSeq(smap, 1, mbi) = machine.map
    BY <2>3, RowsCounted DEF BootInv, MapInv
  <2> QED
    BY <2>2, <2>3 DEF BootInv, MapInv, StartInv, KernelLoaded
<1> QED
  BY <1>1, BootInvariant, PTL

----------------------------------------------------------------------------
\* Pages.

LEMMA PageNat ==
  /\ PAGESIZE \in Nat \ {0} /\ KMEM \in Nat /\ KMEM > 0
  /\ VM_USERLO \in Nat /\ VM_USERHI \in Nat /\ KMEM <= VM_USERLO
  /\ VM_DYNLINK \in UAddr /\ VM_DYNLINK % PAGESIZE = 0
<1>1. /\ PAGESIZE \in Nat \ {0} /\ KMEM \in Nat /\ ELFHDR \in Nat /\ SECTOR_SIZE \in Nat \ {0}
      /\ ELFHDR + 8 * SECTOR_SIZE <= KMEM
  BY BootAssumption DEF HEADER
<1> QED
  BY <1>1, LoaderAssumption

LEMMA PageBounds ==
  ASSUME NEW x \in Nat
  PROVE  /\ PageOf(x) \in Nat /\ PageOf(x) * PAGESIZE \in Nat
         /\ PageOf(x) * PAGESIZE <= x /\ x < PageOf(x) * PAGESIZE + PAGESIZE
         /\ x % PAGESIZE = x - PageOf(x) * PAGESIZE
         /\ Rounddown(x, PAGESIZE) = PageOf(x) * PAGESIZE
<1>1. PAGESIZE \in Nat \ {0}
  BY PageNat
<1> DEFINE q == x \div PAGESIZE
           r == x % PAGESIZE
           m == q * PAGESIZE
<1>2. q \in Nat /\ r \in 0 .. PAGESIZE - 1 /\ x = PAGESIZE * q + r
  BY <1>1, DivFacts
<1>3. m \in Nat /\ m = PAGESIZE * q
  BY <1>1, <1>2
<1> HIDE DEF q, r, m
<1>4. /\ q \in Nat /\ m \in Nat /\ m <= x /\ x < m + PAGESIZE /\ r = x - m /\ x - r = m
  BY <1>1, <1>2, <1>3
<1> QED
  BY <1>4 DEF q, r, m, PageOf, Rounddown

LEMMA PageUnique ==
  ASSUME NEW x \in Nat, NEW p \in Nat, p * PAGESIZE <= x, x < p * PAGESIZE + PAGESIZE
  PROVE  PageOf(x) = p
<1>1. PAGESIZE \in Nat \ {0}
  BY PageNat
<1> DEFINE q == PageOf(x)
<1>2. q \in Nat /\ q * PAGESIZE <= x /\ x < q * PAGESIZE + PAGESIZE
  BY PageBounds
<1> HIDE DEF q
<1>3. p * PAGESIZE \in Int /\ q * PAGESIZE \in Int
  BY <1>1, <1>2
<1>4. p * PAGESIZE < q * PAGESIZE + PAGESIZE /\ q * PAGESIZE < p * PAGESIZE + PAGESIZE
  BY <1>1, <1>2, <1>3
<1>5. p <= q /\ q <= p
  BY <1>1, <1>2, <1>4, MulOrder
<1>6. p = q
  BY <1>2, <1>5
<1> QED
  BY <1>6 DEF q

\* A multiple of the size of a page is the start of its page.
LEMMA PageStart ==
  ASSUME NEW a \in Nat, a % PAGESIZE = 0
  PROVE  PageOf(a) \in Nat /\ PageOf(a) * PAGESIZE = a
<1>1. PageOf(a) \in Nat /\ PageOf(a) * PAGESIZE \in Nat /\ a % PAGESIZE = a - PageOf(a) * PAGESIZE
  BY PageBounds
<1> DEFINE m == PageOf(a) * PAGESIZE
<1> HIDE DEF m
<1>2. m \in Nat /\ 0 = a - m
  BY <1>1 DEF m
<1>3. m = a
  BY <1>2
<1> QED
  BY <1>1, <1>3 DEF m

LEMMA PageTimes ==
  ASSUME NEW p \in Nat
  PROVE  PageOf(p * PAGESIZE) = p /\ p * PAGESIZE \in Nat /\ (p * PAGESIZE) % PAGESIZE = 0
<1>1. PAGESIZE \in Nat \ {0}
  BY PageNat
<1>2. p * PAGESIZE \in Nat
  BY <1>1
<1>3. PageOf(p * PAGESIZE) = p
  <2> DEFINE m == p * PAGESIZE
  <2>1. m \in Nat /\ p * PAGESIZE <= m /\ m < p * PAGESIZE + PAGESIZE
    BY <1>1, <1>2
  <2> HIDE DEF m
  <2>2. PageOf(m) = p
    BY <2>1, PageUnique
  <2> QED
    BY <2>2 DEF m
<1>4. (p * PAGESIZE) % PAGESIZE = p * PAGESIZE - PageOf(p * PAGESIZE) * PAGESIZE
  BY <1>2, PageBounds
<1> QED
  BY <1>1, <1>2, <1>3, <1>4

LEMMA RoundupFacts ==
  ASSUME NEW a \in Nat, NEW b \in Nat, b % PAGESIZE = 0, a <= b
  PROVE  /\ Roundup(a, PAGESIZE) \in Nat /\ a <= Roundup(a, PAGESIZE) /\ Roundup(a, PAGESIZE) <= b
         /\ Roundup(a, PAGESIZE) % PAGESIZE = 0
<1>1. PAGESIZE \in Nat \ {0}
  BY PageNat
<1> DEFINE c == a + PAGESIZE - 1
           q == PageOf(c)
           k == PageOf(b)
<1>2. c \in Nat
  BY <1>1
<1> HIDE DEF c
<1>3. q \in Nat /\ q * PAGESIZE \in Nat /\ q * PAGESIZE <= c /\ c < q * PAGESIZE + PAGESIZE
      /\ Rounddown(c, PAGESIZE) = q * PAGESIZE
  BY <1>2, PageBounds
<1>4. k \in Nat /\ k * PAGESIZE = b
  BY PageStart
<1> HIDE DEF q, k
<1>5. c < b + PAGESIZE /\ a <= q * PAGESIZE
  BY <1>1, <1>3, <1>4 DEF c
<1>6. q * PAGESIZE < k * PAGESIZE + PAGESIZE
  BY <1>1, <1>2, <1>3, <1>4, <1>5
<1>7. q * PAGESIZE <= k * PAGESIZE
  BY <1>1, <1>3, <1>4, <1>6, MulOrder
<1>8. (q * PAGESIZE) % PAGESIZE = 0
  BY <1>3, PageTimes
<1>9. Roundup(a, PAGESIZE) = q * PAGESIZE
  BY <1>3 DEF Roundup, c
<1> QED
  BY <1>3, <1>4, <1>5, <1>7, <1>8, <1>9

LEMMA UserPages ==
  /\ \A x \in UAddr : x \in Nat /\ PageOf(x) \in UPage
  /\ \A p \in UPage : /\ p \in Nat /\ p * PAGESIZE \in UAddr
                      /\ \A x \in Nat : PageOf(x) = p => x \in UAddr
<1>1. PAGESIZE \in Nat \ {0} /\ VM_USERLO \in Nat /\ VM_USERHI \in Nat
      /\ VM_USERLO % PAGESIZE = 0 /\ VM_USERHI % PAGESIZE = 0
  BY PageNat, LoaderAssumption
<1>2. \A x \in UAddr : x \in Nat /\ PageOf(x) \in UPage
  BY <1>1 DEF UAddr, UPage
<1>3. ASSUME NEW p \in UPage
      PROVE  /\ p \in Nat /\ p * PAGESIZE \in UAddr
             /\ \A x \in Nat : PageOf(x) = p => x \in UAddr
  <2> DEFINE l == PageOf(VM_USERLO)
             h == PageOf(VM_USERHI)
             m == p * PAGESIZE
  <2>1. PICK a \in UAddr : p = PageOf(a)
    BY DEF UPage
  <2>2. a \in Nat /\ VM_USERLO <= a /\ a < VM_USERHI
    BY <1>1 DEF UAddr
  <2>3. p \in Nat /\ m <= a /\ a < m + PAGESIZE /\ m \in Nat
    BY <2>1, <2>2, PageBounds
  <2>4. l \in Nat /\ l * PAGESIZE = VM_USERLO /\ h \in Nat /\ h * PAGESIZE = VM_USERHI
    BY <1>1, PageStart
  <2>5. l * PAGESIZE <= p * PAGESIZE
    <3> HIDE DEF l
    <3>1. l * PAGESIZE < p * PAGESIZE + PAGESIZE
      BY <1>1, <2>2, <2>3, <2>4
    <3> QED
      BY <1>1, <2>3, <2>4, <3>1, MulOrder
  <2>6. p * PAGESIZE + PAGESIZE <= h * PAGESIZE
    <3> HIDE DEF h
    <3>1. p < h
      <4>1. SUFFICES ASSUME h <= p PROVE FALSE
        BY <2>3, <2>4
      <4>2. h * PAGESIZE <= p * PAGESIZE
        BY <1>1, <2>3, <2>4, <4>1, MulOrder
      <4> QED
        BY <1>1, <2>2, <2>3, <2>4, <4>2
    <3> QED
      BY <1>1, <2>3, <2>4, <3>1, MulOrder
  <2>7. VM_USERLO <= m /\ m + PAGESIZE <= VM_USERHI
    BY <2>4, <2>5, <2>6
  <2> HIDE DEF l, h
  <2>8. m \in UAddr
    <3> HIDE DEF m
    <3> QED
      BY <1>1, <2>3, <2>7 DEF UAddr
  <2>9. ASSUME NEW x \in Nat, PageOf(x) = p PROVE x \in UAddr
    <3>1. m <= x /\ x < m + PAGESIZE
      BY <2>9, PageBounds
    <3> HIDE DEF m
    <3> QED
      BY <1>1, <2>3, <2>7, <3>1 DEF UAddr
  <2> QED
    BY <2>3, <2>8, <2>9
<1> QED
  BY <1>2, <1>3

----------------------------------------------------------------------------
\* One round of the loops of pmap.c.

\* A piece is a byte or more, and in one page.
LEMMA PieceFacts ==
  ASSUME NEW va \in Nat, NEW n \in Nat \ {0}, VM_USERLO <= va, va + n <= VM_USERHI
  PROVE  /\ va \in UAddr /\ PieceSize(va, n) \in 1 .. n
         /\ \A x \in Nat : In(x, va, PieceSize(va, n)) => x \in UAddr /\ PageOf(x) = PageOf(va)
<1> DEFINE p == PageOf(va)
           m == p * PAGESIZE
           z == PieceSize(va, n)
<1>1. PAGESIZE \in Nat \ {0} /\ VM_USERLO \in Nat /\ VM_USERHI \in Nat
  BY PageNat
<1>2. p \in Nat /\ m \in Nat /\ m <= va /\ va < m + PAGESIZE /\ va % PAGESIZE = va - m
  BY PageBounds
<1>3. z = IF n < PAGESIZE - (va - m) THEN n ELSE PAGESIZE - (va - m)
  BY <1>2 DEF PieceSize
<1> HIDE DEF z
<1>4. z \in 1 .. n /\ va + z <= m + PAGESIZE /\ va \in UAddr
  <2> HIDE DEF m
  <2> QED
    BY <1>1, <1>2, <1>3 DEF UAddr
<1>5. ASSUME NEW x \in Nat, In(x, va, z) PROVE x \in UAddr /\ PageOf(x) = p
  <2>1. va <= x /\ x < va + z
    BY <1>5 DEF In
  <2>2. m <= x /\ x < m + PAGESIZE /\ x \in UAddr
    <3> HIDE DEF m
    <3> QED
      BY <1>1, <1>2, <1>4, <2>1 DEF UAddr
  <2>3. p * PAGESIZE <= x /\ x < p * PAGESIZE + PAGESIZE
    BY <2>2
  <2>4. PageOf(x) = p
    <3> HIDE DEF p
    <3> QED
      BY <1>2, <2>3, PageUnique
  <2> QED
    BY <2>2, <2>4
<1> QED
  BY <1>4, <1>5 DEF z

LEMMA AllocFacts ==
  ASSUME NEW u \in User, NEW va \in UAddr, NEW perm \in SUBSET PT_USER
  PROVE  LET w == alloc_page(u, va, perm)
         IN  /\ w \in User /\ w.pages[PageOf(va)] = perm
             /\ \A p \in UPage : p # PageOf(va) => w.pages[p] = u.pages[p]
             /\ \A x \in UAddr : PageOf(x) # PageOf(va) => w.mem[x] = u.mem[x]
<1> DEFINE q == PageOf(va)
           f == [x \in UAddr |-> IF PageOf(x) = q THEN Junk ELSE u.mem[x]]
           g == [u.pages EXCEPT ![q] = perm]
<1>1. q \in UPage
  BY UserPages
<1>2. u.mem \in [UAddr -> Int] /\ u.pages \in [UPage -> SUBSET PT_USER]
  BY DEF User
<1>3. alloc_page(u, va, perm) = [mem |-> f, pages |-> g]
  BY DEF alloc_page
<1>4. f \in [UAddr -> Int] /\ \A x \in UAddr : PageOf(x) # q => f[x] = u.mem[x]
  BY <1>2 DEF Junk
<1>5. g \in [UPage -> SUBSET PT_USER] /\ g[q] = perm /\ \A p \in UPage : p # q => g[p] = u.pages[p]
  <2> HIDE DEF q
  <2> QED
    BY <1>1, <1>2
<1> HIDE DEF f, g
<1> QED
  BY <1>3, <1>4, <1>5 DEF User

LEMMA PresentFacts ==
  ASSUME NEW u \in User, NEW va \in UAddr
  PROVE  LET w == Present(u, va)
         IN  /\ w \in User /\ "P" \in w.pages[PageOf(va)]
             /\ \A p \in UPage : "P" \in u.pages[p] => w.pages[p] = u.pages[p]
             /\ \A x \in UAddr : "P" \in u.pages[PageOf(x)] => w.mem[x] = u.mem[x]
<1>1. CASE "P" \in u.pages[PageOf(va)]
  BY <1>1 DEF Present
<1>2. CASE "P" \notin u.pages[PageOf(va)]
  <2> DEFINE w == alloc_page(u, va, PT_USER)
  <2>1. Present(u, va) = w
    BY <1>2 DEF Present
  <2>2. /\ w \in User /\ w.pages[PageOf(va)] = PT_USER
        /\ \A p \in UPage : p # PageOf(va) => w.pages[p] = u.pages[p]
        /\ \A x \in UAddr : PageOf(x) # PageOf(va) => w.mem[x] = u.mem[x]
    BY AllocFacts
  <2> HIDE DEF w
  <2> QED
    BY <1>2, <2>1, <2>2 DEF PT_USER
<1> QED
  BY <1>1, <1>2

(***************************************************************************)
(* Memory w is u with n bytes stored from uva on, in pages that were made  *)
(* present if they were not.                                               *)
(***************************************************************************)
StoredTo(u, w, uva, n, byte) ==
  /\ w \in User
  /\ \A x \in UAddr : In(x, uva, n) => w.mem[x] = byte[x - uva] /\ "P" \in w.pages[PageOf(x)]
  /\ Unmoved(u, w, uva, n)
  /\ \A p \in UPage : "P" \in u.pages[p] => w.pages[p] = u.pages[p]

\* The round after the first d bytes stores more of them.
StoresMore(u, w, uva, len, d, byte) ==
  \E e \in d + 1 .. len, t \in User :
     /\ StoreRound([user |-> w, done |-> d], uva, len, byte) = [user |-> t, done |-> e]
     /\ StoredTo(u, t, uva, e, byte)

LEMMA StoreRoundFacts ==
  ASSUME NEW u \in User, NEW w \in User, NEW uva \in Nat, NEW len \in Nat, NEW d \in 0 .. len, d < len,
         VM_USERLO <= uva, uva + len <= VM_USERHI, NEW byte \in [0 .. len - 1 -> Int],
         StoredTo(u, w, uva, d, byte)
  PROVE  StoresMore(u, w, uva, len, d, byte)
<1> DEFINE va == uva + d
           z == PieceSize(va, len - d)
           v == Present(w, va)
           e == d + z
           f == [x \in UAddr |-> IF In(x, va, z) /\ PageOf(x) = PageOf(va) THEN byte[x - uva] ELSE v.mem[x]]
           t == [mem |-> f, pages |-> v.pages]
<1>1. VM_USERLO \in Nat /\ VM_USERHI \in Nat
  BY PageNat
<1>2. /\ va \in UAddr /\ z \in 1 .. len - d
      /\ \A x \in Nat : In(x, va, z) => x \in UAddr /\ PageOf(x) = PageOf(va)
  <2>1. va \in Nat /\ len - d \in Nat \ {0} /\ VM_USERLO <= va /\ va + (len - d) <= VM_USERHI
    BY <1>1
  <2> HIDE DEF va
  <2> QED
    BY <2>1, PieceFacts
<1>3. /\ v \in User /\ "P" \in v.pages[PageOf(va)]
      /\ \A p \in UPage : "P" \in w.pages[p] => v.pages[p] = w.pages[p]
      /\ \A x \in UAddr : "P" \in w.pages[PageOf(x)] => v.mem[x] = w.mem[x]
  <2> HIDE DEF va
  <2> QED
    BY <1>2, PresentFacts
<1>4. StoreRound([user |-> w, done |-> d], uva, len, byte) = [user |-> t, done |-> e]
  BY DEF StoreRound
<1>5. \A x \in UAddr : x \in Nat /\ PageOf(x) \in UPage
  BY UserPages
<1>6. e \in d + 1 .. len
  <2> HIDE DEF z
  <2> QED
    BY <1>2
<1> HIDE DEF v, z
<1>7. \A x \in UAddr : In(x, uva, e) <=> In(x, uva, d) \/ In(x, va, z)
  BY <1>2, <1>5 DEF In
<1>8. /\ t.mem = f /\ t.pages = v.pages
      /\ \A x \in UAddr : f[x] = IF In(x, va, z) THEN byte[x - uva] ELSE v.mem[x]
  BY <1>2, <1>5
<1>9. \A x \in UAddr : In(x, va, z) => x - uva \in 0 .. len - 1
  BY <1>2, <1>5 DEF In
<1>10. t \in User
  <2>1. v.mem \in [UAddr -> Int] /\ v.pages \in [UPage -> SUBSET PT_USER]
    BY <1>3 DEF User
  <2>2. f \in [UAddr -> Int]
    <3>1. \A x \in UAddr : In(x, va, z) => byte[x - uva] \in Int
      BY <1>9
    <3> HIDE DEF va
    <3> QED
      BY <2>1, <3>1
  <2> HIDE DEF f
  <2> QED
    BY <2>1, <2>2 DEF User
<1> HIDE DEF f, t, va, e
<1>11. /\ \A x \in UAddr : In(x, uva, d) => w.mem[x] = byte[x - uva] /\ "P" \in w.pages[PageOf(x)]
       /\ \A x \in UAddr : "P" \in u.pages[PageOf(x)] /\ ~In(x, uva, d) => w.mem[x] = u.mem[x]
       /\ \A p \in UPage : "P" \in u.pages[p] => w.pages[p] = u.pages[p]
  BY DEF StoredTo, Unmoved
<1>12. ASSUME NEW x \in UAddr, In(x, uva, e) PROVE t.mem[x] = byte[x - uva] /\ "P" \in t.pages[PageOf(x)]
  <2>1. CASE In(x, va, z)
    <3>1. PageOf(x) = PageOf(va)
      BY <1>2, <1>5, <2>1
    <3> QED
      BY <1>3, <1>8, <2>1, <3>1
  <2>2. CASE ~In(x, va, z)
    <3>1. In(x, uva, d)
      BY <1>7, <1>12, <2>2
    <3>2. w.mem[x] = byte[x - uva] /\ "P" \in w.pages[PageOf(x)] /\ PageOf(x) \in UPage
      BY <1>5, <1>11, <3>1
    <3> QED
      BY <1>3, <1>8, <2>2, <3>2
  <2> QED
    BY <2>1, <2>2
<1>13. Unmoved(u, t, uva, e)
  <2> SUFFICES ASSUME NEW x \in UAddr, "P" \in u.pages[PageOf(x)], ~In(x, uva, e) PROVE t.mem[x] = u.mem[x]
    BY DEF Unmoved
  <2>1. ~In(x, uva, d) /\ ~In(x, va, z) /\ PageOf(x) \in UPage
    BY <1>5, <1>7
  <2>2. w.mem[x] = u.mem[x] /\ "P" \in w.pages[PageOf(x)]
    BY <1>11, <2>1
  <2> QED
    BY <1>3, <1>8, <2>1, <2>2
<1>14. \A p \in UPage : "P" \in u.pages[p] => t.pages[p] = u.pages[p]
  BY <1>3, <1>8, <1>11
<1>15. StoredTo(u, t, uva, e, byte)
  BY <1>10, <1>12, <1>13, <1>14 DEF StoredTo
<1> QED
  BY <1>4, <1>6, <1>10, <1>15 DEF StoresMore

----------------------------------------------------------------------------
\* The loops: len rounds or fewer, since each does a byte or more.

LEMMA StoreRounds ==
  ASSUME NEW u, NEW uva, NEW len \in Nat, NEW byte
  PROVE  \E after : /\ after[0] = [user |-> u, done |-> 0]
                    /\ \A k \in 0 .. len - 1 : after[k + 1] = StoreRound(after[k], uva, len, byte)
                    /\ Store(u, uva, len, byte) = after[len].user
<1> DEFINE Run(a, n) == a = [k \in 0 .. n |-> IF k = 0 THEN [user |-> u, done |-> 0]
                                                 ELSE StoreRound(a[k - 1], uva, len, byte)]
           S == {n \in Nat : \E a : Run(a, n)}
<1>1. 0 \in S
  <2> DEFINE a == [k \in 0 .. 0 |-> [user |-> u, done |-> 0]]
  <2>1. Run(a, 0)
    OBVIOUS
  <2> QED
    BY <2>1
<1>2. ASSUME NEW n \in S PROVE n + 1 \in S
  <2>1. PICK a : Run(a, n)
    OBVIOUS
  <2>2. n \in Nat /\ n + 1 \in Nat
    OBVIOUS
  <2> HIDE DEF S
  <2> DEFINE h == [k \in 0 .. n + 1 |-> IF k = n + 1 THEN StoreRound(a[n], uva, len, byte) ELSE a[k]]
             r == [k \in 0 .. n + 1 |-> IF k = 0 THEN [user |-> u, done |-> 0]
                                        ELSE StoreRound(h[k - 1], uva, len, byte)]
  <2>3. ASSUME NEW k \in 0 .. n + 1 PROVE h[k] = r[k]
    BY <2>1, <2>2
  <2>4. Run(h, n + 1)
    BY <2>3
  <2> HIDE DEF h, Run
  <2> QED
    BY <2>2, <2>4 DEF S
<1>3. S = Nat
  <2> HIDE DEF S
  <2> QED
    BY <1>1, <1>2, SetInduction DEF S
<1>4. \E a : Run(a, len)
  BY <1>3
<1> DEFINE after == CHOOSE a : Run(a, len)
<1>5. Run(after, len)
  BY <1>4
<1>6. Store(u, uva, len, byte) = after[len].user
  BY DEF Store
<1> HIDE DEF after
<1>7. after[0] = [user |-> u, done |-> 0]
  BY <1>5
<1>8. ASSUME NEW k \in 0 .. len - 1 PROVE after[k + 1] = StoreRound(after[k], uva, len, byte)
  BY <1>5
<1> QED
  BY <1>6, <1>7, <1>8

\* pt_copyout and pt_memset store all of their bytes, and no others.
LEMMA StoreFacts ==
  ASSUME NEW u \in User, NEW uva \in Nat, NEW len \in Nat,
         VM_USERLO <= uva, uva + len <= VM_USERHI, NEW byte \in [0 .. len - 1 -> Int]
  PROVE  StoredTo(u, Store(u, uva, len, byte), uva, len, byte)
<1>1. PICK after : /\ after[0] = [user |-> u, done |-> 0]
                   /\ \A k \in 0 .. len - 1 : after[k + 1] = StoreRound(after[k], uva, len, byte)
                   /\ Store(u, uva, len, byte) = after[len].user
  BY StoreRounds
<1> DEFINE Done(k) == \E d \in 0 .. len, w \in User :
                         /\ after[k] = [user |-> w, done |-> d] /\ StoredTo(u, w, uva, d, byte)
                         /\ d = len \/ k <= d
           S == {k \in Nat : k <= len => Done(k)}
<1> HIDE DEF Done
<1>2. 0 \in S
  <2>1. \A x \in UAddr : x \in Nat /\ PageOf(x) \in UPage
    BY UserPages
  <2>2. StoredTo(u, u, uva, 0, byte)
    BY <2>1 DEF StoredTo, Unmoved, In
  <2>3. 0 \in 0 .. len /\ 0 <= 0
    OBVIOUS
  <2>4. Done(0)
    BY <1>1, <2>2, <2>3, Zenon DEF Done
  <2> QED
    BY <2>4
<1>3. ASSUME NEW k \in S PROVE k + 1 \in S
  <2>1. k \in Nat
    OBVIOUS
  <2>2. SUFFICES ASSUME k + 1 <= len PROVE Done(k + 1)
    BY <2>1
  <2>3. Done(k)
    BY <2>1, <2>2
  <2>4. PICK d \in 0 .. len, w \in User :
           /\ after[k] = [user |-> w, done |-> d] /\ StoredTo(u, w, uva, d, byte)
           /\ d = len \/ k <= d
    BY <2>3, Zenon DEF Done
  <2>5. after[k + 1] = StoreRound([user |-> w, done |-> d], uva, len, byte)
    BY <1>1, <2>1, <2>2, <2>4
  <2> HIDE DEF S
  <2>6. CASE d = len
    <3>1. after[k + 1] = [user |-> w, done |-> d]
      BY <2>5, <2>6 DEF StoreRound
    <3> QED
      BY <2>4, <2>6, <3>1, Zenon DEF Done
  <2>7. CASE d < len
    <3>1. PICK e \in d + 1 .. len, t \in User :
             /\ StoreRound([user |-> w, done |-> d], uva, len, byte) = [user |-> t, done |-> e]
             /\ StoredTo(u, t, uva, e, byte)
      <4>1. StoredTo(u, w, uva, d, byte)
        BY <2>4
      <4>2. StoresMore(u, w, uva, len, d, byte)
        BY <2>7, <4>1, StoreRoundFacts
      <4> QED
        BY <4>2, Zenon DEF StoresMore
    <3>2. e \in 0 .. len /\ k + 1 <= e
      BY <2>1, <2>4, <2>7, <3>1
    <3> QED
      BY <2>5, <3>1, <3>2, Zenon DEF Done
  <2> QED
    BY <2>6, <2>7
<1>4. len \in S
  <2> HIDE DEF S
  <2>1. S = Nat
    BY <1>2, <1>3, SetInduction DEF S
  <2> QED
    BY <2>1
<1>5. PICK d \in 0 .. len, w \in User :
         /\ after[len] = [user |-> w, done |-> d] /\ StoredTo(u, w, uva, d, byte)
         /\ d = len \/ len <= d
  <2>1. Done(len)
    BY <1>4
  <2> QED
    BY <2>1, Zenon DEF Done
<1>6. d = len /\ after[len].user = w
  BY <1>5
<1> QED
  BY <1>1, <1>5, <1>6

----------------------------------------------------------------------------
\* The same for pt_copyin.

LoadedFrom(u, k, w, m, uva, kva, n) ==
  /\ w \in User /\ m \in [KAddr -> Int]
  /\ \A x \in UAddr : In(x, uva, n) => m[kva + (x - uva)] = w.mem[x] /\ "P" \in w.pages[PageOf(x)]
  /\ Unmoved(u, w, uva, 0)
  /\ \A y \in KAddr : ~In(y, kva, n) => m[y] = k[y]
  /\ \A p \in UPage : "P" \in u.pages[p] => w.pages[p] = u.pages[p]

LoadsMore(u, k, w, m, uva, kva, len, d) ==
  \E e \in d + 1 .. len, v \in User, g \in [KAddr -> Int] :
     /\ LoadRound([user |-> w, kmem |-> m, done |-> d], uva, kva, len) = [user |-> v, kmem |-> g, done |-> e]
     /\ LoadedFrom(u, k, v, g, uva, kva, e)

LEMMA LoadRoundFacts ==
  ASSUME NEW u \in User, NEW w \in User, NEW k \in [KAddr -> Int], NEW m \in [KAddr -> Int],
         NEW uva \in Nat, NEW kva \in Nat, NEW len \in Nat, NEW d \in 0 .. len, d < len,
         VM_USERLO <= uva, uva + len <= VM_USERHI, kva + len <= KMEM,
         LoadedFrom(u, k, w, m, uva, kva, d)
  PROVE  LoadsMore(u, k, w, m, uva, kva, len, d)
<1> DEFINE va == uva + d
           z == PieceSize(va, len - d)
           v == Present(w, va)
           e == d + z
           g == [y \in KAddr |-> IF In(y, kva + d, z) /\ PageOf(y - kva + uva) = PageOf(va)
                                   THEN v.mem[y - kva + uva] ELSE m[y]]
<1>1. VM_USERLO \in Nat /\ VM_USERHI \in Nat /\ KMEM \in Nat
  BY PageNat
<1>2. /\ va \in UAddr /\ z \in 1 .. len - d
      /\ \A x \in Nat : In(x, va, z) => x \in UAddr /\ PageOf(x) = PageOf(va)
  <2>1. va \in Nat /\ len - d \in Nat \ {0} /\ VM_USERLO <= va /\ va + (len - d) <= VM_USERHI
    BY <1>1
  <2> HIDE DEF va
  <2> QED
    BY <2>1, PieceFacts
<1>3. /\ v \in User /\ "P" \in v.pages[PageOf(va)]
      /\ \A p \in UPage : "P" \in w.pages[p] => v.pages[p] = w.pages[p]
      /\ \A x \in UAddr : "P" \in w.pages[PageOf(x)] => v.mem[x] = w.mem[x]
  <2> HIDE DEF va
  <2> QED
    BY <1>2, PresentFacts
<1>4. LoadRound([user |-> w, kmem |-> m, done |-> d], uva, kva, len) = [user |-> v, kmem |-> g, done |-> e]
  BY DEF LoadRound
<1>5. \A x \in UAddr : x \in Nat /\ PageOf(x) \in UPage
  BY UserPages
<1>6. e \in d + 1 .. len
  <2> HIDE DEF z
  <2> QED
    BY <1>2
<1> HIDE DEF v, z
<1>7. \A x \in UAddr : In(x, uva, e) <=> In(x, uva, d) \/ In(x, va, z)
  BY <1>2, <1>5 DEF In
<1>8. \A y \in KAddr : In(y, kva + d, z) =>
          y - kva + uva \in UAddr /\ PageOf(y - kva + uva) = PageOf(va)
  <2> TAKE y \in KAddr
  <2> HAVE In(y, kva + d, z)
  <2>1. y - kva + uva \in Nat /\ In(y - kva + uva, va, z)
    BY <1>1, <1>2 DEF In, KAddr
  <2> QED
    BY <1>2, <2>1
<1>9. g \in [KAddr -> Int]
  <2>1. v.mem \in [UAddr -> Int]
    BY <1>3 DEF User
  <2>2. \A y \in KAddr : In(y, kva + d, z) => v.mem[y - kva + uva] \in Int
    BY <1>8, <2>1
  <2> HIDE DEF va
  <2> QED
    BY <2>2
<1>10. \A y \in KAddr : g[y] = IF In(y, kva + d, z) THEN v.mem[y - kva + uva] ELSE m[y]
  BY <1>8
<1>11. /\ \A x \in UAddr : In(x, uva, d) => m[kva + (x - uva)] = w.mem[x] /\ "P" \in w.pages[PageOf(x)]
       /\ \A x \in UAddr : "P" \in u.pages[PageOf(x)] /\ ~In(x, uva, 0) => w.mem[x] = u.mem[x]
       /\ \A y \in KAddr : ~In(y, kva, d) => m[y] = k[y]
       /\ \A p \in UPage : "P" \in u.pages[p] => w.pages[p] = u.pages[p]
  BY DEF LoadedFrom, Unmoved
<1> HIDE DEF g
<1>12. ASSUME NEW x \in UAddr, In(x, uva, e) PROVE g[kva + (x - uva)] = v.mem[x] /\ "P" \in v.pages[PageOf(x)]
  <2> DEFINE y == kva + (x - uva)
  <2>1. x \in Nat /\ z \in Nat /\ uva <= x /\ x < uva + len
    BY <1>2, <1>5, <1>6, <1>12 DEF In
  <2>2. y \in KAddr /\ y - kva + uva = x /\ (In(x, va, z) <=> In(y, kva + d, z))
    BY <1>1, <2>1 DEF In, KAddr
  <2> HIDE DEF y, e
  <2>3. CASE In(x, va, z)
    <3>1. PageOf(x) = PageOf(va)
      BY <1>2, <1>5, <2>3
    <3>2. g[y] = v.mem[x]
      BY <1>10, <2>2, <2>3
    <3> QED
      BY <1>3, <3>1, <3>2 DEF y
  <2>4. CASE ~In(x, va, z)
    <3>1. In(x, uva, d)
      BY <1>7, <1>12, <2>4
    <3>2. m[y] = w.mem[x] /\ "P" \in w.pages[PageOf(x)] /\ PageOf(x) \in UPage
      BY <1>5, <1>11, <3>1 DEF y
    <3>3. g[y] = m[y]
      BY <1>10, <2>2, <2>4
    <3> QED
      BY <1>3, <3>2, <3>3 DEF y
  <2> QED
    BY <2>3, <2>4
<1>13. Unmoved(u, v, uva, 0)
  <2> SUFFICES ASSUME NEW x \in UAddr, "P" \in u.pages[PageOf(x)], ~In(x, uva, 0) PROVE v.mem[x] = u.mem[x]
    BY DEF Unmoved
  <2>1. w.mem[x] = u.mem[x] /\ "P" \in w.pages[PageOf(x)]
    BY <1>5, <1>11
  <2> QED
    BY <1>3, <2>1
<1>14. \A y \in KAddr : ~In(y, kva, e) => g[y] = k[y]
  <2> TAKE y \in KAddr
  <2> HAVE ~In(y, kva, e)
  <2>1. ~In(y, kva, d) /\ ~In(y, kva + d, z)
    BY <1>1, <1>2 DEF In, KAddr
  <2> QED
    BY <1>10, <1>11, <2>1
<1>15. \A p \in UPage : "P" \in u.pages[p] => v.pages[p] = u.pages[p]
  BY <1>3, <1>11
<1> HIDE DEF e, va
<1>16. LoadedFrom(u, k, v, g, uva, kva, e)
  BY <1>3, <1>9, <1>12, <1>13, <1>14, <1>15 DEF LoadedFrom
<1> QED
  BY <1>3, <1>4, <1>6, <1>9, <1>16 DEF LoadsMore

LEMMA LoadRounds ==
  ASSUME NEW u, NEW k, NEW uva, NEW kva, NEW len \in Nat
  PROVE  \E after : /\ after[0] = [user |-> u, kmem |-> k, done |-> 0]
                    /\ \A i \in 0 .. len - 1 : after[i + 1] = LoadRound(after[i], uva, kva, len)
                    /\ pt_copyin(u, k, uva, kva, len) = after[len]
<1> DEFINE Run(a, n) == a = [i \in 0 .. n |-> IF i = 0 THEN [user |-> u, kmem |-> k, done |-> 0]
                                                 ELSE LoadRound(a[i - 1], uva, kva, len)]
           S == {n \in Nat : \E a : Run(a, n)}
<1>1. 0 \in S
  <2> DEFINE a == [i \in 0 .. 0 |-> [user |-> u, kmem |-> k, done |-> 0]]
  <2>1. Run(a, 0)
    OBVIOUS
  <2> QED
    BY <2>1
<1>2. ASSUME NEW n \in S PROVE n + 1 \in S
  <2>1. PICK a : Run(a, n)
    OBVIOUS
  <2>2. n \in Nat /\ n + 1 \in Nat
    OBVIOUS
  <2> HIDE DEF S
  <2> DEFINE h == [i \in 0 .. n + 1 |-> IF i = n + 1 THEN LoadRound(a[n], uva, kva, len) ELSE a[i]]
             r == [i \in 0 .. n + 1 |-> IF i = 0 THEN [user |-> u, kmem |-> k, done |-> 0]
                                        ELSE LoadRound(h[i - 1], uva, kva, len)]
  <2>3. ASSUME NEW i \in 0 .. n + 1 PROVE h[i] = r[i]
    BY <2>1, <2>2
  <2>4. Run(h, n + 1)
    BY <2>3
  <2> HIDE DEF h, Run
  <2> QED
    BY <2>2, <2>4 DEF S
<1>3. S = Nat
  <2> HIDE DEF S
  <2> QED
    BY <1>1, <1>2, SetInduction DEF S
<1>4. \E a : Run(a, len)
  BY <1>3
<1> DEFINE after == CHOOSE a : Run(a, len)
<1>5. Run(after, len)
  BY <1>4
<1>6. pt_copyin(u, k, uva, kva, len) = after[len]
  BY DEF pt_copyin
<1> HIDE DEF after
<1>7. after[0] = [user |-> u, kmem |-> k, done |-> 0]
  BY <1>5
<1>8. ASSUME NEW i \in 0 .. len - 1 PROVE after[i + 1] = LoadRound(after[i], uva, kva, len)
  BY <1>5
<1> QED
  BY <1>6, <1>7, <1>8

\* pt_copyin loads all of its bytes, and changes nothing of the process but
\* pages that were not present.
LEMMA CopyinFacts ==
  ASSUME NEW u \in User, NEW k \in [KAddr -> Int], NEW uva \in Nat, NEW kva \in Nat, NEW len \in Nat,
         VM_USERLO <= uva, uva + len <= VM_USERHI, kva + len <= KMEM
  PROVE  LET v == pt_copyin(u, k, uva, kva, len) IN LoadedFrom(u, k, v.user, v.kmem, uva, kva, len)
<1>1. PICK after : /\ after[0] = [user |-> u, kmem |-> k, done |-> 0]
                   /\ \A i \in 0 .. len - 1 : after[i + 1] = LoadRound(after[i], uva, kva, len)
                   /\ pt_copyin(u, k, uva, kva, len) = after[len]
  BY LoadRounds
<1> DEFINE Done(i) == \E d \in 0 .. len, w \in User, m \in [KAddr -> Int] :
                         /\ after[i] = [user |-> w, kmem |-> m, done |-> d]
                         /\ LoadedFrom(u, k, w, m, uva, kva, d)
                         /\ d = len \/ i <= d
           S == {i \in Nat : i <= len => Done(i)}
<1> HIDE DEF Done
<1>2. 0 \in S
  <2>1. \A x \in UAddr : x \in Nat /\ PageOf(x) \in UPage
    BY UserPages
  <2>2. LoadedFrom(u, k, u, k, uva, kva, 0)
    BY <2>1 DEF LoadedFrom, Unmoved, In
  <2>3. 0 \in 0 .. len /\ 0 <= 0
    OBVIOUS
  <2>4. Done(0)
    BY <1>1, <2>2, <2>3, Zenon DEF Done
  <2> QED
    BY <2>4
<1>3. ASSUME NEW i \in S PROVE i + 1 \in S
  <2>1. i \in Nat
    OBVIOUS
  <2>2. SUFFICES ASSUME i + 1 <= len PROVE Done(i + 1)
    BY <2>1
  <2>3. Done(i)
    BY <2>1, <2>2
  <2>4. PICK d \in 0 .. len, w \in User, m \in [KAddr -> Int] :
           /\ after[i] = [user |-> w, kmem |-> m, done |-> d] /\ LoadedFrom(u, k, w, m, uva, kva, d)
           /\ d = len \/ i <= d
    BY <2>3, Zenon DEF Done
  <2>5. after[i + 1] = LoadRound([user |-> w, kmem |-> m, done |-> d], uva, kva, len)
    BY <1>1, <2>1, <2>2, <2>4
  <2> HIDE DEF S
  <2>6. CASE d = len
    <3>1. after[i + 1] = [user |-> w, kmem |-> m, done |-> d]
      BY <2>5, <2>6 DEF LoadRound
    <3> QED
      BY <2>4, <2>6, <3>1, Zenon DEF Done
  <2>7. CASE d < len
    <3>1. PICK e \in d + 1 .. len, t \in User, g \in [KAddr -> Int] :
             /\ LoadRound([user |-> w, kmem |-> m, done |-> d], uva, kva, len) = [user |-> t, kmem |-> g, done |-> e]
             /\ LoadedFrom(u, k, t, g, uva, kva, e)
      <4>1. LoadedFrom(u, k, w, m, uva, kva, d)
        BY <2>4
      <4>2. LoadsMore(u, k, w, m, uva, kva, len, d)
        BY <2>7, <4>1, LoadRoundFacts
      <4> QED
        BY <4>2, Zenon DEF LoadsMore
    <3>2. e \in 0 .. len /\ i + 1 <= e
      BY <2>1, <2>4, <2>7, <3>1
    <3> QED
      BY <2>5, <3>1, <3>2, Zenon DEF Done
  <2> QED
    BY <2>6, <2>7
<1>4. len \in S
  <2> HIDE DEF S
  <2>1. S = Nat
    BY <1>2, <1>3, SetInduction DEF S
  <2> QED
    BY <2>1
<1>5. PICK d \in 0 .. len, w \in User, m \in [KAddr -> Int] :
         /\ after[len] = [user |-> w, kmem |-> m, done |-> d] /\ LoadedFrom(u, k, w, m, uva, kva, d)
         /\ d = len \/ len <= d
  <2>1. Done(len)
    BY <1>4
  <2> QED
    BY <2>1, Zenon DEF Done
<1>6. d = len /\ after[len].user = w /\ after[len].kmem = m
  BY <1>5
<1> QED
  BY <1>1, <1>5, <1>6

----------------------------------------------------------------------------
\* The copies, in terms of addresses.

\* A sum that does not reach ADDRESSES does not wrap.
LEMMA AddressesFact ==
  /\ ADDRESSES \in Nat /\ VM_USERHI \in Nat /\ VM_USERHI < ADDRESSES
  /\ \A x \in 0 .. ADDRESSES - 1 : x % ADDRESSES = x
<1>1. ADDRESSES \in Nat /\ VM_USERHI \in Nat /\ VM_USERHI < ADDRESSES
  BY LoaderAssumption
<1> QED
  BY <1>1

LEMMA CopyoutFacts ==
  ASSUME NEW u \in User, kmem \in [KAddr -> Int], NEW kva \in Nat, NEW uva \in Nat, NEW len \in Nat,
         VM_USERLO <= uva, uva + len <= VM_USERHI, kva + len <= KMEM
  PROVE  LET w == pt_copyout(u, kva, uva, len)
         IN  /\ w \in User
             /\ \A x \in UAddr : In(x, uva, len) => w.mem[x] = kmem[kva + (x - uva)]
             /\ \A x \in UAddr : "P" \in u.pages[PageOf(x)] /\ ~In(x, uva, len) => w.mem[x] = u.mem[x]
             /\ \A p \in UPage : "P" \in u.pages[p] => w.pages[p] = u.pages[p]
<1> DEFINE b == [i \in 0 .. len - 1 |-> kmem[kva + i]]
           w == Store(u, uva, len, b)
<1>1. KMEM \in Nat /\ KMEM <= VM_USERLO /\ VM_USERLO \in Nat /\ VM_USERHI \in Nat
  BY PageNat
<1>2. b \in [0 .. len - 1 -> Int]
  <2>1. \A i \in 0 .. len - 1 : kva + i \in KAddr
    BY <1>1 DEF KAddr
  <2> QED
    BY <2>1
<1>3. StoredTo(u, w, uva, len, b)
  <2> HIDE DEF b
  <2> QED
    BY <1>2, StoreFacts
<1>4. Accepts(kva, uva, len)
  <2>1. uva + len \in 0 .. ADDRESSES - 1 /\ kva + len \in 0 .. ADDRESSES - 1 /\ kva + len <= VM_USERHI
    BY <1>1, AddressesFact
  <2>2. (uva + len) % ADDRESSES = uva + len /\ (kva + len) % ADDRESSES = kva + len
    BY <2>1, AddressesFact
  <2> QED
    BY <2>1, <2>2 DEF Accepts
<1>5. pt_copyout(u, kva, uva, len) = w
  BY <1>4 DEF pt_copyout
<1> HIDE DEF w
<1>6. ASSUME NEW x \in UAddr, In(x, uva, len) PROVE w.mem[x] = kmem[kva + (x - uva)]
  <2>1. w.mem[x] = b[x - uva]
    BY <1>3, <1>6 DEF StoredTo
  <2>2. x - uva \in 0 .. len - 1
    BY <1>1, <1>6 DEF In, UAddr
  <2> QED
    BY <2>1, <2>2
<1> HIDE DEF b
<1> QED
  BY <1>3, <1>5, <1>6 DEF StoredTo, Unmoved

LEMMA MemsetFacts ==
  ASSUME NEW u \in User, NEW va \in Nat, NEW len \in Nat, VM_USERLO <= va, va + len <= VM_USERHI
  PROVE  LET w == pt_memset(u, va, 0, len)
         IN  /\ w \in User
             /\ \A x \in UAddr : In(x, va, len) => w.mem[x] = 0
             /\ \A x \in UAddr : "P" \in u.pages[PageOf(x)] /\ ~In(x, va, len) => w.mem[x] = u.mem[x]
             /\ \A p \in UPage : "P" \in u.pages[p] => w.pages[p] = u.pages[p]
<1> DEFINE b == [i \in 0 .. len - 1 |-> 0]
           w == Store(u, va, len, b)
<1>1. VM_USERLO \in Nat /\ VM_USERHI \in Nat
  BY PageNat
<1>2. b \in [0 .. len - 1 -> Int]
  OBVIOUS
<1>3. StoredTo(u, w, va, len, b)
  <2> HIDE DEF b
  <2> QED
    BY <1>2, StoreFacts
<1>4. pt_memset(u, va, 0, len) = w
  BY DEF pt_memset
<1> HIDE DEF w
<1>5. ASSUME NEW x \in UAddr, In(x, va, len) PROVE w.mem[x] = 0
  <2>1. w.mem[x] = b[x - va]
    BY <1>3, <1>5 DEF StoredTo
  <2>2. x - va \in 0 .. len - 1
    BY <1>1, <1>5 DEF In, UAddr
  <2> QED
    BY <2>1, <2>2
<1> HIDE DEF b
<1> QED
  BY <1>3, <1>4, <1>5 DEF StoredTo, Unmoved

----------------------------------------------------------------------------
\* The program's file, in the kernel's data.

LEMMA DataSegmentFacts ==
  ASSUME machine \in Machines
  PROVE  /\ DataSegment \in DOMAIN Kernel.phs
         /\ InData(machine, FilePart(Kernel.phs[DataSegment]) \ {Kernel.multiboot_ptr})
<1>1. PICK i \in DOMAIN machine.kernel.phs :
         InData(machine, FilePart(machine.kernel.phs[i]) \ {machine.kernel.multiboot_ptr})
  BY LoaderAssumption
<1>2. machine.kernel = Kernel
  BY DEF Kernel
<1>3. i \in DOMAIN Kernel.phs /\ InData(machine, FilePart(Kernel.phs[i]) \ {Kernel.multiboot_ptr})
  BY <1>1, <1>2
<1>4. Kernel.exe \in FilePart(Kernel.phs[i])
  BY <1>2, <1>3 DEF InData
<1>5. ASSUME NEW j \in DOMAIN Kernel.phs, Kernel.exe \in FilePart(Kernel.phs[j])
      PROVE  j = i
  <2> DEFINE x == Kernel.exe
  <2>1. Linked(Kernel) /\ KMEM \in Nat
    BY BootAssumption DEF Kernel
  <2>2. /\ Kernel.phs \in Seq(Segment)
        /\ \A k \in DOMAIN Kernel.phs : Kernel.phs[k].memsz # 0 =>
              /\ Kernel.phs[k].filesz <= Kernel.phs[k].memsz
              /\ \A l \in 1 .. k - 1 : Kernel.phs[l].memsz > 0 =>
                    Phys(Kernel.phs[l]) + Kernel.phs[l].memsz <= Phys(Kernel.phs[k])
    BY <2>1 DEF Linked
  <2>3. \A k \in DOMAIN Kernel.phs : k \in 1 .. Len(Kernel.phs) /\ SegmentGood(Kernel.phs[k])
    <3>1. DOMAIN Kernel.phs = 1 .. Len(Kernel.phs)
      BY <2>2
    <3> QED
      BY <3>1, KernelSegment
  <2>4. x \in Nat
    BY <1>4, <2>1 DEF FilePart, KAddr
  <2>5. ASSUME NEW k \in DOMAIN Kernel.phs, NEW l \in DOMAIN Kernel.phs, l < k,
               x \in FilePart(Kernel.phs[k]), x \in FilePart(Kernel.phs[l])
        PROVE  FALSE
    <3> DEFINE s == Kernel.phs[k]
               t == Kernel.phs[l]
    <3>1. l \in 1 .. k - 1 /\ SegmentGood(s) /\ SegmentGood(t)
      BY <2>2, <2>3, <2>5
    <3>2. /\ s.memsz > 0 /\ t.memsz > 0 /\ Phys(s) <= x /\ x < Phys(t) + t.filesz
      BY <2>5 DEF FilePart, In
    <3>3. Phys(s) \in Nat /\ Phys(t) \in Nat /\ t.filesz \in Nat /\ t.memsz \in Nat /\ s.memsz \in Nat
      BY <3>1 DEF SegmentGood, Segment
    <3>4. t.filesz <= t.memsz /\ Phys(t) + t.memsz <= Phys(s)
      BY <2>2, <3>1, <3>2, <3>3
    <3> HIDE DEF s, t, x
    <3> QED
      BY <2>4, <3>2, <3>3, <3>4
  <2>6. i \in Nat /\ j \in Nat
    BY <2>2, <1>3
  <2>7. ~(i < j) /\ ~(j < i)
    BY <1>3, <1>4, <1>5, <2>5
  <2> QED
    BY <2>6, <2>7
<1>6. DataSegment = i
  BY <1>3, <1>4, <1>5 DEF DataSegment
<1> QED
  BY <1>3, <1>6

LEMMA DataFacts ==
  ASSUME machine \in Machines
  PROVE  /\ Kernel.exe \in Nat /\ Kernel.dll \in Nat /\ Kernel.dll + PAGESIZE <= KMEM
         /\ \A p \in Programs : \A i \in DOMAIN p.phs : p.phs[i].load /\ p.phs[i].filesz > 0 =>
               Kernel.exe + p.phs[i].offset + p.phs[i].filesz <= KMEM
<1> DEFINE f == FilePart(Kernel.phs[DataSegment]) \ {Kernel.multiboot_ptr}
<1>1. InData(machine, f) /\ machine.kernel = Kernel
  BY DataSegmentFacts DEF Kernel
<1>2. KMEM \in Nat /\ PAGESIZE \in Nat \ {0}
  BY PageNat
<1>3. \A x \in f : x \in Nat /\ x < KMEM
  BY <1>2 DEF FilePart, KAddr
<1> HIDE DEF f
<1>4. /\ Kernel.exe \in f /\ Kernel.dll \in Nat /\ Kernel.dll .. Kernel.dll + PAGESIZE - 1 \subseteq f
      /\ \A p \in Programs : \A i \in DOMAIN p.phs :
          p.phs[i].load => Kernel.exe .. Kernel.exe + p.phs[i].offset + p.phs[i].filesz - 1 \subseteq f
  BY <1>1 DEF InData
<1>5. Kernel.exe \in Nat
  BY <1>3, <1>4
<1>6. Kernel.dll + PAGESIZE <= KMEM
  <2>1. Kernel.dll + PAGESIZE - 1 \in Kernel.dll .. Kernel.dll + PAGESIZE - 1
    BY <1>2, <1>4
  <2>2. Kernel.dll + PAGESIZE - 1 < KMEM
    BY <1>3, <1>4, <2>1
  <2> QED
    BY <1>2, <1>4, <2>2
<1>7. ASSUME NEW p \in Programs, NEW i \in DOMAIN p.phs, p.phs[i].load, p.phs[i].filesz > 0
      PROVE  Kernel.exe + p.phs[i].offset + p.phs[i].filesz <= KMEM
  <2> DEFINE s == p.phs[i]
             e == Kernel.exe + s.offset + s.filesz
  <2>1. p.phs \in Seq(ProgramHeader)
    BY LoaderAssumption
  <2>2. s \in ProgramHeader
    BY <2>1
  <2>3. s.offset \in Nat /\ s.filesz \in Nat
    BY <2>2 DEF ProgramHeader
  <2>4. e - 1 \in Kernel.exe .. e - 1 /\ Kernel.exe .. e - 1 \subseteq f
    BY <1>4, <1>5, <1>7, <2>3
  <2>5. e - 1 < KMEM /\ e \in Nat
    BY <1>3, <1>5, <2>3, <2>4
  <2> HIDE DEF e
  <2>6. e <= KMEM
    BY <1>2, <2>5
  <2> QED
    BY <2>6 DEF e
<1> QED
  BY <1>4, <1>5, <1>6, <1>7

\* What the linker promises of a segment of the program.
LEMMA HeaderFacts ==
  ASSUME machine \in Machines, NEW g \in Programs, NEW i \in DOMAIN g.phs, g.phs[i].load
  PROVE  LET s == g.phs[i]
         IN  /\ s.va \in Nat /\ s.offset \in Nat /\ s.filesz \in Nat /\ s.memsz \in Nat /\ s.write \in BOOLEAN
             /\ s.filesz <= s.memsz /\ VM_USERLO <= s.va /\ s.va + s.memsz <= VM_USERHI
             /\ s.va - Rounddown(s.va, PAGESIZE) = s.offset - Rounddown(s.offset, PAGESIZE)
             /\ Rounddown(s.offset, PAGESIZE) \in Nat /\ Rounddown(s.va, PAGESIZE) \in Nat
             /\ VM_USERLO <= Rounddown(s.va, PAGESIZE) /\ Rounddown(s.va, PAGESIZE) <= s.va
             /\ s.va < Rounddown(s.va, PAGESIZE) + PAGESIZE
             /\ Rounddown(s.va, PAGESIZE) % PAGESIZE = 0
             /\ Roundup(s.va + s.memsz, PAGESIZE) \in Nat /\ Roundup(s.va + s.memsz, PAGESIZE) % PAGESIZE = 0
             /\ s.va + s.memsz <= Roundup(s.va + s.memsz, PAGESIZE)
             /\ Roundup(s.va + s.memsz, PAGESIZE) <= VM_USERHI
             /\ s.filesz > 0 => Kernel.exe + s.offset + s.filesz <= KMEM
<1> DEFINE s == g.phs[i]
<1>1. g.phs \in Seq(ProgramHeader)
  BY LoaderAssumption
<1>2. s \in ProgramHeader
  BY <1>1
<1>3. /\ s.va % PAGESIZE = s.offset % PAGESIZE /\ s.filesz <= s.memsz
      /\ VM_USERLO <= s.va /\ s.va + s.memsz <= VM_USERHI
  BY LoaderAssumption
<1>4. s.filesz > 0 => Kernel.exe + s.offset + s.filesz <= KMEM
  BY DataFacts
<1> HIDE DEF s
<1>5. s.va \in Nat /\ s.offset \in Nat /\ s.filesz \in Nat /\ s.memsz \in Nat /\ s.write \in BOOLEAN
  BY <1>2 DEF ProgramHeader
<1>6. /\ PAGESIZE \in Nat \ {0} /\ VM_USERLO \in Nat /\ VM_USERHI \in Nat
      /\ VM_USERHI % PAGESIZE = 0 /\ VM_USERLO % PAGESIZE = 0
  BY PageNat, LoaderAssumption
<1> DEFINE r == Rounddown(s.va, PAGESIZE)
           q == Rounddown(s.offset, PAGESIZE)
           p == PageOf(s.va)
           l == PageOf(VM_USERLO)
           e == Roundup(s.va + s.memsz, PAGESIZE)
<1>7. /\ p \in Nat /\ r = p * PAGESIZE /\ r \in Nat /\ r <= s.va /\ s.va < r + PAGESIZE
      /\ s.va % PAGESIZE = s.va - r
  BY <1>5, PageBounds
<1>8. q \in Nat /\ s.offset % PAGESIZE = s.offset - q
  BY <1>5, PageBounds
<1>9. r % PAGESIZE = 0
  BY <1>7, PageTimes
<1>10. VM_USERLO <= r
  <2>1. l \in Nat /\ l * PAGESIZE = VM_USERLO
    BY <1>6, PageStart
  <2>2. l * PAGESIZE < p * PAGESIZE + PAGESIZE
    <3> HIDE DEF l, r, p
    <3> QED
      BY <1>3, <1>5, <1>6, <1>7, <2>1
  <2>3. l * PAGESIZE <= p * PAGESIZE
    <3> HIDE DEF l, r, p
    <3>1. l <= p
      BY <1>6, <1>7, <2>1, <2>2, MulOrder
    <3> QED
      BY <1>6, <1>7, <2>1, <3>1, MulOrder
  <2> QED
    BY <1>7, <2>1, <2>3
<1>11. e \in Nat /\ s.va + s.memsz <= e /\ e <= VM_USERHI /\ e % PAGESIZE = 0
  <2> DEFINE a == s.va + s.memsz
  <2>1. a \in Nat /\ a <= VM_USERHI
    BY <1>3, <1>5
  <2> HIDE DEF a
  <2>2. /\ Roundup(a, PAGESIZE) \in Nat /\ a <= Roundup(a, PAGESIZE) /\ Roundup(a, PAGESIZE) <= VM_USERHI
        /\ Roundup(a, PAGESIZE) % PAGESIZE = 0
    BY <1>6, <2>1, RoundupFacts
  <2> QED
    BY <2>2 DEF a
<1> HIDE DEF r, q, e
<1>12. s.va - r = s.offset - q
  BY <1>3, <1>7, <1>8
<1>13. /\ s.filesz <= s.memsz /\ VM_USERLO <= s.va /\ s.va + s.memsz <= VM_USERHI
  BY <1>3
<1> QED
  BY <1>4, <1>5, <1>7, <1>8, <1>9, <1>10, <1>11, <1>12, <1>13 DEF r, q, e, s

----------------------------------------------------------------------------
\* One page of a segment.

LEMMA AlignedGap ==
  ASSUME NEW a \in Nat, NEW b \in Nat, a % PAGESIZE = 0, b % PAGESIZE = 0, a < b
  PROVE  a + PAGESIZE <= b
<1> DEFINE p == PageOf(a)
           q == PageOf(b)
<1>1. p \in Nat /\ p * PAGESIZE = a /\ q \in Nat /\ q * PAGESIZE = b
  BY PageStart
<1>2. PAGESIZE \in Nat \ {0}
  BY PageNat
<1> HIDE DEF p, q
<1>3. p < q
  <2>1. SUFFICES ASSUME q <= p PROVE FALSE
    BY <1>1
  <2>2. q * PAGESIZE <= p * PAGESIZE
    BY <1>1, <1>2, <2>1, MulOrder
  <2> QED
    BY <1>1, <2>2
<1>4. p * PAGESIZE + PAGESIZE <= q * PAGESIZE
  BY <1>1, <1>2, <1>3, MulOrder
<1> QED
  BY <1>1, <1>4

LEMMA AlignedPage ==
  ASSUME NEW a \in Nat, a % PAGESIZE = 0, NEW x \in Nat
  PROVE  PageOf(x) = PageOf(a) <=> In(x, a, PAGESIZE)
<1>1. PageOf(a) \in Nat /\ PageOf(a) * PAGESIZE = a
  BY PageStart
<1>2. ASSUME PageOf(x) = PageOf(a) PROVE In(x, a, PAGESIZE)
  <2>1. PageOf(x) * PAGESIZE <= x /\ x < PageOf(x) * PAGESIZE + PAGESIZE
    BY PageBounds
  <2>2. a <= x /\ x < a + PAGESIZE
    BY <1>1, <1>2, <2>1
  <2> QED
    BY <2>2 DEF In
<1>3. ASSUME In(x, a, PAGESIZE) PROVE PageOf(x) = PageOf(a)
  <2> DEFINE p == PageOf(a)
  <2>1. p * PAGESIZE <= x /\ x < p * PAGESIZE + PAGESIZE
    BY <1>1, <1>3 DEF In
  <2>2. p \in Nat
    BY <1>1
  <2> HIDE DEF p
  <2>3. PageOf(x) = p
    BY <2>1, <2>2, PageUnique
  <2> QED
    BY <2>3 DEF p
<1> QED
  BY <1>2, <1>3

\* What LoadPage makes of memory u, for the page at a of segment s.
LoadedPage(u, s, a, fa) ==
  LET zva   == s.va + s.filesz
      fresh == alloc_page(u, a, Perm(s))
      zero  == pt_memset(fresh, a, 0, PAGESIZE)
  IN  IF CompletePage(a, zva) THEN pt_copyout(fresh, fa, a, PAGESIZE)
      ELSE IF a < zva /\ s.filesz # 0 THEN pt_copyout(zero, fa, a, zva - a)
      ELSE zero

LEMMA LoadedPageFacts ==
  ASSUME machine \in Machines, kmem \in [KAddr -> Int], NEW u \in User,
         NEW g \in Programs, NEW i \in DOMAIN g.phs, g.phs[i].load, NEW s, s = g.phs[i],
         NEW a \in Nat, a % PAGESIZE = 0, Rounddown(s.va, PAGESIZE) <= a, a < Roundup(s.va + s.memsz, PAGESIZE),
         NEW fa, fa = Kernel.exe + s.offset + a - s.va
  PROVE  LET w == LoadedPage(u, s, a, fa)
         IN  /\ w \in User /\ PageOf(a) \in UPage /\ w.pages[PageOf(a)] = Perm(s)
             /\ \A x \in UAddr : PageOf(x) = PageOf(a) => w.mem[x] = SegmentByte(s, x)
             /\ \A p \in UPage : p # PageOf(a) /\ "P" \in u.pages[p] => w.pages[p] = u.pages[p]
             /\ \A x \in UAddr : PageOf(x) # PageOf(a) /\ "P" \in u.pages[PageOf(x)] => w.mem[x] = u.mem[x]
<1> DEFINE zva == s.va + s.filesz
           q == PageOf(a)
           r == Rounddown(s.va, PAGESIZE)
           o == Rounddown(s.offset, PAGESIZE)
           e == Roundup(s.va + s.memsz, PAGESIZE)
           fresh == alloc_page(u, a, Perm(s))
           zero == pt_memset(fresh, a, 0, PAGESIZE)
           exe == Kernel.exe
<1>1. /\ PAGESIZE \in Nat \ {0} /\ KMEM \in Nat /\ VM_USERLO \in Nat /\ VM_USERHI \in Nat
      /\ exe \in Nat
  BY PageNat, DataFacts
<1>2. /\ s.va \in Nat /\ s.offset \in Nat /\ s.filesz \in Nat /\ s.memsz \in Nat /\ s.write \in BOOLEAN
      /\ s.va - r = s.offset - o /\ o \in Nat /\ r \in Nat /\ VM_USERLO <= r /\ r <= s.va
      /\ e \in Nat /\ e % PAGESIZE = 0 /\ e <= VM_USERHI
      /\ s.filesz > 0 => exe + s.offset + s.filesz <= KMEM
  BY HeaderFacts
<1>3. r <= a /\ a < e
  OBVIOUS
<1>4. a + PAGESIZE <= VM_USERHI /\ VM_USERLO <= a /\ a \in UAddr
  <2> HIDE DEF r, e
  <2>1. a + PAGESIZE <= e
    BY <1>2, <1>3, AlignedGap
  <2> QED
    BY <1>1, <1>2, <1>3, <2>1 DEF UAddr
<1>5. fa \in Nat
  <2> HIDE DEF r, o, e, exe
  <2>1. fa = exe + s.offset + a - s.va
    BY DEF exe
  <2> QED
    BY <1>1, <1>2, <1>3, <2>1
<1>6. /\ q \in UPage /\ Perm(s) \in SUBSET PT_USER /\ "P" \in Perm(s)
      /\ \A x \in UAddr : x \in Nat /\ PageOf(x) \in UPage
  BY <1>4, UserPages DEF Perm, PT_USER
<1>7. \A x \in UAddr : PageOf(x) = q <=> In(x, a, PAGESIZE)
  BY <1>6, AlignedPage
<1>8. /\ fresh \in User /\ fresh.pages[q] = Perm(s)
      /\ \A p \in UPage : p # q => fresh.pages[p] = u.pages[p]
      /\ \A x \in UAddr : PageOf(x) # q => fresh.mem[x] = u.mem[x]
  BY <1>4, <1>6, AllocFacts
<1> HIDE DEF fresh
<1>9. /\ zero \in User
      /\ \A x \in UAddr : In(x, a, PAGESIZE) => zero.mem[x] = 0
      /\ \A x \in UAddr : "P" \in fresh.pages[PageOf(x)] /\ ~In(x, a, PAGESIZE) => zero.mem[x] = fresh.mem[x]
      /\ \A p \in UPage : "P" \in fresh.pages[p] => zero.pages[p] = fresh.pages[p]
  BY <1>1, <1>4, <1>8, MemsetFacts
<1> HIDE DEF zero
<1>10. LoadedPage(u, s, a, fa) = IF CompletePage(a, zva) THEN pt_copyout(fresh, fa, a, PAGESIZE)
                                 ELSE IF a < zva /\ s.filesz # 0 THEN pt_copyout(zero, fa, a, zva - a)
                                 ELSE zero
  BY DEF LoadedPage, fresh, zero
<1>11. /\ zva \in Nat /\ Rounddown(zva, PAGESIZE) \in Nat /\ Rounddown(zva, PAGESIZE) <= zva
       /\ zva < Rounddown(zva, PAGESIZE) + PAGESIZE /\ Rounddown(zva, PAGESIZE) % PAGESIZE = 0
  <2>1. zva \in Nat
    BY <1>2
  <2> HIDE DEF zva
  <2>2. PageOf(zva) \in Nat /\ Rounddown(zva, PAGESIZE) = PageOf(zva) * PAGESIZE
        /\ PageOf(zva) * PAGESIZE \in Nat
        /\ PageOf(zva) * PAGESIZE <= zva /\ zva < PageOf(zva) * PAGESIZE + PAGESIZE
    BY <2>1, PageBounds
  <2>3. (PageOf(zva) * PAGESIZE) % PAGESIZE = 0
    BY <2>2, PageTimes
  <2> QED
    BY <2>1, <2>2, <2>3
<1>12. \A x \in UAddr : SegmentByte(s, x) = IF s.filesz > 0 /\ x < zva THEN kmem[fa + (x - a)] ELSE 0
  <2> TAKE x \in UAddr
  <2>1. Kernel.exe + s.offset + x - s.va = fa + (x - a)
    <3> HIDE DEF exe, r, o, e
    <3>1. fa = exe + s.offset + a - s.va
      BY DEF exe
    <3>2. exe + s.offset + x - s.va = fa + (x - a)
      BY <1>1, <1>2, <1>6, <3>1
    <3> QED
      BY <3>2 DEF exe
  <2> QED
    BY <2>1 DEF SegmentByte
<1> DEFINE w == LoadedPage(u, s, a, fa)
           Good == /\ w \in User /\ w.pages[q] = Perm(s)
                   /\ \A x \in UAddr : PageOf(x) = q => w.mem[x] = SegmentByte(s, x)
                   /\ \A p \in UPage : p # q /\ "P" \in u.pages[p] => w.pages[p] = u.pages[p]
                   /\ \A x \in UAddr : PageOf(x) # q /\ "P" \in u.pages[PageOf(x)] => w.mem[x] = u.mem[x]
<1> HIDE DEF r, o, e, q, zva, w
<1>13. ASSUME CompletePage(a, zva) PROVE Good
  <2>1. a < Rounddown(zva, PAGESIZE)
    BY <1>13 DEF CompletePage
  <2>2. a + PAGESIZE <= zva
    <3>1. a + PAGESIZE <= Rounddown(zva, PAGESIZE)
      BY <1>11, <2>1, AlignedGap
    <3> QED
      BY <1>1, <1>11, <3>1
  <2>3. s.filesz > 0
    <3>1. SUFFICES ASSUME s.filesz = 0 PROVE FALSE
      BY <1>2
    <3>2. zva = s.va
      BY <1>2, <3>1 DEF zva
    <3> QED
      BY <1>2, <1>3, <2>1, <3>2 DEF r
  <2>4. fa + PAGESIZE <= KMEM
    <3> HIDE DEF exe
    <3>1. fa = exe + s.offset + a - s.va /\ zva = s.va + s.filesz
      BY DEF exe, zva
    <3> QED
      BY <1>1, <1>2, <2>2, <2>3, <3>1
  <2>5. w = pt_copyout(fresh, fa, a, PAGESIZE)
    BY <1>10, <1>13 DEF w
  <2>6. /\ w \in User
        /\ \A x \in UAddr : In(x, a, PAGESIZE) => w.mem[x] = kmem[fa + (x - a)]
        /\ \A x \in UAddr : "P" \in fresh.pages[PageOf(x)] /\ ~In(x, a, PAGESIZE) => w.mem[x] = fresh.mem[x]
        /\ \A p \in UPage : "P" \in fresh.pages[p] => w.pages[p] = fresh.pages[p]
    BY <1>1, <1>4, <1>5, <1>8, <2>4, <2>5, CopyoutFacts
  <2>7. \A x \in UAddr : In(x, a, PAGESIZE) => x < zva
    BY <1>1, <1>6, <1>11, <2>2 DEF In
  <2> QED
    BY <1>6, <1>7, <1>8, <1>12, <2>3, <2>6, <2>7
<1>14. ASSUME ~CompletePage(a, zva) /\ a < zva /\ s.filesz # 0 PROVE Good
  <2>1. Rounddown(zva, PAGESIZE) <= a
    BY <1>11, <1>14 DEF CompletePage
  <2>2. zva - a \in Nat /\ zva <= a + PAGESIZE
    BY <1>1, <1>11, <1>14, <2>1
  <2>3. fa + (zva - a) <= KMEM /\ s.filesz > 0
    <3> HIDE DEF exe
    <3>1. fa = exe + s.offset + a - s.va /\ zva = s.va + s.filesz
      BY DEF exe, zva
    <3> QED
      BY <1>1, <1>2, <1>14, <3>1
  <2>4. w = pt_copyout(zero, fa, a, zva - a)
    BY <1>10, <1>14 DEF w
  <2>5. /\ w \in User
        /\ \A x \in UAddr : In(x, a, zva - a) => w.mem[x] = kmem[fa + (x - a)]
        /\ \A x \in UAddr : "P" \in zero.pages[PageOf(x)] /\ ~In(x, a, zva - a) => w.mem[x] = zero.mem[x]
        /\ \A p \in UPage : "P" \in zero.pages[p] => w.pages[p] = zero.pages[p]
    <3> DEFINE n == zva - a
    <3>1. n \in Nat /\ a + n <= VM_USERHI /\ fa + n <= KMEM
      BY <1>1, <1>4, <1>11, <2>2, <2>3
    <3>2. w = pt_copyout(zero, fa, a, n)
      BY <2>4
    <3> HIDE DEF n
    <3>3. /\ w \in User
          /\ \A x \in UAddr : In(x, a, n) => w.mem[x] = kmem[fa + (x - a)]
          /\ \A x \in UAddr : "P" \in zero.pages[PageOf(x)] /\ ~In(x, a, n) => w.mem[x] = zero.mem[x]
          /\ \A p \in UPage : "P" \in zero.pages[p] => w.pages[p] = zero.pages[p]
      BY <1>4, <1>5, <1>9, <3>1, <3>2, CopyoutFacts
    <3> QED
      BY <3>3 DEF n
  <2>6. \A x \in UAddr : In(x, a, PAGESIZE) => (In(x, a, zva - a) <=> x < zva)
    BY <1>1, <1>6, <1>11, <2>2 DEF In
  <2>7. \A x \in UAddr : In(x, a, zva - a) => In(x, a, PAGESIZE)
    BY <1>1, <1>6, <1>11, <2>2 DEF In
  <2>8. \A p \in UPage : p # q /\ "P" \in u.pages[p] => zero.pages[p] = u.pages[p]
    BY <1>8, <1>9
  <2>9. zero.pages[q] = Perm(s)
    BY <1>6, <1>8, <1>9
  <2>10. ASSUME NEW x \in UAddr, PageOf(x) = q PROVE w.mem[x] = SegmentByte(s, x)
    <3>1. In(x, a, PAGESIZE) /\ zero.mem[x] = 0 /\ "P" \in zero.pages[PageOf(x)]
      BY <1>6, <1>7, <1>9, <2>9, <2>10
    <3> QED
      BY <1>12, <2>3, <2>5, <2>6, <3>1
  <2>11. ASSUME NEW x \in UAddr, PageOf(x) # q, "P" \in u.pages[PageOf(x)] PROVE w.mem[x] = u.mem[x]
    <3>1. ~In(x, a, PAGESIZE) /\ PageOf(x) \in UPage
      BY <1>6, <1>7, <2>11
    <3>2. "P" \in fresh.pages[PageOf(x)] /\ fresh.mem[x] = u.mem[x] /\ "P" \in zero.pages[PageOf(x)]
      BY <1>8, <2>8, <2>11, <3>1
    <3>3. zero.mem[x] = u.mem[x]
      BY <1>9, <3>1, <3>2
    <3> QED
      BY <2>5, <2>7, <3>1, <3>2, <3>3
  <2> QED
    BY <1>6, <2>5, <2>8, <2>9, <2>10, <2>11
<1>15. ASSUME ~CompletePage(a, zva) /\ ~(a < zva /\ s.filesz # 0) PROVE Good
  <2>1. w = zero
    BY <1>10, <1>15 DEF w
  <2>2. \A x \in UAddr : In(x, a, PAGESIZE) => ~(s.filesz > 0 /\ x < zva)
    BY <1>1, <1>2, <1>6, <1>11, <1>15 DEF In
  <2> QED
    BY <1>6, <1>7, <1>8, <1>9, <1>12, <2>1, <2>2
<1>16. Good
  BY <1>13, <1>14, <1>15
<1> QED
  BY <1>6, <1>16 DEF w, q

----------------------------------------------------------------------------
\* The steps of elf_load.

\* Where the program is not being loaded, it is enough that nothing is loaded.
LEMMA Elsewhere ==
  ASSUME LoadInv, pc \notin {"loaded", "astray"}, pc' \notin {"elf_load", "loaded", "astray"}, page = Between,
         machine' = machine, kmem' \in [KAddr -> Int], user' = user, page' = page, last' = last
  PROVE  LoadInv'
<1>1. DataInv'
  BY DEF LoadInv, DataInv, NoCopy
<1>2. PageInv' /\ SegmentsInv'
  BY DEF PageInv, SegmentsInv
<1>3. CopiesAgree'
  BY DEF LoadInv, DataInv, NoCopy, NoLast, CopiesAgree
<1> QED
  BY <1>1, <1>2, <1>3 DEF LoadInv

LEMMA ElfLoadKeeps == ASSUME BootInv, LoadInv, NEW p \in Programs, elf_load(p) PROVE LoadInv'
<1>1. /\ pc = "main" /\ prog' = p /\ pc' \in {"elf_load", "panic"} /\ ph' = 1 /\ machine' = machine
      /\ kmem' = kmem /\ user' = user /\ page' = page /\ last' = last
  BY DEF elf_load
<1>2. /\ page = Between /\ NoCopy /\ machine \in Machines /\ kmem \in [KAddr -> Int] /\ user \in User
  BY <1>1 DEF LoadInv, DataInv
<1>3. CASE pc' = "panic"
  BY <1>1, <1>2, <1>3, Elsewhere
<1>4. CASE pc' = "elf_load"
  <2>1. Kernel' = Kernel /\ bootable_lba' = bootable_lba
    BY <1>1 DEF Kernel, bootable_lba, Bootable
  <2>2. \A i \in DOMAIN Kernel.phs : \A x \in FilePart(Kernel.phs[i]) \ {Kernel.multiboot_ptr} :
             kmem[x] = FileByte(Kernel.phs[i].offset + x - Phys(Kernel.phs[i]))
    BY <1>1 DEF BootInv, StartInv
  <2>3. DataInv'
    BY <1>1, <1>2, <1>4, <2>1, <2>2 DEF DataInv, NoCopy, FileByte
  <2>4. Len(p.phs) \in Nat /\ DOMAIN p.phs = 1 .. Len(p.phs)
    BY LoaderAssumption
  <2>5. PageInv'
    BY <1>1, <1>2, <1>4, <2>4 DEF PageInv
  <2>6. SegmentsInv'
    <3>1. \A i \in DOMAIN prog'.phs : \A q \in UPage : ~HasLoaded(i, q)'
      BY <1>1, <1>2, <2>4 DEF HasLoaded
    <3> QED
      BY <1>4, <3>1 DEF SegmentsInv
  <2>7. CopiesAgree'
    BY <1>1, <1>2 DEF NoCopy, NoLast, CopiesAgree
  <2> QED
    BY <2>3, <2>5, <2>6, <2>7 DEF LoadInv
<1> QED
  BY <1>1, <1>3, <1>4

\* A step of the loops that loads no page.
LEMMA SameLoaded ==
  ASSUME LoadInv, pc = "elf_load", pc' = pc, machine' = machine, kmem' = kmem, user' = user, prog' = prog,
         last' = last, PageInv',
         \A i \in DOMAIN prog.phs : \A p \in UPage : HasLoaded(i, p)' <=> HasLoaded(i, p)
  PROVE  LoadInv'
<1>1. Kernel' = Kernel /\ bootable_lba' = bootable_lba
  BY DEF Kernel, bootable_lba, Bootable
<1>2. NoCopy /\ NoCopy'
  BY DEF LoadInv, DataInv, NoCopy
<1>3. DataInv'
  BY <1>1 DEF LoadInv, DataInv, NoCopy, FileByte
<1>4. CopiesAgree'
  BY <1>2 DEF NoCopy, NoLast, CopiesAgree
<1>5. \A t, p : PageHolds(t, p)' <=> PageHolds(t, p)
  BY <1>1 DEF PageHolds, SegmentByte
<1>6. SegmentsInv'
  BY <1>2, <1>5 DEF LoadInv, SegmentsInv
<1> QED
  BY <1>3, <1>4, <1>6 DEF LoadInv

LEMMA LoadingFacts ==
  ASSUME LoadInv, pc = "elf_load"
  PROVE  /\ machine \in Machines /\ kmem \in [KAddr -> Int] /\ user \in User /\ NoCopy
         /\ prog \in Programs /\ Len(prog.phs) \in Nat /\ DOMAIN prog.phs = 1 .. Len(prog.phs)
         /\ ph \in 1 .. Len(prog.phs) + 1
         /\ page # Between => ph \in DOMAIN prog.phs
<1>1. /\ machine \in Machines /\ kmem \in [KAddr -> Int] /\ user \in User /\ NoCopy
      /\ prog \in Programs /\ ph \in 1 .. Len(prog.phs) + 1
      /\ page # Between => ph <= Len(prog.phs)
  BY DEF LoadInv, DataInv, PageInv
<1>2. Len(prog.phs) \in Nat /\ DOMAIN prog.phs = 1 .. Len(prog.phs)
  BY <1>1, LoaderAssumption
<1> QED
  BY <1>1, <1>2

LEMMA NextHeaderKeeps == ASSUME LoadInv, NextHeader PROVE LoadInv'
<1>1. /\ pc = "elf_load" /\ pc' = pc /\ machine' = machine /\ kmem' = kmem /\ user' = user /\ prog' = prog
      /\ last' = last /\ page = Between /\ ph <= Len(prog.phs)
  BY DEF NextHeader
<1>2. /\ machine \in Machines /\ prog \in Programs /\ Len(prog.phs) \in Nat
      /\ DOMAIN prog.phs = 1 .. Len(prog.phs) /\ ph \in 1 .. Len(prog.phs) + 1
  BY <1>1, LoadingFacts
<1>3. ph \in DOMAIN prog.phs /\ ph \in Nat
  BY <1>1, <1>2
<1>4. \A i \in DOMAIN prog.phs : \A p \in UPage : HasLoaded(i, p) <=> p \in PagesOf(prog.phs[i]) /\ i < ph
  BY <1>1 DEF HasLoaded
<1>5. CASE Header.load
  <2> DEFINE r == Rounddown(Header.va, PAGESIZE)
             o == Rounddown(Header.offset, PAGESIZE)
  <2>1. page' = [va |-> r, fa |-> Kernel.exe + o] /\ ph' = ph
    BY <1>5 DEF NextHeader
  <2>2. /\ r \in Nat /\ o \in Nat /\ Header.va - r = Header.offset - o /\ r % PAGESIZE = 0
        /\ Header.va \in Nat /\ Header.offset \in Nat /\ VM_USERLO <= r
    BY <1>2, <1>3, <1>5, HeaderFacts DEF Header
  <2>3. VM_USERLO \in Nat /\ VM_USERLO > 0 /\ Kernel.exe \in Nat
    BY <1>2, PageNat, DataFacts
  <2>4. Header' = Header /\ Kernel' = Kernel
    BY <1>1, <2>1 DEF Header, Kernel
  <2>5. page' # Between /\ page'.va = r /\ page'.fa = Kernel.exe + o
    BY <2>1, <2>2, <2>3 DEF Between
  <2>6. Kernel.exe + o = Kernel.exe + Header.offset + r - Header.va
    <3> DEFINE x == Kernel.exe
               y == Header.offset
               z == Header.va
    <3> HIDE DEF r, o, x, y, z
    <3>1. x \in Nat /\ y \in Nat /\ z \in Nat /\ z - r = y - o
      BY <2>2, <2>3 DEF x, y, z
    <3>2. x + o = x + y + r - z
      BY <2>2, <3>1
    <3> QED
      BY <3>2 DEF x, y, z
  <2>7. PageInv'
    <3>1. r <= r
      BY <2>2
    <3>2. page' = [va |-> page'.va, fa |-> (Kernel.exe + Header.offset + page'.va - Header.va)]
      BY <2>1, <2>5, <2>6
    <3> QED
      BY <1>1, <1>2, <1>5, <2>1, <2>2, <2>4, <2>5, <3>1, <3>2 DEF PageInv
  <2>8. ASSUME NEW i \in DOMAIN prog.phs, NEW p \in UPage PROVE HasLoaded(i, p)' <=> HasLoaded(i, p)
    <3>1. HasLoaded(i, p)' <=> p \in PagesOf(prog.phs[i]) /\ (i < ph \/ (i = ph /\ p * PAGESIZE < r))
      BY <1>1, <2>1, <2>5 DEF HasLoaded
    <3>2. p \in PagesOf(Header) => r <= p * PAGESIZE /\ p * PAGESIZE \in Nat
      BY <1>5, PageTimes, UserPages DEF PagesOf
    <3>3. i = ph => prog.phs[i] = Header
      BY DEF Header
    <3> HIDE DEF r
    <3>4. ~(i = ph /\ p \in PagesOf(prog.phs[i]) /\ p * PAGESIZE < r)
      BY <2>2, <3>2, <3>3
    <3> QED
      BY <1>4, <3>1, <3>4
  <2> QED
    BY <1>1, <2>7, <2>8, SameLoaded
<1>6. CASE ~Header.load
  <2>1. ph' = ph + 1 /\ page' = page
    BY <1>6 DEF NextHeader
  <2>2. PageInv'
    BY <1>1, <1>2, <1>3, <2>1 DEF PageInv
  <2>3. ASSUME NEW i \in DOMAIN prog.phs, NEW p \in UPage PROVE HasLoaded(i, p)' <=> HasLoaded(i, p)
    <3>1. HasLoaded(i, p)' <=> p \in PagesOf(prog.phs[i]) /\ i < ph + 1
      BY <1>1, <2>1 DEF HasLoaded
    <3>2. i = ph => PagesOf(prog.phs[i]) = {}
      BY <1>6 DEF PagesOf, Header
    <3>3. i \in Nat
      BY <1>2
    <3> QED
      BY <1>3, <1>4, <3>1, <3>2, <3>3
  <2> QED
    BY <1>1, <2>2, <2>3, SameLoaded
<1> QED
  BY <1>5, <1>6

LEMMA SegmentEndKeeps == ASSUME LoadInv, SegmentEnd PROVE LoadInv'
<1>1. /\ pc = "elf_load" /\ pc' = pc /\ machine' = machine /\ kmem' = kmem /\ user' = user /\ prog' = prog
      /\ last' = last /\ page # Between /\ page.va >= HeaderEnd /\ ph' = ph + 1 /\ page' = Between
  BY DEF SegmentEnd
<1>2. /\ machine \in Machines /\ prog \in Programs /\ Len(prog.phs) \in Nat
      /\ DOMAIN prog.phs = 1 .. Len(prog.phs) /\ ph \in DOMAIN prog.phs
  BY <1>1, LoadingFacts
<1>3. ph \in Nat /\ Header.load /\ page.va \in Nat
  BY <1>1, <1>2 DEF LoadInv, PageInv
<1>4. PageInv'
  BY <1>1, <1>2, <1>3 DEF PageInv
<1>5. ASSUME NEW i \in DOMAIN prog.phs, NEW p \in UPage PROVE HasLoaded(i, p)' <=> HasLoaded(i, p)
  <2>1. HasLoaded(i, p)' <=> p \in PagesOf(prog.phs[i]) /\ i < ph + 1
    BY <1>1 DEF HasLoaded
  <2>2. HasLoaded(i, p) <=> p \in PagesOf(prog.phs[i]) /\ (i < ph \/ (i = ph /\ p * PAGESIZE < page.va))
    BY <1>1 DEF HasLoaded
  <2>3. i = ph /\ p \in PagesOf(prog.phs[i]) => p * PAGESIZE < page.va
    <3> SUFFICES ASSUME i = ph, p \in PagesOf(prog.phs[i]) PROVE p * PAGESIZE < page.va
      OBVIOUS
    <3>1. p * PAGESIZE < HeaderEnd
      BY <1>3 DEF PagesOf, Header, HeaderEnd
    <3>2. HeaderEnd \in Nat
      BY <1>2, <1>3, HeaderFacts DEF Header, HeaderEnd
    <3>3. p * PAGESIZE \in Nat
      BY UserPages, PageTimes
    <3> QED
      BY <1>1, <1>3, <3>1, <3>2, <3>3
  <2>4. i \in Nat
    BY <1>2
  <2> QED
    BY <1>3, <2>1, <2>2, <2>3, <2>4
<1> QED
  BY <1>1, <1>4, <1>5, SameLoaded

\* A page that holds what its segment brings is present.
LEMMA HeldPresent == \A t, p : PageHolds(t, p) => "P" \in user.pages[p]
  BY DEF PageHolds, Perm

LEMMA LoadPageKeeps == ASSUME LoadInv, LoadPage PROVE LoadInv'
<1>0. SUFFICES ASSUME NEW s, NEW a, NEW q, NEW n, s = Header, a = page.va, q = PageOf(a), n = ph
               PROVE  LoadInv'
  OBVIOUS
<1>1. /\ pc = "elf_load" /\ page # Between /\ a < HeaderEnd /\ page' = [va |-> a + PAGESIZE, fa |-> page.fa + PAGESIZE]
      /\ machine' = machine /\ pc' = pc /\ kmem' = kmem /\ ph' = ph /\ prog' = prog /\ last' = last
      /\ user' = LoadedPage(user, s, a, page.fa)
  BY <1>0 DEF LoadPage, LoadedPage, bootVars
<1>2. /\ machine \in Machines /\ kmem \in [KAddr -> Int] /\ user \in User /\ NoCopy
      /\ prog \in Programs /\ DOMAIN prog.phs = 1 .. Len(prog.phs) /\ Len(prog.phs) \in Nat
      /\ ph \in DOMAIN prog.phs /\ ph \in 1 .. Len(prog.phs) + 1
  BY <1>1, LoadingFacts
<1>3. /\ s = prog.phs[ph] /\ s.load /\ a \in Nat /\ a % PAGESIZE = 0 /\ Rounddown(s.va, PAGESIZE) <= a
      /\ page = [va |-> a, fa |-> Kernel.exe + s.offset + a - s.va]
  BY <1>0, <1>1 DEF LoadInv, PageInv, Header
<1>4. page.fa = Kernel.exe + s.offset + a - s.va /\ a < Roundup(s.va + s.memsz, PAGESIZE)
  <2> DEFINE f == Kernel.exe + s.offset + a - s.va
  <2>1. page = [va |-> a, fa |-> f]
    BY <1>3
  <2> HIDE DEF f
  <2>2. page.fa = f
    BY <2>1
  <2>3. a < Roundup(s.va + s.memsz, PAGESIZE)
    BY <1>0, <1>1 DEF HeaderEnd
  <2> QED
    BY <2>2, <2>3 DEF f
<1>5. /\ user' \in User /\ q \in UPage /\ user'.pages[q] = Perm(s)
      /\ \A x \in UAddr : PageOf(x) = q => user'.mem[x] = SegmentByte(s, x)
      /\ \A p \in UPage : p # q /\ "P" \in user.pages[p] => user'.pages[p] = user.pages[p]
      /\ \A x \in UAddr : PageOf(x) # q /\ "P" \in user.pages[PageOf(x)] => user'.mem[x] = user.mem[x]
  BY <1>0, <1>1, <1>2, <1>3, <1>4, LoadedPageFacts
<1>6. Kernel' = Kernel /\ bootable_lba' = bootable_lba /\ Header' = Header
  BY <1>1 DEF Kernel, bootable_lba, Bootable, Header
<1>7. NoCopy' /\ CopiesAgree'
  BY <1>1, <1>2 DEF NoCopy, NoLast, CopiesAgree
<1>8. DataInv'
  BY <1>1, <1>5, <1>6 DEF LoadInv, DataInv, NoCopy, FileByte
<1>9. PAGESIZE \in Nat \ {0} /\ Kernel.exe \in Nat /\ s.offset \in Nat /\ s.va \in Nat
  BY <1>2, <1>3, PageNat, DataFacts, HeaderFacts
<1>10. PageOf(a) * PAGESIZE = a /\ q \in Nat /\ q * PAGESIZE = a
  BY <1>0, <1>3, PageStart
<1>11. PageInv'
  <2> DEFINE b == a + PAGESIZE
             x == Kernel.exe
  <2>1. b \in Nat /\ page'.va = b /\ b # 0
    BY <1>1, <1>3, <1>9
  <2>2. b % PAGESIZE = 0
    <3>1. (q + 1) * PAGESIZE = b
      <4>1. (q + 1) * PAGESIZE = q * PAGESIZE + PAGESIZE
        BY <1>9, <1>10, MulOrder
      <4> QED
        BY <1>10, <4>1
    <3>2. q + 1 \in Nat
      BY <1>10
    <3>3. ((q + 1) * PAGESIZE) % PAGESIZE = 0
      BY <3>2, PageTimes
    <3> QED
      BY <3>1, <3>3
  <2>3. page.fa + PAGESIZE = x + s.offset + b - s.va
    <3> HIDE DEF x
    <3>1. page.fa = x + s.offset + a - s.va /\ x \in Nat
      BY <1>4, <1>9 DEF x
    <3> QED
      BY <1>3, <1>9, <3>1
  <2>4. Rounddown(s.va, PAGESIZE) <= b
    <3>1. Rounddown(s.va, PAGESIZE) \in Nat
      BY <1>2, <1>3, HeaderFacts
    <3> QED
      BY <1>3, <1>9, <3>1
  <2>5. page' # Between
    BY <2>1 DEF Between
  <2>6. page' = [va |-> b, fa |-> x + s.offset + b - s.va]
    BY <1>1, <2>3
  <2> HIDE DEF b, x
  <2>7. (Rounddown(Header.va, PAGESIZE) <= page.va)' /\ (page.va % PAGESIZE = 0)' /\ (page.va \in Nat)'
    BY <1>0, <1>6, <2>1, <2>2, <2>4
  <2>8. (page = [va |-> page.va, fa |-> Kernel.exe + Header.offset + page.va - Header.va])'
    BY <1>0, <1>6, <2>1, <2>6 DEF x
  <2>9. (Header.load)' /\ ph' <= Len(prog'.phs) /\ ph' \in 1 .. Len(prog'.phs) + 1 /\ prog' \in Programs
    <3>1. Header'.load
      BY <1>0, <1>3, <1>6
    <3>2. n <= Len(prog.phs) /\ n \in 1 .. Len(prog.phs) + 1
      BY <1>0, <1>2
    <3> QED
      BY <1>0, <1>1, <1>2, <3>1, <3>2
  <2> QED
    BY <1>1, <2>5, <2>7, <2>8, <2>9 DEF PageInv
<1>12. \A t : \A x : SegmentByte(t, x)' = SegmentByte(t, x)
  BY <1>1, <1>6 DEF SegmentByte
<1>13. HasLoaded(n, q)'
  <2>1. q \in PagesOf(s)
    BY <1>3, <1>4, <1>5, <1>10 DEF PagesOf
  <2>2. page'.va = a + PAGESIZE /\ page' # Between
    BY <1>1, <1>3, <1>9 DEF Between
  <2>3. q * PAGESIZE < page'.va
    BY <1>3, <1>9, <1>10, <2>2
  <2> QED
    BY <1>0, <1>1, <1>3, <2>1, <2>2, <2>3 DEF HasLoaded
<1>14. ASSUME NEW i \in DOMAIN prog.phs, NEW p \in UPage, p # q PROVE HasLoaded(i, p)' <=> HasLoaded(i, p)
  <2>1. page'.va = a + PAGESIZE /\ page' # Between
    BY <1>1, <1>3, <1>9 DEF Between
  <2>2. p \in Nat /\ p * PAGESIZE \in Nat /\ (p * PAGESIZE) % PAGESIZE = 0 /\ PageOf(p * PAGESIZE) = p
    BY UserPages, PageTimes
  <2> DEFINE m == p * PAGESIZE
  <2>3. m \in Nat /\ m % PAGESIZE = 0 /\ m # a
    BY <1>0, <1>14, <2>2
  <2> HIDE DEF m
  <2>4. m < a + PAGESIZE <=> m < a
    <3>1. a < m => a + PAGESIZE <= m
      BY <1>3, <2>3, AlignedGap
    <3> QED
      BY <1>3, <1>9, <2>3, <3>1
  <2>5. HasLoaded(i, p)' <=> p \in PagesOf(prog.phs[i]) /\ (i < ph \/ (i = ph /\ m < a + PAGESIZE))
    BY <1>1, <2>1 DEF HasLoaded, m
  <2>6. HasLoaded(i, p) <=> p \in PagesOf(prog.phs[i]) /\ (i < ph \/ (i = ph /\ m < a))
    BY <1>0, <1>1 DEF HasLoaded, m
  <2> QED
    BY <2>4, <2>5, <2>6
<1>15. ASSUME NEW i \in DOMAIN prog.phs, NEW p \in UPage, HasLoaded(i, p)',
              \A j \in DOMAIN prog.phs : j > i => ~HasLoaded(j, p)'
       PROVE  PageHolds(prog.phs[i], p)'
  <2>1. CASE p = q
    <3>1. i \in Nat /\ ph \in Nat /\ (i < ph \/ i = ph)
      BY <1>1, <1>2, <1>15 DEF HasLoaded
    <3>2. i = n
      BY <1>0, <1>2, <1>13, <1>15, <2>1, <3>1
    <3>3. prog.phs[i] = s
      BY <1>0, <1>3, <3>2
    <3>4. PageHolds(s, q)'
      BY <1>5, <1>12 DEF PageHolds
    <3> QED
      BY <1>0, <1>1, <2>1, <3>3, <3>4
  <2>2. CASE p # q
    <3>1. HasLoaded(i, p) /\ \A j \in DOMAIN prog.phs : j > i => ~HasLoaded(j, p)
      BY <1>14, <1>15, <2>2
    <3>2. PageHolds(prog.phs[i], p)
      BY <1>1, <1>2, <3>1 DEF LoadInv, SegmentsInv
    <3>3. "P" \in user.pages[p]
      BY <3>2, HeldPresent
    <3> QED
      BY <1>1, <1>5, <1>12, <2>2, <3>2, <3>3 DEF PageHolds
  <2> QED
    BY <2>1, <2>2
<1>16. SegmentsInv'
  BY <1>1, <1>15 DEF SegmentsInv
<1> QED
  BY <1>7, <1>8, <1>11, <1>16 DEF LoadInv

LEMMA LoadDllKeeps == ASSUME LoadInv, LoadDll PROVE LoadInv'
<1> DEFINE q == PageOf(VM_DYNLINK)
           d == Kernel.dll
<1>1. /\ pc = "elf_load" /\ page = Between /\ ph > Len(prog.phs) /\ pc' = "loaded"
      /\ user' = pt_copyout(user, d, VM_DYNLINK, PAGESIZE)
      /\ machine' = machine /\ kmem' = kmem /\ ph' = ph /\ prog' = prog /\ page' = page /\ last' = last
  BY DEF LoadDll
<1>2. /\ machine \in Machines /\ kmem \in [KAddr -> Int] /\ user \in User /\ NoCopy
      /\ prog \in Programs /\ DOMAIN prog.phs = 1 .. Len(prog.phs) /\ Len(prog.phs) \in Nat
      /\ ph \in 1 .. Len(prog.phs) + 1
  BY <1>1, LoadingFacts
<1>3. /\ PAGESIZE \in Nat \ {0} /\ KMEM \in Nat /\ VM_USERLO \in Nat /\ VM_USERHI \in Nat
      /\ VM_DYNLINK \in UAddr /\ VM_DYNLINK % PAGESIZE = 0 /\ VM_USERHI % PAGESIZE = 0
      /\ d \in Nat /\ d + PAGESIZE <= KMEM
  BY <1>2, PageNat, LoaderAssumption, DataFacts
<1>4. VM_DYNLINK \in Nat /\ VM_USERLO <= VM_DYNLINK /\ VM_DYNLINK + PAGESIZE <= VM_USERHI
  <2>1. VM_DYNLINK \in Nat /\ VM_USERLO <= VM_DYNLINK /\ VM_DYNLINK < VM_USERHI
    BY <1>3 DEF UAddr
  <2> QED
    BY <1>3, <2>1, AlignedGap
<1>5. /\ user' \in User
      /\ \A x \in UAddr : In(x, VM_DYNLINK, PAGESIZE) => user'.mem[x] = kmem[d + (x - VM_DYNLINK)]
      /\ \A x \in UAddr : "P" \in user.pages[PageOf(x)] /\ ~In(x, VM_DYNLINK, PAGESIZE) => user'.mem[x] = user.mem[x]
      /\ \A p \in UPage : "P" \in user.pages[p] => user'.pages[p] = user.pages[p]
  <2> HIDE DEF d
  <2>1. user' = pt_copyout(user, d, VM_DYNLINK, PAGESIZE) /\ PAGESIZE \in Nat /\ d \in Nat /\ d + PAGESIZE <= KMEM
    BY <1>1, <1>3
  <2>2. user \in User /\ kmem \in [KAddr -> Int]
    BY <1>2
  <2> DEFINE w == pt_copyout(user, d, VM_DYNLINK, PAGESIZE)
  <2>3. /\ w \in User
        /\ \A x \in UAddr : In(x, VM_DYNLINK, PAGESIZE) => w.mem[x] = kmem[d + (x - VM_DYNLINK)]
        /\ \A x \in UAddr : "P" \in user.pages[PageOf(x)] /\ ~In(x, VM_DYNLINK, PAGESIZE) => w.mem[x] = user.mem[x]
        /\ \A p \in UPage : "P" \in user.pages[p] => w.pages[p] = user.pages[p]
    BY <1>4, <2>1, <2>2, CopyoutFacts
  <2> HIDE DEF w
  <2>4. user' = w
    BY <2>1 DEF w
  <2> QED
    BY <2>3, <2>4
<1>6. \A x \in UAddr : x \in Nat /\ PageOf(x) \in UPage /\ (PageOf(x) = q <=> In(x, VM_DYNLINK, PAGESIZE))
  BY <1>3, <1>4, UserPages, AlignedPage
<1>7. Kernel' = Kernel /\ bootable_lba' = bootable_lba
  BY <1>1 DEF Kernel, bootable_lba, Bootable
<1>8. NoCopy' /\ CopiesAgree'
  BY <1>1, <1>2 DEF NoCopy, NoLast, CopiesAgree
<1>9. DataInv'
  BY <1>1, <1>5, <1>7 DEF LoadInv, DataInv, NoCopy, FileByte
<1>10. PageInv'
  BY <1>1, <1>2 DEF PageInv
<1>11. \A i, p : HasLoaded(i, p)' <=> HasLoaded(i, p)
  BY <1>1 DEF HasLoaded
<1>12. \A t : \A x : SegmentByte(t, x)' = SegmentByte(t, x)
  BY <1>1, <1>7 DEF SegmentByte
<1>13. ASSUME NEW i \in DOMAIN prog.phs, NEW p \in UPage, HasLoaded(i, p)',
              \A j \in DOMAIN prog.phs : j > i => ~HasLoaded(j, p)'
       PROVE  PageHolds(prog.phs[i], p)'
  <2>1. PageHolds(prog.phs[i], p)
    BY <1>1, <1>2, <1>11, <1>13 DEF LoadInv, SegmentsInv
  <2>2. "P" \in user.pages[p]
    BY <2>1, HeldPresent
  <2>3. (user.pages[p] = Perm(prog.phs[i]))'
    BY <1>1, <1>5, <2>1, <2>2 DEF PageHolds
  <2>4. ASSUME p # q, NEW x \in UAddr, PageOf(x) = p PROVE (user.mem[x] = SegmentByte(prog.phs[i], x))'
    BY <1>1, <1>5, <1>6, <1>12, <2>1, <2>2, <2>4 DEF PageHolds
  <2> QED
    BY <1>1, <2>3, <2>4 DEF PageHolds
<1>14. ASSUME NEW x \in UAddr, PageOf(x) = q PROVE (user.mem[x] = kmem[Kernel.dll + x - VM_DYNLINK])'
  <2>1. user'.mem[x] = kmem[d + (x - VM_DYNLINK)]
    BY <1>5, <1>6, <1>14
  <2>2. d + (x - VM_DYNLINK) = d + x - VM_DYNLINK
    <3> HIDE DEF d
    <3> QED
      BY <1>3, <1>4, <1>6
  <2> QED
    BY <1>1, <1>7, <2>1, <2>2
<1>15. SegmentsInv'
  BY <1>1, <1>13, <1>14 DEF SegmentsInv
<1> QED
  BY <1>8, <1>9, <1>10, <1>15 DEF LoadInv

----------------------------------------------------------------------------
\* Copies.

LEMMA CopyFacts ==
  ASSUME LoadInv, MayCopy, NEW a \in CopyArgs
  PROVE  /\ machine \in Machines /\ kmem \in [KAddr -> Int] /\ user \in User
         /\ a.kva \in Nat /\ a.uva \in Nat /\ a.len \in Nat
         /\ Accepts(a.kva, a.uva, a.len) /\ ~Astray(a) =>
               /\ VM_USERLO <= a.uva /\ a.uva + a.len <= VM_USERHI /\ a.kva + a.len <= KMEM
               /\ \A i \in 0 .. a.len - 1 : /\ a.uva + i \in UAddr /\ In(a.uva + i, a.uva, a.len)
                                              /\ a.kva + (a.uva + i - a.uva) = a.kva + i
<1>1. a.kva \in Nat /\ a.uva \in Nat /\ a.len \in Nat /\ (a.kva + a.len <= VM_USERHI => a.kva + a.len <= KMEM)
  BY LoaderAssumption
<1>2. VM_USERLO \in Nat /\ VM_USERHI \in Nat
  BY PageNat
<1> DEFINE k == a.kva
           u == a.uva
           l == a.len
<1> HIDE DEF k, u, l
<1>3. k \in Nat /\ u \in Nat /\ l \in Nat /\ (k + l <= VM_USERHI => k + l <= KMEM)
  BY <1>1 DEF k, u, l
<1>31. k + l \in Nat /\ u + l \in Nat
  BY <1>3
<1>32. ~Wraps(k, u, l) => (u + l) % ADDRESSES = u + l /\ (k + l) % ADDRESSES = k + l
  <2> SUFFICES ASSUME ~Wraps(k, u, l) PROVE (u + l) % ADDRESSES = u + l /\ (k + l) % ADDRESSES = k + l
    OBVIOUS
  <2>1. u + l \in 0 .. ADDRESSES - 1 /\ k + l \in 0 .. ADDRESSES - 1
    BY <1>31, AddressesFact DEF Wraps
  <2> QED
    BY <2>1, AddressesFact
<1>4. Accepts(k, u, l) /\ ~Wraps(k, u, l) =>
               /\ VM_USERLO <= u /\ u + l <= VM_USERHI /\ k + l <= KMEM
               /\ \A i \in 0 .. l - 1 : /\ u + i \in UAddr /\ In(u + i, u, l)
                                          /\ k + (u + i - u) = k + i
  <2>1. Accepts(k, u, l) /\ ~Wraps(k, u, l) => VM_USERLO <= u /\ u + l <= VM_USERHI /\ k + l <= VM_USERHI
    BY <1>32 DEF Accepts
  <2> QED
    BY <1>2, <1>3, <2>1 DEF UAddr, In
<1>5. machine \in Machines /\ kmem \in [KAddr -> Int] /\ user \in User
  BY DEF LoadInv, DataInv
<1> QED
  BY <1>3, <1>4, <1>5 DEF k, u, l, Astray

\* After a copy, only CopiesAgree is left to show.
LEMMA AfterCopy ==
  ASSUME LoadInv, MayCopy, machine' = machine, pc' \in {"loaded", "astray"}, ph' = ph, prog' = prog,
         page' = page, last'.op # "none", user' \in User, kmem' \in [KAddr -> Int], CopiesAgree'
  PROVE  LoadInv'
<1>1. ~NoCopy' /\ pc = "loaded"
  BY DEF NoCopy, NoLast, MayCopy
<1>2. DataInv'
  BY <1>1 DEF LoadInv, DataInv, PageInv
<1>3. SegmentsInv'
  BY <1>1 DEF SegmentsInv
<1>4. PageInv'
  BY <1>1 DEF LoadInv, PageInv
<1> QED
  BY <1>2, <1>3, <1>4 DEF LoadInv

LEMMA CopyOutKeeps == ASSUME LoadInv, MayCopy, NEW a \in CopyArgs, CopyOut(a) PROVE LoadInv'
<1> DEFINE ok == Accepts(a.kva, a.uva, a.len)
           n == IF ok THEN a.len ELSE 0
<1>1. /\ user' = pt_copyout(user, a.kva, a.uva, a.len) /\ machine' = machine /\ kmem' = kmem
      /\ pc' = pc /\ pc = "loaded" /\ ~Astray(a)
      /\ ph' = ph /\ prog' = prog /\ page' = page
      /\ last' = [op |-> "out", args |-> a, ret |-> n, user |-> user, kmem |-> kmem]
  BY DEF CopyOut, Record, bootVars, MayCopy
<1>2. /\ machine \in Machines /\ kmem \in [KAddr -> Int] /\ user \in User
      /\ a.kva \in Nat /\ a.uva \in Nat /\ a.len \in Nat
      /\ ok =>
               /\ VM_USERLO <= a.uva /\ a.uva + a.len <= VM_USERHI /\ a.kva + a.len <= KMEM
               /\ \A i \in 0 .. a.len - 1 : /\ a.uva + i \in UAddr /\ In(a.uva + i, a.uva, a.len)
                                              /\ a.kva + (a.uva + i - a.uva) = a.kva + i
  BY <1>1, CopyFacts
<1>3. /\ last'.op = "out" /\ last'.args = a /\ last'.ret = n /\ last'.user = user /\ last'.kmem = kmem
  BY <1>1
<1>4. CASE ok
  <2>1. /\ user' \in User
        /\ \A x \in UAddr : In(x, a.uva, a.len) => user'.mem[x] = kmem[a.kva + (x - a.uva)]
        /\ \A x \in UAddr : "P" \in user.pages[PageOf(x)] /\ ~In(x, a.uva, a.len) => user'.mem[x] = user.mem[x]
        /\ \A p \in UPage : "P" \in user.pages[p] => user'.pages[p] = user.pages[p]
    BY <1>1, <1>2, <1>4, CopyoutFacts
  <2>2. a.len = 0 => user' = user
    <3> SUFFICES ASSUME a.len = 0 PROVE user' = user
      OBVIOUS
    <3> DEFINE b == [i \in 0 .. a.len - 1 |-> kmem[a.kva + i]]
    <3>1. user' = Store(user, a.uva, a.len, b)
      BY <1>1, <1>4 DEF pt_copyout
    <3> HIDE DEF b
    <3>2. Store(user, a.uva, 0, b) = user
      <4>1. PICK after : after[0] = [user |-> user, done |-> 0] /\ Store(user, a.uva, 0, b) = after[0].user
        BY StoreRounds
      <4> QED
        BY <4>1
    <3> QED
      BY <3>1, <3>2
  <2>3. n = a.len
    BY <1>4
  <2> HIDE DEF ok, n
  <2>4. \A i \in 0 .. n - 1 : user'.mem[a.uva + i] = kmem[a.kva + i]
    BY <1>2, <1>4, <2>1, <2>3
  <2>5. CopiesAgree'
    BY <1>1, <1>3, <2>1, <2>2, <2>3, <2>4 DEF CopiesAgree, Unmoved
  <2> QED
    BY <1>1, <1>2, <1>3, <2>1, <2>5, AfterCopy
<1>5. CASE ~ok
  <2>1. n = 0 /\ user' = user
    BY <1>1, <1>5 DEF pt_copyout
  <2> HIDE DEF ok, n
  <2>2. CopiesAgree'
    BY <1>1, <1>3, <2>1 DEF CopiesAgree, Unmoved
  <2> QED
    BY <1>1, <1>2, <1>3, <2>1, <2>2, AfterCopy
<1> QED
  BY <1>4, <1>5

LEMMA CopyInKeeps == ASSUME LoadInv, MayCopy, NEW a \in CopyArgs, CopyIn(a) PROVE LoadInv'
<1> DEFINE ok == Accepts(a.kva, a.uva, a.len)
           n == IF ok THEN a.len ELSE 0
           v == pt_copyin(user, kmem, a.uva, a.kva, a.len)
<1>1. /\ machine' = machine /\ ph' = ph /\ prog' = prog /\ page' = page
      /\ pc' = pc /\ pc = "loaded" /\ ~Astray(a)
      /\ ok => user' = v.user /\ kmem' = v.kmem
      /\ ~ok => user' = user /\ kmem' = kmem
      /\ last' = [op |-> "in", args |-> a, ret |-> n, user |-> user, kmem |-> kmem]
  BY DEF CopyIn, Record, MayCopy
<1>2. /\ machine \in Machines /\ kmem \in [KAddr -> Int] /\ user \in User
      /\ a.kva \in Nat /\ a.uva \in Nat /\ a.len \in Nat
      /\ ok =>
               /\ VM_USERLO <= a.uva /\ a.uva + a.len <= VM_USERHI /\ a.kva + a.len <= KMEM
               /\ \A i \in 0 .. a.len - 1 : /\ a.uva + i \in UAddr /\ In(a.uva + i, a.uva, a.len)
                                              /\ a.kva + (a.uva + i - a.uva) = a.kva + i
  BY <1>1, CopyFacts
<1>3. /\ last'.op = "in" /\ last'.args = a /\ last'.ret = n /\ last'.user = user /\ last'.kmem = kmem
  BY <1>1
<1>4. CASE ok
  <2>1. LoadedFrom(user, kmem, user', kmem', a.uva, a.kva, a.len)
    <3>1. LoadedFrom(user, kmem, v.user, v.kmem, a.uva, a.kva, a.len)
      BY <1>2, <1>4, CopyinFacts
    <3> QED
      BY <1>1, <1>4, <3>1
  <2>2. a.len = 0 => user' = user
    <3> SUFFICES ASSUME a.len = 0 PROVE user' = user
      OBVIOUS
    <3>1. PICK after : /\ after[0] = [user |-> user, kmem |-> kmem, done |-> 0]
                       /\ pt_copyin(user, kmem, a.uva, a.kva, 0) = after[0]
      BY LoadRounds
    <3> QED
      BY <1>1, <1>4, <3>1
  <2>3. n = a.len
    BY <1>4
  <2> HIDE DEF ok, n, v
  <2>4. /\ user' \in User /\ kmem' \in [KAddr -> Int]
        /\ \A x \in UAddr : In(x, a.uva, a.len) => kmem'[a.kva + (x - a.uva)] = user'.mem[x]
        /\ Unmoved(user, user', a.uva, 0)
        /\ \A y \in KAddr : ~In(y, a.kva, a.len) => kmem'[y] = kmem[y]
        /\ \A p \in UPage : "P" \in user.pages[p] => user'.pages[p] = user.pages[p]
    BY <2>1 DEF LoadedFrom
  <2>5. \A i \in 0 .. n - 1 : user'.mem[a.uva + i] = kmem'[a.kva + i]
    BY <1>2, <1>4, <2>3, <2>4
  <2>6. CopiesAgree'
    BY <1>1, <1>3, <2>2, <2>3, <2>4, <2>5 DEF CopiesAgree, Unmoved
  <2> QED
    BY <1>1, <1>2, <1>3, <2>4, <2>6, AfterCopy
<1>5. CASE ~ok
  <2>1. n = 0 /\ user' = user /\ kmem' = kmem
    BY <1>1, <1>5
  <2> HIDE DEF ok, n, v
  <2>2. CopiesAgree'
    BY <1>1, <1>3, <2>1 DEF CopiesAgree, Unmoved
  <2> QED
    BY <1>1, <1>2, <1>3, <2>1, <2>2, AfterCopy
<1> QED
  BY <1>4, <1>5

LEMMA CopyAstrayKeeps == ASSUME LoadInv, MayCopy, NEW a \in CopyArgs, CopyAstray(a) PROVE LoadInv'
<1>1. /\ pc' = "astray" /\ last' = [op |-> "astray", args |-> a] /\ Astray(a)
      /\ machine' = machine /\ kmem' = kmem /\ ph' = ph /\ prog' = prog /\ user' = user /\ page' = page
  BY DEF CopyAstray
<1>2. CopiesAgree'
  BY <1>1 DEF CopiesAgree, Astray
<1> QED
  BY <1>1, <1>2, AfterCopy DEF LoadInv, DataInv

----------------------------------------------------------------------------
LEMMA LoadStep ==
  ASSUME BootInv, LoadInv, [LoadNext]_<<bootVars, loadVars>>, BootInv'
  PROVE  LoadInv'
<1>1. CASE BootNext /\ UNCHANGED loadVars
  <2>1. /\ pc \in {"boot0", "e820", "boot1main", "load_kernel", "start", "seg_init"}
        /\ pc' \in {"e820", "halted", "overrun", "boot1main", "panic", "load_kernel", "start", "seg_init", "main"}
        /\ machine' = machine
    BY <1>1 DEF BootNext, LoadBoot1, Halt, E820, boot1main, readsector, load_kernel, start, seg_init
  <2>2. kmem' \in [KAddr -> Int]
    BY <2>1 DEF BootInv, StartInv
  <2>3. page = Between
    BY <2>1 DEF LoadInv, DataInv
  <2> QED
    BY <1>1, <2>1, <2>2, <2>3, Elsewhere DEF loadVars
<1>2. CASE pc = "main" /\ \E p \in Programs : elf_load(p)
  BY <1>2, ElfLoadKeeps
<1>3. CASE ElfStep
  BY <1>3, NextHeaderKeeps, LoadPageKeeps, SegmentEndKeeps, LoadDllKeeps DEF ElfStep
<1>4. CASE MayCopy /\ \E a \in CopyArgs : CopyOut(a) \/ CopyIn(a) \/ CopyAstray(a)
  BY <1>4, CopyOutKeeps, CopyInKeeps, CopyAstrayKeeps
<1>5. CASE UNCHANGED <<bootVars, loadVars>>
  <2>1. /\ machine' = machine /\ pc' = pc /\ kmem' = kmem /\ ph' = ph
        /\ prog' = prog /\ user' = user /\ page' = page /\ last' = last
    BY <1>5 DEF bootVars, loadVars
  <2>2. Kernel' = Kernel /\ bootable_lba' = bootable_lba /\ Header' = Header
    BY <2>1 DEF Kernel, bootable_lba, Bootable, Header
  <2>3. DataInv'
    BY <2>1, <2>2 DEF LoadInv, DataInv, NoCopy, FileByte
  <2>4. PageInv'
    BY <2>1, <2>2 DEF LoadInv, PageInv
  <2>5. SegmentsInv'
    <3>1. \A t, p : PageHolds(t, p)' <=> PageHolds(t, p)
      BY <2>1, <2>2 DEF PageHolds, SegmentByte
    <3>2. \A i, p : HasLoaded(i, p)' <=> HasLoaded(i, p)
      BY <2>1 DEF HasLoaded
    <3> QED
      BY <2>1, <2>2, <3>1, <3>2 DEF LoadInv, SegmentsInv, NoCopy
  <2>6. CopiesAgree'
    BY <2>1 DEF LoadInv, CopiesAgree, Unmoved
  <2> QED
    BY <2>3, <2>4, <2>5, <2>6 DEF LoadInv
<1> QED
  BY <1>1, <1>2, <1>3, <1>4, <1>5 DEF LoadNext

(***************************************************************************)
(* The loader's invariant: at each step of elf_load, every page that has   *)
(* been loaded holds what the last segment of it brings, through the loops *)
(* of pt_copyout and pt_memset over any sizes.                             *)
(***************************************************************************)
THEOREM LoaderInvariant == LoadSpec => []LoadInv
<1>1. LoadInit => LoadInv
  <2> SUFFICES ASSUME LoadInit PROVE LoadInv
    OBVIOUS
  <2>1. /\ machine \in Machines /\ pc = "boot0" /\ kmem = [x \in KAddr |-> Junk]
        /\ user = [mem |-> [x \in UAddr |-> Junk], pages |-> [p \in UPage |-> {}]]
        /\ page = Between /\ last = NoLast
    BY DEF LoadInit, BootInit
  <2>2. DataInv
    BY <2>1 DEF DataInv, User, NoCopy, Junk
  <2>3. PageInv /\ SegmentsInv
    BY <2>1 DEF PageInv, SegmentsInv
  <2>4. CopiesAgree
    BY <2>1 DEF CopiesAgree, NoLast
  <2> QED
    BY <2>2, <2>3, <2>4 DEF LoadInv
<1>2. BootInv /\ LoadInv /\ [LoadNext]_<<bootVars, loadVars>> /\ BootInv' => LoadInv'
  BY LoadStep
<1> QED
  BY <1>1, <1>2, BootInvariant, PTL DEF LoadSpec

(***************************************************************************)
(* pt_copyin and pt_copyout move all of their bytes, whatever pages they   *)
(* start and end in and whichever are not present yet, and nothing else;   *)
(* or nothing at all: except for those that the wrapping sums of their     *)
(* test let through, whose ranges reach past the last address.             *)
(***************************************************************************)
THEOREM CopiesMoveAll == LoadSpec => []CopiesAgree
<1>1. LoadInv => CopiesAgree
  BY DEF LoadInv
<1> QED
  BY <1>1, LoaderInvariant, PTL

\* The last segment that has been loaded to a page.
LEMMA LastLoader ==
  ASSUME LoadInv, pc = "loaded", NoCopy, NEW i \in DOMAIN prog.phs, NEW x \in UAddr,
         PageOf(x) \in PagesOf(prog.phs[i])
  PROVE  \E j \in {i} \cup Later(i, x) : j \in DOMAIN prog.phs /\ PageHolds(prog.phs[j], PageOf(x))
<1> DEFINE S == {i} \cup Later(i, x)
           n == Len(prog.phs)
<1>1. prog \in Programs /\ ph = n + 1 /\ page = Between
  BY DEF LoadInv, PageInv
<1>2. n \in Nat /\ DOMAIN prog.phs = 1 .. n
  BY <1>1, LoaderAssumption
<1>3. S \in SUBSET Nat /\ S # {} /\ (\A k \in S : k <= n) /\ \A k \in S : k \in DOMAIN prog.phs /\ k >= i
  BY <1>2 DEF Later
<1>4. PICK j \in S : \A k \in S : k <= j
  <2> HIDE DEF S, n
  <2> QED
    BY <1>2, <1>3, GreatestNat
<1>5. PageOf(x) \in UPage
  BY UserPages
<1>6. \A k \in DOMAIN prog.phs : HasLoaded(k, PageOf(x)) <=> PageOf(x) \in PagesOf(prog.phs[k])
  BY <1>1, <1>2 DEF HasLoaded
<1>7. j \in DOMAIN prog.phs /\ HasLoaded(j, PageOf(x))
  BY <1>3, <1>6 DEF Later
<1>8. \A k \in DOMAIN prog.phs : k > j => ~HasLoaded(k, PageOf(x))
  <2> SUFFICES ASSUME NEW k \in DOMAIN prog.phs, k > j, HasLoaded(k, PageOf(x)) PROVE FALSE
    OBVIOUS
  <2>1. k > i
    BY <1>2, <1>3
  <2>2. k \in S
    BY <1>6, <2>1 DEF Later
  <2> QED
    BY <1>2, <1>3, <1>4, <2>2
<1>9. PageHolds(prog.phs[j], PageOf(x))
  BY <1>5, <1>7, <1>8 DEF LoadInv, SegmentsInv
<1> QED
  BY <1>7, <1>9

LEMMA KernelBytes ==
  ASSUME LoadInv, pc = "loaded", NoCopy
  PROVE  /\ \A i \in DOMAIN prog.phs : prog.phs[i].load =>
               \A o \in 0 .. prog.phs[i].offset + prog.phs[i].filesz - 1 : kmem[Kernel.exe + o] = ProgramByte(o)
         /\ \A x \in 0 .. PAGESIZE - 1 : kmem[Kernel.dll + x] = KernelByte(Kernel.dll + x)
<1> DEFINE f == FilePart(Kernel.phs[DataSegment]) \ {Kernel.multiboot_ptr}
<1>1. machine \in Machines /\ prog \in Programs
  BY DEF LoadInv, DataInv, PageInv
<1>2. DataSegment \in DOMAIN Kernel.phs /\ InData(machine, f) /\ machine.kernel = Kernel
  BY <1>1, DataSegmentFacts DEF Kernel
<1>3. \A x \in f : kmem[x] = KernelByte(x)
  BY <1>2 DEF LoadInv, DataInv, KernelByte
<1> HIDE DEF f
<1>4. Kernel.exe \in Nat /\ Kernel.dll \in Nat /\ PAGESIZE \in Nat
  BY <1>1, DataFacts, PageNat
<1>5. ASSUME NEW i \in DOMAIN prog.phs, prog.phs[i].load,
             NEW o \in 0 .. prog.phs[i].offset + prog.phs[i].filesz - 1
      PROVE  kmem[Kernel.exe + o] = ProgramByte(o)
  <2> DEFINE e == Kernel.exe
             m == prog.phs[i].offset
             z == prog.phs[i].filesz
  <2>1. e .. e + m + z - 1 \subseteq f
    BY <1>1, <1>2, <1>5 DEF InData
  <2>2. m \in Nat /\ z \in Nat /\ e \in Nat /\ o \in 0 .. m + z - 1
    BY <1>1, <1>4, <1>5, HeaderFacts
  <2> HIDE DEF e, m, z
  <2>3. e + o \in f
    BY <2>1, <2>2
  <2> QED
    BY <1>3, <2>3 DEF e, ProgramByte
<1>6. ASSUME NEW x \in 0 .. PAGESIZE - 1 PROVE kmem[Kernel.dll + x] = KernelByte(Kernel.dll + x)
  <2> DEFINE d == Kernel.dll
  <2>1. d .. d + PAGESIZE - 1 \subseteq f /\ d \in Nat
    BY <1>2, <1>4 DEF InData
  <2> HIDE DEF d
  <2>2. d + x \in f
    BY <1>4, <2>1
  <2> QED
    BY <1>3, <2>2 DEF d
<1> QED
  BY <1>5, <1>6

\* The bytes of a segment are in its pages.
LEMMA InPages ==
  ASSUME machine \in Machines, NEW g \in Programs, NEW i \in DOMAIN g.phs, g.phs[i].load, NEW x \in UAddr,
         In(x, g.phs[i].va, g.phs[i].memsz)
  PROVE  PageOf(x) \in PagesOf(g.phs[i])
<1> DEFINE s == g.phs[i]
           r == Rounddown(s.va, PAGESIZE)
           e == Roundup(s.va + s.memsz, PAGESIZE)
           p == PageOf(x)
           q == PageOf(s.va)
<1>1. /\ s.va \in Nat /\ s.memsz \in Nat /\ e \in Nat /\ s.va + s.memsz <= e
  BY HeaderFacts
<1>2. x \in Nat /\ p \in UPage /\ PAGESIZE \in Nat \ {0}
  BY UserPages, PageNat
<1>3. p \in Nat /\ p * PAGESIZE \in Nat /\ p * PAGESIZE <= x /\ x < p * PAGESIZE + PAGESIZE
  BY <1>2, PageBounds
<1>4. q \in Nat /\ r = q * PAGESIZE /\ r \in Nat /\ r <= s.va
  BY <1>1, PageBounds
<1>5. s.va <= x /\ x < s.va + s.memsz
  BY DEF In
<1>6. s.load
  OBVIOUS
<1> HIDE DEF s, e, p, q, r
<1>7. p * PAGESIZE < e
  BY <1>1, <1>2, <1>3, <1>5
<1>8. q * PAGESIZE <= p * PAGESIZE
  <2>1. q * PAGESIZE < p * PAGESIZE + PAGESIZE
    BY <1>1, <1>2, <1>3, <1>4, <1>5
  <2>2. q <= p
    BY <1>2, <1>3, <1>4, <2>1, MulOrder
  <2> QED
    BY <1>2, <1>3, <1>4, <2>2, MulOrder
<1>9. p \in PagesOf(s)
  BY <1>2, <1>4, <1>6, <1>7, <1>8 DEF PagesOf, r, e
<1> QED
  BY <1>9 DEF p, s

(***************************************************************************)
(* The process starts with its program: every byte of every segment that   *)
(* no later segment takes, the zeros after it, the permissions, and the    *)
(* dynamic linkage table, for every size of sectors and pages and every    *)
(* kernel and program that the linker can make.                            *)
(***************************************************************************)
THEOREM ProgramLoadedAsLinked == LoadSpec => []ProgramLoaded
<1>1. LoadInv => ProgramLoaded
  <2> SUFFICES ASSUME LoadInv, pc = "loaded", last.op = "none" PROVE ProgramLoaded
    BY DEF ProgramLoaded
  <2>1. NoCopy /\ machine \in Machines /\ prog \in Programs
    BY DEF LoadInv, DataInv, PageInv
  <2>2. \A x \in UAddr : x \in Nat /\ PageOf(x) \in UPage
    BY UserPages
  <2>3. ASSUME NEW i \in DOMAIN prog.phs, prog.phs[i].load
        PROVE  LET s == prog.phs[i]
               IN  /\ \A x \in InFile(s) :
                         PageOf(x) # PageOf(VM_DYNLINK) /\ (\A j \in Later(i, x) : BringsToo(i, j, x))
                            => user.mem[x] = ProgramByte(s.offset + x - s.va)
                   /\ \A x \in Bss(s) :
                         PageOf(x) # PageOf(VM_DYNLINK) /\ Later(i, x) = {} => user.mem[x] = 0
                   /\ \A p \in PagesOf(s) :
                         Later(i, p * PAGESIZE) = {} => ("W" \in user.pages[p] <=> s.write)
    <3>0. SUFFICES ASSUME NEW s, s = prog.phs[i]
          PROVE  /\ \A x \in InFile(s) :
                       PageOf(x) # PageOf(VM_DYNLINK) /\ (\A j \in Later(i, x) : BringsToo(i, j, x))
                          => user.mem[x] = ProgramByte(s.offset + x - s.va)
                 /\ \A x \in Bss(s) :
                       PageOf(x) # PageOf(VM_DYNLINK) /\ Later(i, x) = {} => user.mem[x] = 0
                 /\ \A p \in PagesOf(s) :
                       Later(i, p * PAGESIZE) = {} => ("W" \in user.pages[p] <=> s.write)
      OBVIOUS
    <3>1. /\ s.va \in Nat /\ s.offset \in Nat /\ s.filesz \in Nat /\ s.memsz \in Nat /\ s.write \in BOOLEAN
          /\ s.filesz <= s.memsz /\ s.load
      BY <2>1, <2>3, <3>0, HeaderFacts
    <3>2. ASSUME NEW x \in InFile(s), PageOf(x) # PageOf(VM_DYNLINK), \A j \in Later(i, x) : BringsToo(i, j, x)
          PROVE  user.mem[x] = ProgramByte(s.offset + x - s.va)
      <4>1. x \in UAddr /\ x \in Nat /\ In(x, s.va, s.filesz) /\ s.va <= x /\ x < s.va + s.filesz
        BY <2>2 DEF InFile, In
      <4>2. In(x, s.va, s.memsz)
        BY <3>1, <4>1 DEF In
      <4>3. PageOf(x) \in PagesOf(prog.phs[i])
        BY <2>1, <2>3, <3>0, <4>1, <4>2, InPages
      <4>4. PICK j \in {i} \cup Later(i, x) : j \in DOMAIN prog.phs /\ PageHolds(prog.phs[j], PageOf(x))
        BY <2>1, <4>1, <4>3, LastLoader
      <4>5. PICK t : t = prog.phs[j]
        OBVIOUS
      <4>6. t.load
        BY <2>3, <4>4, <4>5 DEF Later, PagesOf
      <4>7. t.va \in Nat /\ t.offset \in Nat /\ t.filesz \in Nat
        BY <2>1, <4>4, <4>5, <4>6, HeaderFacts
      <4>8. t.va - t.offset = s.va - s.offset /\ t.filesz > 0 /\ x < t.va + t.filesz
        <5>1. CASE j = i
          BY <3>0, <3>1, <4>1, <4>5, <5>1
        <5>2. CASE j \in Later(i, x)
          BY <3>0, <3>2, <4>5, <5>2 DEF BringsToo
        <5> QED
          BY <5>1, <5>2
      <4>9. user.mem[x] = SegmentByte(t, x)
        BY <3>2, <4>1, <4>4, <4>5 DEF PageHolds
      <4>10. user.mem[x] = kmem[Kernel.exe + t.offset + x - t.va]
        BY <4>8, <4>9 DEF SegmentByte
      <4> DEFINE e == Kernel.exe
                 o == s.offset + x - s.va
      <4>11. e \in Nat
        BY <2>1, DataFacts
      <4>12. e + t.offset + x - t.va = e + o /\ o \in 0 .. s.offset + s.filesz - 1
        <5> HIDE DEF e
        <5> QED
          BY <3>1, <4>1, <4>7, <4>8, <4>11
      <4>13. kmem[e + o] = ProgramByte(o)
        <5> HIDE DEF o
        <5> QED
          BY <2>1, <2>3, <3>0, <4>12, KernelBytes DEF e
      <4> QED
        BY <4>10, <4>12, <4>13
    <3>3. ASSUME NEW x \in Bss(s), PageOf(x) # PageOf(VM_DYNLINK), Later(i, x) = {}
          PROVE  user.mem[x] = 0
      <4>1. x \in UAddr /\ x \in Nat /\ In(x, s.va, s.memsz) /\ ~(x < s.va + s.filesz)
        BY <2>2, <3>1 DEF Bss, In
      <4>2. PageOf(x) \in PagesOf(prog.phs[i])
        BY <2>1, <2>3, <3>0, <4>1, InPages
      <4>3. PageHolds(s, PageOf(x))
        BY <2>1, <3>0, <3>3, <4>1, <4>2, LastLoader
      <4> QED
        BY <3>3, <4>1, <4>3 DEF PageHolds, SegmentByte
    <3>4. ASSUME NEW p \in PagesOf(s), Later(i, p * PAGESIZE) = {}
          PROVE  "W" \in user.pages[p] <=> s.write
      <4>1. p \in UPage
        BY <3>1 DEF PagesOf
      <4>2. p \in Nat /\ p * PAGESIZE \in UAddr /\ PageOf(p * PAGESIZE) = p
        BY <4>1, UserPages, PageTimes
      <4> DEFINE x == p * PAGESIZE
      <4>3. x \in UAddr /\ PageOf(x) = p /\ Later(i, x) = {}
        BY <3>4, <4>2
      <4> HIDE DEF x
      <4>4. PageHolds(s, p)
        BY <2>1, <3>0, <4>3, LastLoader
      <4> QED
        BY <3>1, <4>4 DEF PageHolds, Perm
    <3> QED
      BY <3>2, <3>3, <3>4
  <2>4. ASSUME NEW x \in 0 .. PAGESIZE - 1 PROVE user.mem[VM_DYNLINK + x] = KernelByte(Kernel.dll + x)
    <3>1. /\ PAGESIZE \in Nat \ {0} /\ VM_DYNLINK \in UAddr /\ VM_DYNLINK % PAGESIZE = 0
          /\ VM_DYNLINK \in Nat
      BY <2>2, PageNat
    <3> DEFINE y == VM_DYNLINK + x
               d == Kernel.dll
    <3>2. y \in Nat /\ In(y, VM_DYNLINK, PAGESIZE)
      BY <3>1 DEF In
    <3> HIDE DEF y
    <3>3. PageOf(y) = PageOf(VM_DYNLINK)
      BY <3>1, <3>2, AlignedPage
    <3>4. y \in UAddr
      <4>1. PageOf(VM_DYNLINK) \in UPage
        BY <2>2, <3>1
      <4> QED
        BY <3>2, <3>3, <4>1, UserPages
    <3>5. user.mem[y] = kmem[d + y - VM_DYNLINK]
      BY <2>1, <3>3, <3>4 DEF LoadInv, SegmentsInv
    <3>6. d + y - VM_DYNLINK = d + x
      <4>1. d \in Nat
        BY <2>1, DataFacts
      <4> HIDE DEF d
      <4> QED
        BY <3>1, <4>1 DEF y
    <3>7. kmem[d + x] = KernelByte(d + x)
      BY <2>1, KernelBytes
    <3> QED
      BY <3>5, <3>6, <3>7 DEF y
  <2> QED
    BY <2>3, <2>4 DEF ProgramLoaded
<1> QED
  BY <1>1, LoaderInvariant, PTL

=============================================================================
