--------------------------- MODULE MemMapProofs -----------------------------
(***************************************************************************)
(* Physical memory.  MemMap: whatever rows the BIOS reports, sorting and   *)
(* merging them loses and adds no memory, and the table made from them     *)
(* marks as normal the pages it should.  PallocLoop: the loop of palloc    *)
(* finds the page that MATOp says, so that it implements MATOp.            *)
(***************************************************************************)
EXTENDS MemMap, PallocLoop, ContainerProofs, NumberProofs

----------------------------------------------------------------------------
\* Numbers.

\* A nonempty set of numbers has a least one, and Min is it.
LEMMA MinFacts ==
  ASSUME NEW S \in SUBSET Nat, S # {}
  PROVE  Min(S) \in S /\ \A y \in S : Min(S) <= y
BY LeastNat DEF Min

\* pmem_init's division, and the addresses of a page.
LEMMA PageNumbers ==
  /\ PAGESIZE \in Nat /\ PAGESIZE > 0 /\ MAXADDR \in Nat
  /\ \A n \in 0 .. MAXADDR : PagesBelow(n) \in 0 .. AT_SIZE - 1
  /\ \A p \in Nat : p * PAGESIZE \in Nat /\ (p + 1) * PAGESIZE = p * PAGESIZE + PAGESIZE
  /\ \A p \in Nat, n \in Nat : (p + 1) * PAGESIZE <= n => p < PagesBelow(n)
  /\ \A m, n \in Nat : m <= n => PagesBelow(m) <= PagesBelow(n)
<1>1. PAGESIZE \in Nat /\ PAGESIZE > 0 /\ MAXADDR = AT_SIZE * PAGESIZE - 1
  BY MemMapAssumption
<1>2. AT_SIZE \in Nat /\ AT_SIZE > 0
  BY ATAssumption
<1>3. \A a, b \in Nat : a > 0 /\ b > 0 => a * b > 0 /\ a * b \in Nat
  OBVIOUS
<1>4. MAXADDR \in Nat
  BY <1>1, <1>2, <1>3
<1>5. \A n \in Nat, a \in Nat, k \in Nat : k > 0 /\ n < a * k => n \div k < a /\ n \div k >= 0 /\ n \div k \in Int
  OBVIOUS
<1>6. \A p, k \in Nat : p * k \in Nat /\ (p + 1) * k = p * k + k
  OBVIOUS
<1>7. \A p, k, n \in Nat : k > 0 /\ (p + 1) * k <= n => p < n \div k
  OBVIOUS
<1>8. \A n \in 0 .. MAXADDR : PagesBelow(n) \in 0 .. AT_SIZE - 1
  BY <1>1, <1>2, <1>4, <1>5 DEF PagesBelow
<1>9. \A m, n, k \in Nat : k > 0 /\ m <= n => m \div k <= n \div k
  OBVIOUS
<1> QED
  BY <1>1, <1>4, <1>6, <1>7, <1>8, <1>9 DEF PagesBelow

----------------------------------------------------------------------------
\* The list.

\* r is s with e inserted at p, which shifts the elements behind it.
Inserted(r, s, p, e) ==
  /\ Len(r) = Len(s) + 1
  /\ \A i \in 1 .. p - 1 : r[i] = s[i]
  /\ r[p] = e
  /\ \A i \in p + 1 .. Len(s) + 1 : r[i] = s[i - 1]

LEMMA InsertFacts ==
  ASSUME NEW T, NEW s \in Seq(T), NEW e \in T, NEW p \in 1 .. Len(s) + 1,
         NEW r, r = InsertAt(s, p, e)
  PROVE  r \in Seq(T) /\ Inserted(r, s, p, e)
<1> DEFINE k == p - 1
           a == SubSeq(s, 1, k)
           b == SubSeq(s, p, Len(s))
           ae == a \o <<e>>
<1>0. Len(s) \in Nat /\ k \in 0 .. Len(s) /\ p = k + 1
  OBVIOUS
<1>3. r = ae \o b
  BY DEF InsertAt
<1> HIDE DEF k
<1>1. a \in Seq(T) /\ Len(a) = k /\ \A i \in 1 .. k : a[i] = s[i]
  BY <1>0
<1>2. b \in Seq(T) /\ Len(b) = Len(s) - k /\ \A i \in 1 .. Len(s) - k : b[i] = s[k + i]
  BY <1>0
<1> HIDE DEF a, b
<1>4. ae \in Seq(T) /\ Len(ae) = k + 1 /\ \A i \in 1 .. k + 1 : ae[i] = IF i <= k THEN s[i] ELSE e
  BY <1>0, <1>1
<1> HIDE DEF ae
<1>5. ae \o b \in Seq(T) /\ Len(ae \o b) = Len(s) + 1
  <2>1. ae \in Seq(T) /\ b \in Seq(T)
    BY <1>2, <1>4
  <2>2. ae \o b \in Seq(T) /\ Len(ae \o b) = Len(ae) + Len(b)
    BY <2>1
  <2> QED
    BY <2>2, <1>0, <1>2, <1>4
<1>6. \A i \in 1 .. Len(s) + 1 : (ae \o b)[i] = IF i <= k + 1 THEN ae[i] ELSE b[i - (k + 1)]
  <2>1. ae \in Seq(T) /\ b \in Seq(T) /\ Len(ae) = k + 1
    BY <1>2, <1>4
  <2>2. \A i \in 1 .. Len(ae) + Len(b) :
           (ae \o b)[i] = IF i <= Len(ae) THEN ae[i] ELSE b[i - Len(ae)]
    BY <2>1
  <2>3. Len(ae) + Len(b) = Len(s) + 1
    BY <1>0, <1>2, <1>4
  <2> QED
    BY <2>1, <2>2, <2>3
<1>7. \A i \in 1 .. Len(s) + 1 :
         (ae \o b)[i] = IF i <= k THEN s[i] ELSE IF i = k + 1 THEN e ELSE s[i - 1]
  <2> TAKE i \in 1 .. Len(s) + 1
  <2>1. CASE i <= k + 1
    BY <1>0, <2>1, <1>6, <1>4
  <2>2. CASE i > k + 1
    <3>0. ~(i <= k + 1) /\ i - (k + 1) \in 1 .. Len(s) - k
      BY <1>0, <2>2
    <3>1. (ae \o b)[i] = b[i - (k + 1)] /\ i - (k + 1) \in 1 .. Len(s) - k
      BY <3>0, <1>6
    <3>2. b[i - (k + 1)] = s[k + (i - (k + 1))] /\ k + (i - (k + 1)) = i - 1
      BY <1>0, <3>1, <1>2
    <3> QED
      BY <1>0, <3>1, <3>2, <2>2
  <2>3. i <= k + 1 \/ i > k + 1
    BY <1>0
  <2> QED
    BY <2>1, <2>2, <2>3, Zenon
<1> DEFINE c == ae \o b
<1>8. r = c /\ c \in Seq(T) /\ Len(c) = Len(s) + 1
  BY <1>3, <1>5
<1>9. \A i \in 1 .. Len(s) + 1 :
         c[i] = IF i <= k THEN s[i] ELSE IF i = k + 1 THEN e ELSE s[i - 1]
  BY <1>7
<1> HIDE DEF c
<1>10. \A i \in 1 .. k : c[i] = s[i]
  BY <1>0, <1>9
<1>11. c[k + 1] = e
  BY <1>0, <1>9
<1>12. \A i \in k + 2 .. Len(s) + 1 : c[i] = s[i - 1]
  BY <1>0, <1>9
<1> QED
  BY <1>0, <1>8, <1>10, <1>11, <1>12 DEF Inserted

\* r is s without its element k: the ones behind it move up.
Removed(r, s, k) ==
  /\ Len(r) = Len(s) - 1
  /\ \A i \in 1 .. Len(s) - 1 : r[i] = IF i < k THEN s[i] ELSE s[i + 1]

LEMMA RemoveFacts ==
  ASSUME NEW T, NEW s \in Seq(T), NEW k \in 1 .. Len(s), NEW r, r = RemoveAt(s, k)
  PROVE  r \in Seq(T) /\ Removed(r, s, k)
<1> DEFINE a == SubSeq(s, 1, k - 1)
           b == SubSeq(s, k + 1, Len(s))
<1>1. a \in Seq(T) /\ Len(a) = k - 1 /\ \A i \in 1 .. k - 1 : a[i] = s[i]
  OBVIOUS
<1>2. b \in Seq(T) /\ Len(b) = Len(s) - k /\ \A i \in 1 .. Len(s) - k : b[i] = s[k + i]
  OBVIOUS
<1>3. r = a \o b
  BY DEF RemoveAt
<1>0. Len(s) \in Nat /\ k \in Nat
  OBVIOUS
<1> HIDE DEF a, b
<1>4. a \o b \in Seq(T) /\ Len(a \o b) = Len(s) - 1
  <2>1. a \in Seq(T) /\ b \in Seq(T)
    BY <1>1, <1>2
  <2>2. a \o b \in Seq(T) /\ Len(a \o b) = Len(a) + Len(b)
    BY <2>1
  <2> QED
    BY <2>2, <1>0, <1>1, <1>2
<1>5. \A i \in 1 .. Len(s) - 1 : (a \o b)[i] = IF i <= k - 1 THEN a[i] ELSE b[i - (k - 1)]
  <2>1. a \in Seq(T) /\ b \in Seq(T) /\ Len(a) = k - 1
    BY <1>1, <1>2
  <2>2. \A i \in 1 .. Len(a) + Len(b) :
           (a \o b)[i] = IF i <= Len(a) THEN a[i] ELSE b[i - Len(a)]
    BY <2>1
  <2>3. Len(a) + Len(b) = Len(s) - 1
    BY <1>0, <1>1, <1>2
  <2> QED
    BY <2>1, <2>2, <2>3
<1>6. \A i \in 1 .. Len(s) - 1 : (a \o b)[i] = IF i < k THEN s[i] ELSE s[i + 1]
  <2> TAKE i \in 1 .. Len(s) - 1
  <2>1. CASE i < k
    BY <2>1, <1>5, <1>1
  <2>2. CASE i >= k
    <3>0. ~(i <= k - 1) /\ i - (k - 1) \in 1 .. Len(s) - k
      BY <1>0, <2>2
    <3>1. (a \o b)[i] = b[i - (k - 1)] /\ i - (k - 1) \in 1 .. Len(s) - k
      BY <3>0, <1>5
    <3>2. b[i - (k - 1)] = s[k + (i - (k - 1))] /\ k + (i - (k - 1)) = i + 1
      BY <3>1, <1>2
    <3> QED
      BY <3>1, <3>2, <2>2
  <2>3. i < k \/ i >= k
    BY <1>0
  <2> QED
    BY <2>1, <2>2, <2>3, Zenon
<1> QED
  BY <1>3, <1>4, <1>6 DEF Removed

\* The list as a function.
LEMMA ListFacts ==
  ASSUME ListTypeOK
  PROVE  /\ Len(pmmap_list) \in Nat /\ DOMAIN pmmap_list = 1 .. Len(pmmap_list)
         /\ \A i \in 1 .. Len(pmmap_list) : pmmap_list[i] \in MapRange
<1>1. pmmap_list \in Seq(MapRange)
  BY DEF ListTypeOK
<1> QED
  BY <1>1

\* The fields of a range.
LEMMA RangeFields ==
  ASSUME NEW e \in MapRange
  PROVE  /\ e.start \in Nat /\ e.end \in Nat /\ e.type \in Nat
         /\ e.start <= MAXADDR /\ e.end <= MAXADDR
  BY PageNumbers DEF MapRange

\* The address x is in a range of S of the type.
LEMMA CoveredMember ==
  ASSUME NEW S, NEW type, NEW x
  PROVE  x \in Covered(S, type) <=> \E e \in S : e.type = type /\ x \in RangeAddrs(e)
  BY DEF Covered

(***************************************************************************)
(* A range goes in behind every entry that does not start higher, and      *)
(* before all that do.                                                     *)
(***************************************************************************)
LEMMA InsertPositionFacts ==
  ASSUME ListTypeOK, ListSorted, NEW s \in Nat
  PROVE  /\ InsertPosition(s) \in 0 .. Len(pmmap_list)
         /\ \A i \in 1 .. InsertPosition(s) : pmmap_list[i].start <= s
         /\ \A i \in InsertPosition(s) + 1 .. Len(pmmap_list) : s < pmmap_list[i].start
<1> DEFINE n == Len(pmmap_list)
           H == {j \in 1 .. n : s < pmmap_list[j].start}
           S == {i - 1 : i \in H} \cup {n}
           k == InsertPosition(s)
<1>1. n \in Nat /\ DOMAIN pmmap_list = 1 .. n
      /\ \A i \in 1 .. n : pmmap_list[i].start \in Nat
  BY ListFacts, RangeFields
<1>2. S \in SUBSET Nat /\ S # {}
  BY <1>1
<1>3. k = Min(S)
  BY <1>1 DEF InsertPosition
<1>4. k \in S /\ \A y \in S : k <= y
  BY <1>2, <1>3, MinFacts
<1>5. k \in 0 .. n
  BY <1>1, <1>4
<1> HIDE DEF k
<1>6. \A i \in 1 .. k : pmmap_list[i].start <= s
  <2> SUFFICES ASSUME NEW i \in 1 .. k, s < pmmap_list[i].start PROVE FALSE
    BY <1>1, <1>5
  <2>1. i \in H /\ i - 1 < k /\ i \in Nat
    BY <1>1, <1>5
  <2>2. i - 1 \in S
    BY <2>1
  <2> QED
    BY <2>1, <2>2, <1>4, <1>5
<1>7. \A i \in k + 1 .. n : s < pmmap_list[i].start
  <2> SUFFICES ASSUME NEW i \in k + 1 .. n PROVE s < pmmap_list[i].start
    OBVIOUS
  <2>0. k # n
    <3>1. k \in Nat /\ n \in Nat
      BY <1>1, <1>5
    <3> HIDE DEF n
    <3> QED
      BY <3>1
  <2>1. PICK h \in H : k = h - 1
    BY <2>0, <1>4
  <2>2. h \in 1 .. n /\ i \in 1 .. n /\ h <= i /\ s < pmmap_list[h].start
    BY <1>1, <1>5, <2>1
  <2>3. h = i \/ h < i
    BY <2>2
  <2>4. pmmap_list[h].start <= pmmap_list[i].start
    BY <1>1, <2>2, <2>3 DEF ListSorted
  <2> QED
    BY <1>1, <2>2, <2>4
<1> QED
  BY <1>5, <1>6, <1>7 DEF k

----------------------------------------------------------------------------
\* Reading a row.

RowEntry(row) == [start |-> row.base, end |-> RangeEnd(row.base, row.length), type |-> row.type]

LEMMA RowEntryType == \A row \in E820 : RowEntry(row) \in MapRange
<1> TAKE row \in E820
<1>1. row.base \in 0 .. MAXADDR /\ row.length \in Nat /\ row.type \in Nat
  BY MemMapAssumption
<1>2. MAXADDR \in Nat
  BY PageNumbers
<1>3. RangeEnd(row.base, row.length) \in 0 .. MAXADDR
  BY <1>1, <1>2 DEF RangeEnd
<1> QED
  BY <1>1, <1>3 DEF RowEntry, MapRange

\* The part of the invariant about the list and the rows.
ListInv == ListTypeOK /\ ListSorted /\ EntryFromRows /\ RowInEntry

\* Inserting a range: the list stays sorted and holds the rows as they are.
LEMMA InsertKeeps ==
  ASSUME ListInv, NEW e \in MapRange, phase = "insert",
         pmmap_list' = InsertAt(pmmap_list, InsertPosition(e.start) + 1, e),
         ranges' = ranges \cup {e}
  PROVE  ListInv'
<1> DEFINE n == Len(pmmap_list)
           k == InsertPosition(e.start)
           L == pmmap_list'
<1>1. /\ n \in Nat /\ DOMAIN pmmap_list = 1 .. n
      /\ \A i \in 1 .. n : pmmap_list[i] \in MapRange /\ pmmap_list[i].start \in Nat
  BY ListFacts, RangeFields DEF ListInv
<1>2. e.start \in Nat
  BY RangeFields
<1>3. /\ k \in 0 .. n
      /\ \A i \in 1 .. k : pmmap_list[i].start <= e.start
      /\ \A i \in k + 1 .. n : e.start < pmmap_list[i].start
  BY <1>2, InsertPositionFacts DEF ListInv
<1>4. pmmap_list \in Seq(MapRange) /\ ranges \subseteq MapRange /\ Range(pmmap_list) \subseteq ranges
  BY DEF ListInv, ListTypeOK
<1> HIDE DEF k
<1>5. L = InsertAt(pmmap_list, k + 1, e)
  BY DEF k
<1>6. /\ L \in Seq(MapRange) /\ Len(L) = n + 1
      /\ \A i \in 1 .. n + 1 :
            L[i] = IF i <= k THEN pmmap_list[i] ELSE IF i = k + 1 THEN e ELSE pmmap_list[i - 1]
  <2> DEFINE p == k + 1
  <2>1. p \in 1 .. Len(pmmap_list) + 1 /\ L = InsertAt(pmmap_list, p, e)
    BY <1>1, <1>3, <1>5
  <2> HIDE DEF p
  <2>2. /\ L \in Seq(MapRange) /\ Len(L) = Len(pmmap_list) + 1
        /\ \A i \in 1 .. p - 1 : L[i] = pmmap_list[i]
        /\ L[p] = e
        /\ \A i \in p + 1 .. Len(pmmap_list) + 1 : L[i] = pmmap_list[i - 1]
    <3>1. L \in Seq(MapRange) /\ Inserted(L, pmmap_list, p, e)
      BY <1>4, <2>1, InsertFacts
    <3> QED
      BY <3>1 DEF Inserted
  <2> QED
    BY <1>1, <1>3, <2>2 DEF p
<1>7. DOMAIN L = 1 .. n + 1
  BY <1>6
<1> HIDE DEF n
<1>8. \A i \in 1 .. n : pmmap_list[i] \in ranges
  BY <1>1, <1>4 DEF Range
<1>9. \A i \in 1 .. n + 1 : L[i] \in ranges' /\ L[i] \in MapRange
  <2> TAKE i \in 1 .. n + 1
  <2>1. CASE i <= k
    BY <2>1, <1>1, <1>3, <1>6, <1>8
  <2>2. CASE i = k + 1
    BY <2>2, <1>1, <1>3, <1>6
  <2>3. CASE i > k + 1
    <3>1. i - 1 \in 1 .. n /\ L[i] = pmmap_list[i - 1]
      BY <2>3, <1>1, <1>3, <1>6
    <3> QED
      BY <3>1, <1>1, <1>8
  <2> QED
    BY <1>1, <1>3, <2>1, <2>2, <2>3
<1>10. ListTypeOK'
  <2>1. ranges' \subseteq MapRange
    BY <1>4
  <2>2. Range(L) \subseteq ranges'
    BY <1>7, <1>9 DEF Range
  <2> QED
    BY <1>6, <2>1, <2>2 DEF ListTypeOK
<1>11. \A i, j \in 1 .. n + 1 : i < j => L[i].start <= L[j].start
  <2> SUFFICES ASSUME NEW i \in 1 .. n + 1, NEW j \in 1 .. n + 1, i < j
               PROVE  L[i].start <= L[j].start
    OBVIOUS
  <2>0. i \in Nat /\ j \in Nat /\ k \in Nat
    BY <1>1, <1>3
  <2>1. CASE j <= k
    <3>1. i \in 1 .. n /\ j \in 1 .. n /\ L[i] = pmmap_list[i] /\ L[j] = pmmap_list[j]
      BY <2>0, <2>1, <1>1, <1>3, <1>6
    <3> QED
      BY <3>1, <1>1 DEF ListInv, ListSorted
  <2>2. CASE j = k + 1
    BY <2>0, <2>2, <1>1, <1>3, <1>6
  <2>3. CASE j > k + 1 /\ i <= k
    <3>1. i \in 1 .. n /\ j - 1 \in 1 .. n /\ L[i] = pmmap_list[i] /\ L[j] = pmmap_list[j - 1] /\ i < j - 1
      BY <2>0, <2>3, <1>1, <1>3, <1>6
    <3> QED
      BY <3>1, <1>1 DEF ListInv, ListSorted
  <2>4. CASE j > k + 1 /\ i = k + 1
    <3>1. j - 1 \in k + 1 .. n /\ j - 1 \in 1 .. n /\ L[i] = e /\ L[j] = pmmap_list[j - 1]
      BY <2>0, <2>4, <1>1, <1>3, <1>6
    <3>2. e.start < pmmap_list[j - 1].start
      BY <3>1, <1>3
    <3> QED
      BY <3>1, <3>2, <1>1, <1>2
  <2>5. CASE i > k + 1
    <3>1. i - 1 \in 1 .. n /\ j - 1 \in 1 .. n /\ L[i] = pmmap_list[i - 1] /\ L[j] = pmmap_list[j - 1] /\ i - 1 < j - 1
      BY <2>0, <2>5, <1>1, <1>3, <1>6
    <3> QED
      BY <3>1, <1>1 DEF ListInv, ListSorted
  <2> QED
    BY <2>0, <2>1, <2>2, <2>3, <2>4, <2>5
<1>12. EntryFromRows'
  <2> SUFFICES ASSUME NEW i \in 1 .. n + 1
               PROVE  /\ \E x \in ranges' : x.type = L[i].type /\ x.start = L[i].start
                      /\ \E x \in ranges' :
                            /\ x.type = L[i].type /\ x.end = L[i].end
                            /\ \A j \in 1 .. n + 1 : i < j => x.start <= L[j].start
                      /\ RangeAddrs(L[i]) \subseteq Covered(ranges', L[i].type)
    BY <1>7 DEF EntryFromRows, Covered, RangeAddrs
  <2>1. RangeAddrs(L[i]) \subseteq Covered(ranges', L[i].type)
    BY <1>9, CoveredMember
  <2> QED
    BY <1>9, <1>11, <2>1
<1>13. RowInEntry'
  <2> SUFFICES ASSUME NEW x \in ranges'
               PROVE  \E i \in 1 .. n + 1 : /\ L[i].type = x.type
                                            /\ L[i].start <= x.start /\ x.end <= L[i].end
    BY <1>7 DEF RowInEntry
  <2>1. CASE x = e
    <3>1. k + 1 \in 1 .. n + 1 /\ L[k + 1] = e
      BY <1>1, <1>3, <1>6
    <3> QED
      BY <2>1, <3>1, RangeFields
  <2>2. CASE x \in ranges
    <3>1. PICK i \in 1 .. n : /\ pmmap_list[i].type = x.type
                              /\ pmmap_list[i].start <= x.start /\ x.end <= pmmap_list[i].end
      BY <1>1, <2>2 DEF ListInv, RowInEntry
    <3>2. CASE i <= k
      <4>1. i \in 1 .. n + 1 /\ L[i] = pmmap_list[i]
        BY <3>2, <1>1, <1>3, <1>6
      <4> QED
        BY <3>1, <4>1
    <3>3. CASE i > k
      <4>1. i + 1 \in 1 .. n + 1 /\ L[i + 1] = pmmap_list[i]
        BY <3>3, <1>1, <1>3, <1>6
      <4> QED
        BY <3>1, <4>1
    <3> QED
      BY <1>1, <1>3, <3>2, <3>3
  <2> QED
    BY <2>1, <2>2
<1> QED
  BY <1>7, <1>10, <1>11, <1>12, <1>13 DEF ListInv, ListSorted

----------------------------------------------------------------------------
(***************************************************************************)
(* pmmap_merge: a slot absorbs the next one, which it touches.  old(i) is  *)
(* the place an entry had; entry slot alone has changed, in its end.       *)
(***************************************************************************)
LEMMA MergeKeeps ==
  ASSUME ListInv, MergeSlot, slot \in Nat, slot > 0
  PROVE  ListInv'
<1> DEFINE n == Len(pmmap_list)
           a == pmmap_list[slot]
           b == pmmap_list[slot + 1]
           L == pmmap_list'
           m == [a EXCEPT !.end = MergedEnd(a, b)]
           old(i) == IF i <= slot THEN i ELSE i + 1
<1>1. /\ n \in Nat /\ DOMAIN pmmap_list = 1 .. n
      /\ \A i \in 1 .. n : pmmap_list[i] \in MapRange
      /\ pmmap_list \in Seq(MapRange)
  BY ListFacts DEF ListInv, ListTypeOK
<1>2. slot \in 1 .. n - 1 /\ slot + 1 \in 1 .. n /\ phase = "merge" /\ phase' = "merge" /\ ranges' = ranges
  BY <1>1 DEF MergeSlot, GoTo
<1>3. CASE ~Mergeable(a, b)
  <2>1. L = pmmap_list
    BY <1>3 DEF MergeSlot
  <2> QED
    BY <1>2, <2>1 DEF ListInv, ListTypeOK, ListSorted, EntryFromRows, RowInEntry, Covered,
                      RangeAddrs
<1>4. CASE Mergeable(a, b)
  <2>1. a \in MapRange /\ b \in MapRange
    BY <1>1, <1>2
  <2>2. a.start <= b.start /\ b.start <= a.end /\ a.type = b.type
    BY <1>4, <2>1, RangeFields DEF Mergeable
  <2>3. /\ m \in MapRange /\ m.start = a.start /\ m.type = a.type /\ m.end = MergedEnd(a, b)
        /\ m.end \in Nat /\ a.end <= m.end /\ b.end <= m.end
        /\ m.end = a.end \/ m.end = b.end
    <3>1. MergedEnd(a, b) \in 0 .. MAXADDR /\ a.end <= MergedEnd(a, b) /\ b.end <= MergedEnd(a, b)
          /\ (MergedEnd(a, b) = a.end \/ MergedEnd(a, b) = b.end)
      BY <2>1, RangeFields DEF MergedEnd, MapRange
    <3> HIDE DEF a, b
    <3> QED
      BY <2>1, <3>1, PageNumbers DEF MapRange
  <2> DEFINE q == RemoveAt(pmmap_list, slot + 1)
  <2>4. q \in Seq(MapRange) /\ Removed(q, pmmap_list, slot + 1)
    BY <1>1, <1>2, RemoveFacts
  <2>5. L = [q EXCEPT ![slot].end = MergedEnd(a, b)]
    BY <1>4 DEF MergeSlot
  <2> HIDE DEF q
  <2>6. DOMAIN q = 1 .. n - 1 /\ Len(q) = n - 1 /\ q[slot] = a
    BY <1>1, <1>2, <2>4 DEF Removed
  <2>7. L = [q EXCEPT ![slot] = m]
    BY <2>5, <2>6
  <2> HIDE DEF m
  <2>8. L \in Seq(MapRange) /\ DOMAIN L = 1 .. n - 1
        /\ L[slot] = m /\ \A i \in 1 .. n - 1 : i # slot => L[i] = q[i]
    BY <1>1, <1>2, <2>3, <2>4, <2>6, <2>7
  <2>9. \A i \in 1 .. n - 1 :
           /\ old(i) \in 1 .. n
           /\ i # slot => L[i] = pmmap_list[old(i)]
           /\ L[i].start = pmmap_list[old(i)].start /\ L[i].type = pmmap_list[old(i)].type
    <3> TAKE i \in 1 .. n - 1
    <3>1. CASE i = slot
      BY <3>1, <1>1, <1>2, <2>3, <2>8
    <3>2. CASE i # slot
      <4>1. old(i) \in 1 .. n /\ q[i] = pmmap_list[old(i)]
        BY <3>2, <1>1, <1>2, <2>4 DEF Removed
      <4> QED
        BY <3>2, <4>1, <2>8
    <3> QED
      BY <3>1, <3>2
  <2>10. \A i, j \in 1 .. n - 1 : i < j => old(i) < old(j)
    BY <1>1, <1>2
  <2>11. ListTypeOK'
    BY <1>2, <2>8 DEF ListInv, ListTypeOK
  <2>12. ListSorted'
    <3> SUFFICES ASSUME NEW i \in 1 .. n - 1, NEW j \in 1 .. n - 1, i < j
                 PROVE  L[i].start <= L[j].start
      BY <2>8 DEF ListSorted
    <3>1. /\ old(i) \in 1 .. n /\ old(j) \in 1 .. n /\ old(i) < old(j)
          /\ L[i].start = pmmap_list[old(i)].start /\ L[j].start = pmmap_list[old(j)].start
      BY <2>9, <2>10
    <3> HIDE DEF old, L
    <3> QED
      BY <3>1, <1>1 DEF ListInv, ListSorted
  <2>13. EntryFromRows'
    <3> SUFFICES ASSUME NEW i \in 1 .. n - 1
                 PROVE  /\ \E e \in ranges : e.type = L[i].type /\ e.start = L[i].start
                        /\ \E e \in ranges :
                              /\ e.type = L[i].type /\ e.end = L[i].end
                              /\ \A j \in 1 .. n - 1 : i < j => e.start <= L[j].start
                        /\ RangeAddrs(L[i]) \subseteq Covered(ranges, L[i].type)
      BY <1>2, <2>8 DEF EntryFromRows, Covered, RangeAddrs
    <3>1. \A k \in 1 .. n :
             /\ \E e \in ranges : e.type = pmmap_list[k].type /\ e.start = pmmap_list[k].start
             /\ \E e \in ranges :
                   /\ e.type = pmmap_list[k].type /\ e.end = pmmap_list[k].end
                   /\ \A j \in 1 .. n : k < j => e.start <= pmmap_list[j].start
             /\ RangeAddrs(pmmap_list[k]) \subseteq Covered(ranges, pmmap_list[k].type)
      BY <1>1 DEF ListInv, EntryFromRows
    <3>2. \E e \in ranges : e.type = L[i].type /\ e.start = L[i].start
      BY <2>9, <3>1
    <3>3. \A j \in 1 .. n - 1 : i < j => old(i) < old(j) /\ old(j) \in 1 .. n
                                         /\ L[j].start = pmmap_list[old(j)].start
      BY <2>9, <2>10
    <3>4. CASE i # slot
      <4>1. old(i) \in 1 .. n /\ L[i] = pmmap_list[old(i)]
        BY <3>4, <2>9
      <4> HIDE DEF L
      <4>2. PICK e \in ranges : /\ e.type = pmmap_list[old(i)].type /\ e.end = pmmap_list[old(i)].end
                                /\ \A j \in 1 .. n : old(i) < j => e.start <= pmmap_list[j].start
        BY <3>1, <4>1
      <4>3. \A j \in 1 .. n - 1 : i < j => e.start <= L[j].start
        <5> HIDE DEF old
        <5> QED
          BY <3>3, <4>2
      <4> QED
        BY <3>1, <3>2, <4>1, <4>2, <4>3
    <3>5. CASE i = slot
      <4>1. L[i] = m
        BY <3>5, <2>8
      <4>2. PICK e \in ranges : /\ e.type = a.type /\ e.end = m.end
                                /\ \A j \in 1 .. n : slot + 1 < j => e.start <= pmmap_list[j].start
        <5>1. \E e \in ranges : /\ e.type = a.type /\ e.end = a.end
                                /\ \A j \in 1 .. n : slot < j => e.start <= pmmap_list[j].start
          <6>1. slot \in 1 .. n
            BY <1>1, <1>2
          <6> QED
            BY <3>1, <6>1
        <5>2. \E e \in ranges : /\ e.type = b.type /\ e.end = b.end
                                /\ \A j \in 1 .. n : slot + 1 < j => e.start <= pmmap_list[j].start
          BY <3>1, <1>2
        <5>3. \A j \in 1 .. n : slot + 1 < j => slot < j
          BY <1>1, <1>2
        <5> HIDE DEF a, b
        <5> QED
          BY <5>1, <5>2, <5>3, <2>2, <2>3
      <4>3. \A j \in 1 .. n - 1 : i < j => e.start <= L[j].start
        <5>1. \A j \in 1 .. n - 1 : i < j => slot + 1 < old(j)
          BY <3>5, <1>1, <1>2
        <5> HIDE DEF old
        <5> QED
          BY <5>1, <3>3, <4>2
      <4>4. RangeAddrs(m) \subseteq RangeAddrs(a) \cup RangeAddrs(b)
        <5>1. a.start \in Nat /\ a.end \in Nat /\ b.start \in Nat /\ b.end \in Nat
          BY <2>1, RangeFields
        <5> HIDE DEF a, b
        <5> QED
          BY <5>1, <2>2, <2>3 DEF RangeAddrs
      <4>5. RangeAddrs(m) \subseteq Covered(ranges, a.type)
        <5>1. RangeAddrs(a) \subseteq Covered(ranges, a.type)
          BY <3>1, <1>2
        <5>2. RangeAddrs(b) \subseteq Covered(ranges, b.type)
          BY <3>1, <1>2
        <5> HIDE DEF a, b
        <5> QED
          BY <4>4, <5>1, <5>2, <2>2
      <4> HIDE DEF a, L
      <4> QED
        BY <3>2, <4>1, <4>2, <4>3, <4>5, <2>3
    <3> QED
      BY <3>4, <3>5
  <2>14. RowInEntry'
    <3> SUFFICES ASSUME NEW e \in ranges
                 PROVE  \E i \in 1 .. n - 1 : /\ L[i].type = e.type
                                              /\ L[i].start <= e.start /\ e.end <= L[i].end
      BY <1>2, <2>8 DEF RowInEntry
    <3>1. PICK k \in 1 .. n : /\ pmmap_list[k].type = e.type
                              /\ pmmap_list[k].start <= e.start /\ e.end <= pmmap_list[k].end
      BY <1>1 DEF ListInv, RowInEntry
    <3>2. e \in MapRange
      BY DEF ListInv, ListTypeOK
    <3>3. CASE k < slot
      <4>1. k \in 1 .. n - 1 /\ k # slot /\ old(k) = k
        BY <3>3, <1>1, <1>2
      <4> QED
        BY <4>1, <2>9, <3>1
    <3>4. CASE k = slot \/ k = slot + 1
      <4>1. m.type = e.type /\ m.start <= e.start /\ e.end <= m.end
        <5>1. /\ a.start \in Nat /\ a.end \in Nat /\ b.start \in Nat /\ b.end \in Nat
              /\ e.start \in Nat /\ e.end \in Nat
          BY <2>1, <3>2, RangeFields
        <5>2. \/ a.type = e.type /\ a.start <= e.start /\ e.end <= a.end
              \/ b.type = e.type /\ b.start <= e.start /\ e.end <= b.end
          BY <3>1, <3>4
        <5> HIDE DEF a, b
        <5> QED
          BY <5>1, <5>2, <2>2, <2>3
      <4> QED
        BY <4>1, <1>2, <2>8
    <3>5. CASE k > slot + 1
      <4>1. k - 1 \in 1 .. n - 1 /\ k - 1 # slot /\ old(k - 1) = k
        BY <3>5, <1>1, <1>2
      <4> QED
        BY <4>1, <2>9, <3>1
    <3> QED
      BY <3>3, <3>4, <3>5, <1>1, <1>2
  <2> QED
    BY <2>11, <2>12, <2>13, <2>14 DEF ListInv
<1> QED
  BY <1>3, <1>4

----------------------------------------------------------------------------
\* The table.

BlankTable == [p \in Pages |-> [perm |-> 0, allocated |-> 0]]

\* The table made so far, up to the page n.
TableUpTo(n) == [p \in Pages |-> [perm |-> IF p < n THEN PagePerm(p) ELSE 0, allocated |-> 0]]

\* Nothing has been filled in.
LEMMA TableUpToZero == TableUpTo(0) = BlankTable
<1>1. \A p \in Pages : ~(p < 0)
  BY ATAssumption DEF Pages
<1> QED
  BY <1>1 DEF TableUpTo, BlankTable

\* What a page gets depends on the list alone.
LEMMA PagePermStays ==
  ASSUME pmmap_list' = pmmap_list
  PROVE  \A p : PagePerm(p)' = PagePerm(p)
  BY DEF PagePerm, PageInRange

LEMMA PagePermFacts ==
  ASSUME NEW p
  PROVE  /\ PagePerm(p) \in 0 .. 2
         /\ PagePerm(p) = 1 <=> p \notin UserPages
  BY DEF PagePerm

\* TableFilled as it is before the table is filled in.
TableEarly ==
  /\ phase \in {"insert", "merge", "highest", "panic"}
  /\ slot \in Nat /\ (phase \in {"merge", "highest"} => slot > 0)
  /\ last_palloc_index = VM_USERLO_PI
  /\ phase \in {"insert", "merge", "panic"} => nps = 0
  /\ phase = "highest" =>
       nps \in 0 .. MAXADDR /\ \A i \in DOMAIN pmmap_list : i < slot => pmmap_list[i].end <= nps
  /\ AT = BlankTable

EarlyPhase == phase \notin {"table", "done"}

LEMMA TableFilledEarly == EarlyPhase => (TableFilled <=> TableEarly)
<1> SUFFICES ASSUME EarlyPhase PROVE TableFilled <=> TableEarly
  OBVIOUS
<1>1. Filled = 0
  BY DEF EarlyPhase, Filled
<1>2. AT = TableUpTo(Filled) <=> AT = BlankTable
  BY <1>1, TableUpToZero
<1> QED
  BY <1>2 DEF TableFilled, TableEarly, TableUpTo, EarlyPhase

LEMMA TableFilledEarlyNext == EarlyPhase' => (TableFilled' <=> TableEarly')
<1>1. EarlyPhase => (TableFilled <=> TableEarly)
  BY TableFilledEarly
<1> QED
  BY <1>1, PTL

\* TableFilled as it is while the table is filled in.
TableLate ==
  /\ phase \in {"table", "done"}
  /\ slot \in Nat
  /\ last_palloc_index = VM_USERLO_PI
  /\ NUM_PAGES = nps /\ nps \in 0 .. AT_SIZE - 1 /\ Filled <= nps
  /\ \A i \in DOMAIN pmmap_list : PagesBelow(pmmap_list[i].end) <= nps
  /\ AT = TableUpTo(Filled)

LEMMA TableFilledLate == ~EarlyPhase => (TableFilled <=> TableLate)
  BY DEF TableFilled, TableLate, EarlyPhase, TableUpTo

LEMMA TableFilledLateNext == ~EarlyPhase' => (TableFilled' <=> TableLate')
<1>1. ~EarlyPhase => (TableFilled <=> TableLate)
  BY TableFilledLate
<1> QED
  BY <1>1, PTL

\* SetPerm writes one page on.
LEMMA SetPermKeeps ==
  ASSUME SetPerm, TableFilled
  PROVE  TableFilled'
<1>1. /\ phase = "table" /\ slot < nps /\ phase' = "table" /\ slot' = slot + 1
      /\ pmmap_list' = pmmap_list /\ nps' = nps /\ NUM_PAGES' = NUM_PAGES
      /\ last_palloc_index' = last_palloc_index
      /\ AT' = [AT EXCEPT ![slot] = [perm |-> PagePerm(slot), allocated |-> 0]]
  BY DEF SetPerm, GoTo
<1>2. Filled = slot /\ Filled' = slot + 1 /\ slot \in Nat /\ nps \in 0 .. AT_SIZE - 1
      /\ slot + 1 <= nps /\ slot \in Pages
  BY <1>1, ATAssumption DEF Filled, TableFilled, Pages
<1>3. \A p : PagePerm(p)' = PagePerm(p)
  BY <1>1, PagePermStays
<1>4. AT = TableUpTo(slot)
  BY <1>2 DEF TableFilled, TableUpTo
<1>5. AT' = [p \in Pages |-> [perm |-> IF p < slot + 1 THEN PagePerm(p) ELSE 0, allocated |-> 0]]
  <2>1. \A p \in Pages : p < slot + 1 <=> p < slot \/ p = slot
    BY <1>2 DEF Pages
  <2> HIDE DEF TableFilled
  <2> QED
    BY <1>1, <1>2, <1>4, <2>1 DEF TableUpTo
<1>6. AT' = TableUpTo(Filled)'
  BY <1>2, <1>3, <1>5 DEF TableUpTo
<1>7. ~EarlyPhase /\ ~EarlyPhase' /\ TableLate
  BY <1>1, TableFilledLate DEF EarlyPhase
<1>8. TableLate'
  <2>1. \A i \in DOMAIN pmmap_list' : PagesBelow(pmmap_list[i].end)' <= nps'
    BY <1>1, <1>7 DEF TableLate, PagesBelow
  <2>2. phase' \in {"table", "done"} /\ slot' \in Nat /\ last_palloc_index' = VM_USERLO_PI
    BY <1>1, <1>2, <1>7 DEF TableLate
  <2>3. NUM_PAGES' = nps' /\ nps' \in 0 .. AT_SIZE - 1 /\ Filled' <= nps'
    BY <1>1, <1>2, <1>7 DEF TableLate
  <2> QED
    BY <1>6, <2>1, <2>2, <2>3 DEF TableLate
<1> QED
  BY <1>7, <1>8, TableFilledLateNext

\* The steps that leave the list and the table alone.
LEMMA ListStays ==
  ASSUME ListInv, pmmap_list' = pmmap_list, ranges' = ranges,
         phase' = "insert" => phase = "insert"
  PROVE  ListInv'
  BY DEF ListInv, ListTypeOK, ListSorted, EntryFromRows, RowInEntry, Covered, RangeAddrs

LEMMA FindHighestKeeps ==
  ASSUME ListInv, TableEarly, FindHighest
  PROVE  TableEarly'
<1>1. /\ phase = "highest" /\ slot <= Len(pmmap_list) /\ phase' = "highest" /\ slot' = slot + 1
      /\ nps' = HigherEnd(nps, pmmap_list[slot])
      /\ pmmap_list' = pmmap_list /\ AT' = AT /\ last_palloc_index' = last_palloc_index
  BY DEF FindHighest, GoTo, atVars
<1>2. /\ slot \in Nat /\ slot > 0 /\ nps \in 0 .. MAXADDR
      /\ \A i \in DOMAIN pmmap_list : i < slot => pmmap_list[i].end <= nps
  BY <1>1 DEF TableEarly
<1>3. /\ Len(pmmap_list) \in Nat /\ DOMAIN pmmap_list = 1 .. Len(pmmap_list)
      /\ \A i \in 1 .. Len(pmmap_list) : pmmap_list[i] \in MapRange
  BY ListFacts DEF ListInv
<1>4. slot \in DOMAIN pmmap_list /\ MAXADDR \in Nat
      /\ \A i \in DOMAIN pmmap_list : pmmap_list[i].end \in Nat /\ pmmap_list[i].end <= MAXADDR
  BY <1>1, <1>2, <1>3, PageNumbers, RangeFields
<1>5. nps' \in 0 .. MAXADDR /\ nps <= nps' /\ pmmap_list[slot].end <= nps'
  BY <1>1, <1>2, <1>4 DEF HigherEnd
<1>6. \A i \in DOMAIN pmmap_list : i < slot + 1 => pmmap_list[i].end <= nps'
  <2> SUFFICES ASSUME NEW i \in DOMAIN pmmap_list, i < slot + 1
               PROVE  pmmap_list[i].end <= nps'
    OBVIOUS
  <2>1. i < slot \/ i = slot
    BY <1>2, <1>3
  <2> QED
    BY <2>1, <1>2, <1>4, <1>5
<1>7. slot' \in Nat /\ slot' > 0
  BY <1>1, <1>2
<1>8. \A i \in DOMAIN pmmap_list' : i < slot' => pmmap_list[i].end' <= nps'
  BY <1>1, <1>6
<1> QED
  BY <1>1, <1>5, <1>7, <1>8 DEF TableEarly, BlankTable

LEMMA SetNpsKeeps ==
  ASSUME ListInv, TableEarly, SetNps
  PROVE  TableLate'
<1>1. /\ phase = "highest" /\ slot > Len(pmmap_list) /\ phase' = "table" /\ slot' = 0
      /\ nps' = PagesBelow(nps) /\ NUM_PAGES' = PagesBelow(nps)
      /\ pmmap_list' = pmmap_list /\ AT' = AT /\ last_palloc_index' = last_palloc_index
  BY DEF SetNps, GoTo
<1>2. /\ slot \in Nat /\ nps \in 0 .. MAXADDR /\ AT = BlankTable /\ last_palloc_index = VM_USERLO_PI
      /\ \A i \in DOMAIN pmmap_list : i < slot => pmmap_list[i].end <= nps
  BY <1>1 DEF TableEarly
<1>3. /\ Len(pmmap_list) \in Nat /\ DOMAIN pmmap_list = 1 .. Len(pmmap_list)
      /\ \A i \in 1 .. Len(pmmap_list) : pmmap_list[i] \in MapRange
  BY ListFacts DEF ListInv
<1>4. PagesBelow(nps) \in 0 .. AT_SIZE - 1
  BY <1>2, PageNumbers
<1>5. \A i \in DOMAIN pmmap_list : PagesBelow(pmmap_list[i].end) <= PagesBelow(nps)
  <2> TAKE i \in DOMAIN pmmap_list
  <2>1. pmmap_list[i].end \in Nat /\ pmmap_list[i].end <= nps
    BY <1>1, <1>2, <1>3, RangeFields
  <2> QED
    BY <2>1, <1>2, PageNumbers
<1>6. Filled' = 0
  BY <1>1 DEF Filled
<1>7. AT' = TableUpTo(Filled)'
  <2>1. \A p \in Pages : ~(p < 0)
    BY ATAssumption DEF Pages
  <2> QED
    BY <1>1, <1>2, <1>6, <2>1 DEF TableUpTo, BlankTable
<1>8. \A i \in DOMAIN pmmap_list' : PagesBelow(pmmap_list[i].end)' <= nps'
  BY <1>1, <1>5 DEF PagesBelow
<1>9. nps' \in 0 .. AT_SIZE - 1 /\ Filled' <= nps' /\ NUM_PAGES' = nps'
  BY <1>1, <1>4, <1>6, ATAssumption
<1> QED
  BY <1>1, <1>2, <1>7, <1>8, <1>9 DEF TableLate

----------------------------------------------------------------------------
(***************************************************************************)
(* The invariant holds at every point of pmmap_init and pmem_init.         *)
(***************************************************************************)
THEOREM MemMapInvariant == MMSpec => []MMInv
<1>1. MMInit => MMInv
  <2> SUFFICES ASSUME MMInit PROVE MMInv
    OBVIOUS
  <2>1. ListTypeOK /\ ListSorted /\ EntryFromRows /\ RowInEntry
    <3>1. pmmap_list = <<>> /\ ranges = {} /\ DOMAIN pmmap_list = {}
      BY DEF MMInit
    <3>2. Range(pmmap_list) = {}
      BY <3>1 DEF Range
    <3> QED
      BY <3>1, <3>2 DEF ListTypeOK, ListSorted, EntryFromRows, RowInEntry
  <2>2. EarlyPhase /\ TableEarly
    BY DEF MMInit, EarlyPhase, TableEarly, BlankTable
  <2> QED
    BY <2>1, <2>2, TableFilledEarly DEF MMInv
<1>2. MMInv /\ [MMNext]_mmVars => MMInv'
  <2> SUFFICES ASSUME MMInv, [MMNext]_mmVars PROVE MMInv'
    OBVIOUS
  <2>0. ListInv /\ TableFilled
    BY DEF MMInv, ListInv
  <2> SUFFICES ListInv' /\ TableFilled'
    BY DEF MMInv, ListInv
  <2>1. ASSUME NEW row \in E820, ReadRow(row) PROVE ListInv' /\ TableFilled'
    <3>1. phase = "insert" /\ slot' = slot /\ nps' = nps /\ AT' = AT
          /\ last_palloc_index' = last_palloc_index
      BY <2>1 DEF ReadRow, atVars
    <3>2. EarlyPhase /\ TableEarly
      BY <2>0, <3>1, TableFilledEarly DEF EarlyPhase
    <3>3. phase' = "insert" \/ phase' = "panic"
      BY <2>1, <3>1 DEF ReadRow
    <3>4. TableFilled'
      BY <3>1, <3>2, <3>3, TableFilledEarlyNext DEF EarlyPhase, TableEarly, BlankTable
    <3>5. CASE row.high \/ ~SlotLeft
      <4>1. pmmap_list' = pmmap_list /\ ranges' = ranges
        BY <2>1, <3>5 DEF ReadRow
      <4> QED
        BY <2>0, <3>1, <3>4, <4>1, ListStays
    <3>6. CASE ~row.high /\ SlotLeft
      <4> DEFINE e == RowEntry(row)
      <4>1. e \in MapRange
        BY RowEntryType
      <4>2. pmmap_insert(row.base, RangeEnd(row.base, row.length), row.type)
        BY <2>1, <3>6 DEF ReadRow
      <4>3. pmmap_list' = InsertAt(pmmap_list, InsertPosition(e.start) + 1, e)
            /\ ranges' = ranges \cup {e}
        BY <4>2 DEF pmmap_insert, RowEntry
      <4> HIDE DEF e
      <4> QED
        BY <2>0, <3>1, <3>4, <4>1, <4>3, InsertKeeps
    <3> QED
      BY <3>5, <3>6
  <2>2. CASE EndOfMap
    <3>1. /\ phase = "insert" /\ phase' = "merge" /\ slot' = 1 /\ nps' = nps /\ AT' = AT
          /\ last_palloc_index' = last_palloc_index /\ pmmap_list' = pmmap_list /\ ranges' = ranges
      BY <2>2 DEF EndOfMap, GoTo, atVars
    <3>2. EarlyPhase /\ EarlyPhase' /\ TableEarly
      BY <2>0, <3>1, TableFilledEarly DEF EarlyPhase
    <3>3. TableEarly'
      BY <3>1, <3>2 DEF TableEarly, BlankTable
    <3> QED
      BY <2>0, <3>1, <3>2, <3>3, ListStays, TableFilledEarlyNext
  <2>3. CASE MergeSlot
    <3>1. /\ phase = "merge" /\ phase' = "merge" /\ slot' = slot + 1 /\ nps' = nps /\ AT' = AT
          /\ last_palloc_index' = last_palloc_index
      BY <2>3 DEF MergeSlot, GoTo, atVars
    <3>2. EarlyPhase /\ EarlyPhase' /\ TableEarly
      BY <2>0, <3>1, TableFilledEarly DEF EarlyPhase
    <3>3. slot \in Nat /\ slot > 0
      BY <3>1, <3>2 DEF TableEarly
    <3>4. TableEarly'
      BY <3>1, <3>2, <3>3 DEF TableEarly, BlankTable
    <3> QED
      BY <2>0, <2>3, <3>2, <3>3, <3>4, MergeKeeps, TableFilledEarlyNext
  <2>4. CASE MergePanic
    <3>1. /\ phase = "merge" /\ phase' = "panic" /\ slot' = 0 /\ nps' = nps /\ AT' = AT
          /\ last_palloc_index' = last_palloc_index /\ pmmap_list' = pmmap_list /\ ranges' = ranges
      BY <2>4 DEF MergePanic, GoTo, atVars
    <3>2. EarlyPhase /\ EarlyPhase' /\ TableEarly
      BY <2>0, <3>1, TableFilledEarly DEF EarlyPhase
    <3>3. TableEarly'
      BY <3>1, <3>2 DEF TableEarly, BlankTable
    <3> QED
      BY <2>0, <3>1, <3>2, <3>3, ListStays, TableFilledEarlyNext
  <2>5. CASE MergeEnd
    <3>1. /\ phase = "merge" /\ phase' = "highest" /\ slot' = 1 /\ nps' = nps /\ AT' = AT
          /\ last_palloc_index' = last_palloc_index /\ pmmap_list' = pmmap_list /\ ranges' = ranges
      BY <2>5 DEF MergeEnd, GoTo, atVars
    <3>2. EarlyPhase /\ EarlyPhase' /\ TableEarly
      BY <2>0, <3>1, TableFilledEarly DEF EarlyPhase
    <3>3. nps' \in 0 .. MAXADDR
      BY <3>1, <3>2, PageNumbers DEF TableEarly
    <3>4. \A i \in DOMAIN pmmap_list' : ~(i < slot')
      BY <2>0, <3>1, ListFacts DEF ListInv
    <3>5. TableEarly'
      BY <3>1, <3>2, <3>3, <3>4 DEF TableEarly, BlankTable
    <3> QED
      BY <2>0, <3>1, <3>2, <3>5, ListStays, TableFilledEarlyNext
  <2>6. CASE FindHighest
    <3>1. phase = "highest" /\ phase' = "highest" /\ pmmap_list' = pmmap_list /\ ranges' = ranges
      BY <2>6 DEF FindHighest, GoTo
    <3>2. EarlyPhase /\ EarlyPhase' /\ TableEarly
      BY <2>0, <3>1, TableFilledEarly DEF EarlyPhase
    <3> QED
      BY <2>0, <2>6, <3>1, <3>2, FindHighestKeeps, ListStays, TableFilledEarlyNext
  <2>7. CASE SetNps
    <3>1. phase = "highest" /\ phase' = "table" /\ pmmap_list' = pmmap_list /\ ranges' = ranges
      BY <2>7 DEF SetNps, GoTo
    <3>2. EarlyPhase /\ ~EarlyPhase' /\ TableEarly
      BY <2>0, <3>1, TableFilledEarly DEF EarlyPhase
    <3> QED
      BY <2>0, <2>7, <3>1, <3>2, SetNpsKeeps, ListStays, TableFilledLateNext
  <2>8. CASE SetPerm
    <3>1. phase' = "table" /\ pmmap_list' = pmmap_list /\ ranges' = ranges
      BY <2>8 DEF SetPerm, GoTo
    <3> QED
      BY <2>0, <2>8, <3>1, SetPermKeeps, ListStays
  <2>9. CASE TableEnd
    <3>1. /\ phase = "table" /\ phase' = "done" /\ slot >= nps /\ slot' = 0 /\ nps' = nps /\ AT' = AT
          /\ last_palloc_index' = last_palloc_index /\ NUM_PAGES' = NUM_PAGES
          /\ pmmap_list' = pmmap_list /\ ranges' = ranges
      BY <2>9 DEF TableEnd, GoTo, atVars
    <3>2. ~EarlyPhase /\ ~EarlyPhase' /\ TableLate
      BY <2>0, <3>1, TableFilledLate DEF EarlyPhase
    <3>3. Filled = slot /\ slot \in Nat /\ nps \in Nat /\ slot <= nps
      BY <3>1, <3>2 DEF TableLate, Filled
    <3>4. Filled = nps /\ Filled' = nps
      BY <3>1, <3>3 DEF Filled
    <3>5. \A p : PagePerm(p)' = PagePerm(p)
      BY <3>1, PagePermStays
    <3>6. AT' = TableUpTo(Filled)'
      BY <3>1, <3>2, <3>4, <3>5 DEF TableLate, TableUpTo
    <3>7. \A i \in DOMAIN pmmap_list' : PagesBelow(pmmap_list[i].end)' <= nps'
      BY <3>1, <3>2 DEF TableLate, PagesBelow
    <3>8. Filled' <= nps' /\ NUM_PAGES' = nps' /\ nps' \in 0 .. AT_SIZE - 1
      BY <3>1, <3>2, <3>3, <3>4 DEF TableLate
    <3>9. TableLate'
      BY <3>1, <3>2, <3>6, <3>7, <3>8 DEF TableLate
    <3> QED
      BY <2>0, <3>1, <3>2, <3>9, ListStays, TableFilledLateNext
  <2>10. CASE UNCHANGED mmVars
    <3>1. /\ phase' = phase /\ slot' = slot /\ nps' = nps /\ AT' = AT
          /\ last_palloc_index' = last_palloc_index /\ NUM_PAGES' = NUM_PAGES
          /\ pmmap_list' = pmmap_list /\ ranges' = ranges
      BY <2>10 DEF mmVars, mapVars, atVars
    <3>2. \A p : PagePerm(p)' = PagePerm(p)
      BY <3>1, PagePermStays
    <3>3. Filled' = Filled
      BY <3>1 DEF Filled
    <3>4. TableFilled'
      BY <2>0, <3>1, <3>2, <3>3 DEF TableFilled, PagesBelow
    <3> QED
      BY <2>0, <3>1, <3>4, ListStays
  <2> QED
    BY <2>1, <2>2, <2>3, <2>4, <2>5, <2>6, <2>7, <2>8, <2>9, <2>10 DEF MMNext
<1> QED
  BY <1>1, <1>2, PTL DEF MMSpec

----------------------------------------------------------------------------
(***************************************************************************)
(* For every map the BIOS may report, of any number of rows in any order:  *)
(* sorting and merging the rows (pmmap_insert, pmmap_merge) loses no       *)
(* memory, adds none and retypes none.                                     *)
(***************************************************************************)
THEOREM MergingKeepsMemory == MMSpec => []CoverageKept
<1>1. MMInv => CoverageKept
  <2> SUFFICES ASSUME MMInv, NEW type
               PROVE  Covered(Range(pmmap_list), type) = Covered(ranges, type)
    BY DEF CoverageKept
  <2>1. DOMAIN pmmap_list = 1 .. Len(pmmap_list)
        /\ \A i \in DOMAIN pmmap_list : pmmap_list[i] \in MapRange /\ pmmap_list[i] \in Range(pmmap_list)
    BY ListFacts DEF MMInv, Range
  <2>2. ASSUME NEW x \in Covered(Range(pmmap_list), type) PROVE x \in Covered(ranges, type)
    <3>1. PICK e \in Range(pmmap_list) : e.type = type /\ x \in RangeAddrs(e)
      BY <2>2, CoveredMember
    <3>2. PICK i \in DOMAIN pmmap_list : e = pmmap_list[i]
      BY <3>1 DEF Range
    <3> QED
      BY <3>1, <3>2 DEF MMInv, EntryFromRows
  <2>3. ASSUME NEW x \in Covered(ranges, type) PROVE x \in Covered(Range(pmmap_list), type)
    <3>1. PICK e \in ranges : e.type = type /\ x \in RangeAddrs(e)
      BY <2>3, CoveredMember
    <3>2. PICK i \in DOMAIN pmmap_list : /\ pmmap_list[i].type = e.type
                                         /\ pmmap_list[i].start <= e.start /\ e.end <= pmmap_list[i].end
      BY DEF MMInv, RowInEntry
    <3>3. e \in MapRange
      BY DEF MMInv, ListTypeOK
    <3> DEFINE f == pmmap_list[i]
    <3>4. f \in Range(pmmap_list) /\ f.start \in Nat /\ f.end \in Nat /\ e.start \in Nat /\ e.end \in Nat
      BY <2>1, <3>3, RangeFields
    <3>5. x \in RangeAddrs(f)
      BY <3>1, <3>2, <3>4 DEF RangeAddrs
    <3> QED
      BY <3>1, <3>2, <3>4, <3>5, CoveredMember
  <2> QED
    BY <2>2, <2>3
<1> QED
  BY <1>1, MemMapInvariant, PTL

\* The addresses of a page are in a range exactly if the page falls into it.
LEMMA PageInRangeFacts ==
  ASSUME NEW p \in Nat, NEW e \in MapRange
  PROVE  PageAddrs(p) \subseteq RangeAddrs(e) <=> PageInRange(e, p)
<1> DEFINE lo == p * PAGESIZE
           hi == (p + 1) * PAGESIZE
<1>1. lo \in Nat /\ hi = lo + PAGESIZE /\ PAGESIZE \in Nat /\ PAGESIZE > 0
  BY PageNumbers
<1>2. e.start \in Nat /\ e.end \in Nat
  BY RangeFields
<1>3. PageAddrs(p) = lo .. hi - 1 /\ RangeAddrs(e) = e.start .. e.end - 1
      /\ (PageInRange(e, p) <=> e.start <= lo /\ hi <= e.end)
  BY DEF PageAddrs, RangeAddrs, PageInRange
<1> HIDE DEF lo, hi
<1>4. lo \in lo .. hi - 1 /\ hi - 1 \in lo .. hi - 1
  BY <1>1
<1> QED
  BY <1>1, <1>2, <1>3, <1>4

(***************************************************************************)
(* The entry that decides about a page is the first that contains it: no   *)
(* other one that does starts before.                                      *)
(***************************************************************************)
LEMMA FirstEntry ==
  ASSUME MMInv, NEW p, NEW i \in DOMAIN pmmap_list, PageInRange(pmmap_list[i], p)
  PROVE  \E j \in DOMAIN pmmap_list :
            /\ PageInRange(pmmap_list[j], p) /\ j <= i
            /\ pmmap_list[j].start <= pmmap_list[i].start
            /\ p \in UserPages => PagePerm(p) = IF pmmap_list[j].type = MEM_RAM THEN 2 ELSE 0
<1> DEFINE found == {k \in DOMAIN pmmap_list : PageInRange(pmmap_list[k], p)}
           j == Min(found)
<1>1. DOMAIN pmmap_list = 1 .. Len(pmmap_list) /\ Len(pmmap_list) \in Nat
      /\ \A k \in DOMAIN pmmap_list : pmmap_list[k].start \in Nat
  BY ListFacts, RangeFields DEF MMInv
<1>2. found \in SUBSET Nat /\ found # {} /\ i \in found
  BY <1>1
<1>3. j \in found /\ j <= i
  BY <1>2, MinFacts
<1>4. p \in UserPages => PagePerm(p) = IF pmmap_list[j].type = MEM_RAM THEN 2 ELSE 0
  BY <1>2 DEF PagePerm
<1> HIDE DEF j
<1>5. j \in DOMAIN pmmap_list /\ PageInRange(pmmap_list[j], p)
  BY <1>3
<1>6. pmmap_list[j].start <= pmmap_list[i].start
  <2>1. j = i \/ j < i
    BY <1>1, <1>3, <1>5
  <2> QED
    BY <1>1, <1>5, <2>1 DEF MMInv, ListSorted
<1> QED
  BY <1>3, <1>4, <1>5, <1>6

(***************************************************************************)
(* For every memory map, a page that pmem_init marks normal exists and is  *)
(* usable memory throughout; it lies in a row of another type as well only *)
(* if a usable row starts before that one.                                 *)
(***************************************************************************)
THEOREM NormalPagesUsable == MMSpec => []NormalIsUsable
<1>1. MMInv => NormalIsUsable
  <2> SUFFICES ASSUME MMInv, NEW p \in Pages, at_is_norm(AT, p)
               PROVE  /\ p < NUM_PAGES
                      /\ PageAddrs(p) \subseteq Covered(ranges, MEM_RAM)
                      /\ \A e \in ranges :
                            e.type # MEM_RAM /\ PageAddrs(p) \subseteq RangeAddrs(e)
                              => \E r \in ranges : r.type = MEM_RAM /\ r.start <= e.start
    BY DEF NormalIsUsable
  <2>1. p \in Nat
    BY ATAssumption DEF Pages
  <2>2. AT[p].perm = IF p < Filled THEN PagePerm(p) ELSE 0
    BY DEF MMInv, TableFilled
  <2>3. p < Filled /\ PagePerm(p) = 2
    BY <2>2, PagePermFacts DEF at_is_norm
  <2>4. p < NUM_PAGES
    <3>1. ~EarlyPhase
      BY <2>1, <2>3 DEF EarlyPhase, Filled
    <3>2. TableLate
      BY <3>1, TableFilledLate DEF MMInv
    <3>3. Filled \in Nat /\ NUM_PAGES \in Nat /\ Filled <= NUM_PAGES
      BY <3>2 DEF TableLate, Filled
    <3> QED
      BY <2>1, <2>3, <3>3
  <2>5. DOMAIN pmmap_list = 1 .. Len(pmmap_list)
        /\ \A i \in DOMAIN pmmap_list : pmmap_list[i] \in MapRange
    BY ListFacts DEF MMInv
  <2>6. p \in UserPages /\ \E k \in DOMAIN pmmap_list : PageInRange(pmmap_list[k], p)
    BY <2>3 DEF PagePerm
  <2>7. ASSUME NEW i \in DOMAIN pmmap_list, PageInRange(pmmap_list[i], p)
        PROVE  \E j \in DOMAIN pmmap_list :
                  /\ PageInRange(pmmap_list[j], p) /\ pmmap_list[j].type = MEM_RAM
                  /\ pmmap_list[j].start <= pmmap_list[i].start
    <3>1. PICK j \in DOMAIN pmmap_list :
            /\ PageInRange(pmmap_list[j], p) /\ j <= i
            /\ pmmap_list[j].start <= pmmap_list[i].start
            /\ p \in UserPages => PagePerm(p) = IF pmmap_list[j].type = MEM_RAM THEN 2 ELSE 0
      BY <2>7, FirstEntry
    <3>2. pmmap_list[j].type = MEM_RAM
      BY <3>1, <2>3, <2>6
    <3> QED
      BY <3>1, <3>2
  <2>8. PageAddrs(p) \subseteq Covered(ranges, MEM_RAM)
    <3>1. PICK j \in DOMAIN pmmap_list : PageInRange(pmmap_list[j], p) /\ pmmap_list[j].type = MEM_RAM
      BY <2>6, <2>7
    <3>2. PageAddrs(p) \subseteq RangeAddrs(pmmap_list[j])
      BY <2>1, <2>5, <3>1, PageInRangeFacts
    <3>3. RangeAddrs(pmmap_list[j]) \subseteq Covered(ranges, MEM_RAM)
      BY <3>1 DEF MMInv, EntryFromRows
    <3> QED
      BY <3>2, <3>3
  <2>9. ASSUME NEW e \in ranges, PageAddrs(p) \subseteq RangeAddrs(e)
        PROVE  \E r \in ranges : r.type = MEM_RAM /\ r.start <= e.start
    <3>1. e \in MapRange /\ PageInRange(e, p)
      BY <2>1, <2>9, PageInRangeFacts DEF MMInv, ListTypeOK
    <3>2. PICK i \in DOMAIN pmmap_list : /\ pmmap_list[i].type = e.type
                                         /\ pmmap_list[i].start <= e.start /\ e.end <= pmmap_list[i].end
      BY DEF MMInv, RowInEntry
    <3>3. /\ e.start \in Nat /\ e.end \in Nat
          /\ \A k \in DOMAIN pmmap_list : pmmap_list[k].start \in Nat /\ pmmap_list[k].end \in Nat
          /\ p * PAGESIZE \in Nat /\ (p + 1) * PAGESIZE \in Nat
      BY <2>1, <2>5, <3>1, RangeFields, PageNumbers
    <3>4. PageInRange(pmmap_list[i], p)
      <4> DEFINE lo == p * PAGESIZE
                 hi == (p + 1) * PAGESIZE
      <4>1. e.start <= lo /\ hi <= e.end /\ lo \in Nat /\ hi \in Nat
        BY <3>1, <3>3 DEF PageInRange
      <4> HIDE DEF lo, hi
      <4>2. pmmap_list[i].start <= lo /\ hi <= pmmap_list[i].end
        BY <4>1, <3>2, <3>3
      <4> QED
        BY <4>2 DEF PageInRange, lo, hi
    <3>5. PICK j \in DOMAIN pmmap_list :
             pmmap_list[j].type = MEM_RAM /\ pmmap_list[j].start <= pmmap_list[i].start
      BY <2>7, <3>4
    <3>6. PICK r \in ranges : r.type = pmmap_list[j].type /\ r.start = pmmap_list[j].start
      BY DEF MMInv, EntryFromRows
    <3> QED
      BY <3>2, <3>3, <3>5, <3>6
  <2> QED
    BY <2>4, <2>8, <2>9
<1> QED
  BY <1>1, MemMapInvariant, PTL

(***************************************************************************)
(* For every memory map, pmem_init gives up no page without reason: a user *)
(* page inside a usable row and inside no row of another type is normal    *)
(* when it has finished.                                                   *)
(***************************************************************************)
THEOREM UsablePagesNormal == MMSpec => []UsableIsNormal
<1>1. MMInv => UsableIsNormal
  <2> SUFFICES ASSUME MMInv, phase = "done", NEW p \in UserPages,
                      NEW e \in ranges, e.type = MEM_RAM, PageAddrs(p) \subseteq RangeAddrs(e),
                      \A x \in ranges : x.type # MEM_RAM => ~(PageAddrs(p) \subseteq RangeAddrs(x))
               PROVE  at_is_norm(AT, p)
    BY DEF UsableIsNormal
  <2>1. p \in Nat /\ p \in Pages
    BY ATAssumption DEF UserPages, Pages
  <2>2. ranges \subseteq MapRange /\ DOMAIN pmmap_list = 1 .. Len(pmmap_list)
        /\ \A i \in DOMAIN pmmap_list : pmmap_list[i] \in MapRange
    BY ListFacts DEF MMInv, ListTypeOK
  <2> DEFINE lo == p * PAGESIZE
             hi == (p + 1) * PAGESIZE
  <2>3. /\ e.start <= lo /\ hi <= e.end /\ lo \in Nat /\ hi \in Nat
        /\ \A x : PageInRange(x, p) <=> x.start <= lo /\ hi <= x.end
        /\ \A n \in Nat : hi <= n => p < PagesBelow(n)
    <3>1. PageInRange(e, p)
      BY <2>1, <2>2, PageInRangeFacts
    <3>2. \A n \in Nat : hi <= n => p < PagesBelow(n)
      BY <2>1, PageNumbers
    <3>3. lo \in Nat /\ hi \in Nat
      BY <2>1, PageNumbers
    <3> QED
      BY <3>1, <3>2, <3>3 DEF PageInRange
  <2> HIDE DEF lo, hi
  <2>4. /\ e.start \in Nat /\ e.end \in Nat
        /\ \A x \in ranges : x.start \in Nat /\ x.end \in Nat
        /\ \A k \in DOMAIN pmmap_list : pmmap_list[k].start \in Nat /\ pmmap_list[k].end \in Nat
    BY <2>2, RangeFields
  <2>5. PICK i \in DOMAIN pmmap_list : /\ pmmap_list[i].type = e.type
                                       /\ pmmap_list[i].start <= e.start /\ e.end <= pmmap_list[i].end
    BY DEF MMInv, RowInEntry
  <2>6. pmmap_list[i].start <= lo /\ hi <= pmmap_list[i].end /\ PageInRange(pmmap_list[i], p)
    BY <2>3, <2>4, <2>5
  <2>7. PICK j \in DOMAIN pmmap_list :
            /\ PageInRange(pmmap_list[j], p) /\ j <= i
            /\ pmmap_list[j].start <= pmmap_list[i].start
            /\ p \in UserPages => PagePerm(p) = IF pmmap_list[j].type = MEM_RAM THEN 2 ELSE 0
    BY <2>6, FirstEntry
  <2>8. pmmap_list[j].type = MEM_RAM
    <3> SUFFICES ASSUME pmmap_list[j].type # MEM_RAM PROVE FALSE
      OBVIOUS
    <3>1. PICK g \in ranges : /\ g.type = pmmap_list[j].type /\ g.end = pmmap_list[j].end
                              /\ \A k \in DOMAIN pmmap_list : j < k => g.start <= pmmap_list[k].start
      BY DEF MMInv, EntryFromRows
    <3>2. j < i
      BY <2>2, <2>5, <2>7
    <3>3. g.start <= lo /\ hi <= g.end
      BY <2>3, <2>4, <2>6, <2>7, <3>1, <3>2
    <3>4. PageAddrs(p) \subseteq RangeAddrs(g)
      BY <2>1, <2>2, <2>3, <3>3, PageInRangeFacts
    <3> QED
      BY <3>1, <3>4
  <2>9. TableLate
    BY TableFilledLate DEF MMInv, EarlyPhase
  <2>10. p < PagesBelow(pmmap_list[i].end) /\ PagesBelow(pmmap_list[i].end) <= nps /\ nps \in Nat
    BY <2>3, <2>4, <2>6, <2>9 DEF TableLate
  <2>11. PagesBelow(pmmap_list[i].end) \in Nat
    <3>1. pmmap_list[i].end \in 0 .. MAXADDR
      BY <2>2 DEF MapRange
    <3> QED
      BY <3>1, PageNumbers
  <2>12. p < Filled
    BY <2>1, <2>10, <2>11 DEF Filled
  <2>13. AT[p].perm = PagePerm(p)
    BY <2>1, <2>9, <2>12 DEF TableLate, TableUpTo
  <2> QED
    BY <2>7, <2>8, <2>13 DEF at_is_norm
<1> QED
  BY <1>1, MemMapInvariant, PTL

(***************************************************************************)
(* For every memory map, what pmem_init leaves behind is an initial state  *)
(* of the allocator: the premise of the theorems about MATOp and of all    *)
(* modules above it is what boot establishes.                              *)
(***************************************************************************)
THEOREM BootEstablishesTable == MMSpec => []LeavesBootTable
<1>1. MMInv => LeavesBootTable
  <2> SUFFICES ASSUME MMInv, phase = "done" PROVE ATInit
    BY DEF LeavesBootTable
  <2>1. TableLate
    BY TableFilledLate DEF MMInv, EarlyPhase
  <2>2. NUM_PAGES = nps /\ nps \in 0 .. AT_SIZE - 1 /\ AT = TableUpTo(nps)
        /\ last_palloc_index = VM_USERLO_PI
    BY <2>1 DEF TableLate, Filled
  <2> DEFINE normal == {p \in UserPages : p < nps /\ PagePerm(p) = 2}
  <2>3. \A p \in Pages : (IF p < nps THEN PagePerm(p) ELSE 0)
                           = (IF p \in normal THEN 2 ELSE IF p < nps /\ p \notin UserPages THEN 1 ELSE 0)
    <3> TAKE p \in Pages
    <3>1. PagePerm(p) \in {0, 1, 2} /\ (PagePerm(p) = 1 <=> p \notin UserPages)
      BY PagePermFacts
    <3> QED
      BY <3>1
  <2>4. AT = BootTable(nps, normal)
    <3> HIDE DEF normal
    <3> QED
      BY <2>2, <2>3 DEF TableUpTo, BootTable
  <2>5. normal \in SUBSET {p \in UserPages : p < NUM_PAGES}
    BY <2>2
  <2> HIDE DEF normal
  <2> QED
    BY <2>2, <2>4, <2>5 DEF ATInit
<1> QED
  BY <1>1, MemMapInvariant, PTL

----------------------------------------------------------------------------
\* PallocLoop.

USE ATAssumption

\* Distances on the ring are the numbers below its size, and tell pages apart.
LEMMA RingDistFacts ==
  ASSUME NEW l \in UserPages
  PROVE  /\ \A p \in UserPages : RingDist(l, p) \in 0 .. UserSize - 1
         /\ \A p, q \in UserPages : RingDist(l, p) = RingDist(l, q) => p = q
         /\ RingDist(l, l) = 0
BY DEF UserPages, UserSize, RingDist

\* The loop's increment and wrap moves one page further along the ring.
LEMMA NextIndexFacts ==
  ASSUME NEW l \in UserPages, NEW i \in UserPages
  PROVE  /\ NextIndex(i) \in UserPages
         /\ NextIndex(i) = l => RingDist(l, i) = UserSize - 1
         /\ NextIndex(i) # l => RingDist(l, NextIndex(i)) = RingDist(l, i) + 1
BY DEF UserPages, UserSize, RingDist, NextIndex

\* The pages before the next index are those before the index, and the index.
LEMMA NextArc ==
  ASSUME NEW l \in UserPages, NEW i \in UserPages
  PROVE  {p \in UserPages : RingDist(l, p) < RingDist(l, i)} \cup {i}
           = IF NextIndex(i) = l THEN UserPages
             ELSE {p \in UserPages : RingDist(l, p) < RingDist(l, NextIndex(i))}
<1>1. \A p \in UserPages : RingDist(l, p) \in Int
  BY RingDistFacts DEF UserSize
<1>2. \A p \in UserPages : RingDist(l, p) <= RingDist(l, i)
                             <=> RingDist(l, p) < RingDist(l, i) \/ p = i
  BY <1>1, RingDistFacts
<1>3. CASE NextIndex(i) = l
  <2>1. \A p \in UserPages : RingDist(l, p) <= RingDist(l, i)
    BY <1>3, RingDistFacts, NextIndexFacts DEF UserSize
  <2> QED
    BY <1>2, <1>3, <2>1
<1>4. CASE NextIndex(i) # l
  <2>1. RingDist(l, NextIndex(i)) = RingDist(l, i) + 1
    BY <1>4, NextIndexFacts
  <2>2. \A p \in UserPages : RingDist(l, p) < RingDist(l, NextIndex(i))
                               <=> RingDist(l, p) <= RingDist(l, i)
    BY <1>1, <2>1
  <2> QED
    BY <1>2, <1>4, <2>2
<1> QED
  BY <1>3, <1>4

\* One round of the loop widens the scanned part of the ring by one page.
LEMMA ScannedGrows ==
  ASSUME PLTypeOK, StartInv, ScanStep
  PROVE  Scanned' = Scanned \cup {palloc_index}
<1>1. /\ palloc_index \in UserPages /\ last_palloc_index \in UserPages
      /\ first' = FALSE /\ last_palloc_index' = last_palloc_index
      /\ palloc_index' = NextIndex(palloc_index)
      /\ IF first THEN palloc_index = last_palloc_index
                  ELSE palloc_index # last_palloc_index
  BY DEF PLTypeOK, ATTypeOK, ScanStep, atVars, LoopCondition, StartInv
<1>2. Scanned = {p \in UserPages : RingDist(last_palloc_index, p)
                                     < RingDist(last_palloc_index, palloc_index)}
  <2>1. CASE first
    BY <2>1, <1>1, RingDistFacts DEF Scanned, UserSize
  <2>2. CASE ~first
    BY <2>2, <1>1 DEF Scanned
  <2> QED
    BY <2>1, <2>2 DEF PLTypeOK
<1>3. Scanned' = IF NextIndex(palloc_index) = last_palloc_index THEN UserPages
                 ELSE {p \in UserPages : RingDist(last_palloc_index, p)
                          < RingDist(last_palloc_index, NextIndex(palloc_index))}
  BY <1>1 DEF Scanned
<1> QED
  BY <1>1, <1>2, <1>3, NextArc

\* No free page carries the number that stands for "none found".
LEMMA NpsNotFree == ATInv => SentinelNotFree
BY DEF ATInv, NormalExists, SentinelNotFree, FreePages, UserPages, Pages, ATTypeOK

\* When the loop ends, its result is the one MATOp describes.
LEMMA ReturnIsPalloc == ASSUME PLInv, Return PROVE palloc(palloc_free_index')
<1>1. /\ last_palloc_index \in UserPages /\ palloc_index \in UserPages
      /\ NUM_PAGES \notin FreePages(AT) /\ FreePages(AT) \subseteq UserPages
  BY NpsNotFree DEF PLInv, PLTypeOK, ATTypeOK, SentinelNotFree, FreePages
<1>2. ~LoopCondition /\ ScanInv /\ pc = "exit"
  BY DEF PLInv, ExitInv, Return
<1>3. CASE palloc_free_index = NUM_PAGES
  <2>1. ~first /\ palloc_index = last_palloc_index
    BY <1>2, <1>3 DEF LoopCondition, get_nps
  <2>2. FreePages(AT) = {}
    BY <1>1, <1>2, <1>3, <2>1 DEF ScanInv, Scanned
  <2> QED
    BY <1>3, <2>2 DEF Return, palloc, PallocReturns, get_nps
<1>4. CASE palloc_free_index # NUM_PAGES
  <2>1. Scanned \cap FreePages(AT) = {palloc_free_index}
    BY <1>2, <1>4 DEF ScanInv
  <2>2. \A p \in FreePages(AT) :
          RingDist(last_palloc_index, palloc_free_index) <= RingDist(last_palloc_index, p)
    <3> TAKE p \in FreePages(AT)
    <3>1. palloc_free_index \in Scanned /\ palloc_free_index \in UserPages /\ p \in UserPages
      BY <1>1, <2>1
    <3>2. CASE p \in Scanned
      BY <2>1, <1>1, <3>1, <3>2, RingDistFacts DEF UserSize
    <3>3. CASE p \notin Scanned
      <4>1. RingDist(last_palloc_index, palloc_free_index)
              < RingDist(last_palloc_index, palloc_index)
        BY <3>1, <3>3 DEF Scanned
      <4>2. ~(RingDist(last_palloc_index, p) < RingDist(last_palloc_index, palloc_index))
        BY <3>1, <3>3 DEF Scanned
      <4>3. /\ RingDist(last_palloc_index, p) \in Int
            /\ RingDist(last_palloc_index, palloc_index) \in Int
            /\ RingDist(last_palloc_index, palloc_free_index) \in Int
        BY <1>1, <3>1, RingDistFacts DEF UserSize
      <4> QED
        BY <4>1, <4>2, <4>3
    <3> QED
      BY <3>2, <3>3
  <2>3. palloc_free_index # 0 /\ palloc_free_index \in FreePages(AT)
    BY <1>1, <2>1 DEF UserPages
  <2> QED
    BY <1>4, <2>2, <2>3 DEF Return, palloc, PallocReturns, get_nps
<1> QED
  BY <1>3, <1>4

\* The invariant of the loop is inductive.
LEMMA PLInvStep == PLInv /\ [PLNext]_plVars => PLInv'
<1> SUFFICES ASSUME PLInv, [PLNext]_plVars PROVE PLInv'
  OBVIOUS
<1> USE DEF PLInv
<1>1. CASE BeginScan
  <2>1. ATInv'
    BY <1>1 DEF BeginScan, atVars, ATInv, ATTypeOK, OnlyNormalAllocated,
                NormalExists, at_is_norm, at_is_allocated
  <2>2. PLTypeOK' /\ StartInv' /\ ExitInv'
    BY <1>1, <2>1 DEF BeginScan, atVars, PLTypeOK, ATInv, ATTypeOK, StartInv, ExitInv, get_nps
  <2>3. Scanned' = {}
    BY <1>1 DEF BeginScan, Scanned
  <2>4. ScanInv'
    BY <1>1, <2>3 DEF BeginScan, atVars, ScanInv, get_nps
  <2> QED
    BY <2>1, <2>2, <2>4
<1>2. CASE ScanStep
  <2>1. ATInv'
    BY <1>2 DEF ScanStep, atVars, ATInv, ATTypeOK, OnlyNormalAllocated,
                NormalExists, at_is_norm, at_is_allocated
  <2>2. palloc_index \in UserPages /\ palloc_index' \in UserPages
    BY <1>2, NextIndexFacts DEF PLTypeOK, ScanStep
  <2>3. PLTypeOK' /\ StartInv' /\ ExitInv'
    BY <1>2, <2>1, <2>2 DEF ScanStep, atVars, PLTypeOK, ATInv, StartInv, ExitInv
  <2>4. Scanned' = Scanned \cup {palloc_index}
    BY <1>2, ScannedGrows
  <2>5. Scanned \cap FreePages(AT) = {}
    BY <1>2 DEF ScanStep, LoopCondition, ScanInv, get_nps
  <2>6. FreePages(AT)' = FreePages(AT) /\ NUM_PAGES' = NUM_PAGES /\ pc' = "scan"
    BY <1>2 DEF ScanStep, atVars, FreePages, at_is_norm, at_is_allocated
  <2>7. palloc_free_index' = IF palloc_index \in FreePages(AT) THEN palloc_index ELSE NUM_PAGES
    BY <1>2, <2>2 DEF ScanStep, FreePages, LoopCondition, get_nps
  <2>8. ScanInv'
    BY <2>4, <2>5, <2>6, <2>7, NpsNotFree DEF ScanInv, SentinelNotFree
  <2> QED
    BY <2>1, <2>3, <2>8
<1>3. CASE ScanEnd
  BY <1>3 DEF ScanEnd, atVars, ATInv, ATTypeOK, OnlyNormalAllocated, NormalExists,
              at_is_norm, at_is_allocated, PLTypeOK, ScanInv, Scanned, FreePages,
              StartInv, ExitInv, LoopCondition, get_nps
<1>4. CASE Return
  <2>1. palloc(palloc_free_index')
    BY <1>4, ReturnIsPalloc
  <2>2. ATInv'
    BY <2>1, PallocInv
  <2> QED
    BY <1>4, <2>2 DEF Return, PLTypeOK, ATInv, ScanInv, StartInv, ExitInv, ATTypeOK
<1>5. CASE Free
  BY <1>5, PfreeInv DEF Free, loopVars, ATInv, PLTypeOK, pfree, ScanInv, StartInv, ExitInv
<1>6. CASE UNCHANGED plVars
  BY <1>6 DEF plVars, loopVars, atVars, ATInv, ATTypeOK, OnlyNormalAllocated, NormalExists,
              at_is_norm, at_is_allocated, PLTypeOK, ScanInv, Scanned, FreePages,
              StartInv, ExitInv, LoopCondition, get_nps
<1> QED
  BY <1>1, <1>2, <1>3, <1>4, <1>5, <1>6 DEF PLNext

(***************************************************************************)
(* The loop invariant holds throughout: what palloc has scanned holds no   *)
(* free page but the one it found.                                         *)
(***************************************************************************)
THEOREM PallocLoopInv == PLSpec => []PLInv
<1>1. PLInit => PLInv
  <2> SUFFICES ASSUME PLInit PROVE PLInv
    OBVIOUS
  <2>1. ATInv
    BY BootTableInv DEF PLInit
  <2>2. last_palloc_index \in UserPages /\ VM_USERLO_PI \in UserPages
    BY <2>1 DEF ATInv, ATTypeOK, UserPages
  <2> QED
    BY <2>1, <2>2 DEF PLInit, PLInv, PLTypeOK, ATInv, ScanInv, StartInv, ExitInv, get_nps
<1> QED
  BY <1>1, PLInvStep, PTL DEF PLSpec

(***************************************************************************)
(* The sentinel nps that the loop keeps in palloc_free_index is never the  *)
(* number of a free page.                                                  *)
(***************************************************************************)
THEOREM SentinelSafe == PLSpec => []SentinelNotFree
<1>1. PLInv => SentinelNotFree
  BY NpsNotFree DEF PLInv
<1> QED
  BY <1>1, PallocLoopInv, PTL

(***************************************************************************)
(* The loop of palloc implements the one-step palloc of MATOp: next fit,   *)
(* failure only when no page is free, and no change to AT on the way.      *)
(***************************************************************************)
THEOREM PallocRefines == PLSpec => ATSpec
<1>1. PLInit => ATInit
  BY DEF PLInit
<1>2. PLInv /\ [PLNext]_plVars => [ATNext]_atVars
  <2> SUFFICES ASSUME PLInv, PLNext PROVE [ATNext]_atVars
    BY DEF plVars
  <2>1. CASE BeginScan \/ ScanStep \/ ScanEnd
    BY <2>1 DEF BeginScan, ScanStep, ScanEnd
  <2>2. CASE Return
    <3>1. palloc(palloc_free_index')
      BY <2>2, ReturnIsPalloc
    <3>2. palloc_free_index' \in Pages
      BY <3>1 DEF palloc, PallocReturns, FreePages, UserPages, Pages
    <3> QED
      BY <3>1, <3>2 DEF ATNext
  <2>3. CASE Free
    BY <2>3 DEF Free, ATNext
  <2> QED
    BY <2>1, <2>2, <2>3 DEF PLNext
<1> QED
  BY <1>1, <1>2, PallocLoopInv, PTL DEF PLSpec, ATSpec

=============================================================================
