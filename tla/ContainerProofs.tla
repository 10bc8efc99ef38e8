--------------------------- MODULE ContainerProofs ---------------------------
(***************************************************************************)
(* MATOp and MContainer: an allocated page is always normal memory of the  *)
(* machine, and the accounting of the container tree is exact, for every   *)
(* number of pages, containers and children.                               *)
(***************************************************************************)
EXTENDS MContainer, FiniteSetTheorems, TLAPS

USE ATAssumption

----------------------------------------------------------------------------
\* The table pmem_init leaves behind satisfies the invariant of the allocator.
LEMMA BootTableInv == ATInit => ATInv
<1> SUFFICES ASSUME ATInit PROVE ATInv
  OBVIOUS
<1>1. PICK normal \in SUBSET {p \in UserPages : p < NUM_PAGES} :
         AT = BootTable(NUM_PAGES, normal)
  BY DEF ATInit
<1>2. ATTypeOK
  BY <1>1 DEF ATInit, BootTable, ATTypeOK, ATStruct, Pages, UserPages
<1>3. OnlyNormalAllocated
  BY <1>1 DEF BootTable, OnlyNormalAllocated, at_is_allocated, Pages
<1>4. NormalExists
  BY <1>1 DEF BootTable, NormalExists, at_is_norm, Pages, UserPages
<1> QED
  BY <1>2, <1>3, <1>4 DEF ATInv

\* palloc keeps the invariant of the allocator: the page it marks was free.
LEMMA PallocInv == ASSUME ATInv, NEW r, palloc(r) PROVE ATInv'
<1>1. CASE r = 0
  BY <1>1 DEF palloc, ATInv, ATTypeOK, OnlyNormalAllocated, NormalExists,
              at_is_norm, at_is_allocated, UserPages
<1>2. CASE r # 0
  <2>1. r \in FreePages(AT)
    BY <1>2 DEF palloc, PallocReturns
  <2>2. r \in UserPages /\ r \in Pages /\ at_is_norm(AT, r)
    BY <2>1 DEF FreePages, UserPages, Pages
  <2>3. AT' = [AT EXCEPT ![r].allocated = 1] /\ last_palloc_index' = r
        /\ NUM_PAGES' = NUM_PAGES
    BY <1>2 DEF palloc, at_set_allocated
  <2>4. ATTypeOK'
    BY <2>2, <2>3 DEF ATInv, ATTypeOK, ATStruct
  <2>5. \A p \in Pages : AT'[p].perm = AT[p].perm
                         /\ (p # r => AT'[p].allocated = AT[p].allocated)
    BY <2>3 DEF ATInv, ATTypeOK, ATStruct
  <2>6. OnlyNormalAllocated' /\ NormalExists'
    BY <2>2, <2>3, <2>5 DEF ATInv, OnlyNormalAllocated, NormalExists,
                            at_is_norm, at_is_allocated
  <2> QED
    BY <2>4, <2>6 DEF ATInv
<1> QED
  BY <1>1, <1>2

LEMMA PfreeInv == ASSUME ATInv, NEW p \in Pages, pfree(p) PROVE ATInv'
<1>1. AT' = [AT EXCEPT ![p].allocated = 0] /\ UNCHANGED <<NUM_PAGES, last_palloc_index>>
  BY DEF pfree, at_set_allocated
<1>2. ATTypeOK'
  BY <1>1 DEF ATInv, ATTypeOK, ATStruct
<1>3. \A q \in Pages : AT'[q].perm = AT[q].perm /\ (AT'[q].allocated > 0 => AT[q].allocated > 0)
  BY <1>1 DEF ATInv, ATTypeOK, ATStruct
<1>4. OnlyNormalAllocated' /\ NormalExists'
  BY <1>1, <1>3 DEF ATInv, OnlyNormalAllocated, NormalExists, at_is_norm, at_is_allocated
<1> QED
  BY <1>2, <1>4 DEF ATInv

(***************************************************************************)
(* For every table size and every user range, no sequence of palloc and    *)
(* pfree allocates a page that is not normal memory of the machine.        *)
(***************************************************************************)
THEOREM ATSafe == ATSpec => [](ATTypeOK /\ OnlyNormalAllocated)
<1>1. ATInit => ATInv
  BY BootTableInv
<1>2. ATInv /\ [ATNext]_atVars => ATInv'
  <2> SUFFICES ASSUME ATInv, [ATNext]_atVars PROVE ATInv'
    OBVIOUS
  <2>1. CASE \E r \in Pages : palloc(r)
    BY <2>1, PallocInv
  <2>2. CASE \E p \in Pages : at_is_allocated(AT, p) /\ pfree(p)
    BY <2>2, PfreeInv
  <2>3. CASE UNCHANGED atVars
    BY <2>3 DEF atVars, ATInv, ATTypeOK, OnlyNormalAllocated, NormalExists,
                at_is_norm, at_is_allocated
  <2> QED
    BY <2>1, <2>2, <2>3 DEF ATNext
<1>3. ATInv => ATTypeOK /\ OnlyNormalAllocated
  BY DEF ATInv
<1> QED
  BY <1>1, <1>2, <1>3, PTL DEF ATSpec

USE ATAssumption, ContainerAssumption

----------------------------------------------------------------------------
\* Facts about the sets that are counted.

LEMMA FiniteSetsCounted ==
    /\ IsFiniteSet(Pages) /\ Cardinality(Pages) = AT_SIZE
    /\ IsFiniteSet(Vouchers)
    /\ IsFiniteSet(FreePages(AT)) /\ Cardinality(FreePages(AT)) \in Nat
    /\ IsFiniteSet(Unspent) /\ Cardinality(Unspent) \in Nat
    /\ \A c \in ID : IsFiniteSet(Owned(c)) /\ Cardinality(Owned(c)) \in Nat
    /\ \A c \in ID : IsFiniteSet(Delegated(c)) /\ Cardinality(Delegated(c)) \in Nat
<1>1. IsFiniteSet(Pages) /\ Cardinality(Pages) = AT_SIZE
  BY FS_Interval DEF Pages
<1>2. IsFiniteSet(ID) /\ IsFiniteSet(1 .. AT_SIZE)
  BY FS_Interval DEF ID
<1>3. IsFiniteSet(Vouchers)
  BY <1>2, FS_Product DEF Vouchers
<1>4. FreePages(AT) \subseteq Pages /\ \A c \in ID : Owned(c) \subseteq Pages
  BY DEF FreePages, UserPages, Pages, Owned
<1>5. Unspent \subseteq Vouchers /\ \A c \in ID : Delegated(c) \subseteq Vouchers
  BY DEF Unspent, Delegated
<1> QED
  BY <1>1, <1>3, <1>4, <1>5, FS_Subset, FS_CardinalityType

\* The vouchers lo + 1 to hi of container c; they number hi - lo.
Row(c, lo, hi) == {c} \X (lo + 1 .. hi)

LEMMA CountRow ==
  \A c : \A lo, hi \in Nat : lo <= hi =>
     IsFiniteSet(Row(c, lo, hi)) /\ Cardinality(Row(c, lo, hi)) = hi - lo
<1> SUFFICES ASSUME NEW c, NEW lo \in Nat, NEW hi \in Nat, lo <= hi
             PROVE  IsFiniteSet(Row(c, lo, hi)) /\ Cardinality(Row(c, lo, hi)) = hi - lo
  OBVIOUS
<1>1. IsFiniteSet({c}) /\ Cardinality({c}) = 1
  BY FS_Singleton
<1>2. IsFiniteSet(lo + 1 .. hi) /\ Cardinality(lo + 1 .. hi) = hi - lo
  <2>1. \A a, b \in Int : IsFiniteSet(a .. b)
                          /\ Cardinality(a .. b) = IF a > b THEN 0 ELSE b - a + 1
    BY FS_Interval
  <2>2. lo + 1 \in Int /\ hi \in Int
    OBVIOUS
  <2>3. IsFiniteSet(lo + 1 .. hi)
        /\ Cardinality(lo + 1 .. hi) = IF lo + 1 > hi THEN 0 ELSE hi - (lo + 1) + 1
    BY <2>1, <2>2
  <2> QED
    BY <2>3
<1> DEFINE row == lo + 1 .. hi
           one == {c}
<1>3. IsFiniteSet(one) /\ IsFiniteSet(row)
  BY <1>1, <1>2
<1> HIDE DEF row, one
<1>4. IsFiniteSet(one \X row) /\ Cardinality(one \X row) = Cardinality(one) * Cardinality(row)
  BY <1>3, FS_Product
<1>5. Row(c, lo, hi) = one \X row
  BY DEF Row, row, one
<1>6. Cardinality(one) = 1 /\ Cardinality(row) = hi - lo
  BY <1>1, <1>2 DEF row, one
<1> QED
  BY <1>4, <1>5, <1>6

\* Different children of different containers have different indices.
LEMMA ChildIndexInjective ==
  ASSUME NEW c \in ID, NEW d \in ID,
         NEW k \in 0 .. MAX_CHILDREN - 1, NEW n \in 0 .. MAX_CHILDREN - 1,
         ChildIndex(c, k) = ChildIndex(d, n)
  PROVE  c = d /\ k = n
<1>1. c \in Nat /\ d \in Nat /\ c * MAX_CHILDREN + k = d * MAX_CHILDREN + n
  BY DEF ChildIndex, ID
<1>2. ASSUME NEW x \in Nat, NEW y \in Nat, x < y
      PROVE  x * MAX_CHILDREN + MAX_CHILDREN <= y * MAX_CHILDREN
  <2>1. (x + 1) * MAX_CHILDREN <= y * MAX_CHILDREN
    BY <1>2
  <2> QED
    BY <2>1
<1>3. ~(c < d) /\ ~(d < c)
  BY <1>1, <1>2
<1> QED
  BY <1>1, <1>3

\* A child comes after its parent.
LEMMA ChildAfterParent ==
  ASSUME NEW c \in ID, NEW k \in Nat
  PROVE  ChildIndex(c, k) \in Nat /\ ChildIndex(c, k) > c
<1>1. c \in Nat /\ c * MAX_CHILDREN >= c /\ c * MAX_CHILDREN \in Nat
  BY DEF ID
<1> QED
  BY <1>1 DEF ChildIndex

----------------------------------------------------------------------------
\* Boot.

LEMMA ContainerInit == CInit => CInv
<1> SUFFICES ASSUME CInit PROVE CInv
  OBVIOUS
<1>1. ATInv
  BY BootTableInv DEF CInit
<1>2. PICK normal : AT = BootTable(NUM_PAGES, normal)
  BY DEF CInit, ATInit
<1>3. \A p \in Pages : ~at_is_allocated(AT, p)
  BY <1>2 DEF BootTable, at_is_allocated
<1> DEFINE q == RealQuota(AT, NUM_PAGES)
<1>4. q = Cardinality(FreePages(AT)) /\ q \in 0 .. AT_SIZE
  <2>1. {p \in 0 .. NUM_PAGES - 1 : at_is_norm(AT, p) /\ ~at_is_allocated(AT, p)} = FreePages(AT)
    BY <1>1 DEF ATInv, ATTypeOK, NormalExists, FreePages, UserPages, Pages
  <2>2. FreePages(AT) \subseteq Pages
    BY DEF FreePages, UserPages, Pages
  <2>3. Cardinality(FreePages(AT)) <= AT_SIZE
    BY <2>2, FiniteSetsCounted, FS_Subset
  <2> QED
    BY <2>1, <2>3, FiniteSetsCounted DEF RealQuota
<1> HIDE DEF q
<1>5. /\ CONTAINER \in [ID -> SContainer]
      /\ CONTAINER[0] = [quota |-> q, usage |-> 0, parent |-> 0, nchildren |-> 0, used |-> 1]
      /\ \A c \in ID \ {0} : CONTAINER[c] = Unused
  <2>1. 0 \in ID /\ Unused \in SContainer /\ NewRecord(0, q) \in SContainer
    BY <1>4 DEF Unused, NewRecord, SContainer, ID
  <2>2. CONTAINER = [c \in ID |-> IF c = 0 THEN NewRecord(0, q) ELSE Unused]
    BY DEF CInit, get_nps, q
  <2> QED
    BY <2>1, <2>2 DEF NewRecord
<1>6. owner = [p \in Pages |-> NoID] /\ 0 \in ID
  BY DEF CInit, ID
<1>7. CTypeOK /\ OwnerIsAllocation /\ TreeShape /\ WithinQuota
  <2>1. CTypeOK
    BY <1>1, <1>5, <1>6 DEF CTypeOK, ATInv
  <2>2. OwnerIsAllocation
    BY <1>3, <1>6 DEF OwnerIsAllocation
  <2>3. TreeShape
    BY <1>5, <1>6 DEF TreeShape, InUse, Unused
  <2>4. WithinQuota
    BY <1>4, <1>5, <1>6 DEF WithinQuota, Unused
  <2> QED
    BY <2>1, <2>2, <2>3, <2>4
<1>8. QuotaConserved
  <2>1. ASSUME NEW w \in Vouchers
        PROVE  w \in Unspent <=> w[1] = 0 /\ w[2] \in 1 .. q
    <3>1. w[1] \in ID /\ w[2] \in 1 .. AT_SIZE
      BY <2>1 DEF Vouchers
    <3>2. CASE w[1] = 0
      BY <3>1, <3>2, <1>4, <1>5 DEF Unspent
    <3>3. CASE w[1] # 0
      BY <3>1, <3>3, <1>5 DEF Unspent, Unused
    <3> QED
      BY <3>2, <3>3
  <2>2. Row(0, 0, q) = {w \in Vouchers : w[1] = 0 /\ w[2] \in 1 .. q}
    BY <1>4, <1>6 DEF Vouchers, Row
  <2>3. Unspent \subseteq Vouchers
    BY DEF Unspent
  <2>4. Unspent = Row(0, 0, q)
    BY <2>1, <2>2, <2>3
  <2>6. Cardinality(Unspent) = q
    BY <2>4, <1>4, CountRow
  <2> QED
    BY <2>6, <1>4 DEF QuotaConserved
<1>9. UsageAccounted
  <2> SUFFICES ASSUME NEW c \in ID
               PROVE  CONTAINER[c].usage = Cardinality(Owned(c)) + Cardinality(Delegated(c))
    BY DEF UsageAccounted
  <2>1. Owned(c) = {}
    BY <1>6 DEF Owned, NoID, ID
  <2>2. Delegated(c) = {}
    BY <1>5 DEF Delegated, ChildrenOf, InUse, Unused
  <2>3. CONTAINER[c].usage = 0
    BY <1>5 DEF Unused
  <2> QED
    BY <2>1, <2>2, <2>3, FS_EmptySet
<1> QED
  BY <1>1, <1>7, <1>8, <1>9 DEF CInv

----------------------------------------------------------------------------
\* Types of the fields, in the form in which the steps below use them.
LEMMA FieldTypes ==
  ASSUME CInv, NEW c \in ID
  PROVE  /\ CONTAINER[c].quota \in 0 .. AT_SIZE
         /\ CONTAINER[c].usage \in Nat /\ CONTAINER[c].usage <= CONTAINER[c].quota
         /\ CONTAINER[c].parent \in ID
         /\ CONTAINER[c].nchildren \in Nat /\ CONTAINER[c].used \in 0 .. 1
BY DEF CInv, CTypeOK, SContainer, WithinQuota

\* A container that may consume n pages has n vouchers left: no wrap occurs.
LEMMA CanConsume ==
  ASSUME CInv, NEW c \in ID, NEW n \in Nat
  PROVE  container_can_consume(c, n) <=> CONTAINER[c].usage + n <= CONTAINER[c].quota
<1>1. CONTAINER[c].quota \in Nat /\ CONTAINER[c].usage \in Nat
      /\ CONTAINER[c].usage <= CONTAINER[c].quota
  BY FieldTypes
<1>2. ToUnsigned(CONTAINER[c].quota - CONTAINER[c].usage) = CONTAINER[c].quota - CONTAINER[c].usage
  BY <1>1 DEF ToUnsigned
<1> QED
  BY <1>1, <1>2 DEF container_can_consume

\* What does not look at usage is the same after a change of usages only.
LEMMA UsageOnly ==
  ASSUME CInv, NEW id \in ID, NEW u \in Nat, u <= CONTAINER[id].quota,
         CONTAINER' = [CONTAINER EXCEPT ![id].usage = u], UNCHANGED NUM_PAGES
  PROVE  /\ CONTAINER' \in [ID -> SContainer]
         /\ CONTAINER'[id].usage = u
         /\ \A c \in ID : c # id => CONTAINER'[c] = CONTAINER[c]
         /\ \A c \in ID : /\ CONTAINER'[c].quota = CONTAINER[c].quota
                          /\ CONTAINER'[c].parent = CONTAINER[c].parent
                          /\ CONTAINER'[c].used = CONTAINER[c].used
                          /\ CONTAINER'[c].nchildren = CONTAINER[c].nchildren
         /\ WithinQuota'
         /\ InUse(id) => TreeShape'
         /\ \A c \in ID : Delegated(c)' = Delegated(c)
<1>1. CONTAINER \in [ID -> SContainer]
  BY DEF CInv, CTypeOK
<1>2. /\ CONTAINER' \in [ID -> SContainer]
      /\ CONTAINER'[id].usage = u
      /\ \A c \in ID : c # id => CONTAINER'[c] = CONTAINER[c]
  BY <1>1 DEF SContainer
<1>3. \A c \in ID : /\ CONTAINER'[c].quota = CONTAINER[c].quota
                     /\ CONTAINER'[c].parent = CONTAINER[c].parent
                     /\ CONTAINER'[c].used = CONTAINER[c].used
                     /\ CONTAINER'[c].nchildren = CONTAINER[c].nchildren
  BY <1>1 DEF SContainer
<1>4. WithinQuota'
  BY <1>2, <1>3 DEF CInv, WithinQuota
<1>5. InUse(id) => TreeShape'
  <2>1. \A c \in ID : InUse(c)' <=> InUse(c)
    BY <1>3 DEF InUse
  <2>2. \A c \in ID : CONTAINER[c].parent \in ID /\ CONTAINER[c].nchildren \in Nat
    BY FieldTypes
  <2>3. 0 \in ID
    BY DEF ID
  <2>4. TreeShape
    BY DEF CInv
  <2>5. ASSUME InUse(id) PROVE TreeShape'
    <3>1. (InUse(0) /\ CONTAINER[0].parent = 0)'
      BY <2>1, <2>3, <2>4, <1>3 DEF TreeShape
    <3>2. \A c \in ID : CONTAINER'[c].nchildren <= MAX_CHILDREN
      BY <2>4, <1>3 DEF TreeShape
    <3>3. \A c \in ID : ~InUse(c)' => CONTAINER'[c] = Unused
      BY <2>1, <2>4, <2>5, <1>2 DEF TreeShape
    <3>4. \A c \in ID : \A k \in 0 .. CONTAINER'[c].nchildren - 1 :
            /\ ChildIndex(c, k) \in ID /\ InUse(ChildIndex(c, k))'
            /\ CONTAINER'[ChildIndex(c, k)].parent = c
      BY <2>1, <2>4, <1>3 DEF TreeShape
    <3>5. \A d \in ID \ {0} : InUse(d)' =>
            /\ InUse(CONTAINER[d].parent)'
            /\ \E k \in 0 .. CONTAINER'[CONTAINER'[d].parent].nchildren - 1 :
                  d = ChildIndex(CONTAINER'[d].parent, k)
      BY <2>1, <2>2, <2>4, <1>3 DEF TreeShape
    <3> QED
      BY <3>1, <3>2, <3>3, <3>4, <3>5 DEF TreeShape
  <2> QED
    BY <2>5
<1>6. \A c \in ID : Delegated(c)' = Delegated(c)
  BY <1>3 DEF Delegated, ChildrenOf, InUse, Vouchers, ID
<1> QED
  BY <1>2, <1>3, <1>4, <1>5, <1>6

----------------------------------------------------------------------------
\* container_alloc within the quota finds a page and keeps the invariant.
LEMMA AllocStep ==
  ASSUME CInv, NEW id \in ID, InUse(id), NEW r, AllocWithinQuota(id, r)
  PROVE  CInv' /\ r # 0
<1> DEFINE u == CONTAINER[id].usage
<1>1. u \in Nat /\ u + 1 <= CONTAINER[id].quota /\ CONTAINER[id].quota \in 0 .. AT_SIZE
  BY CanConsume, FieldTypes DEF AllocWithinQuota
<1>2. <<id, u + 1>> \in Unspent
  BY <1>1 DEF Unspent, Vouchers
<1>3. FreePages(AT) # {}
  <2>1. Cardinality(Unspent) # 0
    BY <1>2, FiniteSetsCounted, FS_EmptySet
  <2> QED
    BY <2>1, FS_EmptySet DEF CInv, QuotaConserved
<1>4. r # 0 /\ r \in FreePages(AT) /\ palloc(r)
  <2>1. palloc(r)
    BY DEF AllocWithinQuota, container_alloc
  <2>2. r \in FreePages(AT)
    BY <2>1, <1>3 DEF palloc, PallocReturns
  <2> QED
    BY <2>1, <2>2 DEF FreePages, UserPages
<1>5. r \in Pages /\ ~at_is_allocated(AT, r) /\ owner[r] = NoID
  BY <1>4 DEF FreePages, UserPages, Pages, CInv, OwnerIsAllocation
<1>6. /\ CONTAINER' = [CONTAINER EXCEPT ![id].usage = u + 1]
      /\ owner' = [owner EXCEPT ![r] = id]
      /\ AT' = [AT EXCEPT ![r].allocated = 1] /\ UNCHANGED NUM_PAGES
  BY <1>4 DEF AllocWithinQuota, container_alloc, ChargeOnAlloc, palloc, at_set_allocated
<1>7. ATInv'
  BY <1>4, PallocInv DEF CInv
<1> HIDE DEF u
<1>8. /\ CONTAINER' \in [ID -> SContainer]
      /\ CONTAINER'[id].usage = u + 1
      /\ \A c \in ID : c # id => CONTAINER'[c] = CONTAINER[c]
      /\ \A c \in ID : CONTAINER'[c].quota = CONTAINER[c].quota
                        /\ CONTAINER'[c].used = CONTAINER[c].used
      /\ WithinQuota' /\ TreeShape'
      /\ \A c \in ID : Delegated(c)' = Delegated(c)
  <2>1. u + 1 \in Nat
    BY <1>1
  <2> QED
    BY <2>1, <1>1, <1>6, UsageOnly
<1>9. owner \in [Pages -> ID \cup {NoID}] /\ owner' \in [Pages -> ID \cup {NoID}]
  BY <1>5, <1>6 DEF CInv, CTypeOK
<1>10. CTypeOK'
  BY <1>7, <1>8, <1>9 DEF CTypeOK, ATInv
<1>11. \A p \in Pages : at_is_allocated(AT, p)' <=> p = r \/ at_is_allocated(AT, p)
  BY <1>5, <1>6 DEF CInv, ATInv, ATTypeOK, ATStruct, at_is_allocated
<1>12. OwnerIsAllocation'
  BY <1>5, <1>6, <1>8, <1>9, <1>11 DEF CInv, OwnerIsAllocation, InUse
<1>13. FreePages(AT)' = FreePages(AT) \ {r}
  <2>1. \A p \in UserPages : at_is_norm(AT, p)' <=> at_is_norm(AT, p)
    BY <1>6 DEF CInv, ATInv, ATTypeOK, ATStruct, at_is_norm, UserPages, Pages
  <2>2. UserPages \subseteq Pages
    BY DEF UserPages, Pages
  <2> QED
    BY <2>1, <2>2, <1>11 DEF FreePages
<1>14. Unspent' = Unspent \ {<<id, u + 1>>}
  <2>1. ASSUME NEW w \in Vouchers
        PROVE  w \in Unspent' <=> w \in Unspent /\ w # <<id, u + 1>>
    <3>1. w[1] \in ID /\ w[2] \in Nat /\ w = <<w[1], w[2]>>
      BY <2>1 DEF Vouchers
    <3>2. CASE w[1] = id
      BY <3>1, <3>2, <1>1, <1>8 DEF Unspent, u, Vouchers
    <3>3. CASE w[1] # id
      BY <3>1, <3>3, <1>8 DEF Unspent, Vouchers
    <3> QED
      BY <3>2, <3>3
  <2>2. Unspent \subseteq Vouchers /\ Unspent' \subseteq Vouchers
    BY DEF Unspent, Vouchers
  <2> QED
    BY <2>1, <2>2
<1>15. QuotaConserved'
  <2>1. Cardinality(FreePages(AT)') = Cardinality(FreePages(AT)) - 1
    <3>1. Cardinality(FreePages(AT) \ {r}) = Cardinality(FreePages(AT)) - 1
      BY <1>4, FiniteSetsCounted, FS_RemoveElement
    <3> QED
      BY <3>1, <1>13
  <2>2. Cardinality(Unspent') = Cardinality(Unspent) - 1
    BY <1>2, <1>14, FiniteSetsCounted, FS_RemoveElement DEF u
  <2> QED
    BY <2>1, <2>2 DEF CInv, QuotaConserved
<1>16. UsageAccounted'
  <2> SUFFICES ASSUME NEW c \in ID
               PROVE  CONTAINER'[c].usage = Cardinality(Owned(c)') + Cardinality(Delegated(c)')
    BY DEF UsageAccounted
  <2>1. CONTAINER[c].usage = Cardinality(Owned(c)) + Cardinality(Delegated(c))
    BY DEF CInv, UsageAccounted
  <2>2. CASE c = id
    <3>1. Owned(c)' = Owned(c) \cup {r} /\ r \notin Owned(c)
      BY <2>2, <1>5, <1>6, <1>9 DEF Owned, NoID, ID
    <3>2. Cardinality(Owned(c)') = Cardinality(Owned(c)) + 1
      BY <3>1, FiniteSetsCounted, FS_AddElement
    <3> QED
      BY <2>1, <2>2, <3>2, <1>8, FiniteSetsCounted DEF u
  <2>3. CASE c # id
    <3>1. Owned(c)' = Owned(c)
      BY <2>3, <1>5, <1>6, <1>9 DEF Owned, NoID, ID
    <3> QED
      BY <2>1, <2>3, <3>1, <1>8
  <2> QED
    BY <2>2, <2>3
<1> QED
  BY <1>4, <1>7, <1>8, <1>10, <1>12, <1>15, <1>16 DEF CInv

\* container_free of a page charged to the process keeps the invariant.
LEMMA FreeStep ==
  ASSUME CInv, NEW id \in ID, InUse(id), NEW p \in Pages, FreeOwn(id, p),
         at_is_allocated(AT, p)
  PROVE  CInv'
<1> DEFINE u == CONTAINER[id].usage
<1>1. owner[p] = id /\ id # NoID
  BY DEF CInv, OwnerIsAllocation, FreeOwn, NoID, ID
<1>2. p \in Owned(id) /\ p \notin FreePages(AT)
  BY <1>1 DEF Owned, FreePages
<1>3. p \in UserPages /\ at_is_norm(AT, p)
  BY DEF CInv, ATInv, OnlyNormalAllocated
<1>4. u - 1 \in Nat /\ u \in Nat /\ u <= CONTAINER[id].quota /\ CONTAINER[id].quota \in 0 .. AT_SIZE
  <2>1. Cardinality(Owned(id)) # 0
    BY <1>2, FiniteSetsCounted, FS_EmptySet
  <2>2. u = Cardinality(Owned(id)) + Cardinality(Delegated(id))
    BY DEF CInv, UsageAccounted
  <2> QED
    BY <2>1, <2>2, FiniteSetsCounted, FieldTypes
<1>5. /\ CONTAINER' = [CONTAINER EXCEPT ![id].usage = u - 1]
      /\ owner' = [owner EXCEPT ![p] = NoID]
      /\ AT' = [AT EXCEPT ![p].allocated = 0] /\ UNCHANGED NUM_PAGES /\ pfree(p)
  BY DEF FreeOwn, container_free, pfree, at_set_allocated
<1>6. ATInv'
  BY <1>5, PfreeInv DEF CInv
<1> HIDE DEF u
<1>7. /\ CONTAINER' \in [ID -> SContainer]
      /\ CONTAINER'[id].usage = u - 1
      /\ \A c \in ID : c # id => CONTAINER'[c] = CONTAINER[c]
      /\ \A c \in ID : CONTAINER'[c].quota = CONTAINER[c].quota
                        /\ CONTAINER'[c].used = CONTAINER[c].used
      /\ WithinQuota' /\ TreeShape'
      /\ \A c \in ID : Delegated(c)' = Delegated(c)
  <2>1. u - 1 <= CONTAINER[id].quota
    BY <1>4
  <2> QED
    BY <2>1, <1>4, <1>5, UsageOnly
<1>8. owner \in [Pages -> ID \cup {NoID}] /\ owner' \in [Pages -> ID \cup {NoID}]
  BY <1>5 DEF CInv, CTypeOK
<1>9. CTypeOK'
  BY <1>6, <1>7, <1>8 DEF CTypeOK, ATInv
<1>10. \A q \in Pages : at_is_allocated(AT, q)' <=> q # p /\ at_is_allocated(AT, q)
  BY <1>5 DEF CInv, ATInv, ATTypeOK, ATStruct, at_is_allocated
<1>11. OwnerIsAllocation'
  BY <1>5, <1>7, <1>8, <1>10 DEF CInv, OwnerIsAllocation, InUse
<1>12. FreePages(AT)' = FreePages(AT) \cup {p}
  <2>1. \A q \in Pages : at_is_norm(AT, q)' <=> at_is_norm(AT, q)
    BY <1>5 DEF CInv, ATInv, ATTypeOK, ATStruct, at_is_norm
  <2>2. UserPages \subseteq Pages
    BY DEF UserPages, Pages
  <2> QED
    BY <2>1, <2>2, <1>3, <1>10 DEF FreePages
<1>13. Unspent' = Unspent \cup {<<id, u>>} /\ <<id, u>> \notin Unspent
  <2>1. ASSUME NEW w \in Vouchers
        PROVE  w \in Unspent' <=> w \in Unspent \/ w = <<id, u>>
    <3>1. w[1] \in ID /\ w[2] \in Nat /\ w = <<w[1], w[2]>>
      BY <2>1 DEF Vouchers
    <3>2. CASE w[1] = id
      BY <3>1, <3>2, <1>4, <1>7 DEF Unspent, u, Vouchers
    <3>3. CASE w[1] # id
      BY <3>1, <3>3, <1>7 DEF Unspent, Vouchers
    <3> QED
      BY <3>2, <3>3
  <2>2. Unspent \subseteq Vouchers /\ Unspent' \subseteq Vouchers
    BY DEF Unspent, Vouchers
  <2>3. <<id, u>> \in Vouchers /\ <<id, u>> \notin Unspent
    BY <1>4 DEF Vouchers, Unspent, u
  <2> QED
    BY <2>1, <2>2, <2>3
<1>14. QuotaConserved'
  <2>1. Cardinality(FreePages(AT)') = Cardinality(FreePages(AT)) + 1
    <3>1. Cardinality(FreePages(AT) \cup {p}) = Cardinality(FreePages(AT)) + 1
      BY <1>2, FiniteSetsCounted, FS_AddElement
    <3> QED
      BY <3>1, <1>12
  <2>2. Cardinality(Unspent') = Cardinality(Unspent) + 1
    BY <1>13, FiniteSetsCounted, FS_AddElement
  <2> QED
    BY <2>1, <2>2 DEF CInv, QuotaConserved
<1>15. UsageAccounted'
  <2> SUFFICES ASSUME NEW c \in ID
               PROVE  CONTAINER'[c].usage = Cardinality(Owned(c)') + Cardinality(Delegated(c)')
    BY DEF UsageAccounted
  <2>1. CONTAINER[c].usage = Cardinality(Owned(c)) + Cardinality(Delegated(c))
    BY DEF CInv, UsageAccounted
  <2>2. CASE c = id
    <3>1. Owned(c)' = Owned(c) \ {p}
      BY <2>2, <1>1, <1>5, <1>8 DEF Owned
    <3>2. Cardinality(Owned(c)') = Cardinality(Owned(c)) - 1
      BY <2>2, <1>2, <3>1, FiniteSetsCounted, FS_RemoveElement
    <3> QED
      BY <2>1, <2>2, <3>2, <1>7, FiniteSetsCounted DEF u
  <2>3. CASE c # id
    <3>1. Owned(c)' = Owned(c)
      BY <2>3, <1>1, <1>5, <1>8 DEF Owned, NoID, ID
    <3> QED
      BY <2>1, <2>3, <3>1, <1>7
  <2> QED
    BY <2>2, <2>3
<1> QED
  BY <1>6, <1>7, <1>9, <1>11, <1>14, <1>15 DEF CInv

----------------------------------------------------------------------------
\* The next child of a process with room for one is a container of its own.
LEMMA ChildIsNew ==
  ASSUME CInv, NEW id \in ID, InUse(id), CONTAINER[id].nchildren < MAX_CHILDREN,
         ChildIndex(id, CONTAINER[id].nchildren) < NUM_IDS
  PROVE  LET child == ChildIndex(id, CONTAINER[id].nchildren)
         IN  child \in ID /\ child # 0 /\ child # id /\ ~InUse(child)
<1> DEFINE nc    == CONTAINER[id].nchildren
           child == ChildIndex(id, nc)
<1>1. nc \in Nat /\ nc \in 0 .. MAX_CHILDREN - 1
  BY FieldTypes
<1>2. child \in Nat /\ child > id /\ id \in Nat
  BY <1>1, ChildAfterParent DEF ID
<1>3. child \in ID /\ child # 0 /\ child # id
  BY <1>2 DEF ID
<1>4. ASSUME InUse(child) PROVE FALSE
  <2> DEFINE d == CONTAINER[child].parent
  <2>1. d \in ID
    BY <1>3, FieldTypes
  <2>2. PICK k \in 0 .. CONTAINER[d].nchildren - 1 : child = ChildIndex(d, k)
    BY <1>3, <1>4 DEF CInv, TreeShape
  <2>3. k \in 0 .. MAX_CHILDREN - 1
    BY <2>1, <2>2, FieldTypes DEF CInv, TreeShape
  <2>4. d = id /\ k = nc
    BY <1>1, <2>1, <2>2, <2>3, ChildIndexInjective
  <2> QED
    BY <1>1, <2>2, <2>4
<1> QED
  BY <1>3, <1>4

\* container_split within the quota and the number of children keeps the
\* invariant, and leaves quota, parent and use of the other containers alone.
LEMMA SplitStep ==
  ASSUME CInv, NEW id \in ID, InUse(id), NEW q \in Nat, SplitWithinQuota(id, q),
         ChildIndex(id, CONTAINER[id].nchildren) < NUM_IDS
  PROVE  /\ CInv'
         /\ KeepsLiveRecords
<1> DEFINE u     == CONTAINER[id].usage
           nc    == CONTAINER[id].nchildren
           child == ChildIndex(id, nc)
<1>1. /\ u \in Nat /\ u + q <= CONTAINER[id].quota /\ CONTAINER[id].quota \in 0 .. AT_SIZE
      /\ nc \in Nat /\ nc < MAX_CHILDREN
  BY CanConsume, FieldTypes DEF SplitWithinQuota
<1>2. child \in ID /\ child # 0 /\ child # id /\ ~InUse(child)
  BY ChildIsNew DEF SplitWithinQuota
<1>3. /\ CONTAINER' = [CONTAINER EXCEPT ![id] = SplitRecord(CONTAINER[id], q),
                                       ![child] = NewRecord(id, q)]
      /\ UNCHANGED <<AT, NUM_PAGES, last_palloc_index, owner>>
  BY <1>2 DEF SplitWithinQuota, container_split, ID, atVars
<1> HIDE DEF u, nc, child
<1>4. CONTAINER \in [ID -> SContainer]
  BY DEF CInv, CTypeOK
<1>5. /\ CONTAINER'[id] = SplitRecord(CONTAINER[id], q)
      /\ CONTAINER'[child] = NewRecord(id, q)
      /\ \A c \in ID : c # id /\ c # child => CONTAINER'[c] = CONTAINER[c]
  BY <1>2, <1>3, <1>4
<1>6. SplitRecord(CONTAINER[id], q) \in SContainer /\ NewRecord(id, q) \in SContainer
  BY <1>1, <1>4 DEF SContainer, SplitRecord, NewRecord, u, nc
<1>7. CONTAINER' \in [ID -> SContainer]
  BY <1>3, <1>4, <1>6
<1>8. /\ CONTAINER'[id].quota = CONTAINER[id].quota /\ CONTAINER'[id].usage = u + q
      /\ CONTAINER'[id].parent = CONTAINER[id].parent
      /\ CONTAINER'[id].nchildren = nc + 1 /\ CONTAINER'[id].used = CONTAINER[id].used
      /\ CONTAINER'[child].quota = q /\ CONTAINER'[child].usage = 0
      /\ CONTAINER'[child].parent = id
      /\ CONTAINER'[child].nchildren = 0 /\ CONTAINER'[child].used = 1
  BY <1>5 DEF SplitRecord, NewRecord, u, nc
<1>9. CONTAINER[child] = Unused
  BY <1>2 DEF CInv, TreeShape
<1>10. \A c \in ID : InUse(c)' <=> InUse(c) \/ c = child
  BY <1>2, <1>5, <1>8 DEF InUse
<1>11. ATInv'
  BY <1>3 DEF CInv, ATInv, ATTypeOK, OnlyNormalAllocated, NormalExists,
              at_is_norm, at_is_allocated
<1>12. CTypeOK'
  BY <1>3, <1>7, <1>11 DEF CInv, CTypeOK, ATInv
<1>13. OwnerIsAllocation'
  BY <1>3, <1>10 DEF CInv, OwnerIsAllocation, at_is_allocated
<1>14. WithinQuota'
  BY <1>1, <1>5, <1>8 DEF CInv, WithinQuota
<1>15. TreeShape'
  <2>1. TreeShape /\ 0 \in ID
    BY DEF CInv, ID
  <2>2. (InUse(0) /\ CONTAINER[0].parent = 0)'
    BY <2>1, <1>2, <1>5, <1>8, <1>10 DEF TreeShape
  <2>3. \A c \in ID : CONTAINER'[c].nchildren <= MAX_CHILDREN
    BY <2>1, <1>1, <1>5, <1>8 DEF TreeShape
  <2>4. \A c \in ID : ~InUse(c)' => CONTAINER'[c] = Unused
    BY <2>1, <1>5, <1>10 DEF TreeShape
  <2>5. ASSUME NEW c \in ID, NEW k \in 0 .. CONTAINER'[c].nchildren - 1
        PROVE  /\ ChildIndex(c, k) \in ID /\ InUse(ChildIndex(c, k))'
               /\ CONTAINER'[ChildIndex(c, k)].parent = c
    <3>1. CASE c = id /\ k = nc
      BY <3>1, <1>2, <1>8, <1>10 DEF child
    <3>2. CASE ~(c = id /\ k = nc)
      <4>1. k \in 0 .. CONTAINER[c].nchildren - 1
        BY <3>2, <2>5, <1>1, <1>2, <1>5, <1>8 DEF nc
      <4>2. /\ ChildIndex(c, k) \in ID /\ InUse(ChildIndex(c, k))
            /\ CONTAINER[ChildIndex(c, k)].parent = c
        BY <4>1, <2>1 DEF TreeShape
      <4> QED
        BY <4>2, <1>2, <1>5, <1>8, <1>10
    <3> QED
      BY <3>1, <3>2
  <2>6. ASSUME NEW d \in ID \ {0}, InUse(d)'
        PROVE  /\ InUse(CONTAINER[d].parent)'
               /\ \E k \in 0 .. CONTAINER'[CONTAINER'[d].parent].nchildren - 1 :
                     d = ChildIndex(CONTAINER'[d].parent, k)
    <3>1. CASE d = child
      <4>1. nc \in 0 .. CONTAINER'[id].nchildren - 1 /\ d = ChildIndex(id, nc)
        BY <3>1, <1>1, <1>8 DEF child
      <4> QED
        BY <3>1, <4>1, <1>8, <1>10
    <3>2. CASE d # child
      <4> DEFINE c == CONTAINER[d].parent
      <4>1. /\ InUse(d) /\ InUse(c) /\ c \in ID
        BY <3>2, <2>1, <2>6, <1>10, FieldTypes DEF TreeShape
      <4>2. PICK k \in 0 .. CONTAINER[c].nchildren - 1 : d = ChildIndex(c, k)
        BY <4>1, <2>1, <2>6 DEF TreeShape
      <4>3. CONTAINER'[d].parent = c /\ InUse(c)'
        BY <3>2, <4>1, <2>6, <1>5, <1>8, <1>10
      <4>4. k \in 0 .. CONTAINER'[c].nchildren - 1
        BY <4>1, <4>2, <1>1, <1>2, <1>5, <1>8 DEF nc
      <4> QED
        BY <4>2, <4>3, <4>4
    <3> QED
      BY <3>1, <3>2
  <2> QED
    BY <2>2, <2>3, <2>4, <2>5, <2>6 DEF TreeShape
<1> DEFINE given == Row(id, u, u + q)
           taken == Row(child, 0, q)
<1>16. /\ IsFiniteSet(given) /\ Cardinality(given) = q
       /\ IsFiniteSet(taken) /\ Cardinality(taken) = q
  <2>1. u + q \in Nat /\ u <= u + q /\ 0 <= q /\ (u + q) - u = q /\ q - 0 = q
    BY <1>1
  <2> QED
    BY <2>1, <1>1, CountRow
<1>17. \A w \in Vouchers : /\ w \in given <=> w[1] = id /\ u < w[2] /\ w[2] <= u + q
                           /\ w \in taken <=> w[1] = child /\ w[2] <= q
  BY <1>1 DEF Row, Vouchers
<1>18. given \subseteq Vouchers /\ taken \subseteq Vouchers
  BY <1>1, <1>2 DEF Row, Vouchers
<1> HIDE DEF given, taken
<1>19. QuotaConserved'
  <2>1. ASSUME NEW w \in Vouchers
        PROVE  w \in Unspent' <=> (w \in Unspent /\ w \notin given) \/ w \in taken
    <3>1. w[1] \in ID /\ w[2] \in Nat /\ w[2] >= 1
      BY <2>1 DEF Vouchers
    <3>2. CASE w[1] = id
      BY <3>1, <3>2, <1>1, <1>2, <1>8, <1>17 DEF Unspent, u, Vouchers
    <3>3. CASE w[1] = child
      BY <3>1, <3>3, <1>2, <1>8, <1>9, <1>17 DEF Unspent, Unused, Vouchers
    <3>4. CASE w[1] # id /\ w[1] # child
      BY <3>1, <3>4, <1>5, <1>17 DEF Unspent, Vouchers
    <3> QED
      BY <3>2, <3>3, <3>4
  <2>2. \A w \in Vouchers : (w \in given => w \in Unspent) /\ (w \in taken => w \notin Unspent)
    <3> SUFFICES ASSUME NEW w \in Vouchers
                 PROVE  (w \in given => w \in Unspent) /\ (w \in taken => w \notin Unspent)
      OBVIOUS
    <3>1. w[1] \in ID /\ w[2] \in Nat /\ w[2] >= 1
      BY DEF Vouchers
    <3> QED
      BY <3>1, <1>1, <1>9, <1>17 DEF Unspent, Unused, u
  <2>3. Unspent \subseteq Vouchers /\ Unspent' \subseteq Vouchers
    BY DEF Unspent, Vouchers
  <2>4. Unspent' = (Unspent \ given) \cup taken
    BY <2>1, <2>3, <1>18
  <2>5. Unspent \cap given = given /\ (Unspent \ given) \cap taken = {}
    BY <2>2, <1>18
  <2>6. IsFiniteSet(Unspent \ given) /\ Cardinality(Unspent \ given) = Cardinality(Unspent) - q
    <3>1. /\ IsFiniteSet(Unspent \ given)
          /\ Cardinality(Unspent \ given) = Cardinality(Unspent) - Cardinality(Unspent \cap given)
      BY FiniteSetsCounted, FS_Difference
    <3> QED
      BY <3>1, <2>5, <1>16
  <2>7. Cardinality(Unspent') = Cardinality(Unspent \ given) + q
    <3>1. Cardinality((Unspent \ given) \cup taken)
            = Cardinality(Unspent \ given) + Cardinality(taken)
              - Cardinality((Unspent \ given) \cap taken)
      BY <2>6, <1>16, FS_Union
    <3>2. Cardinality((Unspent \ given) \cap taken) = 0
      BY <2>5, FS_EmptySet
    <3> QED
      BY <3>1, <3>2, <2>4, <2>6, <1>16, FiniteSetsCounted
  <2>8. Cardinality(Unspent') = Cardinality(Unspent)
    BY <2>6, <2>7, FiniteSetsCounted
  <2>9. FreePages(AT)' = FreePages(AT)
    BY <1>3 DEF FreePages, at_is_norm, at_is_allocated
  <2> QED
    BY <2>8, <2>9 DEF CInv, QuotaConserved
<1>20. UsageAccounted'
  <2> SUFFICES ASSUME NEW c \in ID
               PROVE  CONTAINER'[c].usage = Cardinality(Owned(c)') + Cardinality(Delegated(c)')
    BY DEF UsageAccounted
  <2>1. CONTAINER[c].usage = Cardinality(Owned(c)) + Cardinality(Delegated(c))
    BY DEF CInv, UsageAccounted
  <2>2. Owned(c)' = Owned(c)
    BY <1>3 DEF Owned
  <2>3. ASSUME NEW w \in Vouchers
        PROVE  w \in Delegated(c)' <=> w \in Delegated(c) \/ (c = id /\ w \in taken)
    <3>1. w[1] \in ID
      BY <2>3 DEF Vouchers
    <3>2. CASE w[1] = child
      BY <3>1, <3>2, <1>2, <1>8, <1>10, <1>17 DEF Delegated, ChildrenOf
    <3>3. CASE w[1] = id
      BY <3>1, <3>3, <1>2, <1>8, <1>10, <1>17 DEF Delegated, ChildrenOf
    <3>4. CASE w[1] # child /\ w[1] # id
      BY <3>1, <3>4, <1>5, <1>10, <1>17 DEF Delegated, ChildrenOf
    <3> QED
      BY <3>2, <3>3, <3>4
  <2>4. Delegated(c) \subseteq Vouchers /\ Delegated(c)' \subseteq Vouchers
    BY DEF Delegated, Vouchers
  <2>5. Delegated(c) \cap taken = {}
    BY <2>4, <1>2, <1>17 DEF Delegated, ChildrenOf
  <2>6. CASE c = id
    <3>1. Delegated(c)' = Delegated(c) \cup taken
      BY <2>3, <2>4, <2>6, <1>18
    <3>2. Cardinality(Delegated(c) \cup taken) = Cardinality(Delegated(c)) + q
      <4>1. Cardinality(Delegated(c) \cup taken)
              = Cardinality(Delegated(c)) + Cardinality(taken) - Cardinality(Delegated(c) \cap taken)
        BY <1>16, FiniteSetsCounted, FS_Union
      <4>2. Cardinality(Delegated(c) \cap taken) = 0
        BY <2>5, FS_EmptySet
      <4> QED
        BY <4>1, <4>2, <1>16, FiniteSetsCounted
    <3>3. CONTAINER'[c].usage = CONTAINER[c].usage + q
      BY <2>6, <1>8 DEF u
    <3> QED
      BY <2>1, <2>2, <3>1, <3>2, <3>3, FiniteSetsCounted
  <2>7. CASE c # id
    <3>1. Delegated(c)' = Delegated(c)
      BY <2>3, <2>4, <2>7
    <3>2. CONTAINER'[c].usage = CONTAINER[c].usage
      BY <2>7, <1>5, <1>8, <1>9 DEF Unused
    <3> QED
      BY <2>1, <2>2, <3>1, <3>2
  <2> QED
    BY <2>6, <2>7
<1>21. KeepsLiveRecords
  BY <1>2, <1>5, <1>8 DEF InUse, KeepsLiveRecords
<1> QED
  BY <1>11, <1>12, <1>13, <1>14, <1>15, <1>19, <1>20, <1>21 DEF CInv

----------------------------------------------------------------------------
\* One step of CSpec.
LEMMA ContainerStep ==
  ASSUME CInv, [CNext]_cVars
  PROVE  /\ CInv'
         /\ KeepsLiveRecords
<1>1. ASSUME UNCHANGED cVars
      PROVE  /\ CInv'
             /\ KeepsLiveRecords
  <2>1. UNCHANGED <<AT, NUM_PAGES, last_palloc_index, CONTAINER, owner>>
    BY <1>1 DEF cVars, atVars
  <2>2. ATInv' /\ CTypeOK' /\ OwnerIsAllocation' /\ WithinQuota'
    BY <2>1 DEF CInv, ATInv, ATTypeOK, OnlyNormalAllocated, NormalExists, at_is_norm,
                at_is_allocated, CTypeOK, OwnerIsAllocation, WithinQuota, InUse
  <2>3. TreeShape'
    BY <2>1 DEF CInv, TreeShape, InUse
  <2>4. Unspent' = Unspent /\ FreePages(AT)' = FreePages(AT)
        /\ \A c \in ID : Owned(c)' = Owned(c) /\ Delegated(c)' = Delegated(c)
    BY <2>1 DEF Unspent, FreePages, at_is_norm, at_is_allocated, Owned, Delegated,
                ChildrenOf, InUse
  <2>5. QuotaConserved' /\ UsageAccounted'
    BY <2>1, <2>4 DEF CInv, QuotaConserved, UsageAccounted
  <2> QED
    BY <2>1, <2>2, <2>3, <2>5 DEF CInv, InUse, KeepsLiveRecords
<1>2. ASSUME NEW id \in ID, InUse(id), NEW r \in Pages, AllocWithinQuota(id, r)
      PROVE  /\ CInv'
             /\ KeepsLiveRecords
  <2>1. CInv' /\ r # 0
    BY <1>2, AllocStep
  <2>2. CONTAINER' = [CONTAINER EXCEPT ![id].usage = CONTAINER[id].usage + 1]
    BY <1>2, <2>1 DEF AllocWithinQuota, container_alloc, ChargeOnAlloc
  <2> QED
    BY <2>1, <2>2 DEF CInv, CTypeOK, SContainer, InUse, KeepsLiveRecords
<1>3. ASSUME NEW id \in ID, InUse(id), NEW q \in 0 .. WORD - 1, SplitWithinQuota(id, q)
      PROVE  /\ CInv'
             /\ KeepsLiveRecords
  <2>1. q \in Nat /\ ChildIndex(id, CONTAINER[id].nchildren) \in Nat
    BY <1>3, FieldTypes, ChildAfterParent
  <2>2. CASE ChildIndex(id, CONTAINER[id].nchildren) < NUM_IDS
    BY <1>3, <2>1, <2>2, SplitStep
  <2>3. CASE ~(ChildIndex(id, CONTAINER[id].nchildren) < NUM_IDS)
    <3>1. UNCHANGED cVars
      BY <1>3, <2>1, <2>3 DEF SplitWithinQuota, container_split, cVars
    <3> QED
      BY <3>1, <1>1
  <2> QED
    BY <2>2, <2>3
<1>4. ASSUME NEW id \in ID, InUse(id), NEW p \in Pages, FreeOwn(id, p)
      PROVE  /\ CInv'
             /\ KeepsLiveRecords
  <2>1. CASE at_is_allocated(AT, p)
    <3>1. CInv'
      BY <1>4, <2>1, FreeStep
    <3>2. CONTAINER' = [CONTAINER EXCEPT ![id].usage = CONTAINER[id].usage - 1]
      BY <1>4, <2>1 DEF FreeOwn, container_free
    <3> QED
      BY <3>1, <3>2 DEF CInv, CTypeOK, SContainer, InUse, KeepsLiveRecords
  <2>2. CASE ~at_is_allocated(AT, p)
    <3>1. UNCHANGED cVars
      BY <1>4, <2>2 DEF FreeOwn, container_free
    <3> QED
      BY <3>1, <1>1
  <2> QED
    BY <2>1, <2>2
<1> QED
  BY <1>1, <1>2, <1>3, <1>4 DEF CNext

\* The invariant of the container tree is inductive.
THEOREM ContainerInv == CSpec => []CInv
<1>1. CInv /\ [CNext]_cVars => CInv'
  BY ContainerStep
<1> QED
  BY <1>1, ContainerInit, PTL DEF CSpec

(***************************************************************************)
(* usage is exact and quota is conserved, for any number of pages and any  *)
(* shape of the tree.                                                      *)
(***************************************************************************)
THEOREM AccountingExact == CSpec => [](UsageAccounted /\ QuotaConserved /\ TreeShape)
<1>1. CInv => UsageAccounted /\ QuotaConserved /\ TreeShape
  BY DEF CInv
<1> QED
  BY <1>1, ContainerInv, PTL

(***************************************************************************)
(* No operation creates or loses a page of quota: what is unspent in the   *)
(* whole tree is always the number of free pages.                          *)
(***************************************************************************)
THEOREM QuotaNeverLost == CSpec => []QuotaConserved
<1>1. CInv => QuotaConserved
  BY DEF CInv
<1> QED
  BY <1>1, ContainerInv, PTL

(***************************************************************************)
(* When container_can_consume says that a process may take n pages, n      *)
(* pages are free.                                                         *)
(***************************************************************************)
THEOREM QuotaPromise == CSpec => []QuotaHonoured
<1>1. CInv => QuotaHonoured
  <2> SUFFICES ASSUME CInv, NEW c \in ID, NEW n \in 0 .. WORD - 1, InUse(c),
                      container_can_consume(c, n)
               PROVE  n <= Cardinality(FreePages(AT))
    BY DEF QuotaHonoured
  <2> DEFINE u == CONTAINER[c].usage
  <2>1. n \in Nat /\ u \in Nat /\ u + n <= CONTAINER[c].quota /\ CONTAINER[c].quota \in 0 .. AT_SIZE
    BY CanConsume, FieldTypes
  <2>2. Row(c, u, u + n) \subseteq Unspent
    BY <2>1 DEF Row, Unspent, Vouchers
  <2>3. Cardinality(Row(c, u, u + n)) = n
    <3>1. u + n \in Nat /\ u <= u + n /\ (u + n) - u = n
      BY <2>1
    <3> QED
      BY <3>1, <2>1, CountRow
  <2>4. Cardinality(Row(c, u, u + n)) <= Cardinality(Unspent)
    BY <2>2, FiniteSetsCounted, FS_Subset
  <2> QED
    BY <2>3, <2>4 DEF CInv, QuotaConserved
<1> QED
  BY <1>1, ContainerInv, PTL

\* While no process has too many children, a split that the code makes is one
\* that CSpec allows, or finds no room and changes nothing.
LEMMA SplitFewChildren ==
  ASSUME CInv, FewChildren', [SplitNext]_cVars
  PROVE  [CNext]_cVars
<1>1. ASSUME NEW id \in ID, InUse(id), NEW q \in 0 .. WORD - 1, SplitAsCalled(id, q)
      PROVE  SplitWithinQuota(id, q) \/ UNCHANGED cVars
  <2> DEFINE nc    == CONTAINER[id].nchildren
             child == ChildIndex(id, nc)
  <2>1. nc \in Nat /\ child \in Nat /\ child > id
    BY FieldTypes, ChildAfterParent
  <2>2. CASE NUM_IDS <= child
    BY <1>1, <2>2 DEF SplitAsCalled, container_split, cVars
  <2>3. CASE ~(NUM_IDS <= child)
    <3>1. child \in ID /\ child # id
      BY <2>1, <2>3 DEF ID
    <3>2. CONTAINER' = [CONTAINER EXCEPT ![id] = SplitRecord(CONTAINER[id], q), ![child] = NewRecord(id, q)]
      BY <1>1, <2>3 DEF SplitAsCalled, container_split
    <3> HIDE DEF child
    <3>3. CONTAINER'[id] = SplitRecord(CONTAINER[id], q)
      BY <3>1, <3>2 DEF CInv, CTypeOK
    <3>4. nc + 1 <= MAX_CHILDREN
      BY <3>3 DEF SplitRecord, FewChildren
    <3> QED
      BY <1>1, <2>1, <3>4, ContainerAssumption DEF SplitAsCalled, SplitWithinQuota
  <2> QED
    BY <2>2, <2>3
<1>2. CASE UNCHANGED cVars
  BY <1>2
<1>3. CASE SplitNext
  <2>1. PICK id \in ID : /\ InUse(id)
                         /\ \/ \E r \in Pages : AllocWithinQuota(id, r)
                            \/ \E q \in 0 .. WORD - 1 : SplitAsCalled(id, q)
                            \/ \E p \in Pages : FreeOwn(id, p)
    BY <1>3 DEF SplitNext
  <2> QED
    BY <1>1, <2>1 DEF CNext
<1> QED
  BY <1>2, <1>3

(***************************************************************************)
(* With the callers that the comments ask for, no step takes over the      *)
(* container of a live process or changes its quota or its parent, as long *)
(* as no process has more than MAX_CHILDREN children.  The condition is    *)
(* needed, and the code does not ensure it: the run container_split shows  *)
(* a live container taken over.                                            *)
(***************************************************************************)
THEOREM LiveRecordsSafe == SplitSpec /\ []FewChildren => LiveRecordsKept
<1>1. CInv /\ [CNext]_cVars =>
        [KeepsLiveRecords]_cVars
  BY ContainerStep
<1>2. CInv /\ FewChildren' /\ [SplitNext]_cVars => [CNext]_cVars
  BY SplitFewChildren
<1>3. CInit => CInv
  BY ContainerInit
<1>4. CInv /\ [CNext]_cVars => CInv'
  BY ContainerStep
<1> QED
  BY <1>1, <1>2, <1>3, <1>4, PTL DEF SplitSpec, LiveRecordsKept
=============================================================================
