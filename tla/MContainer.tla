----------------------------- MODULE MContainer -----------------------------
(***************************************************************************)
(* The containers of MContainer.c: a tree of processes, each with a quota  *)
(* of pages, on top of the page allocator of MATOp.                        *)
(*                                                                         *)
(* The operations are those of the code, which checks neither that an      *)
(* allocation stays within the quota, nor that a split does, nor that a    *)
(* process has fewer than MAX_CHILDREN children: its comments leave that   *)
(* to the caller.  CSpec is the system in which the callers do it.         *)
(***************************************************************************)
EXTENDS MATOp, FiniteSets

CONSTANTS NUM_IDS,       \* containers
          MAX_CHILDREN,  \* children per container
          WORD           \* number of values of an unsigned int

ASSUME ContainerAssumption ==
    /\ NUM_IDS \in Nat /\ NUM_IDS > 0
    /\ MAX_CHILDREN \in Nat /\ MAX_CHILDREN > 0
    /\ WORD \in Nat /\ 2 * AT_SIZE < WORD

VARIABLES CONTAINER,
          owner  \* history: the container each allocated page was charged to

cVars == <<atVars, CONTAINER, owner>>

ID     == 0 .. NUM_IDS - 1
NoID   == NUM_IDS  \* what container_split returns when there is no room
Unused == [quota |-> 0, usage |-> 0, parent |-> 0, nchildren |-> 0, used |-> 0]

\* The value that the bits of the integer x have as an unsigned int.
ToUnsigned(x) == IF x < 0 THEN x + WORD ELSE x

InUse(c) == CONTAINER[c].used = 1

----------------------------------------------------------------------------
\* Faulty forms of the definitions below, for checking the properties.

RealQuotaCountsKernel(at, nps) == Cardinality({p \in 0 .. nps - 1 : at[p].perm >= 1})

ChildIndexFirst(id, nc) == id * MAX_CHILDREN + 1

container_splitUncharged(id, q) ==
    LET child == id * MAX_CHILDREN + 1 + CONTAINER[id].nchildren
    IN  /\ CONTAINER' =
             IF NUM_IDS <= child THEN CONTAINER
             ELSE [CONTAINER EXCEPT ![id].nchildren = @ + 1,
                     ![child] = [quota |-> q, usage |-> 0, parent |-> id,
                                 nchildren |-> 0, used |-> 1]]
        /\ UNCHANGED <<atVars, owner>>

ChargeOnAllocNever(id) == CONTAINER

----------------------------------------------------------------------------
\* The unallocated normal pages below nps.
RealQuota(at, nps) ==
    Cardinality({p \in 0 .. nps - 1 : at_is_norm(at, p) /\ ~at_is_allocated(at, p)})

\* The record of a new process with quota q.
NewRecord(parent, q) ==
    [quota |-> q, usage |-> 0, parent |-> parent, nchildren |-> 0, used |-> 1]

\* container_init: container 0 gets all of memory; the array starts zeroed.
CInit ==
    /\ ATInit
    /\ CONTAINER = [c \in ID |-> IF c = 0 THEN NewRecord(0, RealQuota(AT, get_nps)) ELSE Unused]
    /\ owner = [p \in Pages |-> NoID]

container_can_consume(id, n) ==
    ToUnsigned(CONTAINER[id].quota - CONTAINER[id].usage) >= n

\* The array index of the next child of a container that has nc children.
ChildIndex(id, nc) == id * MAX_CHILDREN + 1 + nc

\* The record r of a process after it gave q pages to a child.
SplitRecord(r, q) ==
    [quota |-> r.quota, usage |-> r.usage + q, parent |-> r.parent,
     nchildren |-> r.nchildren + 1, used |-> r.used]

\* container_split(id, q) returns child; it does nothing when child >= NUM_IDS.
container_split(id, q) ==
    LET child == ChildIndex(id, CONTAINER[id].nchildren)
    IN  /\ CONTAINER' =
             IF NUM_IDS <= child THEN CONTAINER
             ELSE [CONTAINER EXCEPT ![id] = SplitRecord(@, q), ![child] = NewRecord(id, q)]
        /\ UNCHANGED <<atVars, owner>>

ChargeOnAlloc(id) == [CONTAINER EXCEPT ![id].usage = @ + 1]

\* container_alloc(id) returns r, 0 when palloc finds no page.
container_alloc(id, r) ==
    /\ palloc(r)
    /\ IF r = 0
         THEN UNCHANGED <<CONTAINER, owner>>
         ELSE /\ CONTAINER' = ChargeOnAlloc(id)
              /\ owner' = [owner EXCEPT ![r] = id]

container_free(id, page_index) ==
    IF at_is_allocated(AT, page_index)
      THEN /\ pfree(page_index)
           /\ CONTAINER' = [CONTAINER EXCEPT ![id].usage = @ - 1]
           /\ owner' = [owner EXCEPT ![page_index] = NoID]
      ELSE UNCHANGED cVars

----------------------------------------------------------------------------
(***************************************************************************)
(* The callers.  A process allocates and splits after asking               *)
(* container_can_consume, and frees pages charged to it, or a page that is *)
(* not allocated.                                                          *)
(***************************************************************************)
AllocWithinQuota(id, r) == container_can_consume(id, 1) /\ container_alloc(id, r)

SplitWithinQuota(id, q) ==
    /\ container_can_consume(id, q)
    /\ CONTAINER[id].nchildren < MAX_CHILDREN
    /\ container_split(id, q)

FreeOwn(id, p) ==
    /\ owner[p] \in {id, NoID}
    /\ container_free(id, p)

CNext ==
    \E id \in ID :
        /\ InUse(id)
        /\ \/ \E r \in Pages : AllocWithinQuota(id, r)
           \/ \E q \in 0 .. WORD - 1 : SplitWithinQuota(id, q)
           \/ \E p \in Pages : FreeOwn(id, p)

CSpec == CInit /\ [][CNext]_cVars

(***************************************************************************)
(* The callers as the comments ask them to be: the quota is checked, the   *)
(* number of children is not, since nothing in the code asks for that or   *)
(* does it.                                                                *)
(***************************************************************************)
SplitAsCalled(id, q) == container_can_consume(id, q) /\ container_split(id, q)

SplitNext ==
    \E id \in ID :
        /\ InUse(id)
        /\ \/ \E r \in Pages : AllocWithinQuota(id, r)
           \/ \E q \in 0 .. WORD - 1 : SplitAsCalled(id, q)
           \/ \E p \in Pages : FreeOwn(id, p)

SplitSpec == CInit /\ [][SplitNext]_cVars

FewChildren == \A c \in ID : CONTAINER[c].nchildren <= MAX_CHILDREN

----------------------------------------------------------------------------
SContainer ==
    [quota : 0 .. AT_SIZE, usage : Nat, parent : ID, nchildren : Nat, used : 0 .. 1]

CTypeOK ==
    /\ ATTypeOK
    /\ CONTAINER \in [ID -> SContainer]
    /\ owner \in [Pages -> ID \cup {NoID}]

\* A page is charged to a container exactly when it is allocated.
OwnerIsAllocation ==
    \A p \in Pages : IF at_is_allocated(AT, p) THEN owner[p] \in ID /\ InUse(owner[p])
                                               ELSE owner[p] = NoID

(***************************************************************************)
(* The containers form a tree whose shape is arithmetic: the children of c *)
(* are exactly the first nchildren numbers after c * MAX_CHILDREN, each    *)
(* with c as its parent.  Two processes never share a container.           *)
(***************************************************************************)
ChildrenOf(c) == {d \in ID \ {0} : InUse(d) /\ CONTAINER[d].parent = c}

TreeShape ==
    /\ InUse(0) /\ CONTAINER[0].parent = 0
    /\ \A c \in ID : CONTAINER[c].nchildren <= MAX_CHILDREN
    /\ \A c \in ID : ~InUse(c) => CONTAINER[c] = Unused
    /\ \A c \in ID : \A k \in 0 .. CONTAINER[c].nchildren - 1 :
          LET d == ChildIndex(c, k)
          IN  d \in ID /\ InUse(d) /\ CONTAINER[d].parent = c
    /\ \A d \in ID \ {0} : InUse(d) =>
          LET c == CONTAINER[d].parent
          IN  InUse(c) /\ \E k \in 0 .. CONTAINER[c].nchildren - 1 : d = ChildIndex(c, k)

(***************************************************************************)
(* One voucher stands for one page of quota: <<c, k>> is the k-th page of  *)
(* container c's quota.  Counting vouchers replaces adding up quotas.      *)
(***************************************************************************)
Vouchers == ID \X (1 .. AT_SIZE)

Unspent ==
    {w \in Vouchers : CONTAINER[w[1]].usage < w[2] /\ w[2] <= CONTAINER[w[1]].quota}

Delegated(c) == {w \in Vouchers : w[1] \in ChildrenOf(c) /\ w[2] <= CONTAINER[w[1]].quota}

Owned(c) == {p \in Pages : owner[p] = c}

(***************************************************************************)
(* usage is exact: what a container has used is the pages charged to it    *)
(* plus the quotas it gave to its children, through every mix of           *)
(* container_alloc, container_free and container_split.                    *)
(***************************************************************************)
UsageAccounted ==
    \A c \in ID : CONTAINER[c].usage = Cardinality(Owned(c)) + Cardinality(Delegated(c))

\* With callers that ask first, no container uses more than its quota.
WithinQuota == \A c \in ID : CONTAINER[c].usage <= CONTAINER[c].quota

(***************************************************************************)
(* The quota still unspent in the whole tree is the number of free pages:  *)
(* no operation creates or loses a page of quota.                          *)
(***************************************************************************)
QuotaConserved == Cardinality(Unspent) = Cardinality(FreePages(AT))

(***************************************************************************)
(* The promise of container_can_consume: when it says that a process may   *)
(* take n pages, n pages are free, so the allocations it allows succeed    *)
(* whatever the other processes did before.                                *)
(***************************************************************************)
QuotaHonoured ==
    \A c \in ID, n \in 0 .. WORD - 1 :
        InUse(c) /\ container_can_consume(c, n) => n <= Cardinality(FreePages(AT))

(***************************************************************************)
(* A split does not take over the record of a live process: the container  *)
(* it fills in was not in use, and quota and parent of a live one never    *)
(* change.  This is so while no process has more than MAX_CHILDREN         *)
(* children, which is up to the callers.                                   *)
(***************************************************************************)
KeepsLiveRecords ==
    \A c \in ID : InUse(c) =>
        /\ CONTAINER'[c].used = 1
        /\ CONTAINER'[c].quota = CONTAINER[c].quota
        /\ CONTAINER'[c].parent = CONTAINER[c].parent

LiveRecordsKept == [][KeepsLiveRecords]_cVars

CInv ==
    /\ ATInv /\ CTypeOK /\ OwnerIsAllocation /\ TreeShape
    /\ UsageAccounted /\ WithinQuota /\ QuotaConserved
=============================================================================
