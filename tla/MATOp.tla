------------------------------- MODULE MATOp -------------------------------
(***************************************************************************)
(* The physical page allocator: the allocation table AT of MATIntro, the   *)
(* state in which pmem_init (MATInit) leaves it, and palloc and pfree of   *)
(* MATOp.  Here palloc is one step, described by what it returns; the      *)
(* module PallocLoop has its loop and implements this module.              *)
(***************************************************************************)
EXTENDS Integers

CONSTANTS AT_SIZE,       \* entries of the array AT: 2^20
          VM_USERLO_PI,  \* first page of the user range
          VM_USERHI_PI   \* first page after the user range

\* The user range is a nonempty part of AT that leaves out page 0.
ASSUME ATAssumption ==
    /\ AT_SIZE \in Nat
    /\ VM_USERLO_PI \in Nat
    /\ VM_USERHI_PI \in Nat
    /\ 0 < VM_USERLO_PI
    /\ VM_USERLO_PI < VM_USERHI_PI
    /\ VM_USERHI_PI <= AT_SIZE

VARIABLES NUM_PAGES,         \* pages of physical memory found at boot
          AT,                \* AT[p] : permission and allocation flag of page p
          last_palloc_index  \* where the next palloc starts to scan

atVars == <<NUM_PAGES, AT, last_palloc_index>>

Pages     == 0 .. AT_SIZE - 1
UserPages == VM_USERLO_PI .. VM_USERHI_PI - 1
UserSize  == VM_USERHI_PI - VM_USERLO_PI

\* struct ATStruct: perm 0 is BIOS, 1 kernel, 2 normal.
ATStruct == [perm : 0 .. 2, allocated : 0 .. 1]

----------------------------------------------------------------------------
\* The getters and setters of MATIntro, on a table at.

get_nps == NUM_PAGES

at_is_norm(at, p) == at[p].perm > 1

at_is_allocated(at, p) == at[p].allocated > 0

at_set_allocated(at, p, a) == [at EXCEPT ![p].allocated = a]

\* The pages palloc may return.
FreePages(at) == {p \in UserPages : at_is_norm(at, p) /\ ~at_is_allocated(at, p)}

----------------------------------------------------------------------------
(***************************************************************************)
(* What pmem_init leaves behind.  Kernel pages have permission 1; a page   *)
(* of the user range is normal or reserved as the memory map says; entries *)
(* from NUM_PAGES on keep the zero of static storage.  NUM_PAGES is below  *)
(* AT_SIZE because no address is above 2^32 - 1.  (MemMap derives this     *)
(* from the memory map.)                                                   *)
(***************************************************************************)
\* A faulty form: the loop over the pages runs one page too far.
BootTablePastEnd(nps, normal) ==
    [p \in Pages |->
        [perm      |-> IF p \in normal \cup (UserPages \cap {nps}) THEN 2
                       ELSE IF p <= nps /\ p \notin UserPages THEN 1 ELSE 0,
         allocated |-> 0]]

BootTable(nps, normal) ==
    [p \in Pages |->
        [perm      |-> IF p \in normal THEN 2
                       ELSE IF p < nps /\ p \notin UserPages THEN 1 ELSE 0,
         allocated |-> 0]]

ATInit ==
    /\ NUM_PAGES \in 0 .. AT_SIZE - 1
    /\ \E normal \in SUBSET {p \in UserPages : p < NUM_PAGES} :
           AT = BootTable(NUM_PAGES, normal)
    /\ last_palloc_index = VM_USERLO_PI

----------------------------------------------------------------------------
(***************************************************************************)
(* palloc scans the user range once, upwards from last_palloc_index and    *)
(* around, and takes the first free page it meets; 0 says there was none.  *)
(***************************************************************************)
RingDist(from, p) == IF p >= from THEN p - from ELSE p - from + UserSize

PallocReturns(at, from, r) ==
    \/ r = 0 /\ FreePages(at) = {}
    \/ /\ r \in FreePages(at)
       /\ \A p \in FreePages(at) : RingDist(from, r) <= RingDist(from, p)

palloc(r) ==
    /\ PallocReturns(AT, last_palloc_index, r)
    /\ IF r = 0
         THEN /\ AT' = AT
              /\ last_palloc_index' = VM_USERLO_PI
         ELSE /\ AT' = at_set_allocated(AT, r, 1)
              /\ last_palloc_index' = r
    /\ NUM_PAGES' = NUM_PAGES

pfree(pfree_index) ==
    /\ AT' = at_set_allocated(AT, pfree_index, 0)
    /\ UNCHANGED <<NUM_PAGES, last_palloc_index>>

\* Callers free only pages that are allocated (container_free checks it).
ATNext ==
    \/ \E r \in Pages : palloc(r)
    \/ \E p \in Pages : at_is_allocated(AT, p) /\ pfree(p)

ATSpec == ATInit /\ [][ATNext]_atVars

----------------------------------------------------------------------------
ATTypeOK ==
    /\ NUM_PAGES \in 0 .. AT_SIZE - 1
    /\ AT \in [Pages -> ATStruct]
    /\ last_palloc_index \in UserPages

(***************************************************************************)
(* Whatever sequence of palloc and pfree ran, an allocated page is a       *)
(* normal page of the user range that exists in the machine: palloc never  *)
(* gives out kernel, BIOS or nonexistent memory, and so never page 0,      *)
(* which its callers read as failure.                                      *)
(***************************************************************************)
OnlyNormalAllocated ==
    \A p \in Pages :
        at_is_allocated(AT, p) => p \in UserPages /\ p < NUM_PAGES /\ at_is_norm(AT, p)

\* Permissions are fixed at boot: only pages below NUM_PAGES are normal.
NormalExists ==
    \A p \in Pages : at_is_norm(AT, p) => p \in UserPages /\ p < NUM_PAGES

ATInv == ATTypeOK /\ OnlyNormalAllocated /\ NormalExists
=============================================================================
