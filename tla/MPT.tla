-------------------------------- MODULE MPT --------------------------------
(***************************************************************************)
(* The page structures of kern/vmm: page directories (PDirPool), the       *)
(* identity page tables of the kernel (IDPTbl), page tables in allocated   *)
(* pages, and the operations of MPTComm, MPTKern and MPTNew on them, on    *)
(* top of the containers.                                                  *)
(*                                                                         *)
(* Physical memory is seen as the code sees it, as page tables: mem[p][t]  *)
(* is word t of page p.  IDPTbl lies in pages of the kernel.  A virtual    *)
(* page is the pair <<pde_index, pte_index>> that the code computes from   *)
(* an address with shifts and masks.  An entry is a page number and the    *)
(* set of its flags.                                                       *)
(***************************************************************************)
EXTENDS MContainer

CONSTANTS NPDE,       \* entries of a page directory: 1024
          NPTE,       \* entries of a page table: 1024
          IDPTBL_PI,  \* the page where IDPTbl starts
          MAGIC_PI,   \* the page number in the bits of MagicNumber: 256
          Perms,      \* the permissions that callers map pages with
          Junk,       \* what a page of memory may hold at boot
          Quotas      \* the quotas asked for new processes

PDX == 0 .. NPDE - 1
PTX == 0 .. NPTE - 1
VA  == PDX \X PTX

Flags == {"P", "W", "U", "G"}
Entry == [page : Pages, perm : SUBSET Flags]

ASSUME MPTAssumption ==
    /\ NPDE \in Nat /\ NPTE \in Nat /\ NPDE * NPTE = AT_SIZE
    /\ VM_USERLO_PI % NPTE = 0 /\ VM_USERHI_PI % NPTE = 0
    /\ IDPTBL_PI \in Nat /\ 0 < IDPTBL_PI /\ IDPTBL_PI + NPDE <= VM_USERLO_PI
    /\ MAGIC_PI \in Pages
    /\ Perms \subseteq {f \in SUBSET Flags : "P" \in f}
    /\ Junk \subseteq Entry
    /\ Quotas \subseteq Nat

VARIABLES PDirPool,  \* PDirPool[id][pde_index]
          mem,       \* mem[page][pte_index]
          ret        \* history: the alloc_page that was the last step, if it was one

vmVars == <<PDirPool, mem, ret>>
mptVars == <<cVars, vmVars>>

NoEntry == [page |-> 0, perm |-> {}]
NoCall  == [alloc_page |-> FALSE, id |-> 0, va |-> <<0, 0>>, val |-> NoEntry]

PT_PERM_PTU == {"P", "W", "U"}

\* 1048577 read as an entry: page 256 with the flag PTE_P.
MagicNumber == [page |-> MAGIC_PI, perm |-> {"P"}]

Present(e) == "P" \in e.perm

UserPDX == {d \in PDX : VM_USERLO_PI \div NPTE <= d /\ d < VM_USERHI_PI \div NPTE}
UserVA  == UserPDX \X PTX

IDPTblPage(d) == IDPTBL_PI + d

\* The physical page with the same address as the virtual page v.
PageAt(v) == v[1] * NPTE + v[2]

----------------------------------------------------------------------------
\* Faulty forms of the definitions below, for checking the properties.

\* pdir_init leaves the identity map in place in the user part too.
InitialPDEIdentity(id, d) == [page |-> IDPTblPage(d), perm |-> PT_PERM_PTU]

\* Every identity mapping is global, not only the kernel's.
IdentityPTEGlobal(d, t) == [page |-> PageAt(<<d, t>>), perm |-> {"P", "W", "G"}]

\* The new table is registered but not cleared.
InstallTableDirty(id, v, t, e) ==
    /\ PDirPool' = [PDirPool EXCEPT ![id][v[1]] = [page |-> t, perm |-> PT_PERM_PTU]]
    /\ mem' = [mem EXCEPT ![t][v[2]] = e]

\* The directory entry of a freed table stays.
free_ptblKeepsEntry(id, v) ==
    /\ container_free(id, PDirPool[id][v[1]].page)
    /\ ret' = NoCall
    /\ UNCHANGED <<PDirPool, mem>>

\* The page is not freed when there is none for its table.
AllocTableFailsLeaks(id, v, r) ==
    /\ ~Present(PDirPool[id][v[1]])
    /\ r # 0 /\ PallocReturns(AT, last_palloc_index, r)
    /\ PallocReturns(at_set_allocated(AT, r, 1), r, 0)
    /\ AT' = at_set_allocated(AT, r, 1)
    /\ last_palloc_index' = VM_USERLO_PI
    /\ CONTAINER' = ChargeOnAlloc(id)
    /\ owner' = [owner EXCEPT ![r] = id]
    /\ ret' = [alloc_page |-> TRUE, id |-> id, va |-> v, val |-> MagicNumber]
    /\ UNCHANGED <<NUM_PAGES, PDirPool, mem>>

----------------------------------------------------------------------------
\* MPTIntro and MPTOp.

get_pdir_entry_by_va(id, v) == PDirPool[id][v[1]]

get_ptbl_entry_by_va(id, v) ==
    LET pde == PDirPool[id][v[1]]
        pte == mem[pde.page][v[2]]
    IN  IF Present(pde) /\ Present(pte) THEN pte ELSE NoEntry

TablePDE(t) == [page |-> t, perm |-> PT_PERM_PTU]

\* set_pdir_entry_identity
IdentityPDE(d) == [page |-> IDPTblPage(d), perm |-> PT_PERM_PTU]

\* set_ptbl_entry_identity, with the permissions idptbl_init gives.
IdentityPTE(d, t) ==
    [page |-> PageAt(<<d, t>>),
     perm |-> IF d \in UserPDX THEN {"P", "W"} ELSE {"P", "W", "G"}]

\* set_ptbl_entry and rmv_ptbl_entry: nothing without a page table.
set_ptbl_entry_by_va(id, v, e) ==
    mem' = IF Present(PDirPool[id][v[1]])
             THEN [mem EXCEPT ![PDirPool[id][v[1]].page][v[2]] = e] ELSE mem

rmv_ptbl_entry_by_va(id, v) == set_ptbl_entry_by_va(id, v, NoEntry)

\* pdir_init maps the kernel part in every directory, pdir_init_kern all of
\* directory 0.
InitialPDE(id, d) == IF id = 0 \/ d \notin UserPDX THEN IdentityPDE(d) ELSE NoEntry

MPTInit ==
    /\ CInit
    /\ PDirPool = [id \in ID |-> [d \in PDX |-> InitialPDE(id, d)]]
    /\ \E junk \in [Pages -> Junk] :
          mem = [p \in Pages |->
                   [t \in PTX |-> IF \E d \in PDX : p = IDPTblPage(d)
                                    THEN IdentityPTE(p - IDPTBL_PI, t) ELSE junk[p]]]
    /\ ret = NoCall

AllocPageReturns(id, v, e) == ret' = [alloc_page |-> TRUE, id |-> id, va |-> v, val |-> e]

----------------------------------------------------------------------------
\* What palloc may return.
PallocValues == {0} \cup FreePages(AT)

(***************************************************************************)
(* alloc_ptbl when container_alloc gave it page t: register t, clear it.   *)
(* e is the entry written to v afterwards, NoEntry when there is none.     *)
(***************************************************************************)
InstallTable(id, v, t, e) ==
    /\ PDirPool' = [PDirPool EXCEPT ![id][v[1]] = TablePDE(t)]
    /\ mem' = [mem EXCEPT ![t] = [[x \in PTX |-> NoEntry] EXCEPT ![v[2]] = e]]

alloc_ptbl(id, v) ==
    \E t \in PallocValues :
        /\ container_alloc(id, t)
        /\ IF t = 0 THEN UNCHANGED <<PDirPool, mem>> ELSE InstallTable(id, v, t, NoEntry)
        /\ ret' = NoCall

free_ptbl(id, v) ==
    /\ container_free(id, PDirPool[id][v[1]].page)
    /\ PDirPool' = [PDirPool EXCEPT ![id][v[1]] = NoEntry]
    /\ mem' = mem
    /\ ret' = NoCall

\* map_page with a page table in place.
MapPresent(id, v, e) ==
    /\ Present(get_pdir_entry_by_va(id, v))
    /\ set_ptbl_entry_by_va(id, v, e)
    /\ PDirPool' = PDirPool

map_page(id, v, p, perm) ==
    LET e == [page |-> p, perm |-> perm]
    IN  /\ ret' = NoCall
        /\ \/ MapPresent(id, v, e) /\ UNCHANGED cVars
           \/ /\ ~Present(get_pdir_entry_by_va(id, v))
              /\ \E t \in PallocValues :
                    /\ container_alloc(id, t)
                    /\ IF t = 0 THEN UNCHANGED <<PDirPool, mem>> ELSE InstallTable(id, v, t, e)

unmap_page(id, v) ==
    LET pte == get_ptbl_entry_by_va(id, v)
    IN  /\ IF Present(get_pdir_entry_by_va(id, v)) /\ Present(pte)
             THEN rmv_ptbl_entry_by_va(id, v) ELSE mem' = mem
        /\ ret' = NoCall
        /\ UNCHANGED <<cVars, PDirPool>>

(***************************************************************************)
(* alloc_page, by the way it goes: no page; a page, mapped in the present  *)
(* table; a page r and a page t for a new table; a page r but none for the *)
(* table, so that r is freed again.                                        *)
(***************************************************************************)
AllocNothing(id, v) ==
    /\ container_alloc(id, 0)
    /\ UNCHANGED <<PDirPool, mem>>
    /\ AllocPageReturns(id, v, MagicNumber)

AllocMapped(id, v, perm, r) ==
    /\ MapPresent(id, v, [page |-> r, perm |-> perm])
    /\ r # 0
    /\ IF get_pdir_entry_by_va(id, v) = MagicNumber  \* taken for a failure
         THEN /\ PallocReturns(AT, last_palloc_index, r)
              /\ last_palloc_index' = r
              /\ UNCHANGED <<NUM_PAGES, AT, CONTAINER, owner>>
         ELSE container_alloc(id, r)
    /\ AllocPageReturns(id, v, get_pdir_entry_by_va(id, v))

AllocWithTable(id, v, perm, r, t) ==
    LET at == at_set_allocated(AT, r, 1)
    IN  /\ ~Present(get_pdir_entry_by_va(id, v))
        /\ r # 0 /\ PallocReturns(AT, last_palloc_index, r)
        /\ t # 0 /\ PallocReturns(at, r, t)
        /\ AT' = at_set_allocated(at, t, 1)
        /\ last_palloc_index' = t
        /\ CONTAINER' = [CONTAINER EXCEPT ![id].usage = @ + 2]
        /\ owner' = [owner EXCEPT ![r] = id, ![t] = id]
        /\ InstallTable(id, v, t, [page |-> r, perm |-> perm])
        /\ AllocPageReturns(id, v, TablePDE(t))
        /\ NUM_PAGES' = NUM_PAGES

AllocTableFails(id, v, r) ==
    LET at == at_set_allocated(AT, r, 1)
    IN  /\ ~Present(get_pdir_entry_by_va(id, v))
        /\ r # 0 /\ PallocReturns(AT, last_palloc_index, r)
        /\ PallocReturns(at, r, 0)
        /\ AT' = at_set_allocated(at, r, 0)
        /\ last_palloc_index' = VM_USERLO_PI
        /\ AllocPageReturns(id, v, MagicNumber)
        /\ UNCHANGED <<NUM_PAGES, CONTAINER, owner, PDirPool, mem>>

alloc_page(id, v, perm) ==
    \/ AllocNothing(id, v)
    \/ \E r \in FreePages(AT) : AllocMapped(id, v, perm, r)
    \/ \E r, t \in FreePages(AT) : AllocWithTable(id, v, perm, r, t)
    \/ \E r \in FreePages(AT) : AllocTableFails(id, v, r)

alloc_mem_quota(id, q) ==
    /\ container_split(id, q)
    /\ ret' = NoCall
    /\ UNCHANGED <<PDirPool, mem>>
----------------------------------------------------------------------------
(***************************************************************************)
(* How the layer is used.  The page fault handler and the loader call      *)
(* alloc_page for a user page that is not mapped; map_page, unmap_page,    *)
(* alloc_ptbl and free_ptbl are for user pages of a process other than the *)
(* kernel's process 0, and map_page is given a data page of the process.   *)
(* A split stays within the quota; alloc_page does not ask for the quota.  *)
(***************************************************************************)
TableSlots == {s \in (ID \ {0}) \X UserPDX : Present(PDirPool[s[1]][s[2]])}

TablePages == {PDirPool[s[1]][s[2]].page : s \in TableSlots}

AllocUnmapped(id, v, perm) == get_ptbl_entry_by_va(id, v) = NoEntry /\ alloc_page(id, v, perm)

MapOwn(id, v, perm) == \E p \in Owned(id) \ TablePages : map_page(id, v, p, perm)

NewTable(id, v) == ~Present(get_pdir_entry_by_va(id, v)) /\ alloc_ptbl(id, v)

Spawn(id, q) ==
    /\ CONTAINER[id].usage + q <= CONTAINER[id].quota
    /\ CONTAINER[id].nchildren < MAX_CHILDREN
    /\ alloc_mem_quota(id, q)

MPTNext ==
    \/ \E id \in ID \ {0}, v \in UserVA :
          /\ InUse(id)
          /\ \/ \E perm \in Perms : AllocUnmapped(id, v, perm) \/ MapOwn(id, v, perm)
             \/ unmap_page(id, v)
             \/ NewTable(id, v)
             \/ free_ptbl(id, v)
    \/ \E id \in ID, q \in Quotas : InUse(id) /\ Spawn(id, q)

MPTSpec == MPTInit /\ [][MPTNext]_mptVars

----------------------------------------------------------------------------
(***************************************************************************)
(* Whatever processes map, unmap, allocate and free, the kernel's identity *)
(* map stays as it was set up, without the user flag: all of it in         *)
(* directory 0, under which page tables are written through their physical *)
(* addresses, and the kernel part in every directory, under which traps    *)
(* are entered.                                                            *)
(***************************************************************************)
KernelMapIntact ==
    \A id \in ID, v \in VA :
        id = 0 \/ v[1] \notin UserPDX
          => get_ptbl_entry_by_va(id, v) = IdentityPTE(v[1], v[2])

(***************************************************************************)
(* Every page table belongs to one directory entry of one process, and is  *)
(* a page allocated to that process: a table freed by free_ptbl and given  *)
(* out again is in no directory any more.                                  *)
(***************************************************************************)
TablesPrivate ==
    /\ \A s \in TableSlots : owner[PDirPool[s[1]][s[2]].page] = s[1]
    /\ \A s1, s2 \in TableSlots :
          PDirPool[s1[1]][s1[2]].page = PDirPool[s2[1]][s2[2]].page => s1 = s2

(***************************************************************************)
(* Isolation: a user page of a process is mapped to nothing but a page     *)
(* allocated to that process, never to a page table, to memory of another  *)
(* process, to the kernel's, or to a free page - whatever a reused page    *)
(* held before.                                                            *)
(***************************************************************************)
Isolation ==
    \A id \in ID \ {0}, v \in UserVA :
        LET e == get_ptbl_entry_by_va(id, v)
        IN  Present(e) => owner[e.page] = id /\ e.page \notin TablePages

(***************************************************************************)
(* What makes these inductive.  A page has an owner exactly when it is     *)
(* allocated; the directory entries of the kernel part, and all of         *)
(* directory 0, point to the identity tables, which hold the identity map  *)
(* and lie outside the memory that palloc gives out; a user entry is       *)
(* empty, or points to a table in a page that has an owner.                *)
(***************************************************************************)
MPTTypeOK ==
    /\ owner \in [Pages -> ID \cup {NoID}]
    /\ PDirPool \in [ID -> [PDX -> Entry]]
    /\ mem \in [Pages -> [PTX -> Entry]]

OwnerMarksAllocated == \A p \in Pages : at_is_allocated(AT, p) <=> owner[p] # NoID

KernelEntries ==
    /\ \A id \in ID, d \in PDX : id = 0 \/ d \notin UserPDX => PDirPool[id][d] = IdentityPDE(d)
    /\ \A d \in PDX, t \in PTX : mem[IDPTblPage(d)][t] = IdentityPTE(d, t)

UserEntries ==
    \A id \in ID \ {0}, d \in UserPDX :
        \/ PDirPool[id][d] = NoEntry
        \/ PDirPool[id][d].page \in UserPages /\ PDirPool[id][d] = TablePDE(PDirPool[id][d].page)

MPTInv ==
    /\ ATInv /\ MPTTypeOK /\ OwnerMarksAllocated
    /\ KernelEntries /\ UserEntries /\ TablesPrivate /\ Isolation

\* The mapping that the last operation was about.
LastEntry == get_ptbl_entry_by_va(ret.id, ret.va)

(***************************************************************************)
(* alloc_page does all or nothing.  When it reports MagicNumber nothing is *)
(* allocated, charged or mapped, and memory was short of the page or of    *)
(* its table; otherwise the page is mapped for the process.                *)
(***************************************************************************)
AllocPageContract ==
    [][ret'.alloc_page =>
         IF ret'.val = MagicNumber
           THEN /\ UNCHANGED <<AT, CONTAINER, owner, PDirPool, mem>>
                /\ Cardinality(FreePages(AT))
                      <= IF Present(get_pdir_entry_by_va(ret'.id, ret'.va)) THEN 0 ELSE 1
           ELSE Present(LastEntry') /\ owner[LastEntry'.page] = NoID]_mptVars
=============================================================================
