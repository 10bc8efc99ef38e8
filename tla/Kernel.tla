------------------------------- MODULE Kernel -------------------------------
(***************************************************************************)
(* The kernel at run time: the monitor starts the user process, which runs *)
(* by demand paging until it exits (kern/lib monitor.c, elf.c, trap.c,     *)
(* pmap.c, kern/dev/idt.S), over the page structures of MPT and a CPU with *)
(* a TLB.                                                                  *)
(*                                                                         *)
(* The process is called like a function, so it runs at the privilege of   *)
(* the kernel: the flag PTE_U stops nothing, a missing PTE_W stops writes  *)
(* (enable_paging sets CR0_WP).  It may store to the kernel's memory and   *)
(* to its own code; then anything may follow, and the behaviour is not     *)
(* followed any further (pc = "overwritten").                              *)
(***************************************************************************)
EXTENDS MPT, Sequences

CONSTANTS Image,       \* the pages elf_load maps, in order: [va, perm]
          VM_DYNLINK,  \* the virtual page of the dynamic linkage table
          Touched,     \* the virtual pages that code touches
          Stores       \* what the process stores: <<word of the page, value>>

ASSUME KernelAssumption ==
    /\ Image \in Seq([va : UserVA, perm : Perms])
    /\ VM_DYNLINK \in UserVA
    /\ PT_PERM_PTU \in Perms
    /\ \A f \in Perms : "G" \notin f  \* only idptbl_init maps pages as global
    /\ Touched \subseteq VA
    /\ Stores \subseteq PTX \X Entry  \* a value is seen as the entry it reads as
    /\ NUM_IDS > 1

VARIABLES pc,      \* what runs
          CID,     \* the process, 0 before there is one
          cr3,     \* the number of the directory that is loaded
          tlb,     \* cached translations <<va, entry>>
          loaded,  \* elf_load: the next page of Image
          stored,  \* history: the physical page the loader last stored to
          access   \* the access the process is making

cpuVars == <<cr3, tlb>>
runVars == <<pc, CID, loaded, stored, access>>
kVars   == <<mptVars, cpuVars, runVars>>

NoPage   == AT_SIZE
NoAccess == [va |-> <<0, 0>>, write |-> FALSE, active |-> FALSE]

\* The translations of v that the CPU may use: a cached one, or the tables'.
Translations(v) ==
    {x[2] : x \in {y \in tlb : y[1] = v}} \cup {get_ptbl_entry_by_va(cr3, v)}

\* Loading CR3 drops the cached translations, except the global ones.
set_pdir_base(index) ==
    /\ cr3' = index
    /\ tlb' = {x \in tlb : "G" \in x[2].perm}

----------------------------------------------------------------------------
\* Faulty forms of the definitions below, for checking the properties.

TrapReturnInKernelMap == pc = "resume" /\ pc' = "user"
                           /\ UNCHANGED <<mptVars, cpuVars, CID, loaded, stored, access>>

TrapEntryInUserMap == pc = "trap" /\ pc' = "handle"
                        /\ UNCHANGED <<mptVars, cpuVars, CID, loaded, stored, access>>

\* The translation is read before alloc_page changes it.
StoreToStale(id, v) == stored' = get_ptbl_entry_by_va(id, v).page

FaultPermReadOnly == PT_PERM_PTU \ {"W"}

pgflt_handlerNoNewTable ==
    /\ pc = "handle" /\ pc' = "resume"
    /\ IF Present(get_pdir_entry_by_va(CID, access.va))
         THEN alloc_page(CID, access.va, PT_PERM_PTU) ELSE UNCHANGED mptVars
    /\ UNCHANGED <<cpuVars, CID, loaded, stored, access>>

----------------------------------------------------------------------------
\* paging_init
KInit ==
    /\ MPTInit
    /\ pc = "monitor" /\ CID = 0
    /\ cr3 = 0 /\ tlb = {}
    /\ loaded = 1 /\ stored = NoPage
    /\ access = NoAccess

\* The CPU caches a translation whenever it likes.
FillTLB(v) ==
    LET e == get_ptbl_entry_by_va(cr3, v)
    IN  /\ pc # "overwritten" /\ Present(e)
        /\ tlb' = tlb \cup {<<v, e>>}
        /\ UNCHANGED <<mptVars, cr3, runVars>>

----------------------------------------------------------------------------
\* mon_start_user starts a process once: afterwards it says that one runs.
MayRun == CID = 0

mon_start_user ==
    /\ pc = "monitor" /\ MayRun
    /\ CID' = LET child == ChildIndex(0, CONTAINER[0].nchildren)
              IN  IF NUM_IDS <= child THEN NoID ELSE child
    /\ alloc_mem_quota(0, CONTAINER[0].quota)
    /\ pc' = "load" /\ loaded' = 1
    /\ UNCHANGED <<cpuVars, stored, access>>

\* pt_copyout and pt_memset store to the page that the tables now give for v.
StoreTo(id, v) == stored' = get_ptbl_entry_by_va(id, v)'.page

(***************************************************************************)
(* One page of elf_load: alloc_page, and pt_copyout or pt_memset to the    *)
(* page the process's tables give for it.  These ask alloc_page again when *)
(* there is none, which fails as it did before and changes nothing more;   *)
(* then they store to the page of the empty entry, page 0.                 *)
(***************************************************************************)
elf_load_page ==
    /\ pc = "load" /\ loaded <= Len(Image)
    /\ \E id \in {CID}, page \in {Image[loaded]} :
          alloc_page(id, page.va, page.perm) /\ StoreTo(id, page.va)
    /\ loaded' = loaded + 1
    /\ UNCHANGED <<cpuVars, pc, CID, access>>

\* The dynamic linkage page: pt_copyout to a page that may not be mapped.
elf_load_dll ==
    /\ pc = "load" /\ loaded = Len(Image) + 1
    /\ \E id \in {CID} :
          /\ IF Present(get_ptbl_entry_by_va(id, VM_DYNLINK))
               THEN UNCHANGED mptVars
               ELSE alloc_page(id, VM_DYNLINK, PT_PERM_PTU)
          /\ StoreTo(id, VM_DYNLINK)
    /\ pc' = "enter"
    /\ UNCHANGED <<cpuVars, CID, loaded, access>>

Enter ==
    /\ pc = "enter" /\ pc' = "user"
    /\ set_pdir_base(CID)
    /\ UNCHANGED <<mptVars, CID, loaded, stored, access>>

----------------------------------------------------------------------------
\* The process.
BeginAccess(v, write) ==
    /\ pc = "user" /\ ~access.active
    /\ access' = [va |-> v, write |-> write, active |-> TRUE]
    /\ UNCHANGED <<mptVars, cpuVars, pc, CID, loaded, stored>>

Permits(e) == Present(e) /\ (access.write => "W" \in e.perm)

InImage(v) == \E i \in DOMAIN Image : Image[i].va = v

\* Memory of the process that is neither its program nor a page table.
OwnData(e) == owner[e.page] = CID /\ e.page \notin TablePages /\ ~InImage(access.va)

\* A word of the page changes, whatever the page holds.
StoreWord(e, s) ==
    /\ mem' = [mem EXCEPT ![e.page][s[1]] = s[2]]
    /\ IF OwnData(e)
         THEN access' = NoAccess /\ pc' = pc
         ELSE access' = [access EXCEPT !.active = FALSE] /\ pc' = "overwritten"

CompleteAccess ==
    /\ pc = "user" /\ access.active
    /\ \E e \in Translations(access.va) :
          /\ Permits(e)
          /\ IF access.write THEN \E s \in Stores : StoreWord(e, s)
             ELSE access' = NoAccess /\ UNCHANGED <<mem, pc>>
    /\ UNCHANGED <<cVars, PDirPool, ret, cpuVars, CID, loaded, stored>>

PageFault ==
    /\ pc = "user" /\ access.active
    /\ \E e \in Translations(access.va) : ~Permits(e)
    /\ pc' = "trap"
    /\ UNCHANGED <<mptVars, cpuVars, CID, loaded, stored, access>>

\* The process returns: the monitor goes on, with the same directory loaded.
Exit ==
    /\ pc = "user" /\ ~access.active
    /\ pc' = "monitor"
    /\ UNCHANGED <<mptVars, cpuVars, CID, loaded, stored, access>>

----------------------------------------------------------------------------
\* trap, for T_PGFLT.
TrapEntry ==
    /\ pc = "trap" /\ pc' = "handle"
    /\ set_pdir_base(0)
    /\ UNCHANGED <<mptVars, CID, loaded, stored, access>>

\* The bit PFE_PR of the error code: the fault was on a page that is present.
Protection == Present(get_ptbl_entry_by_va(CID, access.va))

FaultPerm == PT_PERM_PTU

\* What alloc_page returns is ignored.
pgflt_handler ==
    /\ pc = "handle"
    /\ IF Protection
         THEN pc' = "panic" /\ UNCHANGED mptVars
         ELSE pc' = "resume" /\ alloc_page(CID, access.va, FaultPerm)
    /\ UNCHANGED <<cpuVars, CID, loaded, stored, access>>

TrapReturn ==
    /\ pc = "resume" /\ pc' = "user"
    /\ set_pdir_base(CID)
    /\ UNCHANGED <<mptVars, CID, loaded, stored, access>>

----------------------------------------------------------------------------
KernelStep ==
    \/ elf_load_page \/ elf_load_dll \/ Enter
    \/ TrapEntry \/ pgflt_handler \/ TrapReturn

AccessStep == CompleteAccess \/ PageFault

KNext ==
    \/ mon_start_user \/ KernelStep \/ AccessStep \/ Exit
    \/ \E v \in Touched : FillTLB(v) \/ \E write \in BOOLEAN : BeginAccess(v, write)

(***************************************************************************)
(* The CPU goes on executing, with one thread and interrupts off.  Nothing *)
(* obliges a user to type runproc, or the process to access memory.        *)
(***************************************************************************)
KSpec == KInit /\ [][KNext]_kVars /\ WF_kVars(KernelStep) /\ WF_kVars(AccessStep)

----------------------------------------------------------------------------
(***************************************************************************)
(* Page tables are written through their physical addresses.  Whenever the *)
(* loader or the fault handler does so, every translation the CPU may use, *)
(* cached or not, is the identity - though the monitor itself goes on      *)
(* under the directory of a process that has exited.                       *)
(***************************************************************************)
PhysicalView ==
    pc \in {"load", "handle"} =>
        \A v \in VA : \A e \in Translations(v) : Present(e) /\ e.page = PageAt(v)

(***************************************************************************)
(* No stale translation: what the TLB holds is what the loaded directory   *)
(* says, across every change of CR3, and though nothing ever invalidates a *)
(* single entry.                                                           *)
(***************************************************************************)
TLBCoherent == pc # "overwritten" => \A x \in tlb : x[2] = get_ptbl_entry_by_va(cr3, x[1])

(***************************************************************************)
(* The process runs in its own address space: whatever translation the CPU *)
(* uses for a user page, it leads to memory of the process.  So only a     *)
(* store to a kernel address, or to the program itself, goes over anything *)
(* that the kernel or the program relies on.                               *)
(***************************************************************************)
UserHitsOwn ==
    /\ pc = "user" =>
         \A v \in UserVA : \A e \in Translations(v) :
             Present(e) => owner[e.page] = CID /\ e.page \notin TablePages
    /\ pc = "overwritten" => access.write /\ (access.va \notin UserVA \/ InImage(access.va))

(***************************************************************************)
(* A fault stops the machine only for a write to a page that the program   *)
(* was linked as read-only; faults are never on kernel addresses, where    *)
(* alloc_page would change the tables that all directories share.          *)
(***************************************************************************)
FaultsJustified ==
    /\ pc = "panic" =>
         access.write /\ \E i \in DOMAIN Image :
                            Image[i].va = access.va /\ "W" \notin Image[i].perm
    /\ pc \in {"trap", "handle"} => access.va \in UserVA

\* The free pages alloc_page needs for v.
PagesNeeded(v) == IF Present(get_pdir_entry_by_va(CID, v)) THEN 1 ELSE 2

(***************************************************************************)
(* Demand paging works: an access of the process completes, possibly after *)
(* a fault, unless it must not, or memory is exhausted (then the process   *)
(* faults for ever, since trap does not look at alloc_page's result).      *)
(***************************************************************************)
AccessCompletes ==
    access.active ~>
        \/ ~access.active
        \/ pc = "panic"
        \/ Cardinality(FreePages(AT)) < PagesNeeded(access.va)

(***************************************************************************)
(* What is loaded gets into the process: each page of the image and the    *)
(* dynamic linkage page is stored to memory of the process, unless memory  *)
(* is exhausted, when alloc_page fails unnoticed and the store goes to     *)
(* physical page 0.                                                        *)
(***************************************************************************)
LoaderStoresInProcess ==
    pc # "overwritten" =>
        /\ stored \notin {NoPage, 0} => owner[stored] = CID
        /\ stored = 0 => Cardinality(FreePages(AT)) <= 1

(***************************************************************************)
(* What makes these inductive.  The process, once there is one, is process *)
(* 1; the directory that is loaded follows from what runs; the TLB holds   *)
(* translations of the loaded directory, and global ones only of the       *)
(* kernel part, which is the same in every directory; the user pages of    *)
(* the process have the permissions of the loader or of the fault handler; *)
(* an access that faults is one that the tables really deny.               *)
(***************************************************************************)
RunTypeOK ==
    /\ pc \in {"monitor", "load", "enter", "user", "trap", "handle", "resume", "panic"}
    /\ CID \in {0, 1}
    /\ CID = 0 => pc = "monitor" /\ CONTAINER[0].nchildren = 0 /\ stored = NoPage
    /\ loaded \in Nat \ {0}
    /\ stored \in Pages \cup {NoPage}
    /\ access \in [va : VA, write : BOOLEAN, active : BOOLEAN]

DirectoryLoaded ==
    cr3 = IF pc \in {"load", "enter", "handle", "resume", "panic"} THEN 0 ELSE CID

TLBSound ==
    \A x \in tlb : /\ x[1] \in VA
                   /\ x[2] = get_ptbl_entry_by_va(cr3, x[1])
                   /\ "G" \in x[2].perm => x[1][1] \notin UserPDX

UserPermissions ==
    \A v \in UserVA :
        Present(get_ptbl_entry_by_va(1, v)) =>
            \/ get_ptbl_entry_by_va(1, v).perm = PT_PERM_PTU
            \/ \E i \in DOMAIN Image :
                  Image[i].va = v /\ Image[i].perm = get_ptbl_entry_by_va(1, v).perm

FaultDenied ==
    pc \in {"trap", "handle"} => ~Permits(get_ptbl_entry_by_va(CID, access.va))

RunInv ==
    /\ MPTInv /\ RunTypeOK /\ DirectoryLoaded /\ TLBSound /\ UserPermissions
    /\ FaultDenied /\ FaultsJustified /\ LoaderStoresInProcess

KInv == IF pc = "overwritten" THEN UserHitsOwn ELSE RunInv
=============================================================================
