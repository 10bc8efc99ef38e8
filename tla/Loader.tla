------------------------------- MODULE Loader -------------------------------
(***************************************************************************)
(* elf_load: the bytes of the user program, from the file that was linked  *)
(* into the kernel's data, to the memory of the process (kern/lib/elf.c,   *)
(* and pt_copyin, pt_copyout and pt_memset of kern/lib/pmap.c).            *)
(*                                                                         *)
(* The process's memory is kept by virtual address: alloc_page maps a page *)
(* of its own, of unknown contents, in place of any that was there (the    *)
(* modules MPT and Kernel have the tables, and what happens when no page   *)
(* is left).  Physical memory and kernel addresses are the same here.      *)
(***************************************************************************)
EXTENDS Boot

CONSTANTS VM_USERLO, VM_USERHI, VM_DYNLINK,
          ADDRESSES,  \* addresses and lengths are modulo this: 2^32
          Programs,   \* user programs
          CopyArgs    \* arguments for a copy: [kva, uva, len]

VARIABLES prog,   \* the headers of the user program
          user,   \* the process's memory: bytes, and permissions of pages
          page,   \* the loop over a segment's pages: va, and fa in the kernel
          last    \* history: the last call of pt_copyin or pt_copyout

loadVars == <<prog, user, page, last>>

UAddr     == VM_USERLO .. VM_USERHI - 1
PageOf(a) == a \div PAGESIZE
UPage     == {PageOf(a) : a \in UAddr}
PT_USER   == {"P", "U", "W"}

NoProgram == [magic |-> FALSE, strtab |-> FALSE, phs |-> <<>>]
NoLast    == [op |-> "none"]
Between   == [va |-> 0, fa |-> 0]  \* not inside a segment

\* A header of the program's file.
ProgramHeader == [load : BOOLEAN, offset : Nat, va : Nat, filesz : Nat, memsz : Nat, write : BOOLEAN]

(***************************************************************************)
(* What the linker makes of the program (see Linked), and of the kernel:   *)
(* the program's file and dll are in one segment, as initialized data, and *)
(* multiboot_ptr is not among them.  A copy is between the process and the *)
(* kernel's own memory, if it is of addresses that do not wrap.            *)
(***************************************************************************)
InData(m, f) ==
    /\ m.kernel.exe \in f /\ m.kernel.dll \in Nat /\ m.kernel.dll .. m.kernel.dll + PAGESIZE - 1 \subseteq f
    /\ \A p \in Programs : \A i \in DOMAIN p.phs :
          p.phs[i].load => m.kernel.exe .. m.kernel.exe + p.phs[i].offset + p.phs[i].filesz - 1 \subseteq f

ASSUME LoaderAssumption ==
    /\ VM_USERLO \in Nat /\ VM_USERHI \in Nat
    /\ VM_USERLO % PAGESIZE = 0 /\ VM_USERHI % PAGESIZE = 0 /\ KMEM <= VM_USERLO
    /\ ADDRESSES \in Nat /\ VM_USERHI < ADDRESSES
    /\ VM_DYNLINK % PAGESIZE = 0 /\ VM_DYNLINK \in UAddr
    /\ \A p \in Programs : p.phs \in Seq(ProgramHeader)
    /\ \A p \in Programs : \A i \in DOMAIN p.phs :
          p.phs[i].load =>
            /\ p.phs[i].va % PAGESIZE = p.phs[i].offset % PAGESIZE
            /\ p.phs[i].filesz <= p.phs[i].memsz
            /\ VM_USERLO <= p.phs[i].va /\ p.phs[i].va + p.phs[i].memsz <= VM_USERHI
    /\ \A m \in Machines : \E i \in DOMAIN m.kernel.phs :
          InData(m, FilePart(m.kernel.phs[i]) \ {m.kernel.multiboot_ptr})
    /\ CopyArgs \subseteq [kva : 0 .. ADDRESSES - 1, uva : 0 .. ADDRESSES - 1, len : 0 .. ADDRESSES - 1]
    /\ \A a \in CopyArgs : a.kva + a.len <= VM_USERHI => a.kva + a.len <= KMEM

----------------------------------------------------------------------------
\* Faulty forms of the definitions below, for checking the properties.

\* A piece of a copy is a page, wherever in a page it starts.
PieceSizeWhole(uva, len) == IF len < PAGESIZE THEN len ELSE PAGESIZE

\* The end of the file part is rounded up: what follows it is copied too.
CompletePageRounded(va, zva) == va < Roundup(zva, PAGESIZE)

----------------------------------------------------------------------------
\* pmap.c

alloc_page(u, va, perm) ==
    [mem   |-> [x \in UAddr |-> IF PageOf(x) = PageOf(va) THEN Junk ELSE u.mem[x]],
     pages |-> [u.pages EXCEPT ![PageOf(va)] = perm]]

\* The page at va, allocated now if it is not present.
Present(u, va) == IF "P" \in u.pages[PageOf(va)] THEN u ELSE alloc_page(u, va, PT_USER)

\* Up to the end of the page.
PieceSize(uva, len) == IF len < PAGESIZE - (uva % PAGESIZE) THEN len ELSE PAGESIZE - (uva % PAGESIZE)

\* The test that both copies begin with.  Its sums wrap.
Accepts(kva, uva, len) ==
    /\ VM_USERLO <= uva /\ (uva + len) % ADDRESSES <= VM_USERHI
    /\ (kva + len) % ADDRESSES <= VM_USERHI

\* The last address is in the range, or just before its end.
Wraps(kva, uva, len) == uva + len >= ADDRESSES \/ kva + len >= ADDRESSES

(***************************************************************************)
(* One round of the loop of pt_copyout or pt_memset, v.done bytes into     *)
(* [uva, uva + len): a store through the physical address of the page at   *)
(* va, so that what goes past its end is not in the next virtual page.     *)
(***************************************************************************)
StoreRound(v, uva, len, byte) ==
    LET va   == uva + v.done
        size == PieceSize(va, len - v.done)
        u    == Present(v.user, va)
    IN  IF v.done = len THEN v
        ELSE [user |-> [mem   |-> [x \in UAddr |-> IF In(x, va, size) /\ PageOf(x) = PageOf(va)
                                                     THEN byte[x - uva] ELSE u.mem[x]],
                        pages |-> u.pages],
              done |-> v.done + size]

\* A round does a byte or more, so that len of them are enough.
Store(u, uva, len, byte) ==
    LET after[k \in 0 .. len] ==
          IF k = 0 THEN [user |-> u, done |-> 0] ELSE StoreRound(after[k - 1], uva, len, byte)
    IN  after[len].user

pt_copyout(u, kva, uva, len) ==
    IF Accepts(kva, uva, len) THEN Store(u, uva, len, [i \in 0 .. len - 1 |-> kmem[kva + i]]) ELSE u

pt_memset(u, va, c, len) == Store(u, va, len, [i \in 0 .. len - 1 |-> c])

\* The same for pt_copyin, which loads through the physical address.
LoadRound(v, uva, kva, len) ==
    LET va   == uva + v.done
        size == PieceSize(va, len - v.done)
        u    == Present(v.user, va)
    IN  IF v.done = len THEN v
        ELSE [user |-> u,
              kmem |-> [x \in KAddr |-> IF In(x, kva + v.done, size) /\ PageOf(x - kva + uva) = PageOf(va)
                                          THEN u.mem[x - kva + uva] ELSE v.kmem[x]],
              done |-> v.done + size]

pt_copyin(u, k, uva, kva, len) ==
    LET after[i \in 0 .. len] ==
          IF i = 0 THEN [user |-> u, kmem |-> k, done |-> 0] ELSE LoadRound(after[i - 1], uva, kva, len)
    IN  after[len]

----------------------------------------------------------------------------
\* elf.c

LoadInit ==
    /\ BootInit
    /\ prog = NoProgram
    /\ user = [mem |-> [x \in UAddr |-> Junk], pages |-> [p \in UPage |-> {}]]
    /\ page = Between /\ last = NoLast

\* mon_start_user; the assertions of elf_load.
elf_load(p) ==
    /\ pc = "main" /\ prog' = p
    /\ pc' = IF p.magic /\ p.strtab THEN "elf_load" ELSE "panic"
    /\ ph' = 1
    /\ UNCHANGED <<machine, smap, row, mbi, kmem, section, user, page, last>>

Header    == prog.phs[ph]
HeaderEnd == Roundup(Header.va + Header.memsz, PAGESIZE)
Perm(s)   == IF s.write THEN {"P", "U", "W"} ELSE {"P", "U"}

\* The next program header: skipped, or the start of its pages.
NextHeader ==
    /\ pc = "elf_load" /\ page = Between /\ ph <= Len(prog.phs)
    /\ IF Header.load
         THEN /\ page' = [va |-> Rounddown(Header.va, PAGESIZE),
                          fa |-> Kernel.exe + Rounddown(Header.offset, PAGESIZE)]
              /\ ph' = ph
         ELSE ph' = ph + 1 /\ page' = page
    /\ UNCHANGED <<machine, pc, smap, row, mbi, kmem, section, prog, user, last>>

CompletePage(va, zva) == va < Rounddown(zva, PAGESIZE)

\* One page of a segment: complete, partial, or without a part of the file.
LoadPage ==
    LET zva   == Header.va + Header.filesz
        fresh == alloc_page(user, page.va, Perm(Header))
        zero  == pt_memset(fresh, page.va, 0, PAGESIZE)
    IN  /\ pc = "elf_load" /\ page # Between /\ page.va < HeaderEnd
        /\ user' = IF CompletePage(page.va, zva) THEN pt_copyout(fresh, page.fa, page.va, PAGESIZE)
                   ELSE IF page.va < zva /\ Header.filesz # 0
                          THEN pt_copyout(zero, page.fa, page.va, zva - page.va)
                   ELSE zero
        /\ page' = [va |-> page.va + PAGESIZE, fa |-> page.fa + PAGESIZE]
        /\ UNCHANGED <<bootVars, prog, last>>

SegmentEnd ==
    /\ pc = "elf_load" /\ page # Between /\ page.va >= HeaderEnd
    /\ ph' = ph + 1 /\ page' = Between
    /\ UNCHANGED <<machine, pc, smap, row, mbi, kmem, section, prog, user, last>>

\* The dynamic linkage page, the last thing to do.
LoadDll ==
    /\ pc = "elf_load" /\ page = Between /\ ph > Len(prog.phs)
    /\ user' = pt_copyout(user, Kernel.dll, VM_DYNLINK, PAGESIZE)
    /\ pc' = "loaded"
    /\ UNCHANGED <<machine, smap, row, mbi, kmem, section, ph, prog, page, last>>

----------------------------------------------------------------------------
\* A copy between the kernel and the process, once it is loaded.  One call is
\* made, from every state that loading leads to: that is a bound.
MayCopy == pc = "loaded" /\ last = NoLast

Record(op, a, accepted) ==
    [op |-> op, args |-> a, ret |-> IF accepted THEN a.len ELSE 0, user |-> user, kmem |-> kmem]

Astray(a) == Accepts(a.kva, a.uva, a.len) /\ Wraps(a.kva, a.uva, a.len)

CopyOut(a) ==
    /\ ~Astray(a)
    /\ user' = pt_copyout(user, a.kva, a.uva, a.len)
    /\ last' = Record("out", a, Accepts(a.kva, a.uva, a.len))
    /\ UNCHANGED <<bootVars, prog, page>>

CopyIn(a) ==
    /\ ~Astray(a)
    /\ IF Accepts(a.kva, a.uva, a.len)
         THEN LET v == pt_copyin(user, kmem, a.uva, a.kva, a.len) IN user' = v.user /\ kmem' = v.kmem
         ELSE UNCHANGED <<user, kmem>>
    /\ last' = Record("in", a, Accepts(a.kva, a.uva, a.len))
    /\ UNCHANGED <<machine, pc, smap, row, mbi, section, ph, prog, page>>

(***************************************************************************)
(* A copy in either direction that the test lets through because a sum     *)
(* wraps: it goes on to the last address, and from address 0, over memory  *)
(* that is neither the process's nor the buffer's, so that the behaviour   *)
(* is not followed any further.                                            *)
(***************************************************************************)
CopyAstray(a) ==
    /\ Astray(a) /\ pc' = "astray"
    /\ last' = [op |-> "astray", args |-> a]
    /\ UNCHANGED <<machine, smap, row, mbi, kmem, section, ph, prog, user, page>>

ElfStep == NextHeader \/ LoadPage \/ SegmentEnd \/ LoadDll

LoadNext ==
    \/ BootNext /\ UNCHANGED loadVars
    \/ pc = "main" /\ \E p \in Programs : elf_load(p)
    \/ ElfStep
    \/ MayCopy /\ \E a \in CopyArgs : CopyOut(a) \/ CopyIn(a) \/ CopyAstray(a)

LoadSpec == LoadInit /\ [][LoadNext]_<<bootVars, loadVars>>

----------------------------------------------------------------------------
\* The byte of the disk that is byte o of the program's file, and of dll.
DataSegment    == CHOOSE i \in DOMAIN Kernel.phs : Kernel.exe \in FilePart(Kernel.phs[i])
KernelByte(x)  == FileByte(Kernel.phs[DataSegment].offset + x - Phys(Kernel.phs[DataSegment]))
ProgramByte(o) == KernelByte(Kernel.exe + o)

\* The pages and the bytes of a segment, and of its part of the file.
PagesOf(s) == IF s.load THEN {p \in UPage : Rounddown(s.va, PAGESIZE) <= p * PAGESIZE
                                              /\ p * PAGESIZE < Roundup(s.va + s.memsz, PAGESIZE)} ELSE {}
InFile(s)  == {x \in UAddr : In(x, s.va, s.filesz)}
Bss(s)     == {x \in UAddr : In(x, s.va + s.filesz, s.memsz - s.filesz)}

\* The segments after i that have a page in common with x, and those of them
\* that bring the same bytes of the file along with their own.
Later(i, x) == {j \in DOMAIN prog.phs : j > i /\ PageOf(x) \in PagesOf(prog.phs[j])}

BringsToo(i, j, x) ==
    LET s == prog.phs[i]  t == prog.phs[j]
    IN  t.va - t.offset = s.va - s.offset /\ t.filesz > 0 /\ x < t.va + t.filesz

(***************************************************************************)
(* The process starts with the bytes that are in its file on the disk, and *)
(* zeros after them, in pages writable as the last segment says, and with  *)
(* the dynamic linkage table, through both loaders and their rounding to   *)
(* sectors and pages.  A later segment takes a page that it shares from an *)
(* earlier one, with its bss; file bytes survive if both lie together in   *)
(* the file.                                                               *)
(***************************************************************************)
ProgramLoaded ==
    pc = "loaded" /\ last.op = "none" =>
        /\ \A i \in DOMAIN prog.phs :
              LET s == prog.phs[i]
              IN  s.load =>
                    /\ \A x \in InFile(s) :
                          PageOf(x) # PageOf(VM_DYNLINK) /\ (\A j \in Later(i, x) : BringsToo(i, j, x))
                             => user.mem[x] = ProgramByte(s.offset + x - s.va)
                    /\ \A x \in Bss(s) :
                          PageOf(x) # PageOf(VM_DYNLINK) /\ Later(i, x) = {} => user.mem[x] = 0
                    /\ \A p \in PagesOf(s) :
                          Later(i, p * PAGESIZE) = {} => ("W" \in user.pages[p] <=> s.write)
        /\ \A x \in 0 .. PAGESIZE - 1 : user.mem[VM_DYNLINK + x] = KernelByte(Kernel.dll + x)

\* The bytes of pages that were present, except those of [uva, uva + n).
Unmoved(u, v, uva, n) ==
    \A x \in UAddr : "P" \in u.pages[PageOf(x)] /\ ~In(x, uva, n) => v.mem[x] = u.mem[x]

(***************************************************************************)
(* A copy moves all of its bytes, over any page boundaries and pages that  *)
(* were not there, or none; it changes no other byte, and no permission of *)
(* a page that was there.  Only one whose range has the last address in it *)
(* or just before its end may do otherwise.                                *)
(***************************************************************************)
CopiesAgree ==
    /\ pc = "astray" => last.op = "astray" /\ Wraps(last.args.kva, last.args.uva, last.args.len)
    /\ last.op \in {"out", "in"} =>
        LET a == last.args  n == last.ret
        IN  /\ \A i \in 0 .. n - 1 : user.mem[a.uva + i] = kmem[a.kva + i]
            /\ Unmoved(last.user, user, a.uva, IF last.op = "out" THEN n ELSE 0)
            /\ \A x \in KAddr : last.op = "out" \/ ~In(x, a.kva, n) => kmem[x] = last.kmem[x]
            /\ \A p \in UPage : "P" \in last.user.pages[p] => user.pages[p] = last.user.pages[p]
            /\ n = 0 => user = last.user

(***************************************************************************)
(* What makes this inductive: the kernel's data is as it was loaded until  *)
(* a copy is made; and every page that segments have been loaded to holds  *)
(* what the last of them brings, to the page's end: its file's bytes, also *)
(* those before the segment, and zeros.                                    *)
(***************************************************************************)
User == [mem : [UAddr -> Int], pages : [UPage -> SUBSET PT_USER]]

NoCopy == last = NoLast

DataInv ==
    /\ machine \in Machines /\ kmem \in [KAddr -> Int] /\ user \in User
    /\ pc \notin {"elf_load", "loaded"} => page = Between
    /\ pc \notin {"loaded", "astray"} => NoCopy
    /\ NoCopy \/ last.op # "none"
    /\ pc \in {"elf_load", "loaded"} /\ NoCopy =>
          \A i \in DOMAIN Kernel.phs : \A x \in FilePart(Kernel.phs[i]) \ {Kernel.multiboot_ptr} :
             kmem[x] = FileByte(Kernel.phs[i].offset + x - Phys(Kernel.phs[i]))

PageInv ==
    /\ pc \in {"elf_load", "loaded"} => prog \in Programs /\ ph \in 1 .. Len(prog.phs) + 1
    /\ pc = "loaded" => ph = Len(prog.phs) + 1 /\ page = Between
    /\ page # Between =>
          /\ ph <= Len(prog.phs) /\ Header.load
          /\ page.va \in Nat /\ page.va % PAGESIZE = 0 /\ Rounddown(Header.va, PAGESIZE) <= page.va
          /\ page = [va |-> page.va, fa |-> Kernel.exe + Header.offset + page.va - Header.va]

\* Segment i has been loaded to page p.
HasLoaded(i, p) ==
    /\ p \in PagesOf(prog.phs[i])
    /\ i < ph \/ (i = ph /\ page # Between /\ p * PAGESIZE < page.va)

SegmentByte(s, x) == IF s.filesz > 0 /\ x < s.va + s.filesz THEN kmem[Kernel.exe + s.offset + x - s.va] ELSE 0

PageHolds(s, p) ==
    /\ user.pages[p] = Perm(s)
    /\ pc = "elf_load" \/ p # PageOf(VM_DYNLINK) =>
          \A x \in UAddr : PageOf(x) = p => user.mem[x] = SegmentByte(s, x)

SegmentsInv ==
    pc \in {"elf_load", "loaded"} /\ NoCopy =>
        /\ \A i \in DOMAIN prog.phs : \A p \in UPage :
              HasLoaded(i, p) /\ (\A j \in DOMAIN prog.phs : j > i => ~HasLoaded(j, p)) => PageHolds(prog.phs[i], p)
        /\ pc = "loaded" => \A x \in UAddr : PageOf(x) = PageOf(VM_DYNLINK) =>
                               user.mem[x] = kmem[Kernel.dll + x - VM_DYNLINK]

LoadInv == DataInv /\ PageInv /\ SegmentsInv /\ CopiesAgree
=============================================================================
