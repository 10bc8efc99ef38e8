-------------------------------- MODULE Boot --------------------------------
(***************************************************************************)
(* From the BIOS to the first C code of the kernel: boot0 reads boot1,     *)
(* boot1 asks the BIOS for its memory map and loads the kernel's segments  *)
(* from the first bootable partition, sector by sector, and the kernel     *)
(* sets up its stack and clears its bss (boot/boot0, boot/boot1,           *)
(* kern/init/entry.S, kern/lib/seg.c).                                     *)
(*                                                                         *)
(* A byte of the disk is its position, so that every byte is told from     *)
(* every other.  The headers of the kernel's file are a record: load_kernel*)
(* reads them from the eight sectors at ELFHDR.                            *)
(***************************************************************************)
EXTENDS Integers, Sequences, FiniteSets

CONSTANTS SECTOR_SIZE, PAGESIZE,
          SMAP_ROWS, \* rows that boot1 has reserved for the memory map
          KMEM,      \* bytes of memory that the kernel may be loaded to
          ELFHDR,    \* where the headers are read to
          MASK,      \* 0xFFFFFF + 1: the part of an address the loader uses
          Machines   \* partition tables, kernels, and maps of the BIOS

VARIABLES machine,   \* what the machine boots: a constant of the behaviour
          pc,
          smap, row, \* the memory map as boot1.S stores it, and its rows so far
          mbi,       \* how many rows parse_e820 found in it
          kmem,      \* memory, by physical address
          section,   \* the call of readsection: va, end_va, the next sector
          ph         \* the program header that is being loaded

bootVars == <<machine, pc, smap, row, mbi, kmem, section, ph>>

Junk    == -1
MBI     == -2  \* the address of mboot_info
ZeroRow == [base |-> 0, length |-> 0, type |-> 0]
Idle    == [va |-> 0, end_va |-> 0, sector |-> 0]
HEADER  == 8   \* the sectors read for the headers

KAddr   == 0 .. KMEM - 1
Kernel  == machine.kernel
Disk(s) == [i \in 0 .. SECTOR_SIZE - 1 |-> s * SECTOR_SIZE + i]

Rounddown(a, n) == a - (a % n)
Roundup(a, n)   == Rounddown(a + n - 1, n)
In(x, a, n)     == a <= x /\ x < a + n

\* Where a segment is loaded: its address without the high bits.
Phys(s) == s.va % MASK

(***************************************************************************)
(* What the linker makes of the kernel: each segment is as far into a page *)
(* of the file as it is into a page of memory, segments are in increasing  *)
(* order, away from the headers, and share a sector only if they are       *)
(* together in the file too; initialized data ends at edata, and the bss,  *)
(* with the stack, at end.  A header without memory (the one for the       *)
(* stack's permissions) has no address.                                    *)
(***************************************************************************)
Segment == [offset : Nat, va : Nat, filesz : Nat, memsz : Nat]

Linked(k) ==
    /\ k.phs \in Seq(Segment)
    /\ \A i \in DOMAIN k.phs :
          LET s == k.phs[i]
          IN  IF s.memsz = 0 THEN Phys(s) % SECTOR_SIZE = 0
              ELSE /\ s.va % PAGESIZE = s.offset % PAGESIZE
                   /\ s.filesz <= s.memsz
                   /\ Phys(s) + s.filesz <= k.edata /\ Phys(s) + s.memsz <= k.end
                   /\ Rounddown(Phys(s), SECTOR_SIZE) >= ELFHDR + HEADER * SECTOR_SIZE
                   /\ \A j \in 1 .. i - 1 :
                         LET t == k.phs[j]
                         IN  t.memsz > 0 =>
                               /\ Phys(t) + t.memsz <= Phys(s)
                               /\ \/ Phys(t) + t.memsz <= Rounddown(Phys(s), SECTOR_SIZE)
                                  \/ Phys(s) - s.offset = Phys(t) - t.offset
    /\ k.edata \in Nat /\ k.kstack \in Nat /\ k.end \in Nat /\ k.multiboot_ptr \in KAddr
    /\ k.edata <= k.kstack /\ k.kstack + PAGESIZE <= k.end /\ k.end <= KMEM

MapRow == [base : Nat, length : Nat, type : Nat]

ASSUME BootAssumption ==
    /\ SMAP_ROWS \in Nat \ {0}
    /\ SECTOR_SIZE \in Nat \ {0} /\ PAGESIZE \in Nat \ {0} /\ PAGESIZE % SECTOR_SIZE = 0
    /\ MASK \in Nat \ {0} /\ MASK % PAGESIZE = 0 /\ KMEM \in Nat /\ KMEM <= MASK
    /\ ELFHDR \in Nat /\ ELFHDR % SECTOR_SIZE = 0 /\ ELFHDR + HEADER * SECTOR_SIZE <= KMEM
    /\ \A m \in Machines :
          /\ Linked(m.kernel)
          /\ m.table \in [1 .. 4 -> [bootable : BOOLEAN, first_lba : Nat]]
          /\ m.map \in Seq(MapRow \ {ZeroRow}) /\ m.map # <<>>

----------------------------------------------------------------------------
\* Faulty forms of the definitions below, for checking the properties.

\* The stack that the kernel is running on is cleared with the rest.
BssWithStack(x) == Kernel.edata <= x /\ x < Kernel.end

----------------------------------------------------------------------------
BootInit ==
    /\ machine \in Machines
    /\ pc = "boot0"
    /\ smap = [i \in 1 .. SMAP_ROWS |-> ZeroRow] /\ row = 0 /\ mbi = 0
    /\ kmem = [x \in KAddr |-> Junk]
    /\ section = Idle /\ ph = 0

\* hlt with interrupts off, after a message.
Halt == pc' = "halted"

\* load_boot1: the BIOS reads boot1, or fails.
LoadBoot1 ==
    /\ pc = "boot0" /\ (pc' = "e820" \/ Halt)
    /\ UNCHANGED <<machine, smap, row, mbi, kmem, section, ph>>

(***************************************************************************)
(* One call of the BIOS for the next row of its map.  After the last row   *)
(* the one that follows is cleared; a failure of any call is the end.      *)
(* Nothing stops the rows, or the cleared one, at the end of the space for *)
(* them: there they go over boot1's own code, and the behaviour is not     *)
(* followed any further.                                                   *)
(***************************************************************************)
LastRow == row + 1 = Len(machine.map)
Overrun == row + (IF LastRow THEN 2 ELSE 1) > SMAP_ROWS

E820 ==
    /\ pc = "e820"
    /\ \/ Halt /\ UNCHANGED <<smap, row>>
       \/ /\ smap' = [i \in 1 .. SMAP_ROWS |->
                         IF i = row + 1 THEN machine.map[i]
                         ELSE IF LastRow /\ i = row + 2 THEN ZeroRow ELSE smap[i]]
          /\ row' = row + 1
          /\ pc' = IF Overrun THEN "overrun" ELSE IF LastRow THEN "boot1main" ELSE "e820"
    /\ UNCHANGED <<machine, mbi, kmem, section, ph>>

\* parse_e820 counts rows until it meets one of zeros.
parse_e820 == CHOOSE n \in 0 .. Len(smap) - 1 : smap[n + 1] = ZeroRow /\ \A i \in 1 .. n : smap[i] # ZeroRow

Bootable == {i \in DOMAIN machine.table : machine.table[i].bootable}

bootable_lba == machine.table[CHOOSE i \in Bootable : \A j \in Bootable : i <= j].first_lba

\* readsection: the addresses are rounded to sectors, the end is not.
readsection(va, count, offset) ==
    section' = [va     |-> Rounddown(va % MASK, SECTOR_SIZE),
                end_va |-> (va % MASK) + count,
                sector |-> (offset \div SECTOR_SIZE) + bootable_lba]

boot1main ==
    /\ pc = "boot1main"
    /\ IF Bootable = {}
         THEN pc' = "panic" /\ UNCHANGED <<mbi, section, ph>>
         ELSE /\ mbi' = parse_e820
              /\ readsection(ELFHDR, SECTOR_SIZE * HEADER, 0)
              /\ ph' = 0 /\ pc' = "load_kernel"
    /\ UNCHANGED <<machine, smap, row, kmem>>

MoreToRead == section.va < section.end_va

\* readsector, once the disk is ready.  Addresses wrap like 32-bit ones.
readsector ==
    /\ pc = "load_kernel" /\ MoreToRead
    /\ kmem' = [x \in KAddr |-> IF In(x, section.va, SECTOR_SIZE)
                                  THEN Disk(section.sector)[x - section.va] ELSE kmem[x]]
    /\ section' = [section EXCEPT !.va = (@ + SECTOR_SIZE) % (2 * MASK), !.sector = @ + 1]
    /\ UNCHANGED <<machine, pc, smap, row, mbi, ph>>

\* After the headers, or a segment: the next one, as long as memory needs.
load_kernel ==
    /\ pc = "load_kernel" /\ ~MoreToRead
    /\ \/ ph = 0 /\ ~Kernel.magic /\ pc' = "panic" /\ UNCHANGED <<ph, section>>
       \/ /\ Kernel.magic /\ ph < Len(Kernel.phs)
          /\ LET s == Kernel.phs[ph + 1] IN readsection(s.va, s.memsz, s.offset)
          /\ ph' = ph + 1 /\ pc' = pc
       \/ /\ Kernel.magic /\ ph = Len(Kernel.phs)
          /\ pc' = "start" /\ UNCHANGED <<ph, section>>
    /\ UNCHANGED <<machine, smap, row, mbi, kmem>>

(***************************************************************************)
(* exec_kernel and the kernel's entry: the magic number is as expected,    *)
(* the address of mboot_info is stored in the text and pushed as the       *)
(* argument of kern_init, on a stack in the bss.                           *)
(***************************************************************************)
start ==
    /\ pc = "start" /\ pc' = "seg_init"
    /\ kmem' = [kmem EXCEPT ![Kernel.multiboot_ptr] = MBI, ![Kernel.kstack + PAGESIZE - 1] = MBI]
    /\ UNCHANGED <<machine, smap, row, mbi, section, ph>>

\* What seg_init clears: [edata, bsp_kstack) and [bsp_kstack + 4096, end).
Cleared(x) ==
    \/ Kernel.edata <= x /\ x < Kernel.kstack
    \/ Kernel.kstack + PAGESIZE <= x /\ x < Kernel.end

seg_init ==
    /\ pc = "seg_init" /\ pc' = "main"
    /\ kmem' = [x \in KAddr |-> IF Cleared(x) THEN 0 ELSE kmem[x]]
    /\ UNCHANGED <<machine, smap, row, mbi, section, ph>>

BootNext == LoadBoot1 \/ E820 \/ boot1main \/ readsector \/ load_kernel \/ start \/ seg_init

----------------------------------------------------------------------------
\* The byte of the disk at an offset into the kernel's file.
FileByte(offset) == bootable_lba * SECTOR_SIZE + offset

\* The bytes of memory that are bytes of a segment's file part.
FilePart(s) == {x \in KAddr : s.memsz > 0 /\ In(x, Phys(s), s.filesz)}

(***************************************************************************)
(* kern_main starts with what the linker made: every byte of every segment *)
(* is in place, though whole sectors are read around each segment and the  *)
(* bss is read from the disk with the rest; the bss is zero except for the *)
(* stack in it, which still holds kern_init's argument; and the rows that  *)
(* are counted are those the BIOS gave.  The headers are not overwritten   *)
(* while they are used.  A map that fits, with the row of zeros after it,  *)
(* in the space of boot1 never goes over boot1's code.                     *)
(***************************************************************************)
KernelLoaded ==
    /\ pc = "overrun" => Len(machine.map) >= SMAP_ROWS
    /\ pc = "load_kernel" /\ ph > 0 =>
         \A i \in 0 .. HEADER * SECTOR_SIZE - 1 : kmem[ELFHDR + i] = FileByte(i)
    /\ pc = "main" =>
         /\ \A i \in DOMAIN Kernel.phs : \A x \in FilePart(Kernel.phs[i]) \ {Kernel.multiboot_ptr} :
               kmem[x] = FileByte(Kernel.phs[i].offset + x - Phys(Kernel.phs[i]))
         /\ \A x \in Kernel.edata .. Kernel.end - 1 :
               ~In(x, Kernel.kstack, PAGESIZE) => kmem[x] = 0
         /\ kmem[Kernel.kstack + PAGESIZE - 1] = MBI
         /\ SubSeq(smap, 1, mbi) = machine.map

(***************************************************************************)
(* What makes this inductive: how far the map of the BIOS has been copied; *)
(* that the sector to be read next is the one whose bytes belong where     *)
(* they go to; that all of the segments before this one, the headers first *)
(* of all, and this one up to the next sector, are in place.               *)
(***************************************************************************)
MapInv ==
    /\ machine \in Machines
    /\ smap \in Seq(MapRow) /\ Len(smap) = SMAP_ROWS
    /\ pc = "overrun" => Len(machine.map) >= SMAP_ROWS
    /\ pc # "overrun" => /\ row \in 0 .. Len(machine.map) /\ row <= SMAP_ROWS
                         /\ \A i \in 1 .. row : smap[i] = machine.map[i]
    /\ pc = "boot0" => row = 0
    /\ pc \in {"boot0", "e820"} => row < Len(machine.map)
    /\ pc \in {"boot1main", "load_kernel", "start", "seg_init", "main"} =>
          row = Len(machine.map) /\ row < SMAP_ROWS /\ smap[row + 1] = ZeroRow
    /\ pc \in {"load_kernel", "start", "seg_init", "main"} => mbi = Len(machine.map)

\* The headers are read like a segment.
SegmentAt(i) ==
    IF i = 0 THEN [offset |-> 0, va |-> ELFHDR, filesz |-> HEADER * SECTOR_SIZE, memsz |-> HEADER * SECTOR_SIZE]
    ELSE Kernel.phs[i]

Section == [va : Nat, end_va : Nat, sector : Nat]

LoadedBelow(s, a) == \A x \in FilePart(s) : x < a => kmem[x] = FileByte(s.offset + x - Phys(s))

SectionInv ==
    pc = "load_kernel" =>
        LET s == SegmentAt(ph)
        IN  /\ Bootable # {} /\ ph \in 0 .. Len(Kernel.phs)
            /\ section \in Section /\ section.end_va = Phys(s) + s.memsz /\ (s.memsz = 0 => ~MoreToRead)
            /\ s.memsz > 0 =>
                  /\ Rounddown(Phys(s), SECTOR_SIZE) <= section.va
                  /\ section.sector * SECTOR_SIZE = FileByte(s.offset + section.va - Phys(s))
            /\ LoadedBelow(s, section.va)
            /\ \A i \in 0 .. ph - 1 : LoadedBelow(SegmentAt(i), KMEM)

StartInv ==
    /\ pc \notin {"loaded", "astray"} => kmem \in [KAddr -> Int]
    /\ pc \in {"start", "seg_init", "main"} =>
          \A i \in DOMAIN Kernel.phs : \A x \in FilePart(Kernel.phs[i]) \ {Kernel.multiboot_ptr} :
             kmem[x] = FileByte(Kernel.phs[i].offset + x - Phys(Kernel.phs[i]))
    /\ pc \in {"seg_init", "main"} => kmem[Kernel.kstack + PAGESIZE - 1] = MBI
    /\ pc = "main" => \A x \in Kernel.edata .. Kernel.end - 1 :
                         ~In(x, Kernel.kstack, PAGESIZE) => kmem[x] = 0

BootInv == MapInv /\ SectionInv /\ StartInv
=============================================================================
