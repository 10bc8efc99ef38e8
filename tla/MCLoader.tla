------------------------------ MODULE MCLoader ------------------------------
(***************************************************************************)
(* Sectors of two bytes and pages of four.  Kernels whose segments are on  *)
(* pages of their own, or meet in a sector, with addresses with and        *)
(* without high bits, and the stack at either end of the bss.  Programs of *)
(* one segment of every small size and place, and of two segments that are *)
(* apart, meet in a page, or lie together in the file.  Maps of the BIOS   *)
(* that fill boot1's space for them, and that go over it by the row of     *)
(* zeros only, or by more.  Copies to addresses of every kind, the last    *)
(* ones too, where the sums of the test wrap.                              *)
(***************************************************************************)
EXTENDS Loader

Seg(offset, va, filesz, memsz) == [offset |-> offset, va |-> va, filesz |-> filesz, memsz |-> memsz]

Apart ==
    [magic |-> TRUE, phs |-> <<Seg(4, 20, 5, 5), Seg(9, 29, 23, 30), Seg(0, 0, 0, 0)>>,
     edata |-> 52, kstack |-> 52, end |-> 59, multiboot_ptr |-> 21, dll |-> 32, exe |-> 37]

Together ==
    [magic |-> TRUE, phs |-> <<Seg(4, MASK + 20, 5, 5), Seg(9, MASK + 25, 25, 35)>>,
     edata |-> 50, kstack |-> 56, end |-> 60, multiboot_ptr |-> 22, dll |-> 28, exe |-> 34]

Part(bootable, lba) == [bootable |-> bootable, first_lba |-> lba]
Table(i, j) == [k \in 1 .. 4 |-> Part(k \in {i, j}, 4 + 3 * k)]

Rows(n) == [k \in 1 .. n |-> [base |-> k - 1, length |-> 1, type |-> 1 + (k % 2)]]

MCMachines ==
    {[table |-> Table(1, 3), kernel |-> Apart, map |-> Rows(3)],
     [table |-> Table(4, 4), kernel |-> Together, map |-> Rows(1)],
     [table |-> Table(0, 0), kernel |-> Apart, map |-> Rows(1)],
     [table |-> Table(2, 2), kernel |-> [Apart EXCEPT !.magic = FALSE], map |-> Rows(1)],
     [table |-> Table(1, 1), kernel |-> Apart, map |-> Rows(4)],
     [table |-> Table(1, 1), kernel |-> Apart, map |-> Rows(5)]}

Load(offset, va, filesz, memsz, write) ==
    [load |-> TRUE, offset |-> offset, va |-> va, filesz |-> filesz, memsz |-> memsz, write |-> write]

Note == [Load(3, 0, 2, 2, FALSE) EXCEPT !.load = FALSE]

Program(phs) == [magic |-> TRUE, strtab |-> TRUE, phs |-> phs]

One == {Program(<<Load(o, VM_USERLO + o + d, f, f + b, w)>>) :
          o \in 0 .. 5, d \in {0, 8}, f \in 0 .. 6, b \in {0, 1, 2, 5}, w \in BOOLEAN}

Firsts  == {Load(o, VM_USERLO + o, f, f + b, FALSE) : o \in {0, 1}, f \in {0, 2, 5}, b \in {0, 1, 4}}
Seconds == {Load(o, VM_USERLO + o + d, f, f + b, TRUE) : o \in {5, 6, 8}, d \in {0, 4}, f \in {0, 1, 4}, b \in {0, 3}}

Two == {Program(<<s, Note, t>>) : s \in Firsts, t \in Seconds} \cup {Program(<<t, s>>) : s \in Firsts, t \in Seconds}

MCPrograms ==
    One \cup Two \cup {Program(<<>>), Program(<<Load(0, VM_DYNLINK - 4, 6, 8, FALSE)>>),
                       NoProgram, [Program(<<>>) EXCEPT !.strtab = FALSE]}

MCCopyArgs == [kva : {36, 42}, uva : {VM_USERLO, VM_USERLO + 3, VM_DYNLINK - 2, VM_DYNLINK + 2}, len : {0, 2, 4, 6}]
                \cup {[kva |-> VM_USERHI, uva |-> VM_USERLO, len |-> 1], [kva |-> 20, uva |-> 20, len |-> 1]}
                \cup [kva : {36, ADDRESSES - 2}, uva : {VM_USERLO, ADDRESSES - 4}, len : {1, 2, 4, ADDRESSES - 2}]
=============================================================================
