# mCertiKOS: specification and verification

TLA+ models of the kernel in this repository (mCertiKOS, physical and virtual
memory management with one user process), the TLC runs that check them and
proofs of their main properties.

## 1. The system

A single CPU runs the kernel with interrupts off. The boot loader asks the BIOS for
the memory map and reads the kernel from the disk. The kernel clears its bss, sets
up the devices, works through the memory map, builds the allocation table, the
containers and the page structures, turns on paging and enters a monitor that reads
commands. The command `runproc` loads one user program into an address space of its
own and calls it; its page faults come back to the kernel, which allocates the
pages.

| Component | Code | State | Operations | Must hold |
|---|---|---|---|---|
| Boot loader, kernel entry | `boot/`, `kern/init/entry.S`, `kern/lib/seg.c` | memory, `smap`, `mboot_info` | `load_kernel`, `readsection`, `parse_e820`, `start`, `seg_init` | the kernel is in memory as linked; the bss is clear, the stack in it is not |
| Memory map | `kern/dev/mboot.c`, `pmm/MATInit` | `pmmap_list`, `NUM_PAGES`, `AT` | insert, merge, `pmem_init` | no memory lost; normal pages are usable memory |
| Page allocator | `pmm/MATIntro`, `pmm/MATOp` | `AT`, `last_palloc_index` | `palloc`, `pfree` | only free normal pages are given out; a free page is found if there is one; the search ends |
| Containers | `pmm/MContainer` | `CONTAINER` (quota, usage, tree) | `container_split`, `_can_consume`, `_alloc`, `_free` | usage is exact; quota is neither created nor lost; a promise of n pages can be kept |
| Page structures | `vmm/MPT*` | `PDirPool`, `IDPTbl`, page tables | `alloc_ptbl`, `free_ptbl`, `map_page`, `unmap_page`, `alloc_page`, `alloc_mem_quota` | kernel map intact; tables private; processes isolated; all or nothing |
| Process and page faults | `lib/trap.c`, `lib/monitor.c` | `CID`, CR3, TLB | `mon_start_user`, `trap`, `pgflt_handler` | tables written under the identity map; no stale translation; accesses complete |
| Loader | `lib/elf.c`, `lib/pmap.c` | pages of the process | `elf_load`, `pt_copyin`, `pt_copyout`, `pt_memset` | stores go to the process; its memory is its file, then zeros |
| Trap entry | `dev/idt.S`, `dev/intr.c` | stack, registers | stubs, `_alltraps`, `trap_return` | the frame is right; the instruction that faulted runs again on the same registers and data |
| Console input | `dev/console.c`, `dev/serial.c` | ring buffer | `cons_intr`, `cons_getc` | a queue; no input left behind |
| Keyboard | `dev/keyboard.c` | modifier and escape flags | `kbd_proc_data` | each key is read as typed; reboot only if typed |
| Screen, command line | `dev/video.c`, `dev/console.c`, `lib/monitor.c` | cells, cursor, `linebuf` | `video_putc`, `readline`, `runcmd` | the screen shows the line; buffers not overrun |
| Strings, formatting | `kern/lib/string.c`, `kern/lib/printfmt.c`, `user/lib` | buffers, argument list | `memmove` ... `strlcpy`, `vprintfmt`, `printf`, `vsnprintf`, `strtol`, `atoi` | contracts kept at every alignment and overlap; conversions print their arguments; output complete |

How they interact. The boot loader leaves the kernel's segments and the rows of the
memory map in memory; the file of the user program is part of the kernel's data.
`pmem_init` fills the allocation table, which `palloc` and `pfree` work on.
`container_alloc` and `container_free` are the only callers of those two and charge
a process; `MPTComm` and `MPTNew` are their callers, for page tables and for pages.
The loader and the page fault handler call `alloc_page`, and the loader copies
through the page tables it fills. `readline` takes characters from `cons_getc`,
which polls the serial port and the keyboard, and echoes on the screen.

What is hard here is not concurrency, which the kernel hardly has (the only
independent actors are the user process with its faults, the TLB and the input
devices), but long call sequences over shared structures, failure of the second
of two allocations, reuse of pages that hold old contents, wrap-around and other
boundary arithmetic, and the agreement of code written in different layers. The
hazards, each at its line and with the properties that cover it, are listed in
`PROJECT.json`.

## 2. Modules

    MATOp            allocator, one step per call       <- ContainerProofs
      PallocLoop     palloc as the loop of the code     <- MemMapProofs
      MemMap         from BIOS rows to an ATInit state  <- MemMapProofs
      MContainer     EXTENDS MATOp                      <- ContainerProofs
        MPT          EXTENDS MContainer                 <- KernelProofs
          Kernel     EXTENDS MPT                        <- KernelProofs
    Boot             from the BIOS to the kernel in     <- BootProofs
                     memory
      Loader         EXTENDS Boot: from there to the    <- BootProofs
                     process's memory
    TrapFrame        entry and return, the stack        <- DeviceProofs
    InputQueue       what console input promises
    Keyboard         scan codes to characters
      Console        EXTENDS Keyboard: polling and the  <- DeviceProofs
                     ring buffer, shown to implement
                     InputQueue
    Readline         line editing, screen, arguments    <- DeviceProofs
    Strings          memory and string functions        <- LibraryProofs
      Format         EXTENDS Strings: vprintfmt, its    <- LibraryProofs,
                     consumers, strtol, atoi               FormatProofs

NumberProofs holds facts on numbers, iteration and division that the proofs
share. `MC*` modules give the constants of a run. The layers compose as in the code:
`container_alloc` is a `palloc` step with its charge, `alloc_page` is a
`container_alloc` step with its mapping, and the page fault handler is an
`alloc_page` step.

**MATOp.** `AT` and `NUM_PAGES` as in `MATIntro.c`; entries are records `perm`,
`allocated`. `ATInit` is any state `pmem_init` can leave (`MemMap` shows that it
leaves no other). `palloc(r)` is the whole call that returns `r`: the free page
first met from `last_palloc_index` upwards and around, or 0 if there is none.

**PallocLoop.** The same call as the loop of `MATOp.c`: one step per round, with
`palloc_index`, `palloc_free_index` and `first`. `ATSpec` of MATOp is its
abstract specification.

**MContainer.** Records as in `struct SContainer`. The comments leave two checks
to callers; `CNext` has callers that make them (`AllocWithinQuota`,
`SplitWithinQuota`, `FreeOwn`). The history variable `owner` says to which
process a page was last given. `ToUnsigned` keeps the arithmetic of
`container_can_consume` modulo `WORD`. Of the number of children the comments say
nothing to the callers and the code checks nothing: `SplitWithinQuota` keeps it to
`MAX_CHILDREN`, so that records stay apart and quota can be followed, and
`SplitAsCalled`, the split of `SplitSpec`, does not.

**MPT.** Memory is seen as page tables: `mem[p][t]`. `IDPTbl` lies in kernel
pages, page tables in allocated pages, so that a stray write, a table not
cleared or a table freed too early is visible. An entry is a page and a set of
flags. `alloc_page` has one disjunct per way it can go; the code's confusion of
a directory entry that equals `MagicNumber` with a failure is kept. Unlike
`CNext`, callers of `alloc_page` do not check the quota, because the code's
callers do not.

**Kernel.** `pc` says what runs: monitor, loader, user, or a stage of a trap.
The CPU uses either a cached translation or the tables' (`Translations`), caches
at any time (`FillTLB`), and drops what is not global when CR3 is loaded. The
process makes any access to the pages `Touched` and may return at any time; it is
called like a function and so runs at the kernel's privilege. Its accesses are
the loads and stores that the user program makes at addresses typed to it
(`user/proc/dummy/dummy.c:39,51`): one word of one page, and one that crosses into
another page is an access to each. A store changes memory (`StoreWord`, one of
`Stores`). If the page is memory of the process other than its program, it goes
on. Nothing protects the rest, and nothing in the source says that it does: a
store to a kernel address (mapped present and writable in the process's
directory) can change `IDPTbl`, `PDirPool`, a page table in use, `AT` or code, and
one to the program itself what is executed. The store is made, and then the model
ends (`pc = "overwritten"`), since anything may follow. One step of
`elf_load_page` is one round of the loop over pages.

**MemMap.** One step per round of each loop of `pmmap_init`, `pmmap_merge` and
`pmem_init`. Addresses are small numbers with `MAXADDR` for 0xffffffff. The
history variable `ranges` holds the rows read. A row above 4 GB, a length that
passes the top and an unknown type are as in the code.

**TrapFrame.** The stack as a sequence of words: the CPU, the stub and
`_alltraps` push, `tf` reads the words where `struct tf_t` has its fields, and
`trap_return` pops. The interrupted code pushes and pops in between.

**Keyboard.** Keys are pressed, repeated and released in any order; their scan
codes wait in a queue. A scan code carries, as history, the event it came from
and the character that its typist meant. Of the character tables there is a row
for a key of each kind: a letter, a digit, and Enter and Delete with and without
escape; the other rows differ in their characters only.

**Console, InputQueue.** `cons_getc` polls the serial line, a queue of bytes, and
the keyboard of the module above, one value at a time, while input arrives. A
byte is stored as a signed `char`. `Waiting` maps the ring buffer to the queue of
InputQueue.

**Boot.** A byte of the disk is its position, so that a byte in the wrong place is
seen. `readsection` reads whole sectors, one step each, from the rounded address to
the end that is not rounded, as many bytes as the segment has in memory; `seg_init`
then clears what `edata`, `bsp_kstack` and `end` say. The BIOS may fail in any call.
boot1 has room for `SMAP_ROWS` rows and does not check it
(`boot/boot1/boot1.S:188-190`): when the rows, or the row of zeros after them, pass
its end, they go over boot1's own code, and the model ends (`pc = "overrun"`).
`Linked` states what the linker guarantees of a kernel: without it (segments that
share a sector but lie apart in the file) reading a later segment would spoil an
earlier one.

**Loader.** Starts in the memory that Boot leaves, so that the user program is
followed from the disk to the process. One step per program header and per page.
The process's memory is kept by virtual address; the page tables and a failing
`alloc_page` are in Kernel. Copies are cut into pieces at page boundaries, and a
piece that were too long would end up outside the process's next page. After
loading, one call of `pt_copyin` or `pt_copyout` is made, with any arguments. The
sums of their tests (`kern/lib/pmap.c:21,24,55,58`) wrap, modulo `ADDRESSES`: a
call with the last address in its range, or just before its end, may pass, is
then copied from address 0 on as well, and ends the model (`pc = "astray"`).

**Strings.** All functions of the two `string.c`, on a memory of bytes in which
words are aligned groups; `RepMovs` is the CPU's repeated move, unit by unit in
either direction, so that overlap and alignment matter.

**Format.** One step per character of the format outside an escape and per case of
the switch in it. `job` has the pieces that the format is made of, each with its
characters, its arguments as words on the stack, and what it means; the code sees
the characters and the words only. `IsPiece` says what a piece may be: a literal; a
conversion with any of `-`, `0`, `#`, a width, a precision, `l` and `ll`, in this
order, whether or not they mean anything to it, whose arguments have the types that
it takes (anything else is undefined in C), and the star's are not negative; or an
escape that is not recognized, up to the character that gives it away. `vprintfmt`
takes every format; what has no piece, and so no meaning to compare with, are
modifiers in another order, repeated, or with a 0 for a precision. `out` is what the
consumer does with the characters: `printf` with a buffer that it sends when it is
full, `vsprintf`, `vsnprintf`.

**Readline.** `video_putc` on a record of cursor and cells, one action per
branch of `readline`, `argc` by word starts. Characters are told apart only as
far as the code does.

The definitions headed "Faulty forms" in each module are plausible mistakes in
the code; substituting one for the definition it is named after must break the
property that `PROJECT.json` pairs it with, which shows that the property
depends on the code.

## 3. Runs

Passing runs:

| Run | Shows | Bounds |
|---|---|---|
| `palloc_loop` | the loop implements the one-step `palloc`, only normal pages are allocated, the sentinel is never a free page, the call ends | 9 pages, user range 2..6, every `NUM_PAGES` and every set of normal pages |
| `container` | with callers that check the quota and the number of children: usage exact, quota conserved, promises kept, live records kept | 6 pages, 5 containers, 2 children each: a full tree of two levels, so that index collisions could happen |
| `page_structures` | kernel map, tables and processes stay apart; `alloc_page` does all or nothing | 3 free pages with a hole, 2 processes, 2 user directory entries of 2 pages: enough for either allocation to fail and for pages to be reused as tables and as data |
| `kernel` | identity map whenever tables are written, TLB coherent, user accesses hit own memory, the loader stores to the process, faults justified, accesses complete, up to the first store that goes over the kernel or the program | 1 to 7 free pages: from too few to load the program to enough for all faults; loads and stores to the program, to new pages and to the kernel |
| `memory_map` | nothing lost, normal = usable, leaves an `ATInit` state, boot gets past it | 3 rows of 24, pages of 2 addresses, memory of 7 pages |
| `devices` | each key is read as typed, reboot only if typed, the ring is a queue, all input is taken; echo matches line, no overrun; frames right for installed vectors, page faults run the instruction again on the same registers and data | three parts that share no memory, of which one moves at a time; 11 keys, serial bytes 0 and 200, 4 bytes or key events in all, buffer of 3: it wraps and overruns, and modifiers, locks and escapes interleave; 3 x 3 screen, lines of 6: scrolls inside a line; vectors with, without an error code, and without a stub, up to 2 words on the stack when code pushes |
| `boot_and_load` | the kernel is in memory as linked, the program as in its file, copies that do not wrap move what they should, a map that fits overruns nothing | sectors of 2, pages of 4, 4 rows for the map: 6 machines (two kernels, no bootable partition, no magic number, maps of 4 and of 5 rows), 1100 programs of one and two segments of every alignment, apart, in one page, and together in the file; copies over up to two page boundaries, outside the user range, and around the last address |
| `library` | contracts of the string functions, formats, output, numbers read back | memory of 6 bytes of 3 values in words of 2, every argument; words of 16 values; every kind of conversion alone, with modifiers that matter to it and ones that do not, and before every other, with all consumers, buffers of 4 |

Runs that TLC refutes, each a disagreement between the code and a comment of it
(`findings` in `PROJECT.json` has the lines):

- `container_split`: more than `MAX_CHILDREN` children take over a live container.
- `can_consume_wraps`: `alloc_page` ignores the quota, and once usage exceeds it
  the unsigned difference in `container_can_consume` wraps.
- `trap_return`: the comment says that it restores the CPU state and returns with
  `iret` (`kern/dev/idt.S:106-111`); the code ends in `ret`, does not restore the
  flags, and leaves two words, CS and the flags, on the stack for every page fault.
- `minus_pads`: the comment on the flag `-` is "flag to pad on the right"
  (`kern/lib/printfmt.c:88`); `%-5d` of 42 prints `---42`.

Where the code falls short of what one would expect without contradicting itself,
the properties say exactly how far it goes: `LoaderStoresInProcess` (when memory
runs out, the loader stores to physical page 0), `AccessCompletes` (then a
process faults for ever), `NormalIsUsable` (a reserved row inside a usable row
that starts before it is used), `BootCompletes` (too many rows, or an unknown
type, stop the boot), `FaultReturns` (a vector without a stub of its own gets a
frame that is one word off, but is never returned from), `UserHitsOwn` (the process
goes over the kernel or its program only by a store to an address of theirs),
`KernelLoaded` (a map that does not fit goes over boot1), `CopiesAgree` (a range
around the last address passes the test of a copy), `RingIsQueue` (one character too many
empties the buffer), `ProgramLoaded` (a segment that shares a page with an earlier
one takes it away; the bytes of the file survive if both lie together in the
file, and zeros do not), and `OutputComplete` (`vsnprintf` with size 0 writes a
NUL; `printf` loses what follows a NUL that it prints with `%c`).

What formats mean is in `Number`, `Str` and their neighbours, with what differs
from the C library: a width counts digits, not a sign or `0x`; `%-5d` pads on the
left with `-` (`minus_pads`), and `%05s` with zeros; `#` and a precision mean nothing
to a number; `%.0s` reads 0 as a flag and is left out; `%o` of
the user library prints `XXX` and takes no argument. `strtol` wraps on overflow.

Deadlock is checked except in `kernel` (a panic stops the machine, a user need not
type anything, and what follows an overwritten kernel is open), `memory_map` (boot
is over) and `boot_and_load` (a halt, a panic, an overrun map, or the one copy has
been made); in `devices` a panic is a step that repeats. `AccessCompletes` speaks of accesses that the
kernel is still there to serve.

**Fairness.** The kernel is one thread that nothing preempts, so weak fairness of
its own steps is what the CPU provides: on `palloc`'s steps, on the boot loops,
on the loader and trap steps and on the retry of a faulting access (the CPU
re-executes the instruction), and on the polling loop of `getchar`. No fairness
is assumed of the user, the devices, or the process's choice to access memory;
`AllTaken` therefore speaks of input that has stopped, which `MAX_INPUT` ensures.
`AccessCompletes` excepts exhausted memory, where the process really does fault
for ever.

## 4. Proofs

For all values of the constants that satisfy the modules' assumptions:

- `ContainerProofs!ATSafe`: `ATSpec => []OnlyNormalAllocated`. The invariant `ATInv`
  adds that normal pages lie in the user range below `NUM_PAGES`, without which
  it would not be inductive.
- `MemMapProofs`, on PallocLoop: `PallocLoopInv` (`PLInv`), `SentinelSafe`, `PallocRefines`.
  `PLInv` says that every page between the start of the search and the current
  index, around the ring, is not free, that a page found is free, and that both
  indices are in the user range. The refinement maps each return step to a
  `palloc` step and every other step to a stutter; the ring distance lemmas do
  the arithmetic of the wrap. A failing `palloc` may change nothing, so that the
  returned 0 is not visible in the refinement; `PLInv` says that it is returned
  only when no page is free.
- `ContainerProofs`: `ContainerInv` (the conjunction `CInv`), and from it
  `AccountingExact`, `QuotaNeverLost`, `QuotaPromise`, all under `CSpec`. `LiveRecordsSafe`
  is about `SplitSpec`, whose splits do not ask for the number of children:
  `SplitSpec /\ []FewChildren => LiveRecordsKept`. The condition is up to the
  callers, and `container_split` of the runs shows what happens without it.
  `QuotaConserved` is the core: sums over the tree are not expressible as folds
  that the provers handle, so quota is counted by a set of vouchers, pairs of a
  process and a number, and each operation is shown to remove or add the pairs it
  should. `QuotaHonoured` follows, since what one process has not spent is a
  subset of the unspent vouchers, of which there are as many as free pages.
- `KernelProofs`, on MPT: `MPTInvariant` (`MPTInv`), and from it `KernelMapStays`,
  `TablesStayPrivate`, `ProcessesIsolated` and the action property
  `AllocPageAllOrNothing`. The three properties are not inductive alone: that a
  write to a table of one process changes no other process's mapping needs that
  tables are private, and that a new table is not a page someone has mapped needs
  that a page has an owner exactly while it is allocated. `MPTInv` has these with
  the shape of directory entries (`KernelEntries`: the kernel part and all of
  directory 0 point to the identity tables, which `palloc` never gives out;
  `UserEntries`: a user entry is empty or points to an owned page). It does not
  need the quota part of `CInv`, which does not hold here, since callers of
  `alloc_page` do not ask.
- `KernelProofs`, on Kernel: `KernelInvariant` (`KInv`: `RunInv`, on top of
  `MPTInv`, until the process has stored to a kernel address or to its program), and
  `TablesWrittenPhysically`, `NoStaleTranslation`, `ProcessHitsOwn`,
  `FaultsAreJustified`, `LoaderStoresOwn`. Nothing ever invalidates a TLB entry, so
  `TLBCoherent` rests on who changes tables under which directory: the loader and
  the handler change a process's tables while directory 0 is loaded; global entries
  survive a load of CR3, and `TLBSound` says that they are entries of the kernel
  part, the same in all directories. `FaultDenied` says that an access that is being
  handled is denied by the tables, which leaves the read-only page as the only
  reason to stop. All of it holds up to `pc = "overwritten"` and says nothing of
  what follows. That a process gets there only by a store to an address of the
  kernel or of its program, so that its other stores leave every table, other
  process and record as it was, is the second part of `UserHitsOwn`; it rests on the
  tables being private.
- `MemMapProofs`, on MemMap: `MemMapInvariant` (`MMInv`), and `MergingKeepsMemory`,
  `NormalPagesUsable`, `UsablePagesNormal`, `BootEstablishesTable`, for any number
  of rows and any size of memory. `MMInv` relates the list to the rows read
  (`EntryFromRows`: every entry is covered by rows of its type, and starts where
  one starts; `RowInEntry`: every row lies in one entry of its type), keeps the
  list sorted, and says what the loop of `pmem_init` has filled so far. With
  `BootEstablishesTable` the theorems about the allocator and the containers
  apply to the table that boot leaves, not just to an assumed one.
- `DeviceProofs`, on TrapFrame: `FrameInvariant` (`TFInv`), `FramesRight`, `FaultsReturn`.
  `TFInv` says, phase by phase, which words are on the stack above those of the
  interrupted code; the theorems hold for every depth of that stack.
- `DeviceProofs`, on Console: `ConsoleInvariant` (`ConsInv`), `KeysTypedAsMeant`,
  `NoStrayReboot` and the refinement `RingRefinesQueue`. That a press is read as
  meant compares the flags of the driver now with what the keyboard's events were
  when the key was pressed, any number of scan codes later; `KbdInv` bridges them
  by the flags after each code that waits (`LeadsToLatest`), and ties the escape
  flag to the code that is next (`EscapesPaired`). The refinement maps the part of
  the buffer from `rpos` to `wpos`, around its end, to a sequence: a store is a
  `Put`, `TakeChar` a `Take` or `TakeNothing`, and all other steps stutter. A
  character other than 0 stays other than 0 as a signed `char`, so that `cons_getc`
  never takes a character for none.
- `DeviceProofs`, on Readline: `CommandLineInvariant` (`RLInv`), `BuffersNotOverrun`
  and `ScreenShowsLine`. `RLInv` says that every cell from the cursor on is blank
  and that, while `readline` reads, the cells before it end with the prompt and
  the line; both are kept by a scroll, which moves the cells and the cursor by one
  row, because a line never fills more than the screen without its last row
  (`BUFLEN` in the assumptions). What a message prints is a fold of `video_putc`,
  and the proof about it is an induction over its characters (`PutsKeeps`).
- `BootProofs`, on Boot: `BootInvariant` (`BootInv`) and `KernelLoadedAsLinked`, under
  `LoadSpec`, for every size of sectors and pages and every kernel that is
  `Linked`. All rows of a map are counted if it fits, with its row of zeros, in
  `SMAP_ROWS`; only another one overruns boot1, and then no kernel is loaded.
  `SectionInv` says that the next sector of the disk is the one whose
  bytes belong at the address it goes to (`Placed`: the distance of file and
  memory stays that of the segment, because both are as far into a sector), that
  this segment is in memory up to there, and all earlier ones, the headers first,
  completely. A sector that reaches into an earlier segment brings the same bytes
  again, or `Linked` would not hold. The proof made `Linked` more precise: two
  segments lie together in the file when their distance to it is the same after
  the high bits of addresses are dropped, as `readsection` drops them; a header
  without memory must not have an address inside a sector, since `readsection`
  would read a sector for it.

- `BootProofs`, on Loader: `LoaderInvariant` (`LoadInv`), `ProgramLoadedAsLinked` and
  `CopiesMoveAll`, for every size of pages and sectors and every program whose
  segments fit. `LoadInv` says of every page and the last segment that has been
  loaded to it so far that the page holds what that segment brings (`PageHolds`);
  a page that an earlier segment also had is taken away from it, which is why
  the property speaks of the last. It needs that the file of the program is
  still in the kernel's data (`DataInv`, from `KernelLoadedAsLinked`). The loops of
  `pt_copyout`, `pt_copyin` and `pt_memset` are folds over pieces that end at page
  boundaries; by induction over the pieces, what has been stored is exactly the
  first bytes of the range (`StoresMore`, `LoadsMore`). This is so for every call
  whose range ends before the last address, accepted or refused; any other may go astray.
- `LibraryProofs`, on Strings: `StringsKeepContract`, the whole contract, for every
  memory and word size and every placement of the arguments. For `memmove` the
  point is that the direction chosen never lets a round read what an earlier
  round has written (`MoveRounds`); loops that stop at a condition are `Count`.
- `FormatProofs`, on Format: `FormatsMean` and `AllIsPrinted`, for every word size,
  every sequence of pieces that `IsPiece` allows and every size of the buffers. What
  a piece means is what the code prints for it, `---42` for `%-5d` included; that this
  is not what the comment says is `minus_pads`.
  `FmtInv` says where in the format `vprintfmt` is, what it has printed and which
  arguments are left: in text, between two pieces or inside a literal or an escape
  that was put back (`AtText`); after so many characters of an unknown escape
  (`AtUnknown`); or before one of the ten parts that the escape of a conversion may
  have, with `spec` as the parts before it leave it (`AtConversion`, `SpecAt`). The
  code sees characters, so each step needs that the character at `fp` is the first
  of that part and of no other (`PartKinds`), and a number that its digits end where
  the part does (`ValueRounds` and the lemmas on `Numeral`, since the width `10` has
  a digit that is also a flag). What the conversion prints is then `Numeral` of its
  argument: `printnum` divides from the last digit, `Numeral` counts from the first.
  `FmtInv` implies `ArgumentsFit`, and with it `OutInv`, which relates the text to the
  buffer, the console and the count at every character, is inductive: the consumers
  have all of the text, in order, and no buffer is overrun.
- `FormatProofs!NumbersReadBack`, on `strtol` and `atoi`: the text is then known to be
  a sign or `0x`, padding and a `Numeral` (`IsPrinted`, `Layout`), and the value after
  each digit is the number that the digits so far make, to the width of a word
  (`DigitsRead`): a wrap at every digit is one wrap at the end (`WrapsEarly`). No digit
  is mistaken for a sign or a prefix, and a leading 0 that is no padding is the
  number 0, which is why `strtol` in base 0 does not read octal (`NoDigitsAfterZero`).

Induction over data cannot be cited from the library (its theorems take an
operator). Where a proof needs it, the property is made a set of numbers, and
`NumberProofs!SetInduction`, which rests on `LeastNat`, shows that the set has all of
them. That a recursive function exists at all is `IterationExists`, from the same.

Assumptions on constants are the named `ASSUME`s: the user range is a non-empty part
of the table above page 0, `NUM_PAGES` is below the table size (no address exceeds
2^32 - 1), quotas do not overflow a word, and a page directory covers the table with
its user part on boundaries of directory entries. For Kernel: pages of processes are
mapped with `PTE_P`, `PTE_W` and `PTE_U` only (`elf_load` and `pgflt_handler` pass
no other flags; `PTE_G` is set by `idptbl_init` alone), and there is more than one
process id (`NUM_IDS` is 64); a stored value is any one that reads as a page table
entry. For Boot: pages are whole sectors, the mask is whole pages, the headers are
read to a sector boundary below the kernel (`ELFHDR` is 0x20000), a partition table
has four entries, the BIOS has at least one row and none of zeros, and `Linked`.
boot1 has room for one row at least (128 in the code). For Loader: the user range
ends below the last address (`ADDRESSES`, 2^32), the arguments of copies are any
words, segments lie in the user range, at the same distance into a page in the file
as in memory, with no more in the file than in memory; and one segment of the kernel
has all of the data. For Readline: the screen has two rows at least and room for a
line, and a message has a carriage return only after a newline (`runcmd` and the
commands print `\n` only). For Format: a buffer of two characters and words of two
values at least, and calls whose formats are made of pieces as above.

Model-checked only is liveness (the `palloc` call ends, `BootCompletes`,
`AccessCompletes`, `AllTaken`): the prover has no fairness.

## 5. Not modelled

- The A20 gate, the switch to protected mode, the tables of segments, the
  initial set-up of devices and the single instructions of `x86.c`: each is a
  fixed sequence of port and register writes without state to go wrong over.
- What is printed at boot, by the monitor's commands `help`, `kerninfo` and
  `backtrace`, and by `debug.c` before it stops the machine.
- Serial output; `video_set_cursor` and `video_clear_screen` (never called).
- The rows of the keyboard tables beyond one of each kind.
- `gets` and the dialogue of the user process: pure console I/O on top of what
  is modelled. Its accesses to memory are those of `BeginAccess` in Kernel.
- The list macros of `queue.h` (the list itself is in MemMap) and the build.

- What happens once the process has gone over the kernel or its own program, the
  memory map over boot1, or a copy around the last address: the model follows
  each up to that step. The process's use of the stack, which is the kernel's
  (`lib/monitor.c` calls it), is not among its accesses: it is in kernel memory, but
  goes over nothing that is in use there unless it is too deep.

## 6. Plan

1. Done: allocator, containers, page structures, process and faults, boot map,
   traps, console; the loader byte by byte, the boot loader, the keyboard's
   characters composed with the console, strings and formatting.
2. Done: proofs of all safety properties, in eight modules.
