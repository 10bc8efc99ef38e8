------------------------------- MODULE MemMap -------------------------------
(***************************************************************************)
(* From the BIOS memory map to the allocation table: pmmap_init,           *)
(* pmmap_insert and pmmap_merge of kern/dev/mboot.c, and pmem_init of      *)
(* kern/pmm/MATInit, one step per round of each loop.                      *)
(*                                                                         *)
(* Addresses are the numbers 0 .. MAXADDR, MAXADDR being 0xffffffff, and a *)
(* page has PAGESIZE of them.  pmmap_list is a sequence: its links are     *)
(* only followed forwards.                                                 *)
(***************************************************************************)
EXTENDS MATOp, Sequences, SequencesExt, FiniteSetsExt

CONSTANTS PAGESIZE,
          MAXADDR,   \* the highest address of 32 bits
          NSLOTS,    \* entries of pmmap_slots: 128
          E820       \* the rows a BIOS may report

MEM_RAM == 1

\* The types with a list of their own: RAM, reserved, ACPI, NVS.
KnownTypes == 1 .. 4

\* A row has a base (high: it is above 4 GB), a length (above MAXADDR when
\* its upper half is not 0) and a type.
ASSUME MemMapAssumption ==
    /\ PAGESIZE \in Nat \ {0}
    /\ MAXADDR = AT_SIZE * PAGESIZE - 1
    /\ NSLOTS \in Nat
    /\ E820 \subseteq [high : BOOLEAN, base : 0 .. MAXADDR, length : Nat, type : Nat]

VARIABLES phase,       \* the loop that runs
          slot,        \* its position: in pmmap_list, or a page index
          pmmap_list,
          max_usable_memory,
          nps,         \* pmem_init's local variable
          ranges       \* history: the ranges inserted so far

mapVars == <<phase, slot, pmmap_list, max_usable_memory, nps, ranges>>
mmVars  == <<atVars, mapVars>>

MMInit ==
    /\ phase = "insert" /\ slot = 1
    /\ pmmap_list = <<>> /\ ranges = {}
    /\ max_usable_memory = 0 /\ nps = 0
    /\ NUM_PAGES = 0
    /\ AT = [p \in Pages |-> [perm |-> 0, allocated |-> 0]]
    /\ last_palloc_index = VM_USERLO_PI

GoTo(p, s) == phase' = p /\ slot' = s

----------------------------------------------------------------------------
\* Faulty forms of the definitions below, for checking the properties.

MergedEndOfNext(a, b) == b.end

HigherEndLast(n, e) == e.end

PageInRangePartly(e, p) == e.start < (p + 1) * PAGESIZE /\ p * PAGESIZE < e.end

SlotLeftButOne == Len(pmmap_list) < NSLOTS - 1

PagePermAnywhere(p) ==
    IF \E e \in Range(pmmap_list) :
           /\ e.type = MEM_RAM
           /\ e.start <= p * PAGESIZE /\ (p + 1) * PAGESIZE <= e.end
      THEN 2 ELSE 1

----------------------------------------------------------------------------
\* The end of a row that starts at start, cut off at the top of memory.
RangeEnd(start, length) == IF length >= MAXADDR - start THEN MAXADDR ELSE start + length

\* The slot of pmmap_list after which a range is inserted, 0 for the head:
\* the last one before the first slot with a higher start.
InsertPosition(start) ==
    Min({i - 1 : i \in {j \in DOMAIN pmmap_list : start < pmmap_list[j].start}}
          \cup {Len(pmmap_list)})

pmmap_insert(start, end, type) ==
    LET entry == [start |-> start, end |-> end, type |-> type]
    IN  /\ pmmap_list' = InsertAt(pmmap_list, InsertPosition(start) + 1, entry)
        /\ ranges' = ranges \cup {entry}

\* pmmap_alloc_slot finds a slot: every slot in use is still in the list.
SlotLeft == Len(pmmap_list) < NSLOTS

\* One row of the map.  Rows above 4 GB are skipped.
ReadRow(row) ==
    /\ phase = "insert"
    /\ IF row.high THEN UNCHANGED <<phase, pmmap_list, ranges>>
       ELSE IF SlotLeft
              THEN /\ pmmap_insert(row.base, RangeEnd(row.base, row.length), row.type)
                   /\ phase' = phase
              ELSE /\ phase' = "panic"
                   /\ UNCHANGED <<pmmap_list, ranges>>
    /\ UNCHANGED <<slot, max_usable_memory, nps, atVars>>

EndOfMap ==
    /\ phase = "insert" /\ GoTo("merge", 1)
    /\ UNCHANGED <<pmmap_list, ranges, max_usable_memory, nps, atVars>>

----------------------------------------------------------------------------
\* pmmap_merge, step 1.

Mergeable(a, b) == a.start <= b.start /\ a.end >= b.start /\ a.type = b.type

MergedEnd(a, b) == IF a.end >= b.end THEN a.end ELSE b.end

(***************************************************************************)
(* One round of the loop: a slot absorbs the next one at most, and the     *)
(* loop goes on to the slot after that.                                    *)
(***************************************************************************)
MergeSlot ==
    /\ phase = "merge" /\ slot < Len(pmmap_list)
    /\ LET a == pmmap_list[slot]
           b == pmmap_list[slot + 1]
       IN  pmmap_list' = IF Mergeable(a, b)
                           THEN [RemoveAt(pmmap_list, slot + 1) EXCEPT ![slot].end = MergedEnd(a, b)]
                           ELSE pmmap_list
    /\ GoTo("merge", slot + 1)
    /\ UNCHANGED <<ranges, max_usable_memory, nps, atVars>>

(***************************************************************************)
(* The end of step 1, and step 2, which panics on a type without a list:   *)
(* of the lists by type only the last usable slot is ever used.            *)
(***************************************************************************)
MergePanic ==
    /\ phase = "merge" /\ slot >= Len(pmmap_list)
    /\ \E i \in DOMAIN pmmap_list : pmmap_list[i].type \notin KnownTypes
    /\ GoTo("panic", 0)
    /\ UNCHANGED <<pmmap_list, ranges, max_usable_memory, nps, atVars>>

MergeEnd ==
    /\ phase = "merge" /\ slot >= Len(pmmap_list)
    /\ \A i \in DOMAIN pmmap_list : pmmap_list[i].type \in KnownTypes
    /\ LET usable == {i \in DOMAIN pmmap_list : pmmap_list[i].type = MEM_RAM}
       IN  max_usable_memory' = IF usable = {} THEN 0 ELSE pmmap_list[Max(usable)].end
    /\ GoTo("highest", 1)
    /\ UNCHANGED <<pmmap_list, ranges, nps, atVars>>

----------------------------------------------------------------------------
\* pmem_init.  get_mms + get_mml of an entry is its end.

HigherEnd(n, e) == IF n < e.end THEN e.end ELSE n

FindHighest ==
    /\ phase = "highest" /\ slot <= Len(pmmap_list)
    /\ nps' = HigherEnd(nps, pmmap_list[slot])
    /\ GoTo("highest", slot + 1)
    /\ UNCHANGED <<pmmap_list, ranges, max_usable_memory, atVars>>

PagesBelow(highest) == highest \div PAGESIZE

SetNps ==
    /\ phase = "highest" /\ slot > Len(pmmap_list)
    /\ nps' = PagesBelow(nps)
    /\ NUM_PAGES' = PagesBelow(nps)
    /\ GoTo("table", 0)
    /\ UNCHANGED <<pmmap_list, ranges, max_usable_memory, AT, last_palloc_index>>

\* The entire page p falls into the range e.
PageInRange(e, p) == e.start <= p * PAGESIZE /\ (p + 1) * PAGESIZE <= e.end

\* The first entry that contains the page decides.
PagePerm(p) ==
    LET found == {i \in DOMAIN pmmap_list : PageInRange(pmmap_list[i], p)}
    IN  IF p \notin UserPages THEN 1
        ELSE IF found # {} /\ pmmap_list[Min(found)].type = MEM_RAM THEN 2 ELSE 0

SetPerm ==
    /\ phase = "table" /\ slot < nps
    /\ AT' = [AT EXCEPT ![slot] = [perm |-> PagePerm(slot), allocated |-> 0]]
    /\ GoTo("table", slot + 1)
    /\ UNCHANGED <<pmmap_list, ranges, max_usable_memory, nps, NUM_PAGES, last_palloc_index>>

TableEnd ==
    /\ phase = "table" /\ slot >= nps
    /\ GoTo("done", 0)
    /\ UNCHANGED <<pmmap_list, ranges, max_usable_memory, nps, atVars>>

MMNext ==
    \/ \E row \in E820 : ReadRow(row)
    \/ EndOfMap
    \/ MergeSlot \/ MergePanic \/ MergeEnd
    \/ FindHighest \/ SetNps
    \/ SetPerm \/ TableEnd

\* The code runs on: it is the only thing that runs at boot, with interrupts
\* off.  The map has an end (rows above 4 GB change nothing and stutter).
MMSpec == MMInit /\ [][MMNext]_mmVars /\ WF_mmVars(MMNext)

----------------------------------------------------------------------------
PageAddrs(p) == p * PAGESIZE .. (p + 1) * PAGESIZE - 1

RangeAddrs(e) == e.start .. e.end - 1

\* The addresses that a set of ranges gives a type.
Covered(S, type) == UNION {RangeAddrs(e) : e \in {x \in S : x.type = type}}

(***************************************************************************)
(* Inserting and merging loses no memory, adds none and retypes none: at   *)
(* every point the list covers, for each type, the addresses of the rows   *)
(* read so far.                                                            *)
(***************************************************************************)
CoverageKept ==
    \A type \in {e.type : e \in ranges} \cup {e.type : e \in Range(pmmap_list)} :
        Covered(Range(pmmap_list), type) = Covered(ranges, type)

(***************************************************************************)
(* A page marked normal is entirely usable memory of the machine.  It may  *)
(* be in a row of another type as well, but then a usable row starts       *)
(* before that row, which decides.                                         *)
(***************************************************************************)
NormalIsUsable ==
    \A p \in Pages : at_is_norm(AT, p) =>
        /\ p < NUM_PAGES
        /\ PageAddrs(p) \subseteq Covered(ranges, MEM_RAM)
        /\ \A e \in ranges :
              e.type # MEM_RAM /\ PageAddrs(p) \subseteq RangeAddrs(e)
                => \E r \in ranges : r.type = MEM_RAM /\ r.start <= e.start

(***************************************************************************)
(* No page is given up without reason: a user page inside one usable range *)
(* of the map, and inside no range of another type, ends up normal.        *)
(***************************************************************************)
UsableIsNormal ==
    phase = "done" =>
        \A p \in UserPages :
            /\ \E e \in ranges : e.type = MEM_RAM /\ PageAddrs(p) \subseteq RangeAddrs(e)
            /\ \A e \in ranges : e.type # MEM_RAM => ~(PageAddrs(p) \subseteq RangeAddrs(e))
            => at_is_norm(AT, p)

(***************************************************************************)
(* What pmem_init leaves behind is an initial state of the allocator: the  *)
(* premise of MATOp and of everything above it.                            *)
(***************************************************************************)
LeavesBootTable == phase = "done" => ATInit

(***************************************************************************)
(* Whatever the map, boot gets past it, or stops with a message if a row   *)
(* has an unknown type or there are too many of them.                      *)
(***************************************************************************)
TooMuch == Len(pmmap_list) = NSLOTS \/ \E e \in ranges : e.type \notin KnownTypes

BootCompletes == <>(phase = "done" \/ (phase = "panic" /\ TooMuch))

(***************************************************************************)
(* What makes these inductive.  The list is sorted by start.  An entry has *)
(* the start of a row of its type and the end of one, which starts before  *)
(* the entries after it; all of its addresses are in rows of its type, and *)
(* every row is inside an entry.  The table is filled in up to a page, by  *)
(* the list as it is when merging is over, and nps is above all of it.     *)
(***************************************************************************)
MapRange == [start : 0 .. MAXADDR, end : 0 .. MAXADDR, type : Nat]

ListTypeOK ==
    /\ pmmap_list \in Seq(MapRange) /\ ranges \subseteq MapRange
    /\ phase = "insert" => Range(pmmap_list) \subseteq ranges

ListSorted ==
    \A i, j \in DOMAIN pmmap_list : i < j => pmmap_list[i].start <= pmmap_list[j].start

EntryFromRows ==
    \A i \in DOMAIN pmmap_list :
        /\ \E e \in ranges : e.type = pmmap_list[i].type /\ e.start = pmmap_list[i].start
        /\ \E e \in ranges :
              /\ e.type = pmmap_list[i].type /\ e.end = pmmap_list[i].end
              /\ \A j \in DOMAIN pmmap_list : i < j => e.start <= pmmap_list[j].start
        /\ RangeAddrs(pmmap_list[i]) \subseteq Covered(ranges, pmmap_list[i].type)

RowInEntry ==
    \A e \in ranges : \E i \in DOMAIN pmmap_list :
        /\ pmmap_list[i].type = e.type
        /\ pmmap_list[i].start <= e.start /\ e.end <= pmmap_list[i].end

Filled == IF phase = "table" THEN slot ELSE IF phase = "done" THEN nps ELSE 0

TableFilled ==
    /\ phase \in {"insert", "merge", "highest", "table", "done", "panic"}
    /\ slot \in Nat /\ (phase \in {"merge", "highest"} => slot > 0)
    /\ last_palloc_index = VM_USERLO_PI
    /\ phase \in {"insert", "merge", "panic"} => nps = 0
    /\ phase = "highest" =>
         nps \in 0 .. MAXADDR /\ \A i \in DOMAIN pmmap_list : i < slot => pmmap_list[i].end <= nps
    /\ phase \in {"table", "done"} =>
         /\ NUM_PAGES = nps /\ nps \in 0 .. AT_SIZE - 1 /\ Filled <= nps
         /\ \A i \in DOMAIN pmmap_list : PagesBelow(pmmap_list[i].end) <= nps
    /\ AT = [p \in Pages |-> [perm |-> IF p < Filled THEN PagePerm(p) ELSE 0, allocated |-> 0]]

MMInv == ListTypeOK /\ ListSorted /\ EntryFromRows /\ RowInEntry /\ TableFilled
=============================================================================
