---------------------------- MODULE KernelProofs ----------------------------
(***************************************************************************)
(* MPT: the kernel map stays, page tables are private, processes are       *)
(* isolated, and alloc_page does all or nothing, for every number of       *)
(* pages, processes and directory entries.                                 *)
(*                                                                         *)
(* Kernel: the page tables are written under the identity map, the TLB     *)
(* never holds a stale translation, the process reaches nothing but its    *)
(* own memory through its user pages, and faults stop the machine only     *)
(* when they should, until the process stores to a kernel address or to    *)
(* its own program.                                                        *)
(***************************************************************************)
EXTENDS Kernel, ContainerProofs, FiniteSetTheorems

----------------------------------------------------------------------------
\* Where pages lie.

LEMMA IdentityPages ==
  /\ \A d \in PDX : IDPTblPage(d) \in Pages /\ IDPTblPage(d) \notin UserPages
  /\ \A d, e \in PDX : IDPTblPage(d) = IDPTblPage(e) => d = e
  /\ \A d \in PDX, t \in PTX : PageAt(<<d, t>>) \in Pages
<1>1. \A d \in PDX : IDPTblPage(d) \in Pages /\ IDPTblPage(d) \notin UserPages
  BY ATAssumption, MPTAssumption DEF PDX, IDPTblPage, Pages, UserPages
<1>2. \A d, e \in PDX : IDPTblPage(d) = IDPTblPage(e) => d = e
  BY MPTAssumption DEF PDX, IDPTblPage
<1>3. ASSUME NEW d \in PDX, NEW t \in PTX
      PROVE  PageAt(<<d, t>>) \in Pages
  <2>1. d \in Nat /\ d + 1 <= NPDE /\ t \in Nat /\ t < NPTE
    BY MPTAssumption DEF PDX, PTX
  <2>2. (d + 1) * NPTE <= NPDE * NPTE
    BY <2>1, MPTAssumption
  <2>3. d * NPTE \in Nat /\ (d + 1) * NPTE = d * NPTE + NPTE
    BY <2>1, MPTAssumption
  <2> QED
    BY <2>1, <2>2, <2>3, ATAssumption, MPTAssumption DEF PageAt, Pages
<1> QED
  BY <1>1, <1>2, <1>3

LEMMA EntryTypes ==
  /\ NoEntry \in Entry /\ ~Present(NoEntry)
  /\ \A t \in Pages : TablePDE(t) \in Entry /\ Present(TablePDE(t)) /\ TablePDE(t).page = t
                      /\ TablePDE(t) # MagicNumber
  /\ \A d \in PDX : IdentityPDE(d) \in Entry /\ Present(IdentityPDE(d))
                    /\ IdentityPDE(d).page = IDPTblPage(d)
  /\ \A d \in PDX, t \in PTX : IdentityPTE(d, t) \in Entry /\ Present(IdentityPTE(d, t))
                               /\ IdentityPTE(d, t).page = PageAt(<<d, t>>)
<1>1. NoEntry \in Entry /\ ~Present(NoEntry)
  BY ATAssumption DEF NoEntry, Entry, Present, Pages
<1>2. ASSUME NEW t \in Pages
      PROVE  TablePDE(t) \in Entry /\ Present(TablePDE(t)) /\ TablePDE(t).page = t
             /\ TablePDE(t) # MagicNumber
  <2>1. TablePDE(t).perm = {"P", "W", "U"} /\ MagicNumber.perm = {"P"}
    BY DEF TablePDE, PT_PERM_PTU, MagicNumber
  <2>2. "W" \in {"P", "W", "U"} /\ "W" \notin {"P"}
    OBVIOUS
  <2> QED
    BY <2>1, <2>2 DEF TablePDE, Entry, Present, PT_PERM_PTU, Flags
<1>3. \A d \in PDX : IdentityPDE(d) \in Entry /\ Present(IdentityPDE(d))
                     /\ IdentityPDE(d).page = IDPTblPage(d)
  BY IdentityPages DEF IdentityPDE, Entry, Present, PT_PERM_PTU, Flags
<1>4. \A d \in PDX, t \in PTX : IdentityPTE(d, t) \in Entry /\ Present(IdentityPTE(d, t))
                                /\ IdentityPTE(d, t).page = PageAt(<<d, t>>)
  BY IdentityPages DEF IdentityPTE, Entry, Present, Flags
<1> QED
  BY <1>1, <1>2, <1>3, <1>4

\* A user page has a directory entry of the user part.
LEMMA UserPage ==
  ASSUME NEW v \in UserVA
  PROVE  v[1] \in UserPDX /\ v[1] \in PDX /\ v[2] \in PTX /\ v \in VA /\ v = <<v[1], v[2]>>
BY DEF UserVA, UserPDX, VA

\* Process 0 exists, and no process is NoID.
LEMMA ProcessNumbers == 0 \in ID /\ NoID \notin ID
BY ContainerAssumption DEF ID, NoID

----------------------------------------------------------------------------
(***************************************************************************)
(* The part of the invariant that is about page structures, and what each  *)
(* way of changing them needs to keep it.                                  *)
(***************************************************************************)
Structures ==
    /\ MPTTypeOK /\ KernelEntries /\ UserEntries /\ TablesPrivate /\ Isolation

\* A table of a process is in an allocated page of the user range.
LEMMA TableOwned ==
  ASSUME Structures, NEW id \in ID \ {0}, NEW d \in UserPDX, Present(PDirPool[id][d])
  PROVE  /\ <<id, d>> \in TableSlots
         /\ PDirPool[id][d].page \in TablePages
         /\ PDirPool[id][d].page \in UserPages /\ PDirPool[id][d].page \in Pages
         /\ PDirPool[id][d] = TablePDE(PDirPool[id][d].page)
         /\ owner[PDirPool[id][d].page] = id
<1>1. <<id, d>> \in TableSlots
  BY DEF TableSlots
<1>2. PDirPool[id][d].page \in TablePages
  BY <1>1 DEF TablePages
<1>3. PDirPool[id][d] # NoEntry
  BY EntryTypes
<1>4. PDirPool[id][d].page \in UserPages /\ PDirPool[id][d] = TablePDE(PDirPool[id][d].page)
  BY <1>3 DEF Structures, UserEntries
<1>5. UserPages \subseteq Pages
  BY ATAssumption DEF UserPages, Pages
<1>6. owner[PDirPool[id][d].page] = id
  BY <1>1 DEF Structures, TablesPrivate
<1> QED
  BY <1>1, <1>2, <1>4, <1>5, <1>6

\* No table is in a page without an owner, and each has an owner other than 0.
LEMMA TablePageOwned ==
  ASSUME Structures, NEW p \in TablePages
  PROVE  p \in UserPages /\ owner[p] \in ID \ {0}
<1>1. PICK s \in TableSlots : p = PDirPool[s[1]][s[2]].page
  BY DEF TablePages
<1>2. s[1] \in ID \ {0} /\ s[2] \in UserPDX /\ Present(PDirPool[s[1]][s[2]])
  BY <1>1 DEF TableSlots
<1> QED
  BY <1>1, <1>2, TableOwned

\* The mapping of a user page, spelled out.
LEMMA UserMapping ==
  ASSUME Structures, NEW id \in ID \ {0}, NEW v \in UserVA, Present(get_ptbl_entry_by_va(id, v))
  PROVE  /\ Present(PDirPool[id][v[1]])
         /\ get_ptbl_entry_by_va(id, v) = mem[PDirPool[id][v[1]].page][v[2]]
         /\ get_ptbl_entry_by_va(id, v) \in Entry
<1>1. Present(PDirPool[id][v[1]])
      /\ get_ptbl_entry_by_va(id, v) = mem[PDirPool[id][v[1]].page][v[2]]
  BY EntryTypes DEF get_ptbl_entry_by_va
<1>2. PDirPool[id][v[1]].page \in Pages
  BY <1>1, UserPage, TableOwned
<1> QED
  BY <1>1, <1>2, UserPage DEF Structures, MPTTypeOK

\* What Isolation says of one mapping.
LEMMA MappingOwned ==
  ASSUME Isolation, NEW id \in ID \ {0}, NEW v \in UserVA, Present(get_ptbl_entry_by_va(id, v))
  PROVE  owner[get_ptbl_entry_by_va(id, v).page] = id
         /\ get_ptbl_entry_by_va(id, v).page \notin TablePages
<1> DEFINE e == get_ptbl_entry_by_va(id, v)
<1>1. Present(e) => owner[e.page] = id /\ e.page \notin TablePages
  BY DEF Isolation
<1> QED
  BY <1>1

\* An entry is written, or removed, in the table of a present slot.
LEMMA WriteEntry ==
  ASSUME Structures, NEW id \in ID \ {0}, NEW v \in UserVA, NEW e \in Entry,
         Present(PDirPool[id][v[1]]),
         PDirPool' = PDirPool,
         mem' = [mem EXCEPT ![PDirPool[id][v[1]].page][v[2]] = e],
         owner' \in [Pages -> ID \cup {NoID}],
         \A p \in Pages : owner[p] # NoID => owner'[p] = owner[p],
         Present(e) => owner'[e.page] = id /\ e.page \notin TablePages
  PROVE  Structures'
<1> DEFINE t == PDirPool[id][v[1]].page
<1>1. v[1] \in UserPDX /\ v[1] \in PDX /\ v[2] \in PTX
  BY UserPage
<1>2. t \in UserPages /\ t \in Pages /\ owner[t] = id /\ <<id, v[1]>> \in TableSlots
  BY <1>1, TableOwned
<1>3. TableSlots' = TableSlots /\ TablePages' = TablePages
  BY DEF TableSlots, TablePages
<1>4. mem \in [Pages -> [PTX -> Entry]] /\ PDirPool \in [ID -> [PDX -> Entry]]
  BY DEF Structures, MPTTypeOK
<1> HIDE DEF t
<1>5. mem' = [mem EXCEPT ![t][v[2]] = e]
  BY DEF t
<1>6. /\ mem' \in [Pages -> [PTX -> Entry]]
      /\ \A p \in Pages, x \in PTX : mem'[p][x] = IF p = t /\ x = v[2] THEN e ELSE mem[p][x]
  <2> DEFINE row == [mem[t] EXCEPT ![v[2]] = e]
  <2>1. row \in [PTX -> Entry] /\ \A x \in PTX : row[x] = IF x = v[2] THEN e ELSE mem[t][x]
    BY <1>1, <1>2, <1>4
  <2>2. mem' = [mem EXCEPT ![t] = row]
    BY <1>5
  <2> HIDE DEF row
  <2>3. mem' \in [Pages -> [PTX -> Entry]]
    BY <2>1, <2>2, <1>2, <1>4
  <2>4. \A p \in Pages : mem'[p] = IF p = t THEN row ELSE mem[p]
    BY <2>2, <1>2, <1>4
  <2> QED
    BY <2>1, <2>3, <2>4
<1>7. MPTTypeOK'
  BY <1>4, <1>6 DEF MPTTypeOK
<1>8. KernelEntries'
  <2>1. \A d \in PDX : IDPTblPage(d) \in Pages /\ IDPTblPage(d) # t
    BY <1>2, IdentityPages
  <2>2. \A d \in PDX, x \in PTX : mem'[IDPTblPage(d)][x] = mem[IDPTblPage(d)][x]
    BY <2>1, <1>6
  <2> QED
    BY <2>2 DEF Structures, KernelEntries
<1>9. UserEntries'
  BY DEF Structures, UserEntries
<1>10. TablesPrivate'
  <2>1. \A s \in TableSlots : PDirPool[s[1]][s[2]].page \in Pages
                              /\ owner[PDirPool[s[1]][s[2]].page] # NoID
    BY TableOwned, ProcessNumbers DEF TableSlots
  <2> QED
    BY <1>3, <2>1 DEF Structures, TablesPrivate
<1>11. Isolation'
  <2> SUFFICES ASSUME NEW i \in ID \ {0}, NEW w \in UserVA, Present(get_ptbl_entry_by_va(i, w)')
               PROVE  owner'[get_ptbl_entry_by_va(i, w)'.page] = i
                      /\ get_ptbl_entry_by_va(i, w)'.page \notin TablePages
    BY <1>3 DEF Isolation
  <2>1. w[1] \in UserPDX /\ w[2] \in PTX
    BY UserPage
  <2> DEFINE s == PDirPool[i][w[1]].page
  <2>2. Present(PDirPool[i][w[1]]) /\ get_ptbl_entry_by_va(i, w)' = mem'[s][w[2]]
    BY EntryTypes DEF get_ptbl_entry_by_va
  <2>3. s \in Pages /\ owner[s] = i /\ <<i, w[1]>> \in TableSlots
    BY <2>1, <2>2, TableOwned
  <2>4. CASE s = t /\ w[2] = v[2]
    <3>1. mem'[s][w[2]] = e
      BY <2>1, <2>3, <2>4, <1>6
    <3>2. i = id
      BY <2>3, <2>4, <1>2
    <3> QED
      BY <2>2, <3>1, <3>2
  <2>5. CASE ~(s = t /\ w[2] = v[2])
    <3>1. mem'[s][w[2]] = mem[s][w[2]]
      BY <2>1, <2>3, <2>5, <1>6
    <3>2. Present(mem[s][w[2]]) /\ get_ptbl_entry_by_va(i, w) = mem[s][w[2]]
      BY <2>2, <3>1 DEF get_ptbl_entry_by_va
    <3>3. owner[mem[s][w[2]].page] = i /\ mem[s][w[2]].page \notin TablePages
      <4>1. Present(get_ptbl_entry_by_va(i, w))
        BY <3>2
      <4>2. owner[get_ptbl_entry_by_va(i, w).page] = i
            /\ get_ptbl_entry_by_va(i, w).page \notin TablePages
        BY <4>1, MappingOwned DEF Structures
      <4> QED
        BY <4>2, <3>2
    <3>4. mem[s][w[2]].page \in Pages
      BY <2>1, <2>3, <1>4 DEF Entry
    <3> QED
      BY <2>2, <3>1, <3>3, <3>4, ProcessNumbers
  <2> QED
    BY <2>4, <2>5
<1> QED
  BY <1>7, <1>8, <1>9, <1>10, <1>11 DEF Structures

\* A directory entry is set to x; what becomes of the slots with a table.
LEMMA SetSlot ==
  ASSUME Structures, NEW id \in ID \ {0}, NEW d \in UserPDX, NEW x \in Entry,
         PDirPool' = [PDirPool EXCEPT ![id][d] = x]
  PROVE  /\ PDirPool' \in [ID -> [PDX -> Entry]]
         /\ \A i \in ID, c \in PDX :
               PDirPool'[i][c] = IF i = id /\ c = d THEN x ELSE PDirPool[i][c]
         /\ \A i \in ID, c \in PDX :
               i = 0 \/ c \notin UserPDX => PDirPool'[i][c] = IdentityPDE(c)
<1>1. d \in PDX /\ id \in ID /\ id # 0
  BY DEF UserPDX
<1>2. PDirPool \in [ID -> [PDX -> Entry]]
  BY DEF Structures, MPTTypeOK
<1> DEFINE row == [PDirPool[id] EXCEPT ![d] = x]
<1>3. row \in [PDX -> Entry] /\ \A c \in PDX : row[c] = IF c = d THEN x ELSE PDirPool[id][c]
  BY <1>1, <1>2
<1>4. PDirPool' = [PDirPool EXCEPT ![id] = row]
  OBVIOUS
<1> HIDE DEF row
<1>5. PDirPool' \in [ID -> [PDX -> Entry]]
  BY <1>1, <1>2, <1>3, <1>4
<1>6. \A i \in ID : PDirPool'[i] = IF i = id THEN row ELSE PDirPool[i]
  BY <1>1, <1>2, <1>4
<1>7. \A i \in ID, c \in PDX : PDirPool'[i][c] = IF i = id /\ c = d THEN x ELSE PDirPool[i][c]
  BY <1>3, <1>6
<1>8. \A i \in ID, c \in PDX : i = 0 \/ c \notin UserPDX => PDirPool'[i][c] = IdentityPDE(c)
  BY <1>1, <1>7 DEF Structures, KernelEntries
<1> QED
  BY <1>5, <1>7, <1>8

\* A free page t becomes the page table of an empty slot.
LEMMA InstallStep ==
  ASSUME Structures, NEW id \in ID \ {0}, NEW v \in UserVA, NEW e \in Entry,
         NEW t \in UserPages, owner[t] = NoID, owner'[t] = id,
         InstallTable(id, v, t, e),
         owner' \in [Pages -> ID \cup {NoID}],
         \A p \in Pages : owner[p] # NoID => owner'[p] = owner[p],
         ~Present(PDirPool[id][v[1]]),
         Present(e) => owner'[e.page] = id /\ e.page \notin TablePages /\ e.page # t
  PROVE  Structures'
<1>1. v[1] \in UserPDX /\ v[1] \in PDX /\ v[2] \in PTX
  BY UserPage
<1>2. t \in Pages
  BY ATAssumption DEF UserPages, Pages
<1>3. TablePDE(t) \in Entry /\ Present(TablePDE(t)) /\ TablePDE(t).page = t
  BY <1>2, EntryTypes
<1>4. /\ PDirPool' \in [ID -> [PDX -> Entry]]
      /\ \A i \in ID, c \in PDX :
            PDirPool'[i][c] = IF i = id /\ c = v[1] THEN TablePDE(t) ELSE PDirPool[i][c]
      /\ \A i \in ID, c \in PDX :
            i = 0 \/ c \notin UserPDX => PDirPool'[i][c] = IdentityPDE(c)
  <2> DEFINE x == TablePDE(t)
             d == v[1]
  <2>1. PDirPool' = [PDirPool EXCEPT ![id][d] = x] /\ x \in Entry /\ d \in UserPDX
    BY <1>1, <1>3 DEF InstallTable
  <2> HIDE DEF x, d
  <2>2. /\ PDirPool' \in [ID -> [PDX -> Entry]]
        /\ \A i \in ID, c \in PDX :
              PDirPool'[i][c] = IF i = id /\ c = d THEN x ELSE PDirPool[i][c]
        /\ \A i \in ID, c \in PDX :
              i = 0 \/ c \notin UserPDX => PDirPool'[i][c] = IdentityPDE(c)
    BY <2>1, SetSlot, ZenonT(60)
  <2> QED
    BY <2>2 DEF x, d
<1> DEFINE row == [[x \in PTX |-> NoEntry] EXCEPT ![v[2]] = e]
<1>5. row \in [PTX -> Entry] /\ \A x \in PTX : row[x] = IF x = v[2] THEN e ELSE NoEntry
  BY <1>1, EntryTypes
<1>6. mem' = [mem EXCEPT ![t] = row]
  BY DEF InstallTable
<1> HIDE DEF row
<1>7. mem' \in [Pages -> [PTX -> Entry]] /\ \A p \in Pages : mem'[p] = IF p = t THEN row ELSE mem[p]
  BY <1>2, <1>5, <1>6 DEF Structures, MPTTypeOK
<1>8. \A s \in TableSlots : /\ s[1] \in ID \ {0} /\ s[2] \in UserPDX /\ s[2] \in PDX
                            /\ s = <<s[1], s[2]>> /\ ~(s[1] = id /\ s[2] = v[1])
                            /\ PDirPool[s[1]][s[2]].page \in Pages
                            /\ owner[PDirPool[s[1]][s[2]].page] = s[1]
                            /\ PDirPool[s[1]][s[2]].page # t
                            /\ PDirPool'[s[1]][s[2]] = PDirPool[s[1]][s[2]]
  <2> SUFFICES ASSUME NEW s \in TableSlots
               PROVE  /\ s[1] \in ID \ {0} /\ s[2] \in UserPDX /\ s[2] \in PDX
                      /\ s = <<s[1], s[2]>> /\ ~(s[1] = id /\ s[2] = v[1])
                      /\ PDirPool[s[1]][s[2]].page \in Pages
                      /\ owner[PDirPool[s[1]][s[2]].page] = s[1]
                      /\ PDirPool[s[1]][s[2]].page # t
                      /\ PDirPool'[s[1]][s[2]] = PDirPool[s[1]][s[2]]
    OBVIOUS
  <2>1. s[1] \in ID \ {0} /\ s[2] \in UserPDX /\ s = <<s[1], s[2]>> /\ Present(PDirPool[s[1]][s[2]])
    BY DEF TableSlots
  <2>2. s[2] \in PDX
    BY <2>1 DEF UserPDX
  <2>3. PDirPool[s[1]][s[2]].page \in Pages /\ owner[PDirPool[s[1]][s[2]].page] = s[1]
    BY <2>1, TableOwned
  <2>4. ~(s[1] = id /\ s[2] = v[1])
    BY <2>1
  <2> QED
    BY <2>1, <2>2, <2>3, <2>4, <1>4, ProcessNumbers
<1>9. \A s \in TableSlots' : s \in TableSlots \/ s = <<id, v[1]>>
  <2> SUFFICES ASSUME NEW s \in TableSlots', s # <<id, v[1]>> PROVE s \in TableSlots
    OBVIOUS
  <2>1. s \in (ID \ {0}) \X UserPDX /\ Present(PDirPool'[s[1]][s[2]])
    BY DEF TableSlots
  <2>2. s[1] \in ID /\ s[2] \in PDX /\ ~(s[1] = id /\ s[2] = v[1])
    BY <2>1 DEF UserPDX
  <2>3. PDirPool'[s[1]][s[2]] = PDirPool[s[1]][s[2]]
    BY <2>2, <1>4
  <2> QED
    BY <2>1, <2>3 DEF TableSlots
<1>10. PDirPool'[id][v[1]] = TablePDE(t)
  BY <1>1, <1>4
<1>11. \A p \in TablePages' : p \in TablePages \/ p = t
  <2> SUFFICES ASSUME NEW p \in TablePages' PROVE p \in TablePages \/ p = t
    OBVIOUS
  <2>1. PICK s \in TableSlots' : p = PDirPool'[s[1]][s[2]].page
    BY DEF TablePages
  <2>2. CASE s = <<id, v[1]>>
    BY <2>1, <2>2, <1>10, <1>3
  <2>3. CASE s \in TableSlots
    BY <2>1, <2>3, <1>8 DEF TablePages
  <2> QED
    BY <2>2, <2>3, <1>9
<1>12. MPTTypeOK'
  BY <1>4, <1>7 DEF MPTTypeOK
<1>13. KernelEntries'
  <2>1. \A c \in PDX : IDPTblPage(c) \in Pages /\ IDPTblPage(c) # t
    BY IdentityPages
  <2>2. \A c \in PDX : mem'[IDPTblPage(c)] = mem[IDPTblPage(c)]
    BY <2>1, <1>7
  <2> QED
    BY <2>2, <1>4 DEF Structures, KernelEntries
<1>14. UserEntries'
  <2> SUFFICES ASSUME NEW i \in ID \ {0}, NEW c \in UserPDX
               PROVE  \/ PDirPool'[i][c] = NoEntry
                      \/ /\ PDirPool'[i][c].page \in UserPages
                         /\ PDirPool'[i][c] = TablePDE(PDirPool'[i][c].page)
    BY DEF UserEntries
  <2>1. CASE i = id /\ c = v[1]
    BY <2>1, <1>3, <1>10
  <2>2. CASE ~(i = id /\ c = v[1])
    <3>1. PDirPool'[i][c] = PDirPool[i][c]
      BY <2>2, <1>4 DEF UserPDX
    <3> QED
      BY <3>1 DEF Structures, UserEntries
  <2> QED
    BY <2>1, <2>2
<1>15. TablesPrivate'
  <2>1. ASSUME NEW s \in TableSlots' PROVE owner'[PDirPool'[s[1]][s[2]].page] = s[1]
    <3>1. CASE s = <<id, v[1]>>
      BY <3>1, <1>3, <1>10
    <3>2. CASE s \in TableSlots
      BY <3>2, <1>8, ProcessNumbers
    <3> QED
      BY <3>1, <3>2, <1>9
  <2>2. ASSUME NEW s1 \in TableSlots', NEW s2 \in TableSlots',
               PDirPool'[s1[1]][s1[2]].page = PDirPool'[s2[1]][s2[2]].page
        PROVE  s1 = s2
    <3>1. CASE s1 \in TableSlots /\ s2 \in TableSlots
      <4>1. PDirPool[s1[1]][s1[2]].page = PDirPool[s2[1]][s2[2]].page
        BY <3>1, <2>2, <1>8
      <4> QED
        BY <4>1, <3>1 DEF Structures, TablesPrivate
    <3>2. CASE s1 \in TableSlots /\ s2 = <<id, v[1]>>
      BY <3>2, <2>2, <1>3, <1>8, <1>10
    <3>3. CASE s1 = <<id, v[1]>> /\ s2 \in TableSlots
      BY <3>3, <2>2, <1>3, <1>8, <1>10
    <3>4. CASE s1 = <<id, v[1]>> /\ s2 = <<id, v[1]>>
      BY <3>4
    <3> QED
      BY <3>1, <3>2, <3>3, <3>4, <1>9
  <2> QED
    BY <2>1, <2>2 DEF TablesPrivate
<1>16. Isolation'
  <2> SUFFICES ASSUME NEW i \in ID \ {0}, NEW w \in UserVA, Present(get_ptbl_entry_by_va(i, w)')
               PROVE  owner'[get_ptbl_entry_by_va(i, w)'.page] = i
                      /\ get_ptbl_entry_by_va(i, w)'.page \notin TablePages'
    BY DEF Isolation
  <2>1. w[1] \in UserPDX /\ w[1] \in PDX /\ w[2] \in PTX
    BY UserPage
  <2>2. Present(PDirPool'[i][w[1]])
        /\ get_ptbl_entry_by_va(i, w)' = mem'[PDirPool'[i][w[1]].page][w[2]]
    BY EntryTypes DEF get_ptbl_entry_by_va
  <2>3. CASE i = id /\ w[1] = v[1]
    <3>1. get_ptbl_entry_by_va(i, w)' = row[w[2]]
      BY <2>2, <2>3, <1>2, <1>3, <1>7, <1>10
    <3>2. get_ptbl_entry_by_va(i, w)' = e
      BY <3>1, <2>1, <1>5, EntryTypes
    <3> QED
      BY <3>2, <2>3, <1>11
  <2>4. CASE ~(i = id /\ w[1] = v[1])
    <3> DEFINE s == PDirPool[i][w[1]].page
    <3>1. PDirPool'[i][w[1]] = PDirPool[i][w[1]]
      BY <2>1, <2>4, <1>4
    <3>2. Present(PDirPool[i][w[1]])
      BY <2>2, <3>1
    <3>3. s \in Pages /\ owner[s] = i
      BY <3>2, <2>1, TableOwned
    <3>4. s # t
      BY <3>3, ProcessNumbers
    <3>5. get_ptbl_entry_by_va(i, w)' = mem[s][w[2]]
      BY <2>2, <3>1, <3>3, <3>4, <1>7
    <3>6. get_ptbl_entry_by_va(i, w) = mem[s][w[2]]
      BY <3>2, <3>5 DEF get_ptbl_entry_by_va
    <3>7. Present(get_ptbl_entry_by_va(i, w))
      BY <3>5, <3>6
    <3>8. owner[get_ptbl_entry_by_va(i, w).page] = i
          /\ get_ptbl_entry_by_va(i, w).page \notin TablePages
      BY <3>7, MappingOwned DEF Structures
    <3>9. get_ptbl_entry_by_va(i, w).page \in Pages
      BY <3>7, UserMapping DEF Entry
    <3> QED
      BY <3>5, <3>6, <3>8, <3>9, <1>11, ProcessNumbers
  <2> QED
    BY <2>3, <2>4
<1> QED
  BY <1>12, <1>13, <1>14, <1>15, <1>16 DEF Structures

\* A slot is emptied; the page of its table, if it had one, may lose its owner.
LEMMA RemoveStep ==
  ASSUME Structures, NEW id \in ID \ {0}, NEW v \in UserVA,
         PDirPool' = [PDirPool EXCEPT ![id][v[1]] = NoEntry], mem' = mem,
         owner' \in [Pages -> ID \cup {NoID}],
         \A p \in Pages : \/ owner'[p] = owner[p]
                          \/ Present(PDirPool[id][v[1]]) /\ p = PDirPool[id][v[1]].page
  PROVE  Structures'
<1>1. v[1] \in UserPDX /\ v[1] \in PDX /\ v[2] \in PTX
  BY UserPage
<1>2. NoEntry \in Entry /\ ~Present(NoEntry)
  BY EntryTypes
<1>3. /\ PDirPool' \in [ID -> [PDX -> Entry]]
      /\ \A i \in ID, c \in PDX :
            PDirPool'[i][c] = IF i = id /\ c = v[1] THEN NoEntry ELSE PDirPool[i][c]
      /\ \A i \in ID, c \in PDX :
            i = 0 \/ c \notin UserPDX => PDirPool'[i][c] = IdentityPDE(c)
  BY <1>1, <1>2, SetSlot
<1>4. \A s \in TableSlots' : /\ s \in TableSlots /\ PDirPool'[s[1]][s[2]] = PDirPool[s[1]][s[2]]
                             /\ PDirPool[s[1]][s[2]].page \in Pages
                             /\ owner'[PDirPool[s[1]][s[2]].page] = s[1]
  <2> SUFFICES ASSUME NEW s \in TableSlots'
               PROVE  /\ s \in TableSlots /\ PDirPool'[s[1]][s[2]] = PDirPool[s[1]][s[2]]
                      /\ PDirPool[s[1]][s[2]].page \in Pages
                      /\ owner'[PDirPool[s[1]][s[2]].page] = s[1]
    OBVIOUS
  <2>1. s \in (ID \ {0}) \X UserPDX /\ Present(PDirPool'[s[1]][s[2]])
    BY DEF TableSlots
  <2>2. s[1] \in ID \ {0} /\ s[2] \in UserPDX /\ s[2] \in PDX /\ s = <<s[1], s[2]>>
    BY <2>1 DEF UserPDX
  <2>3. ~(s[1] = id /\ s[2] = v[1]) /\ PDirPool'[s[1]][s[2]] = PDirPool[s[1]][s[2]]
    BY <2>1, <2>2, <1>2, <1>3
  <2>4. s \in TableSlots
    BY <2>1, <2>3 DEF TableSlots
  <2>5. PDirPool[s[1]][s[2]].page \in Pages /\ owner[PDirPool[s[1]][s[2]].page] = s[1]
    BY <2>1, <2>2, <2>3, TableOwned
  <2>6. ASSUME Present(PDirPool[id][v[1]]), PDirPool[s[1]][s[2]].page = PDirPool[id][v[1]].page
        PROVE  FALSE
    <3>1. <<id, v[1]>> \in TableSlots
      BY <2>6, <1>1, TableOwned
    <3>2. s = <<id, v[1]>>
      BY <3>1, <2>4, <2>6 DEF Structures, TablesPrivate
    <3> QED
      BY <3>2, <2>3
  <2> QED
    BY <2>3, <2>4, <2>5, <2>6
<1>5. \A p \in TablePages' : p \in TablePages
  BY <1>4 DEF TablePages
<1>6. MPTTypeOK'
  BY <1>3 DEF Structures, MPTTypeOK
<1>7. KernelEntries'
  BY <1>3 DEF Structures, KernelEntries
<1>8. UserEntries'
  <2> SUFFICES ASSUME NEW i \in ID \ {0}, NEW c \in UserPDX
               PROVE  \/ PDirPool'[i][c] = NoEntry
                      \/ /\ PDirPool'[i][c].page \in UserPages
                         /\ PDirPool'[i][c] = TablePDE(PDirPool'[i][c].page)
    BY DEF UserEntries
  <2>1. PDirPool'[i][c] = NoEntry \/ PDirPool'[i][c] = PDirPool[i][c]
    BY <1>3 DEF UserPDX
  <2> QED
    BY <2>1 DEF Structures, UserEntries
<1>9. TablesPrivate'
  BY <1>4 DEF Structures, TablesPrivate
<1>10. Isolation'
  <2> SUFFICES ASSUME NEW i \in ID \ {0}, NEW w \in UserVA, Present(get_ptbl_entry_by_va(i, w)')
               PROVE  owner'[get_ptbl_entry_by_va(i, w)'.page] = i
                      /\ get_ptbl_entry_by_va(i, w)'.page \notin TablePages'
    BY DEF Isolation
  <2>1. w[1] \in UserPDX /\ w[1] \in PDX /\ w[2] \in PTX
    BY UserPage
  <2>2. Present(PDirPool'[i][w[1]])
        /\ get_ptbl_entry_by_va(i, w)' = mem[PDirPool'[i][w[1]].page][w[2]]
    BY EntryTypes DEF get_ptbl_entry_by_va
  <2>3. PDirPool'[i][w[1]] = PDirPool[i][w[1]]
    BY <2>1, <2>2, <1>2, <1>3
  <2>4. get_ptbl_entry_by_va(i, w)' = get_ptbl_entry_by_va(i, w)
    <3>1. Present(mem[PDirPool[i][w[1]].page][w[2]]) /\ Present(PDirPool[i][w[1]])
      BY <2>2, <2>3
    <3>2. get_ptbl_entry_by_va(i, w) = mem[PDirPool[i][w[1]].page][w[2]]
      BY <3>1 DEF get_ptbl_entry_by_va
    <3> QED
      BY <3>2, <2>2, <2>3
  <2>5. Present(get_ptbl_entry_by_va(i, w))
    BY <2>4
  <2>6. owner[get_ptbl_entry_by_va(i, w).page] = i
        /\ get_ptbl_entry_by_va(i, w).page \notin TablePages
    BY <2>5, MappingOwned DEF Structures
  <2>7. get_ptbl_entry_by_va(i, w).page \in Pages
    BY <2>5, UserMapping DEF Entry
  <2>8. Present(PDirPool[id][v[1]]) => PDirPool[id][v[1]].page \in TablePages
    BY <1>1, TableOwned
  <2> QED
    BY <2>4, <2>6, <2>7, <2>8, <1>5
<1> QED
  BY <1>6, <1>7, <1>8, <1>9, <1>10 DEF Structures

\* No page structure changes, and no page loses its owner.
LEMMA OwnerGrows ==
  ASSUME Structures, PDirPool' = PDirPool, mem' = mem,
         owner' \in [Pages -> ID \cup {NoID}],
         \A p \in Pages : owner[p] # NoID => owner'[p] = owner[p]
  PROVE  Structures'
<1>1. TableSlots' = TableSlots /\ TablePages' = TablePages
  BY DEF TableSlots, TablePages
<1>2. MPTTypeOK' /\ KernelEntries' /\ UserEntries'
  BY DEF Structures, MPTTypeOK, KernelEntries, UserEntries
<1>3. TablesPrivate'
  <2>1. \A s \in TableSlots : PDirPool[s[1]][s[2]].page \in Pages
                              /\ owner[PDirPool[s[1]][s[2]].page] # NoID
    BY TableOwned, ProcessNumbers DEF TableSlots
  <2> QED
    BY <1>1, <2>1 DEF Structures, TablesPrivate
<1>4. Isolation'
  <2> SUFFICES ASSUME NEW i \in ID \ {0}, NEW w \in UserVA, Present(get_ptbl_entry_by_va(i, w)')
               PROVE  owner'[get_ptbl_entry_by_va(i, w)'.page] = i
                      /\ get_ptbl_entry_by_va(i, w)'.page \notin TablePages
    BY <1>1 DEF Isolation
  <2>1. get_ptbl_entry_by_va(i, w)' = get_ptbl_entry_by_va(i, w)
    BY DEF get_ptbl_entry_by_va
  <2>2. Present(get_ptbl_entry_by_va(i, w))
    BY <2>1
  <2>3. owner[get_ptbl_entry_by_va(i, w).page] = i
        /\ get_ptbl_entry_by_va(i, w).page \notin TablePages
    BY <2>2, MappingOwned DEF Structures
  <2>4. get_ptbl_entry_by_va(i, w).page \in Pages
    BY <2>2, UserMapping DEF Entry
  <2> QED
    BY <2>1, <2>3, <2>4, ProcessNumbers
<1> QED
  BY <1>2, <1>3, <1>4 DEF Structures

----------------------------------------------------------------------------
\* Allocation and freeing, with the owners.

LEMMA InvParts == MPTInv <=> ATInv /\ OwnerMarksAllocated /\ Structures
BY DEF MPTInv, Structures

\* A page that palloc may return has no owner and is no page table.
LEMMA FreePage ==
  ASSUME MPTInv, NEW r \in FreePages(AT)
  PROVE  r \in UserPages /\ r \in Pages /\ r # 0 /\ owner[r] = NoID /\ r \notin TablePages
<1>1. r \in UserPages /\ ~at_is_allocated(AT, r)
  BY DEF FreePages
<1>2. r \in Pages /\ r # 0
  BY <1>1, ATAssumption DEF UserPages, Pages
<1>3. owner[r] = NoID
  BY <1>1, <1>2 DEF MPTInv, OwnerMarksAllocated
<1>4. r \notin TablePages
  BY <1>3, InvParts, TablePageOwned, ProcessNumbers
<1> QED
  BY <1>1, <1>2, <1>3, <1>4

LEMMA AllocOwner ==
  ASSUME MPTInv, NEW id \in ID, NEW r, container_alloc(id, r)
  PROVE  /\ ATInv' /\ OwnerMarksAllocated'
         /\ owner' \in [Pages -> ID \cup {NoID}]
         /\ \A p \in Pages : owner[p] # NoID => owner'[p] = owner[p]
         /\ r # 0 => r \in FreePages(AT) /\ owner'[r] = id
         /\ FreePages(AT') \subseteq FreePages(AT)
<1>1. ATInv' /\ palloc(r)
  BY PallocInv DEF container_alloc, MPTInv
<1>2. AT \in [Pages -> ATStruct] /\ owner \in [Pages -> ID \cup {NoID}] /\ OwnerMarksAllocated
  BY DEF MPTInv, ATInv, ATTypeOK, MPTTypeOK
<1>3. CASE r = 0
  BY <1>1, <1>2, <1>3 DEF container_alloc, palloc, OwnerMarksAllocated
<1>4. CASE r # 0
  <2>1. r \in FreePages(AT)
    BY <1>1, <1>4 DEF palloc, PallocReturns
  <2>2. r \in Pages /\ owner[r] = NoID
    BY <2>1, FreePage
  <2>3. owner' = [owner EXCEPT ![r] = id] /\ AT' = [AT EXCEPT ![r].allocated = 1]
    BY <1>1, <1>4 DEF container_alloc, palloc, at_set_allocated
  <2>4. owner' \in [Pages -> ID \cup {NoID}] /\ owner'[r] = id
        /\ \A p \in Pages : p # r => owner'[p] = owner[p]
    BY <2>2, <2>3, <1>2
  <2>5. \A p \in Pages : at_is_allocated(AT', p) <=> p = r \/ at_is_allocated(AT, p)
    BY <2>2, <2>3, <1>2 DEF ATStruct, at_is_allocated
  <2>6. OwnerMarksAllocated'
    BY <2>4, <2>5, <1>2, ProcessNumbers DEF OwnerMarksAllocated
  <2>7. \A p \in Pages : at_is_norm(AT', p) <=> at_is_norm(AT, p)
    BY <2>2, <2>3, <1>2 DEF ATStruct, at_is_norm
  <2>8. UserPages \subseteq Pages
    BY ATAssumption DEF UserPages, Pages
  <2>9. FreePages(AT') \subseteq FreePages(AT)
    BY <2>5, <2>7, <2>8 DEF FreePages
  <2> QED
    BY <1>1, <2>1, <2>2, <2>4, <2>6, <2>9
<1> QED
  BY <1>3, <1>4

LEMMA FreeOwner ==
  ASSUME MPTInv, NEW id \in ID, NEW q \in Pages, container_free(id, q)
  PROVE  /\ ATInv' /\ OwnerMarksAllocated'
         /\ owner' \in [Pages -> ID \cup {NoID}]
         /\ \A p \in Pages : owner'[p] = owner[p] \/ (p = q /\ at_is_allocated(AT, q))
<1>1. AT \in [Pages -> ATStruct] /\ owner \in [Pages -> ID \cup {NoID}] /\ OwnerMarksAllocated
  BY DEF MPTInv, ATInv, ATTypeOK, MPTTypeOK
<1>2. CASE ~at_is_allocated(AT, q)
  <2>1. UNCHANGED cVars
    BY <1>2 DEF container_free
  <2>2. ATInv'
    BY <2>1 DEF cVars, atVars, MPTInv, ATInv, ATTypeOK, OnlyNormalAllocated, NormalExists,
                at_is_norm, at_is_allocated
  <2>3. AT' = AT /\ owner' = owner
    BY <2>1 DEF cVars, atVars
  <2>4. OwnerMarksAllocated'
    BY <2>3, <1>1 DEF OwnerMarksAllocated, at_is_allocated
  <2>5. owner' \in [Pages -> ID \cup {NoID}] /\ \A p \in Pages : owner'[p] = owner[p]
    BY <2>3, <1>1
  <2> QED
    BY <2>2, <2>4, <2>5
<1>3. CASE at_is_allocated(AT, q)
  <2>1. pfree(q) /\ owner' = [owner EXCEPT ![q] = NoID]
    BY <1>3 DEF container_free
  <2>2. ATInv'
    BY <2>1, PfreeInv DEF MPTInv
  <2>3. owner' \in [Pages -> ID \cup {NoID}] /\ owner'[q] = NoID
        /\ \A p \in Pages : p # q => owner'[p] = owner[p]
    BY <2>1, <1>1
  <2>4. AT' = [AT EXCEPT ![q].allocated = 0]
    BY <2>1 DEF pfree, at_set_allocated
  <2>5. \A p \in Pages : at_is_allocated(AT', p) <=> p # q /\ at_is_allocated(AT, p)
    BY <2>4, <1>1 DEF ATStruct, at_is_allocated
  <2>6. OwnerMarksAllocated'
    BY <2>3, <2>5, <1>1 DEF OwnerMarksAllocated
  <2> QED
    BY <1>3, <2>2, <2>3, <2>6
<1> QED
  BY <1>2, <1>3

\* The invariant does not depend on the containers' records or on ret.
LEMMA InvUnchanged ==
  ASSUME MPTInv, UNCHANGED <<atVars, owner, PDirPool, mem>>
  PROVE  MPTInv'
<1>1. ATInv' /\ OwnerMarksAllocated'
  BY DEF atVars, MPTInv, ATInv, ATTypeOK, OnlyNormalAllocated, NormalExists, at_is_norm,
         at_is_allocated, OwnerMarksAllocated
<1>2. Structures'
  BY InvParts, OwnerGrows DEF Structures, MPTTypeOK
<1> QED
  BY <1>1, <1>2, InvParts DEF MPTInv, Structures

----------------------------------------------------------------------------
\* The operations keep the invariant.

\* Structures', put together with the rest.
LEMMA InvNext == ASSUME ATInv', OwnerMarksAllocated', Structures' PROVE MPTInv'
BY DEF MPTInv, Structures

\* map_page to a data page of the process, or a page that was just allocated.
LEMMA MapOwnKeeps ==
  ASSUME MPTInv, NEW id \in ID \ {0}, NEW v \in UserVA, NEW perm \in SUBSET Flags,
         MapOwn(id, v, perm)
  PROVE  MPTInv'
<1>1. PICK p \in Owned(id) \ TablePages : map_page(id, v, p, perm)
  BY DEF MapOwn
<1>2. p \in Pages /\ owner[p] = id /\ p \notin TablePages
  BY <1>1 DEF Owned
<1> DEFINE e == [page |-> p, perm |-> perm]
<1>3. e \in Entry /\ e.page = p
  BY <1>2 DEF Entry
<1>4. Structures /\ id \in ID /\ id # NoID
  BY InvParts, ProcessNumbers
<1>5. CASE MapPresent(id, v, e) /\ UNCHANGED cVars
  <2>1. Present(PDirPool[id][v[1]]) /\ PDirPool' = PDirPool
        /\ mem' = [mem EXCEPT ![PDirPool[id][v[1]].page][v[2]] = e]
    BY <1>5 DEF MapPresent, get_pdir_entry_by_va, set_ptbl_entry_by_va
  <2>2. UNCHANGED <<AT, NUM_PAGES, last_palloc_index, owner>>
    BY <1>5 DEF cVars, atVars
  <2> HIDE DEF e
  <2>3. owner' \in [Pages -> ID \cup {NoID}]
        /\ \A q \in Pages : owner[q] # NoID => owner'[q] = owner[q]
    BY <2>2 DEF MPTInv, MPTTypeOK
  <2>4. Present(e) => owner'[e.page] = id /\ e.page \notin TablePages
    BY <2>2, <1>2, <1>3
  <2>5. Structures'
    BY <2>1, <2>3, <2>4, <1>3, <1>4, WriteEntry
  <2>6. ATInv' /\ OwnerMarksAllocated'
    BY <2>2 DEF MPTInv, ATInv, ATTypeOK, OnlyNormalAllocated, NormalExists, at_is_norm,
                at_is_allocated, OwnerMarksAllocated
  <2> QED
    BY <2>5, <2>6, InvNext
<1>6. CASE /\ ~Present(get_pdir_entry_by_va(id, v))
           /\ \E t \in PallocValues :
                 /\ container_alloc(id, t)
                 /\ IF t = 0 THEN UNCHANGED <<PDirPool, mem>> ELSE InstallTable(id, v, t, e)
  <2>1. PICK t \in PallocValues :
               /\ container_alloc(id, t)
               /\ IF t = 0 THEN UNCHANGED <<PDirPool, mem>> ELSE InstallTable(id, v, t, e)
    BY <1>6
  <2>2. ~Present(PDirPool[id][v[1]])
    BY <1>6 DEF get_pdir_entry_by_va
  <2> HIDE DEF e
  <2>3. /\ ATInv' /\ OwnerMarksAllocated'
        /\ owner' \in [Pages -> ID \cup {NoID}]
        /\ \A q \in Pages : owner[q] # NoID => owner'[q] = owner[q]
        /\ t # 0 => t \in FreePages(AT) /\ owner'[t] = id
    BY <2>1, <1>4, AllocOwner
  <2>4. CASE t = 0
    <3>1. Structures'
      BY <2>1, <2>3, <2>4, <1>4, OwnerGrows
    <3> QED
      BY <3>1, <2>3, InvNext
  <2>5. CASE t # 0
    <3>1. t \in UserPages /\ owner[t] = NoID /\ InstallTable(id, v, t, e)
      BY <2>1, <2>3, <2>5, FreePage
    <3>2. Present(e) => owner'[e.page] = id /\ e.page \notin TablePages /\ e.page # t
      BY <2>3, <3>1, <1>2, <1>3, <1>4
    <3>3. Structures'
      BY <2>2, <2>3, <2>5, <3>1, <3>2, <1>3, <1>4, InstallStep
    <3> QED
      BY <3>3, <2>3, InvNext
  <2> QED
    BY <2>4, <2>5
<1> QED
  BY <1>1, <1>5, <1>6 DEF map_page

LEMMA UnmapKeeps ==
  ASSUME MPTInv, NEW id \in ID \ {0}, NEW v \in UserVA, unmap_page(id, v)
  PROVE  MPTInv'
<1>1. UNCHANGED <<atVars, owner, PDirPool>>
  BY DEF unmap_page, cVars
<1>2. CASE mem' = mem
  BY <1>1, <1>2, InvUnchanged
<1>3. CASE Present(get_pdir_entry_by_va(id, v)) /\ rmv_ptbl_entry_by_va(id, v)
  <2>1. Present(PDirPool[id][v[1]])
        /\ mem' = [mem EXCEPT ![PDirPool[id][v[1]].page][v[2]] = NoEntry]
    BY <1>3 DEF get_pdir_entry_by_va, rmv_ptbl_entry_by_va, set_ptbl_entry_by_va
  <2>2. owner' \in [Pages -> ID \cup {NoID}]
        /\ \A q \in Pages : owner[q] # NoID => owner'[q] = owner[q]
    BY <1>1 DEF MPTInv, MPTTypeOK
  <2>3. NoEntry \in Entry /\ ~Present(NoEntry)
    BY EntryTypes
  <2>4. Structures'
    BY <2>1, <2>2, <2>3, <1>1, InvParts, WriteEntry
  <2>5. ATInv' /\ OwnerMarksAllocated'
    BY <1>1 DEF atVars, MPTInv, ATInv, ATTypeOK, OnlyNormalAllocated, NormalExists, at_is_norm,
                at_is_allocated, OwnerMarksAllocated
  <2> QED
    BY <2>4, <2>5, InvNext
<1> QED
  BY <1>2, <1>3 DEF unmap_page

LEMMA NewTableKeeps ==
  ASSUME MPTInv, NEW id \in ID \ {0}, NEW v \in UserVA, NewTable(id, v)
  PROVE  MPTInv'
<1>1. PICK t \in PallocValues :
         /\ container_alloc(id, t)
         /\ IF t = 0 THEN UNCHANGED <<PDirPool, mem>> ELSE InstallTable(id, v, t, NoEntry)
  BY DEF NewTable, alloc_ptbl
<1>2. ~Present(PDirPool[id][v[1]])
  BY DEF NewTable, get_pdir_entry_by_va
<1>3. /\ ATInv' /\ OwnerMarksAllocated'
      /\ owner' \in [Pages -> ID \cup {NoID}]
      /\ \A q \in Pages : owner[q] # NoID => owner'[q] = owner[q]
      /\ t # 0 => t \in FreePages(AT) /\ owner'[t] = id
  BY <1>1, AllocOwner
<1>4. CASE t = 0
  <2>1. Structures'
    BY <1>1, <1>3, <1>4, InvParts, OwnerGrows
  <2> QED
    BY <2>1, <1>3, InvNext
<1>5. CASE t # 0
  <2>1. t \in UserPages /\ owner[t] = NoID /\ InstallTable(id, v, t, NoEntry)
    BY <1>1, <1>3, <1>5, FreePage
  <2>2. NoEntry \in Entry /\ ~Present(NoEntry)
    BY EntryTypes
  <2>3. Structures'
    BY <2>1, <2>2, <1>2, <1>3, <1>5, InvParts, InstallStep
  <2> QED
    BY <2>3, <1>3, InvNext
<1> QED
  BY <1>4, <1>5

\* free_ptbl of an empty slot frees page 0, which is never allocated.
LEMMA FreeTableKeeps ==
  ASSUME MPTInv, NEW id \in ID \ {0}, NEW v \in UserVA, free_ptbl(id, v)
  PROVE  MPTInv'
<1> DEFINE q == PDirPool[id][v[1]].page
<1>1. v[1] \in UserPDX /\ v[1] \in PDX /\ Structures
  BY UserPage, InvParts
<1>2. q \in Pages
  BY <1>1 DEF Structures, MPTTypeOK, Entry
<1>3. container_free(id, q) /\ PDirPool' = [PDirPool EXCEPT ![id][v[1]] = NoEntry] /\ mem' = mem
  BY DEF free_ptbl
<1>4. ~Present(PDirPool[id][v[1]]) => ~at_is_allocated(AT, q)
  <2> SUFFICES ASSUME ~Present(PDirPool[id][v[1]]) PROVE ~at_is_allocated(AT, q)
    OBVIOUS
  <2>1. ASSUME PDirPool[id][v[1]] = TablePDE(q) PROVE FALSE
    BY <2>1, <1>2, EntryTypes
  <2>2. PDirPool[id][v[1]] = NoEntry
    BY <2>1, <1>1 DEF Structures, UserEntries
  <2>3. q = 0 /\ 0 \notin UserPages
    BY <2>2, ATAssumption DEF NoEntry, UserPages
  <2> QED
    BY <2>3, <1>2 DEF MPTInv, ATInv, OnlyNormalAllocated
<1> HIDE DEF q
<1>5. /\ ATInv' /\ OwnerMarksAllocated'
      /\ owner' \in [Pages -> ID \cup {NoID}]
      /\ \A p \in Pages : owner'[p] = owner[p] \/ (p = q /\ at_is_allocated(AT, q))
  BY <1>2, <1>3, FreeOwner
<1>6. \A p \in Pages : \/ owner'[p] = owner[p]
                       \/ Present(PDirPool[id][v[1]]) /\ p = PDirPool[id][v[1]].page
  BY <1>4, <1>5 DEF q
<1>7. Structures'
  BY <1>1, <1>3, <1>5, <1>6, RemoveStep
<1> QED
  BY <1>5, <1>7, InvNext

\* A second palloc returns another free page.
LEMMA SecondPage ==
  ASSUME MPTInv, NEW r \in FreePages(AT), NEW t,
         t # 0, PallocReturns(at_set_allocated(AT, r, 1), r, t)
  PROVE  t \in FreePages(AT) /\ t # r
<1> DEFINE at == at_set_allocated(AT, r, 1)
<1>1. r \in Pages /\ AT \in [Pages -> ATStruct]
  BY FreePage DEF MPTInv, ATInv, ATTypeOK
<1>2. \A p \in Pages : /\ at[p].perm = AT[p].perm
                       /\ at[p].allocated = IF p = r THEN 1 ELSE AT[p].allocated
  BY <1>1 DEF ATStruct, at_set_allocated
<1>3. t \in FreePages(at)
  BY DEF PallocReturns
<1> HIDE DEF at
<1>4. t \in UserPages /\ t \in Pages /\ at[t].perm > 1 /\ ~(at[t].allocated > 0)
  BY <1>3, ATAssumption DEF FreePages, at_is_norm, at_is_allocated, UserPages, Pages
<1>5. t # r
  BY <1>1, <1>2, <1>4
<1> QED
  BY <1>2, <1>4, <1>5 DEF FreePages, at_is_norm, at_is_allocated

LEMMA TwoPages ==
  ASSUME MPTInv, NEW id \in ID \ {0}, NEW r \in FreePages(AT), NEW t \in FreePages(AT), t # r,
         AT' = at_set_allocated(at_set_allocated(AT, r, 1), t, 1),
         last_palloc_index' = t, NUM_PAGES' = NUM_PAGES,
         owner' = [owner EXCEPT ![r] = id, ![t] = id]
  PROVE  /\ ATInv' /\ OwnerMarksAllocated'
         /\ owner' \in [Pages -> ID \cup {NoID}]
         /\ \A p \in Pages : owner[p] # NoID => owner'[p] = owner[p]
         /\ owner'[r] = id /\ owner'[t] = id
         /\ FreePages(AT') \subseteq FreePages(AT)
<1>1. AT \in [Pages -> ATStruct] /\ owner \in [Pages -> ID \cup {NoID}] /\ OwnerMarksAllocated
  BY DEF MPTInv, ATInv, ATTypeOK, MPTTypeOK
<1>2. r \in UserPages /\ r \in Pages /\ owner[r] = NoID /\ t \in UserPages /\ t \in Pages
      /\ owner[t] = NoID
  BY FreePage
<1>3. AT' \in [Pages -> ATStruct]
      /\ \A p \in Pages : /\ AT'[p].perm = AT[p].perm
                          /\ AT'[p].allocated = IF p = r \/ p = t THEN 1 ELSE AT[p].allocated
  <2> DEFINE at == at_set_allocated(AT, r, 1)
  <2>1. at \in [Pages -> ATStruct]
        /\ \A p \in Pages : /\ at[p].perm = AT[p].perm
                            /\ at[p].allocated = IF p = r THEN 1 ELSE AT[p].allocated
    BY <1>1, <1>2 DEF ATStruct, at_set_allocated
  <2> HIDE DEF at
  <2>2. AT' = [at EXCEPT ![t].allocated = 1]
    BY DEF at, at_set_allocated
  <2> QED
    BY <2>1, <2>2, <1>2 DEF ATStruct
<1>4. ATTypeOK'
  BY <1>2, <1>3 DEF MPTInv, ATInv, ATTypeOK
<1>5. r < NUM_PAGES /\ AT[r].perm > 1 /\ t < NUM_PAGES /\ AT[t].perm > 1
  BY <1>2 DEF MPTInv, ATInv, NormalExists, FreePages, at_is_norm
<1>6. OnlyNormalAllocated' /\ NormalExists'
  BY <1>2, <1>3, <1>5 DEF MPTInv, ATInv, OnlyNormalAllocated, NormalExists, at_is_norm,
                          at_is_allocated
<1>7. owner' \in [Pages -> ID \cup {NoID}] /\ owner'[r] = id /\ owner'[t] = id
      /\ \A p \in Pages : p # r /\ p # t => owner'[p] = owner[p]
  BY <1>1, <1>2
<1>8. OwnerMarksAllocated'
  BY <1>3, <1>7, <1>1, ProcessNumbers DEF OwnerMarksAllocated, at_is_allocated
<1>9. UserPages \subseteq Pages
  BY ATAssumption DEF UserPages, Pages
<1>10. FreePages(AT') \subseteq FreePages(AT)
  BY <1>1, <1>3, <1>9 DEF FreePages, at_is_norm, at_is_allocated, ATStruct
<1> QED
  BY <1>2, <1>4, <1>6, <1>7, <1>8, <1>10 DEF ATInv

\* pfree undoes palloc.
LEMMA AllocUndone ==
  ASSUME MPTInv, NEW r \in FreePages(AT)
  PROVE  at_set_allocated(at_set_allocated(AT, r, 1), r, 0) = AT
<1>1. AT \in [Pages -> ATStruct] /\ r \in Pages /\ ~at_is_allocated(AT, r)
  BY FreePage DEF MPTInv, ATInv, ATTypeOK, FreePages
<1>2. AT[r].allocated = 0
  BY <1>1 DEF at_is_allocated, ATStruct
<1> QED
  BY <1>1, <1>2 DEF at_set_allocated, ATStruct

\* alloc_page for a user page, mapped or not, in each of its ways.
LEMMA AllocPageKeeps ==
  ASSUME MPTInv, NEW id \in ID \ {0}, NEW v \in UserVA, NEW perm \in SUBSET Flags,
         alloc_page(id, v, perm)
  PROVE  MPTInv'
<1>1. Structures /\ id \in ID /\ id # NoID /\ v[1] \in UserPDX /\ v[1] \in PDX /\ v[2] \in PTX
  BY InvParts, ProcessNumbers, UserPage
<1>2. CASE AllocNothing(id, v)
  <2>1. container_alloc(id, 0) /\ PDirPool' = PDirPool /\ mem' = mem
    BY <1>2 DEF AllocNothing
  <2>2. /\ ATInv' /\ OwnerMarksAllocated'
        /\ owner' \in [Pages -> ID \cup {NoID}]
        /\ \A q \in Pages : owner[q] # NoID => owner'[q] = owner[q]
    BY <2>1, <1>1, AllocOwner
  <2>3. Structures'
    BY <2>1, <2>2, <1>1, OwnerGrows
  <2> QED
    BY <2>2, <2>3, InvNext
<1>3. CASE \E r \in FreePages(AT) : AllocMapped(id, v, perm, r)
  <2>1. PICK r \in FreePages(AT) : AllocMapped(id, v, perm, r)
    BY <1>3
  <2> DEFINE e == [page |-> r, perm |-> perm]
  <2>2. r \in Pages /\ r \notin TablePages
    BY FreePage
  <2>3. e \in Entry /\ e.page = r
    BY <2>2 DEF Entry
  <2>4. Present(PDirPool[id][v[1]]) /\ PDirPool' = PDirPool
        /\ mem' = [mem EXCEPT ![PDirPool[id][v[1]].page][v[2]] = e]
    BY <2>1 DEF AllocMapped, MapPresent, get_pdir_entry_by_va, set_ptbl_entry_by_va
  <2>5. PDirPool[id][v[1]] # MagicNumber
    <3>1. PDirPool[id][v[1]].page \in Pages
          /\ PDirPool[id][v[1]] = TablePDE(PDirPool[id][v[1]].page)
      BY <2>4, <1>1, TableOwned
    <3> QED
      BY <3>1, EntryTypes
  <2>6. container_alloc(id, r) /\ r # 0
    BY <2>1, <2>5 DEF AllocMapped, get_pdir_entry_by_va
  <2> HIDE DEF e
  <2>7. /\ ATInv' /\ OwnerMarksAllocated'
        /\ owner' \in [Pages -> ID \cup {NoID}]
        /\ \A q \in Pages : owner[q] # NoID => owner'[q] = owner[q]
        /\ owner'[r] = id
    BY <2>6, <1>1, AllocOwner
  <2>8. Structures'
    BY <2>2, <2>3, <2>4, <2>7, <1>1, WriteEntry
  <2> QED
    BY <2>7, <2>8, InvNext
<1>4. CASE \E r, t \in FreePages(AT) : AllocWithTable(id, v, perm, r, t)
  <2>1. PICK r \in FreePages(AT), t \in FreePages(AT) : AllocWithTable(id, v, perm, r, t)
    BY <1>4
  <2> DEFINE e == [page |-> r, perm |-> perm]
  <2>2. r \in Pages /\ r \notin TablePages /\ t \in UserPages /\ owner[t] = NoID
    BY FreePage
  <2>3. e \in Entry /\ e.page = r
    BY <2>2 DEF Entry
  <2>4. ~Present(PDirPool[id][v[1]]) /\ InstallTable(id, v, t, e)
    BY <2>1 DEF AllocWithTable, get_pdir_entry_by_va
  <2>5. t # r
    BY <2>1, SecondPage DEF AllocWithTable
  <2>6. /\ AT' = at_set_allocated(at_set_allocated(AT, r, 1), t, 1)
        /\ last_palloc_index' = t /\ NUM_PAGES' = NUM_PAGES
        /\ owner' = [owner EXCEPT ![r] = id, ![t] = id]
    BY <2>1 DEF AllocWithTable
  <2> HIDE DEF e
  <2>7. /\ ATInv' /\ OwnerMarksAllocated'
        /\ owner' \in [Pages -> ID \cup {NoID}]
        /\ \A q \in Pages : owner[q] # NoID => owner'[q] = owner[q]
        /\ owner'[r] = id /\ owner'[t] = id
    BY <2>5, <2>6, TwoPages
  <2>8. Structures'
    BY <2>2, <2>3, <2>4, <2>5, <2>7, <1>1, InstallStep
  <2> QED
    BY <2>7, <2>8, InvNext
<1>5. CASE \E r \in FreePages(AT) : AllocTableFails(id, v, r)
  <2>1. PICK r \in FreePages(AT) : AllocTableFails(id, v, r)
    BY <1>5
  <2>2. AT' = AT
    BY <2>1, AllocUndone DEF AllocTableFails
  <2>3. last_palloc_index' = VM_USERLO_PI /\ UNCHANGED <<NUM_PAGES, owner, PDirPool, mem>>
    BY <2>1 DEF AllocTableFails
  <2>4. ATInv' /\ OwnerMarksAllocated'
    BY <2>2, <2>3, ATAssumption
       DEF MPTInv, ATInv, ATTypeOK, OnlyNormalAllocated, NormalExists, at_is_norm,
           at_is_allocated, OwnerMarksAllocated, UserPages
  <2>5. Structures'
    BY <2>3, <1>1, OwnerGrows DEF Structures, MPTTypeOK
  <2> QED
    BY <2>4, <2>5, InvNext
<1> QED
  BY <1>2, <1>3, <1>4, <1>5 DEF alloc_page

----------------------------------------------------------------------------
\* The page structures as paging_init leaves them.
LEMMA InitKeeps == ASSUME MPTInit PROVE MPTInv
<1>1. PICK junk \in [Pages -> Junk] :
         mem = [p \in Pages |->
                  [t \in PTX |-> IF \E d \in PDX : p = IDPTblPage(d)
                                   THEN IdentityPTE(p - IDPTBL_PI, t) ELSE junk[p]]]
  BY DEF MPTInit
<1>2. PDirPool = [id \in ID |-> [d \in PDX |-> InitialPDE(id, d)]]
  BY DEF MPTInit
<1>3. ATInv
  BY BootTableInv DEF MPTInit, CInit
<1>4. owner = [p \in Pages |-> NoID]
  BY DEF MPTInit, CInit
<1>5. \A p \in Pages : ~at_is_allocated(AT, p)
  <2>1. PICK normal \in SUBSET {p \in UserPages : p < NUM_PAGES} :
           AT = BootTable(NUM_PAGES, normal)
    BY DEF MPTInit, CInit, ATInit
  <2>2. \A p \in Pages : AT[p].allocated = 0
    BY <2>1 DEF BootTable
  <2> QED
    BY <2>2 DEF at_is_allocated
<1>6. \A id \in ID, d \in PDX : InitialPDE(id, d) \in Entry
  BY EntryTypes DEF InitialPDE
<1>7. \A d \in PDX : IDPTblPage(d) - IDPTBL_PI = d
  BY MPTAssumption DEF PDX, IDPTblPage
<1>8. mem \in [Pages -> [PTX -> Entry]]
  <2> SUFFICES ASSUME NEW p \in Pages, NEW t \in PTX
               PROVE  (IF \E d \in PDX : p = IDPTblPage(d)
                         THEN IdentityPTE(p - IDPTBL_PI, t) ELSE junk[p]) \in Entry
    BY <1>1
  <2>1. CASE \E d \in PDX : p = IDPTblPage(d)
    BY <2>1, <1>7, EntryTypes
  <2>2. CASE ~\E d \in PDX : p = IDPTblPage(d)
    BY <2>2, MPTAssumption
  <2> QED
    BY <2>1, <2>2
<1>9. PDirPool \in [ID -> [PDX -> Entry]] /\ owner \in [Pages -> ID \cup {NoID}]
  BY <1>2, <1>4, <1>6
<1>10. \A id \in ID \ {0}, d \in UserPDX : PDirPool[id][d] = NoEntry
  BY <1>2 DEF InitialPDE, UserPDX
<1>11. KernelEntries
  <2>1. \A id \in ID, d \in PDX : id = 0 \/ d \notin UserPDX => PDirPool[id][d] = IdentityPDE(d)
    BY <1>2 DEF InitialPDE
  <2>2. \A d \in PDX, t \in PTX : mem[IDPTblPage(d)][t] = IdentityPTE(d, t)
    BY <1>1, <1>7, IdentityPages
  <2> QED
    BY <2>1, <2>2 DEF KernelEntries
<1>12. TableSlots = {}
  BY <1>10, EntryTypes DEF TableSlots
<1>13. Isolation
  <2>1. \A id \in ID \ {0}, v \in UserVA : get_ptbl_entry_by_va(id, v) = NoEntry
    BY <1>10, UserPage, EntryTypes DEF get_ptbl_entry_by_va
  <2> QED
    BY <2>1, EntryTypes DEF Isolation
<1> QED
  BY <1>3, <1>4, <1>5, <1>8, <1>9, <1>10, <1>11, <1>12, <1>13
     DEF MPTInv, MPTTypeOK, OwnerMarksAllocated, UserEntries, TablesPrivate

LEMMA StepKeeps == ASSUME MPTInv, [MPTNext]_mptVars PROVE MPTInv'
<1>1. \A perm \in Perms : perm \in SUBSET Flags
  BY MPTAssumption
<1>2. ASSUME NEW id \in ID \ {0}, NEW v \in UserVA,
             \/ \E perm \in Perms : AllocUnmapped(id, v, perm) \/ MapOwn(id, v, perm)
             \/ unmap_page(id, v)
             \/ NewTable(id, v)
             \/ free_ptbl(id, v)
      PROVE  MPTInv'
  <2>1. CASE \E perm \in Perms : AllocUnmapped(id, v, perm)
    BY <2>1, <1>1, AllocPageKeeps DEF AllocUnmapped
  <2>2. CASE \E perm \in Perms : MapOwn(id, v, perm)
    BY <2>2, <1>1, MapOwnKeeps
  <2>3. CASE unmap_page(id, v)
    BY <2>3, UnmapKeeps
  <2>4. CASE NewTable(id, v)
    BY <2>4, NewTableKeeps
  <2>5. CASE free_ptbl(id, v)
    BY <2>5, FreeTableKeeps
  <2> QED
    BY <1>2, <2>1, <2>2, <2>3, <2>4, <2>5
<1>3. ASSUME NEW id \in ID, NEW q \in Quotas, Spawn(id, q)
      PROVE  MPTInv'
  BY <1>3, InvUnchanged DEF Spawn, alloc_mem_quota, container_split
<1>4. CASE UNCHANGED mptVars
  BY <1>4, InvUnchanged DEF mptVars, cVars, vmVars
<1> QED
  BY <1>2, <1>3, <1>4 DEF MPTNext

----------------------------------------------------------------------------
\* Directory 0, and the kernel part of every directory, are the identity.
LEMMA KernelMapped == ASSUME MPTInv PROVE KernelMapIntact
<1> SUFFICES ASSUME NEW id \in ID, NEW v \in VA, id = 0 \/ v[1] \notin UserPDX
             PROVE  get_ptbl_entry_by_va(id, v) = IdentityPTE(v[1], v[2])
  BY DEF KernelMapIntact
<1>1. v[1] \in PDX /\ v[2] \in PTX
  BY DEF VA
<1>2. PDirPool[id][v[1]] = IdentityPDE(v[1])
      /\ mem[IDPTblPage(v[1])][v[2]] = IdentityPTE(v[1], v[2])
  BY <1>1 DEF MPTInv, KernelEntries
<1>3. /\ Present(IdentityPDE(v[1])) /\ IdentityPDE(v[1]).page = IDPTblPage(v[1])
      /\ Present(IdentityPTE(v[1], v[2]))
  BY <1>1, EntryTypes
<1> QED
  BY <1>2, <1>3 DEF get_ptbl_entry_by_va

(***************************************************************************)
(* For every size of memory, number of processes and layout of the address *)
(* space, the page structures keep their shape.                            *)
(***************************************************************************)
THEOREM MPTInvariant == MPTSpec => []MPTInv
<1>1. MPTInit => MPTInv
  BY InitKeeps
<1>2. MPTInv /\ [MPTNext]_mptVars => MPTInv'
  BY StepKeeps
<1> QED
  BY <1>1, <1>2, PTL DEF MPTSpec

(***************************************************************************)
(* The identity map of the kernel stays in every directory, whatever       *)
(* processes map, unmap, allocate and free.                                *)
(***************************************************************************)
THEOREM KernelMapStays == MPTSpec => []KernelMapIntact
<1>1. MPTInv => KernelMapIntact
  BY KernelMapped
<1> QED
  BY <1>1, MPTInvariant, PTL

(***************************************************************************)
(* No page table is shared: between processes, or between two slots of one *)
(* process, or with memory that was given out again after free_ptbl.       *)
(***************************************************************************)
THEOREM TablesStayPrivate == MPTSpec => []TablesPrivate
<1>1. MPTInv => TablesPrivate
  BY DEF MPTInv
<1> QED
  BY <1>1, MPTInvariant, PTL

(***************************************************************************)
(* Processes are isolated: a user page leads to memory of its process that *)
(* is no page table, or nowhere.                                           *)
(***************************************************************************)
THEOREM ProcessesIsolated == MPTSpec => []Isolation
<1>1. MPTInv => Isolation
  BY DEF MPTInv
<1> QED
  BY <1>1, MPTInvariant, PTL

----------------------------------------------------------------------------
(***************************************************************************)
(* What alloc_page does: nothing, when memory is short, or a free page is  *)
(* mapped for v and charged to the process.  No other user page changes.   *)
(***************************************************************************)
PagesShort(id, v) ==
    Cardinality(FreePages(AT)) <= IF Present(get_pdir_entry_by_va(id, v)) THEN 0 ELSE 1

AllocFailed(id, v) ==
    /\ UNCHANGED <<AT, CONTAINER, owner, PDirPool, mem>>
    /\ PagesShort(id, v)
    /\ AllocPageReturns(id, v, MagicNumber)

AllocSucceeded(id, v, perm) ==
    /\ \E e \in Entry : e # MagicNumber /\ AllocPageReturns(id, v, e)
    /\ \E r \in FreePages(AT) :
          /\ get_ptbl_entry_by_va(id, v)' = [page |-> r, perm |-> perm]
          /\ owner[r] = NoID /\ owner'[r] = id
    /\ \A p \in Pages : owner[p] # NoID => owner'[p] = owner[p]
    /\ FreePages(AT') \subseteq FreePages(AT)
    /\ \A w \in UserVA : w # v => get_ptbl_entry_by_va(id, w)' = get_ptbl_entry_by_va(id, w)

\* No free page, or just one, is left for palloc.
LEMMA NoneShort ==
  ASSUME NEW id, NEW v, FreePages(AT) = {}
  PROVE  PagesShort(id, v)
<1>1. Cardinality(FreePages(AT)) = 0
  BY FS_EmptySet
<1> QED
  BY <1>1 DEF PagesShort

LEMMA OneShort ==
  ASSUME MPTInv, NEW id, NEW v, NEW r \in FreePages(AT),
         ~Present(get_pdir_entry_by_va(id, v)),
         PallocReturns(at_set_allocated(AT, r, 1), r, 0)
  PROVE  PagesShort(id, v)
<1> DEFINE at == at_set_allocated(AT, r, 1)
<1>1. r \in Pages /\ AT \in [Pages -> ATStruct]
  BY FreePage DEF MPTInv, ATInv, ATTypeOK
<1>2. \A p \in Pages : p # r => at[p] = AT[p]
  BY <1>1 DEF at_set_allocated
<1>3. 0 \notin UserPages /\ UserPages \subseteq Pages
  BY ATAssumption DEF UserPages, Pages
<1>4. FreePages(at) = {}
  BY <1>3 DEF PallocReturns, FreePages
<1> HIDE DEF at
<1>5. \A p \in FreePages(AT) : p = r
  BY <1>2, <1>3, <1>4 DEF FreePages, at_is_norm, at_is_allocated
<1>6. FreePages(AT) = {r}
  BY <1>5
<1>7. Cardinality(FreePages(AT)) = 1
  BY <1>6, FS_Singleton
<1> QED
  BY <1>7 DEF PagesShort

\* A table word is written: the other user pages of the process keep theirs.
LEMMA WriteFrame ==
  ASSUME Structures, NEW id \in ID \ {0}, NEW v \in UserVA, NEW e \in Entry, Present(e),
         Present(PDirPool[id][v[1]]), PDirPool' = PDirPool,
         mem' = [mem EXCEPT ![PDirPool[id][v[1]].page][v[2]] = e]
  PROVE  /\ get_ptbl_entry_by_va(id, v)' = e
         /\ \A w \in UserVA : w # v => get_ptbl_entry_by_va(id, w)' = get_ptbl_entry_by_va(id, w)
<1> DEFINE t == PDirPool[id][v[1]].page
<1>1. v[1] \in UserPDX /\ v[2] \in PTX /\ v = <<v[1], v[2]>>
  BY UserPage
<1>2. t \in Pages /\ <<id, v[1]>> \in TableSlots
  BY <1>1, TableOwned
<1>3. mem \in [Pages -> [PTX -> Entry]]
  BY DEF Structures, MPTTypeOK
<1>4. mem' = [mem EXCEPT ![t] = [mem[t] EXCEPT ![v[2]] = e]]
  OBVIOUS
<1> HIDE DEF t
<1>5. mem'[t][v[2]] = e /\ \A x \in PTX : x # v[2] => mem'[t][x] = mem[t][x]
  BY <1>1, <1>2, <1>3, <1>4
<1>6. \A p \in Pages : p # t => mem'[p] = mem[p]
  BY <1>2, <1>3, <1>4
<1>7. get_ptbl_entry_by_va(id, v)' = e
  BY <1>5 DEF get_ptbl_entry_by_va, t
<1>8. ASSUME NEW w \in UserVA, w # v
      PROVE  get_ptbl_entry_by_va(id, w)' = get_ptbl_entry_by_va(id, w)
  <2>1. w[1] \in UserPDX /\ w[2] \in PTX /\ w = <<w[1], w[2]>>
    BY UserPage
  <2>2. CASE ~Present(PDirPool[id][w[1]])
    BY <2>2 DEF get_ptbl_entry_by_va
  <2>3. CASE Present(PDirPool[id][w[1]])
    <3> DEFINE s == PDirPool[id][w[1]].page
    <3>1. s \in Pages /\ <<id, w[1]>> \in TableSlots
      BY <2>1, <2>3, TableOwned
    <3>2. s = t => w[1] = v[1]
      BY <3>1, <1>2 DEF Structures, TablesPrivate, t
    <3>3. mem'[s][w[2]] = mem[s][w[2]]
      BY <3>1, <3>2, <2>1, <1>1, <1>5, <1>6, <1>8
    <3> QED
      BY <3>3 DEF get_ptbl_entry_by_va
  <2> QED
    BY <2>2, <2>3
<1> QED
  BY <1>7, <1>8

\* A new table is installed: likewise.
LEMMA InstallFrame ==
  ASSUME Structures, NEW id \in ID \ {0}, NEW v \in UserVA, NEW e \in Entry, Present(e),
         NEW t \in UserPages, owner[t] = NoID,
         ~Present(PDirPool[id][v[1]]), InstallTable(id, v, t, e)
  PROVE  /\ get_ptbl_entry_by_va(id, v)' = e
         /\ \A w \in UserVA : w # v => get_ptbl_entry_by_va(id, w)' = get_ptbl_entry_by_va(id, w)
<1>1. v[1] \in UserPDX /\ v[1] \in PDX /\ v[2] \in PTX /\ v = <<v[1], v[2]>>
  BY UserPage
<1>2. t \in Pages
  BY ATAssumption DEF UserPages, Pages
<1>3. Present(TablePDE(t)) /\ TablePDE(t).page = t
  BY <1>2, EntryTypes
<1>4. mem \in [Pages -> [PTX -> Entry]] /\ PDirPool \in [ID -> [PDX -> Entry]] /\ id \in ID
  BY DEF Structures, MPTTypeOK
<1>5. PDirPool'[id][v[1]] = TablePDE(t)
      /\ \A c \in PDX : c # v[1] => PDirPool'[id][c] = PDirPool[id][c]
  BY <1>1, <1>4 DEF InstallTable
<1>6. mem'[t][v[2]] = e /\ \A x \in PTX : x # v[2] => mem'[t][x] = NoEntry
  BY <1>1, <1>2, <1>4 DEF InstallTable
<1>7. \A p \in Pages : p # t => mem'[p] = mem[p]
  BY <1>2, <1>4 DEF InstallTable
<1>8. get_ptbl_entry_by_va(id, v)' = e
  BY <1>3, <1>5, <1>6 DEF get_ptbl_entry_by_va
<1>9. ASSUME NEW w \in UserVA, w # v
      PROVE  get_ptbl_entry_by_va(id, w)' = get_ptbl_entry_by_va(id, w)
  <2>1. w[1] \in UserPDX /\ w[1] \in PDX /\ w[2] \in PTX /\ w = <<w[1], w[2]>>
    BY UserPage
  <2>2. CASE w[1] = v[1]
    <3>1. get_ptbl_entry_by_va(id, w) = NoEntry
      BY <2>2 DEF get_ptbl_entry_by_va
    <3>2. w[2] # v[2]
      BY <2>1, <2>2, <1>1, <1>9
    <3>3. mem'[t][w[2]] = NoEntry
      BY <3>2, <2>1, <1>6
    <3> QED
      BY <3>1, <3>3, <2>2, <1>3, <1>5 DEF get_ptbl_entry_by_va
  <2>3. CASE w[1] # v[1]
    <3>1. PDirPool'[id][w[1]] = PDirPool[id][w[1]]
      BY <2>1, <2>3, <1>5
    <3>2. CASE ~Present(PDirPool[id][w[1]])
      BY <3>1, <3>2 DEF get_ptbl_entry_by_va
    <3>3. CASE Present(PDirPool[id][w[1]])
      <4>1. PDirPool[id][w[1]].page \in Pages /\ PDirPool[id][w[1]].page # t
        <5>1. PDirPool[id][w[1]].page \in Pages /\ owner[PDirPool[id][w[1]].page] = id
          BY <3>3, <2>1, TableOwned
        <5> QED
          BY <5>1, <1>4, ProcessNumbers
      <4>2. mem'[PDirPool[id][w[1]].page] = mem[PDirPool[id][w[1]].page]
        BY <4>1, <1>7
      <4> QED
        BY <4>2, <3>1 DEF get_ptbl_entry_by_va
    <3> QED
      BY <3>2, <3>3
  <2> QED
    BY <2>2, <2>3
<1> QED
  BY <1>8, <1>9

LEMMA AllocPageDoes ==
  ASSUME MPTInv, NEW id \in ID \ {0}, NEW v \in UserVA, NEW perm \in SUBSET Flags, "P" \in perm,
         alloc_page(id, v, perm)
  PROVE  AllocFailed(id, v) \/ AllocSucceeded(id, v, perm)
<1>1. Structures /\ id \in ID /\ id # NoID /\ v[1] \in UserPDX /\ v[1] \in PDX /\ v[2] \in PTX
  BY InvParts, ProcessNumbers, UserPage
<1>2. CASE AllocNothing(id, v)
  <2>1. container_alloc(id, 0) /\ PDirPool' = PDirPool /\ mem' = mem
        /\ AllocPageReturns(id, v, MagicNumber)
    BY <1>2 DEF AllocNothing
  <2>2. PallocReturns(AT, last_palloc_index, 0) /\ UNCHANGED <<AT, CONTAINER, owner>>
    BY <2>1 DEF container_alloc, palloc
  <2>3. FreePages(AT) = {}
    BY <2>2, FreePage DEF PallocReturns
  <2> QED
    BY <2>1, <2>2, <2>3, NoneShort DEF AllocFailed
<1>3. CASE \E r \in FreePages(AT) : AllocMapped(id, v, perm, r)
  <2>1. PICK r \in FreePages(AT) : AllocMapped(id, v, perm, r)
    BY <1>3
  <2> DEFINE e == [page |-> r, perm |-> perm]
  <2>2. r \in Pages /\ owner[r] = NoID
    BY FreePage
  <2>3. e \in Entry /\ Present(e)
    BY <2>2 DEF Entry, Present
  <2>4. Present(PDirPool[id][v[1]]) /\ PDirPool' = PDirPool
        /\ mem' = [mem EXCEPT ![PDirPool[id][v[1]].page][v[2]] = e]
    BY <2>1 DEF AllocMapped, MapPresent, get_pdir_entry_by_va, set_ptbl_entry_by_va
  <2>5. PDirPool[id][v[1]] # MagicNumber /\ PDirPool[id][v[1]] \in Entry
    <3>1. PDirPool[id][v[1]].page \in Pages
          /\ PDirPool[id][v[1]] = TablePDE(PDirPool[id][v[1]].page)
      BY <2>4, <1>1, TableOwned
    <3> QED
      BY <3>1, EntryTypes
  <2>6. container_alloc(id, r) /\ r # 0 /\ AllocPageReturns(id, v, PDirPool[id][v[1]])
    BY <2>1, <2>5 DEF AllocMapped, get_pdir_entry_by_va
  <2> HIDE DEF e
  <2>7. /\ owner'[r] = id /\ \A p \in Pages : owner[p] # NoID => owner'[p] = owner[p]
        /\ FreePages(AT') \subseteq FreePages(AT)
    BY <2>6, <1>1, AllocOwner
  <2>8. /\ get_ptbl_entry_by_va(id, v)' = e
        /\ \A w \in UserVA : w # v => get_ptbl_entry_by_va(id, w)' = get_ptbl_entry_by_va(id, w)
    BY <2>3, <2>4, <1>1, WriteFrame
  <2> QED
    BY <2>2, <2>5, <2>6, <2>7, <2>8 DEF AllocSucceeded, e
<1>4. CASE \E r, t \in FreePages(AT) : AllocWithTable(id, v, perm, r, t)
  <2>1. PICK r \in FreePages(AT), t \in FreePages(AT) : AllocWithTable(id, v, perm, r, t)
    BY <1>4
  <2> DEFINE e == [page |-> r, perm |-> perm]
  <2>2. r \in Pages /\ owner[r] = NoID /\ t \in UserPages /\ t \in Pages /\ owner[t] = NoID
    BY FreePage
  <2>3. e \in Entry /\ Present(e)
    BY <2>2 DEF Entry, Present
  <2>4. ~Present(PDirPool[id][v[1]]) /\ InstallTable(id, v, t, e)
        /\ AllocPageReturns(id, v, TablePDE(t))
    BY <2>1 DEF AllocWithTable, get_pdir_entry_by_va
  <2>5. t # r
    BY <2>1, SecondPage DEF AllocWithTable
  <2>6. /\ AT' = at_set_allocated(at_set_allocated(AT, r, 1), t, 1)
        /\ last_palloc_index' = t /\ NUM_PAGES' = NUM_PAGES
        /\ owner' = [owner EXCEPT ![r] = id, ![t] = id]
    BY <2>1 DEF AllocWithTable
  <2> HIDE DEF e
  <2>7. /\ owner'[r] = id /\ \A p \in Pages : owner[p] # NoID => owner'[p] = owner[p]
        /\ FreePages(AT') \subseteq FreePages(AT)
    BY <2>5, <2>6, TwoPages
  <2>8. /\ get_ptbl_entry_by_va(id, v)' = e
        /\ \A w \in UserVA : w # v => get_ptbl_entry_by_va(id, w)' = get_ptbl_entry_by_va(id, w)
    BY <2>2, <2>3, <2>4, <1>1, InstallFrame
  <2>9. TablePDE(t) \in Entry /\ TablePDE(t) # MagicNumber
    BY <2>2, EntryTypes
  <2> QED
    BY <2>2, <2>4, <2>7, <2>8, <2>9 DEF AllocSucceeded, e
<1>5. CASE \E r \in FreePages(AT) : AllocTableFails(id, v, r)
  <2>1. PICK r \in FreePages(AT) : AllocTableFails(id, v, r)
    BY <1>5
  <2>2. AT' = AT
    BY <2>1, AllocUndone DEF AllocTableFails
  <2>3. UNCHANGED <<CONTAINER, owner, PDirPool, mem>> /\ AllocPageReturns(id, v, MagicNumber)
    BY <2>1 DEF AllocTableFails
  <2>4. PagesShort(id, v)
    BY <2>1, OneShort DEF AllocTableFails
  <2> QED
    BY <2>2, <2>3, <2>4 DEF AllocFailed
<1> QED
  BY <1>2, <1>3, <1>4, <1>5 DEF alloc_page

(***************************************************************************)
(* alloc_page does all or nothing: it maps a page that was free, or        *)
(* changes nothing and memory was short.                                   *)
(***************************************************************************)
THEOREM AllocPageAllOrNothing == MPTSpec => AllocPageContract
<1> DEFINE Contract ==
      ret'.alloc_page =>
         IF ret'.val = MagicNumber
           THEN /\ UNCHANGED <<AT, CONTAINER, owner, PDirPool, mem>>
                /\ Cardinality(FreePages(AT))
                      <= IF Present(get_pdir_entry_by_va(ret'.id, ret'.va)) THEN 0 ELSE 1
           ELSE Present(LastEntry') /\ owner[LastEntry'.page] = NoID
<1>1. ASSUME MPTInv, [MPTNext]_mptVars PROVE [Contract]_mptVars
  <2>1. CASE \E id \in ID \ {0}, v \in UserVA, perm \in Perms : AllocUnmapped(id, v, perm)
    <3>1. PICK id \in ID \ {0}, v \in UserVA, perm \in Perms : alloc_page(id, v, perm)
      BY <2>1 DEF AllocUnmapped
    <3>2. perm \in SUBSET Flags /\ "P" \in perm
      BY MPTAssumption
    <3>3. CASE AllocFailed(id, v)
      <4>1. ret'.val = MagicNumber /\ ret'.id = id /\ ret'.va = v
        BY <3>3 DEF AllocFailed, AllocPageReturns
      <4> QED
        BY <4>1, <3>3 DEF AllocFailed, PagesShort
    <3>4. CASE AllocSucceeded(id, v, perm)
      <4>1. ret'.val # MagicNumber /\ ret'.id = id /\ ret'.va = v
        BY <3>4 DEF AllocSucceeded, AllocPageReturns
      <4>2. PICK r \in FreePages(AT) :
              get_ptbl_entry_by_va(id, v)' = [page |-> r, perm |-> perm] /\ owner[r] = NoID
        BY <3>4 DEF AllocSucceeded
      <4>3. LastEntry' = [page |-> r, perm |-> perm]
        BY <4>1, <4>2 DEF LastEntry, get_ptbl_entry_by_va
      <4> QED
        BY <4>1, <4>2, <4>3, <3>2 DEF Present
    <3> QED
      BY <1>1, <3>1, <3>2, <3>3, <3>4, AllocPageDoes
  <2>2. CASE ret' = NoCall
    BY <2>2 DEF NoCall
  <2>3. CASE UNCHANGED mptVars
    BY <2>3
  <2> HIDE DEF Contract
  <2> QED
    BY <1>1, <2>1, <2>2, <2>3
       DEF MPTNext, MapOwn, map_page, unmap_page, NewTable, alloc_ptbl, free_ptbl, Spawn,
           alloc_mem_quota
<1>2. MPTInv /\ [MPTNext]_mptVars => [Contract]_mptVars
  BY <1>1
<1>3. MPTSpec => [][Contract]_mptVars
  BY <1>2, MPTInvariant, PTL DEF MPTSpec
<1> QED
  BY <1>3 DEF AllocPageContract

----------------------------------------------------------------------------
\* Numbers and addresses.

LEMMA KernelNumbers ==
  /\ 0 \in ID /\ 1 \in ID \ {0} /\ NoID \notin ID
  /\ NoPage \notin Pages /\ 0 \in Pages
  /\ <<0, 0>> \in VA
<1>1. 0 \in ID /\ 1 \in ID \ {0} /\ NoID \notin ID
  BY ContainerAssumption, KernelAssumption DEF ID, NoID
<1>2. NoPage \notin Pages /\ 0 \in Pages
  BY ATAssumption DEF NoPage, Pages
<1>3. NPDE > 0 /\ NPTE > 0
  <2>1. AT_SIZE > 0
    BY ATAssumption
  <2>2. \A a, b \in Nat : a = 0 \/ b = 0 => a * b = 0
    OBVIOUS
  <2> QED
    BY <2>1, <2>2, MPTAssumption
<1>4. <<0, 0>> \in VA
  BY <1>3, MPTAssumption DEF VA, PDX, PTX
<1> QED
  BY <1>1, <1>2, <1>4

\* The permissions that the loader and the fault handler map pages with.
LEMMA PermsFacts ==
  /\ \A f \in Perms : f \in SUBSET Flags /\ "P" \in f /\ "G" \notin f
  /\ PT_PERM_PTU \in Perms /\ "W" \in PT_PERM_PTU
  /\ \A i \in DOMAIN Image : Image[i].va \in UserVA /\ Image[i].perm \in Perms
  /\ DOMAIN Image = 1 .. Len(Image)
<1>1. \A f \in Perms : f \in SUBSET Flags /\ "P" \in f /\ "G" \notin f
  BY MPTAssumption, KernelAssumption
<1>2. PT_PERM_PTU \in Perms /\ "W" \in PT_PERM_PTU
  BY KernelAssumption DEF PT_PERM_PTU
<1>3. Image \in Seq([va : UserVA, perm : Perms])
  BY KernelAssumption
<1>4. DOMAIN Image = 1 .. Len(Image)
      /\ \A i \in DOMAIN Image : Image[i] \in [va : UserVA, perm : Perms]
  <2> DEFINE T == [va : UserVA, perm : Perms]
  <2>1. Image \in Seq(T)
    BY <1>3
  <2> HIDE DEF T
  <2>2. DOMAIN Image = 1 .. Len(Image) /\ \A i \in DOMAIN Image : Image[i] \in T
    BY <2>1
  <2> QED
    BY <2>2 DEF T
<1>5. \A i \in DOMAIN Image : Image[i].va \in UserVA /\ Image[i].perm \in Perms
  BY <1>4
<1> QED
  BY <1>1, <1>2, <1>4, <1>5

LEMMA UserOrKernel ==
  ASSUME NEW v \in VA
  PROVE  v \in UserVA <=> v[1] \in UserPDX
BY DEF VA, UserVA, UserPDX

\* The identity map, in directory 0 and in the kernel part of every directory.
LEMMA IdentityLookup ==
  ASSUME MPTInv, NEW i \in ID, NEW v \in VA, i = 0 \/ v[1] \notin UserPDX
  PROVE  /\ get_ptbl_entry_by_va(i, v) = IdentityPTE(v[1], v[2])
         /\ Present(get_ptbl_entry_by_va(i, v))
         /\ get_ptbl_entry_by_va(i, v).page = PageAt(v)
         /\ "W" \in get_ptbl_entry_by_va(i, v).perm
         /\ "G" \in get_ptbl_entry_by_va(i, v).perm => v[1] \notin UserPDX
<1>1. get_ptbl_entry_by_va(i, v) = IdentityPTE(v[1], v[2])
  BY KernelMapped DEF KernelMapIntact
<1>2. v[1] \in PDX /\ v[2] \in PTX
  BY DEF VA
<1>3. Present(IdentityPTE(v[1], v[2])) /\ IdentityPTE(v[1], v[2]).page = PageAt(<<v[1], v[2]>>)
  BY <1>2, EntryTypes
<1>4. PageAt(<<v[1], v[2]>>) = PageAt(v)
  BY DEF PageAt
<1>5. /\ "W" \in IdentityPTE(v[1], v[2]).perm
      /\ "G" \in IdentityPTE(v[1], v[2]).perm => v[1] \notin UserPDX
  BY DEF IdentityPTE
<1> QED
  BY <1>1, <1>3, <1>4, <1>5

LEMMA KernelMappedNext == MPTInv' => KernelMapIntact'
<1>1. MPTInv => KernelMapIntact
  BY KernelMapped
<1> QED
  BY <1>1, PTL

LEMMA LookupSame ==
  ASSUME PDirPool' = PDirPool, mem' = mem, NEW i, NEW v
  PROVE  get_ptbl_entry_by_va(i, v)' = get_ptbl_entry_by_va(i, v)
BY DEF get_ptbl_entry_by_va

\* The pages a process owns are neither page 0 nor NoPage.
LEMMA OwnedPage ==
  ASSUME MPTInv, NEW p \in Pages, owner[p] # NoID
  PROVE  p # 0 /\ p # NoPage
<1>1. p \in UserPages
  BY DEF MPTInv, OwnerMarksAllocated, ATInv, OnlyNormalAllocated
<1> QED
  BY <1>1, ATAssumption DEF UserPages, NoPage

\* A mapping of a process leads to a page of it.
LEMMA MappedPage ==
  ASSUME MPTInv, NEW i \in ID \ {0}, NEW v \in UserVA, Present(get_ptbl_entry_by_va(i, v))
  PROVE  /\ get_ptbl_entry_by_va(i, v).page \in Pages
         /\ get_ptbl_entry_by_va(i, v).page # 0
         /\ get_ptbl_entry_by_va(i, v).page # NoPage
         /\ owner[get_ptbl_entry_by_va(i, v).page] = i
         /\ get_ptbl_entry_by_va(i, v).page \notin TablePages
<1>1. get_ptbl_entry_by_va(i, v) \in Entry
  BY InvParts, UserMapping
<1>2. owner[get_ptbl_entry_by_va(i, v).page] = i
      /\ get_ptbl_entry_by_va(i, v).page \notin TablePages
  BY MappingOwned DEF MPTInv
<1>3. get_ptbl_entry_by_va(i, v).page \in Pages
  BY <1>1 DEF Entry
<1> QED
  BY <1>2, <1>3, OwnedPage, KernelNumbers

----------------------------------------------------------------------------
\* What keeps the TLB sound.

\* Loading a directory: what stays is global, so of the kernel part.
LEMMA SwitchTLB ==
  ASSUME RunInv, NEW index \in ID, set_pdir_base(index), PDirPool' = PDirPool, mem' = mem
  PROVE  TLBSound'
<1> SUFFICES ASSUME NEW x \in tlb'
             PROVE  /\ x[1] \in VA
                    /\ x[2] = get_ptbl_entry_by_va(cr3, x[1])'
                    /\ "G" \in x[2].perm => x[1][1] \notin UserPDX
  BY DEF TLBSound
<1>1. x \in tlb /\ "G" \in x[2].perm /\ cr3' = index
  BY DEF set_pdir_base
<1>2. x[1] \in VA /\ x[2] = get_ptbl_entry_by_va(cr3, x[1]) /\ x[1][1] \notin UserPDX
  BY <1>1 DEF RunInv, TLBSound
<1>3. MPTInv /\ cr3 \in ID
  BY KernelNumbers DEF RunInv, RunTypeOK, DirectoryLoaded
<1>4. get_ptbl_entry_by_va(cr3, x[1]) = get_ptbl_entry_by_va(index, x[1])
  BY <1>2, <1>3, IdentityLookup
<1>5. get_ptbl_entry_by_va(cr3, x[1])' = get_ptbl_entry_by_va(index, x[1])
  BY <1>1 DEF get_ptbl_entry_by_va
<1> QED
  BY <1>2, <1>4, <1>5

\* Tables change under directory 0, whose mappings stay.
LEMMA KernelTLB ==
  ASSUME RunInv, MPTInv', cr3 = 0, cr3' = cr3, tlb' = tlb
  PROVE  TLBSound'
<1> SUFFICES ASSUME NEW x \in tlb
             PROVE  /\ x[1] \in VA
                    /\ x[2] = get_ptbl_entry_by_va(cr3, x[1])'
                    /\ "G" \in x[2].perm => x[1][1] \notin UserPDX
  BY DEF TLBSound
<1>1. x[1] \in VA /\ x[2] = get_ptbl_entry_by_va(0, x[1])
      /\ ("G" \in x[2].perm => x[1][1] \notin UserPDX)
  BY DEF RunInv, TLBSound
<1>2. get_ptbl_entry_by_va(0, x[1]) = IdentityPTE(x[1][1], x[1][2])
  BY <1>1, IdentityLookup, KernelNumbers DEF RunInv
<1>3. KernelMapIntact'
  BY KernelMappedNext
<1>4. get_ptbl_entry_by_va(cr3, x[1])' = IdentityPTE(x[1][1], x[1][2])
  <2>1. get_ptbl_entry_by_va(0, x[1])' = IdentityPTE(x[1][1], x[1][2])
    BY <1>1, <1>3, KernelNumbers DEF KernelMapIntact
  <2> QED
    BY <2>1 DEF get_ptbl_entry_by_va
<1> QED
  BY <1>1, <1>2, <1>4

----------------------------------------------------------------------------
\* What alloc_page for the process keeps.

LEMMA AllocPermissions ==
  ASSUME RunInv, NEW v \in UserVA, NEW perm \in Perms, alloc_page(1, v, perm),
         perm = PT_PERM_PTU \/ \E i \in DOMAIN Image : Image[i].va = v /\ Image[i].perm = perm
  PROVE  UserPermissions'
<1>1. MPTInv /\ UserPermissions /\ 1 \in ID \ {0} /\ perm \in SUBSET Flags /\ "P" \in perm
  BY KernelNumbers, PermsFacts DEF RunInv
<1>2. CASE AllocFailed(1, v)
  <2>1. \A w \in UserVA : get_ptbl_entry_by_va(1, w)' = get_ptbl_entry_by_va(1, w)
    BY <1>2, LookupSame DEF AllocFailed
  <2> QED
    BY <2>1, <1>1 DEF UserPermissions
<1>3. CASE AllocSucceeded(1, v, perm)
  <2>1. get_ptbl_entry_by_va(1, v)'.perm = perm
    BY <1>3 DEF AllocSucceeded
  <2>2. \A w \in UserVA : w # v => get_ptbl_entry_by_va(1, w)' = get_ptbl_entry_by_va(1, w)
    BY <1>3 DEF AllocSucceeded
  <2> SUFFICES ASSUME NEW w \in UserVA, Present(get_ptbl_entry_by_va(1, w)')
               PROVE  \/ get_ptbl_entry_by_va(1, w)'.perm = PT_PERM_PTU
                      \/ \E i \in DOMAIN Image :
                            Image[i].va = w /\ Image[i].perm = get_ptbl_entry_by_va(1, w)'.perm
    BY DEF UserPermissions
  <2>3. CASE w = v
    BY <2>1, <2>3
  <2>4. CASE w # v
    BY <2>2, <2>4, <1>1 DEF UserPermissions
  <2> QED
    BY <2>3, <2>4
<1> QED
  BY <1>1, <1>2, <1>3, AllocPageDoes

\* There are finitely many free pages.
LEMMA FreePagesFinite == IsFiniteSet(FreePages(AT)) /\ Cardinality(FreePages(AT)) \in Nat
<1>1. IsFiniteSet(UserPages)
  BY ATAssumption, FS_Interval DEF UserPages
<1>2. FreePages(AT) \subseteq UserPages
  BY DEF FreePages
<1>3. IsFiniteSet(FreePages(AT))
  BY <1>1, <1>2, FS_Subset
<1> QED
  BY <1>3, FS_CardinalityType

\* A page that was stored to stays the process's, and memory stays short.
LEMMA AllocStored ==
  ASSUME RunInv, NEW v \in UserVA, NEW perm \in Perms, alloc_page(1, v, perm),
         CID = 1, CID' = 1, stored' = stored, pc # "overwritten"
  PROVE  LoaderStoresInProcess'
<1>1. MPTInv /\ 1 \in ID \ {0} /\ perm \in SUBSET Flags /\ "P" \in perm /\ 1 # NoID
  BY KernelNumbers, PermsFacts DEF RunInv
<1>2. stored \in Pages \cup {NoPage} /\ LoaderStoresInProcess
  BY DEF RunInv, RunTypeOK
<1>3. CASE AllocFailed(1, v)
  BY <1>2, <1>3 DEF AllocFailed, LoaderStoresInProcess, FreePages, at_is_norm, at_is_allocated
<1>4. CASE AllocSucceeded(1, v, perm)
  <2>1. FreePages(AT') \subseteq FreePages(AT)
        /\ \A p \in Pages : owner[p] # NoID => owner'[p] = owner[p]
    BY <1>4 DEF AllocSucceeded
  <2>2. Cardinality(FreePages(AT')) <= Cardinality(FreePages(AT))
        /\ Cardinality(FreePages(AT')) \in Nat /\ Cardinality(FreePages(AT)) \in Nat
    <3>1. IsFiniteSet(FreePages(AT')) /\ Cardinality(FreePages(AT')) <= Cardinality(FreePages(AT))
      BY <2>1, FreePagesFinite, FS_Subset
    <3> QED
      BY <3>1, FreePagesFinite, FS_CardinalityType
  <2>3. stored \notin {NoPage, 0} => owner'[stored] = 1
    BY <2>1, <1>1, <1>2 DEF LoaderStoresInProcess
  <2>4. stored = 0 => Cardinality(FreePages(AT')) <= 1
    BY <2>2, <1>2 DEF LoaderStoresInProcess
  <2> QED
    BY <2>3, <2>4 DEF LoaderStoresInProcess
<1> QED
  BY <1>1, <1>3, <1>4, AllocPageDoes

\* The loader stores to the page that alloc_page left mapped for v.
LEMMA StoreOwn ==
  ASSUME RunInv, MPTInv', NEW v \in UserVA, NEW perm \in Perms, CID' = 1,
         alloc_page(1, v, perm), StoreTo(1, v)
  PROVE  LoaderStoresInProcess' /\ stored' \in Pages
<1>1. MPTInv /\ 1 \in ID \ {0} /\ perm \in SUBSET Flags /\ "P" \in perm /\ 1 # NoID /\ 0 \in Pages
  BY KernelNumbers, PermsFacts DEF RunInv
<1>2. stored' = get_ptbl_entry_by_va(1, v)'.page
  BY DEF StoreTo
<1>3. CASE AllocFailed(1, v)
  <2>1. get_ptbl_entry_by_va(1, v)' = get_ptbl_entry_by_va(1, v) /\ owner' = owner /\ AT' = AT
    BY <1>3, LookupSame DEF AllocFailed
  <2>2. CASE Present(get_ptbl_entry_by_va(1, v))
    BY <2>1, <2>2, <1>1, <1>2, MappedPage DEF LoaderStoresInProcess
  <2>3. CASE ~Present(get_ptbl_entry_by_va(1, v))
    <3>1. get_ptbl_entry_by_va(1, v) = NoEntry
      BY <2>3 DEF get_ptbl_entry_by_va
    <3>2. stored' = 0
      BY <3>1, <2>1, <1>2 DEF NoEntry
    <3>3. Cardinality(FreePages(AT)) <= 1
      BY <1>3, FreePagesFinite DEF AllocFailed, PagesShort
    <3> QED
      BY <3>2, <3>3, <2>1, <1>1 DEF LoaderStoresInProcess
  <2> QED
    BY <2>2, <2>3
<1>4. CASE AllocSucceeded(1, v, perm)
  <2>1. PICK r \in FreePages(AT) : get_ptbl_entry_by_va(1, v)' = [page |-> r, perm |-> perm]
                                   /\ owner'[r] = 1
    BY <1>4 DEF AllocSucceeded
  <2>2. r \in Pages /\ r # 0 /\ stored' = r
    BY <2>1, <1>1, <1>2, FreePage
  <2> QED
    BY <2>1, <2>2 DEF LoaderStoresInProcess
<1> QED
  BY <1>1, <1>3, <1>4, AllocPageDoes

----------------------------------------------------------------------------
\* The steps.

\* Steps that leave the page structures alone.
LEMMA QuietStep ==
  ASSUME RunInv, UNCHANGED mptVars
  PROVE  /\ MPTInv' /\ UserPermissions'
         /\ UNCHANGED <<CID, stored>> => LoaderStoresInProcess'
<1>1. UNCHANGED <<atVars, AT, owner, PDirPool, mem, CONTAINER>>
  BY DEF mptVars, cVars, atVars, vmVars
<1>2. MPTInv'
  BY <1>1, InvUnchanged DEF RunInv
<1>3. UserPermissions'
  <2>1. \A w \in UserVA : get_ptbl_entry_by_va(1, w)' = get_ptbl_entry_by_va(1, w)
    BY <1>1, LookupSame
  <2> QED
    BY <2>1 DEF RunInv, UserPermissions
<1>4. ASSUME UNCHANGED <<CID, stored>> PROVE LoaderStoresInProcess'
  BY <1>1, <1>4 DEF RunInv, RunTypeOK, LoaderStoresInProcess, FreePages, at_is_norm, at_is_allocated
<1> QED
  BY <1>2, <1>3, <1>4

\* mon_start_user: the process is process 1, and has no page yet.
LEMMA StartStep == ASSUME RunInv, mon_start_user PROVE RunInv'
<1>1. pc = "monitor" /\ CID = 0 /\ pc' = "load" /\ loaded' = 1
      /\ UNCHANGED <<cr3, tlb, stored, access>>
  BY DEF mon_start_user, MayRun, cpuVars
<1>2. CONTAINER[0].nchildren = 0 /\ stored = NoPage /\ cr3 = 0
  BY <1>1 DEF RunInv, RunTypeOK, DirectoryLoaded
<1>3. ChildIndex(0, CONTAINER[0].nchildren) = 1
  BY <1>2, ContainerAssumption DEF ChildIndex
<1>4. CID' = 1
  BY <1>3, ContainerAssumption, KernelAssumption DEF mon_start_user
<1>5. UNCHANGED <<atVars, owner, PDirPool, mem>>
  BY DEF mon_start_user, alloc_mem_quota, container_split
<1>6. MPTInv'
  BY <1>5, InvUnchanged DEF RunInv
<1>7. RunTypeOK'
  BY <1>1, <1>2, <1>4 DEF RunInv, RunTypeOK
<1>8. DirectoryLoaded'
  BY <1>1, <1>2 DEF DirectoryLoaded
<1>9. TLBSound'
  BY <1>1, <1>2, <1>6, KernelTLB
<1>10. UserPermissions'
  <2>1. \A w \in UserVA : get_ptbl_entry_by_va(1, w)' = get_ptbl_entry_by_va(1, w)
    BY <1>5, LookupSame
  <2> QED
    BY <2>1 DEF RunInv, UserPermissions
<1>11. FaultDenied' /\ FaultsJustified'
  BY <1>1 DEF FaultDenied, FaultsJustified
<1>12. LoaderStoresInProcess'
  BY <1>1, <1>2, ATAssumption DEF LoaderStoresInProcess, NoPage
<1> QED
  BY <1>6, <1>7, <1>8, <1>9, <1>10, <1>11, <1>12 DEF RunInv

\* One page of the image.
LEMMA LoadPageStep == ASSUME RunInv, elf_load_page PROVE RunInv'
<1>1. pc = "load" /\ loaded <= Len(Image) /\ loaded' = loaded + 1
      /\ UNCHANGED <<cr3, tlb, pc, CID, access>>
  BY DEF elf_load_page, cpuVars
<1>2. CID = 1 /\ cr3 = 0 /\ loaded \in Nat \ {0}
  BY <1>1 DEF RunInv, RunTypeOK, DirectoryLoaded
<1>3. alloc_page(1, Image[loaded].va, Image[loaded].perm) /\ StoreTo(1, Image[loaded].va)
  BY <1>2 DEF elf_load_page
<1>4. loaded \in DOMAIN Image
  <2>1. Len(Image) \in Nat
    BY KernelAssumption
  <2> QED
    BY <2>1, <1>1, <1>2, PermsFacts
<1>5. Image[loaded].va \in UserVA /\ Image[loaded].perm \in Perms
      /\ Image[loaded].perm \in SUBSET Flags
  BY <1>4, PermsFacts
<1>6. MPTInv'
  BY <1>3, <1>5, AllocPageKeeps, KernelNumbers DEF RunInv
<1>7. LoaderStoresInProcess' /\ stored' \in Pages
  BY <1>1, <1>2, <1>3, <1>5, <1>6, StoreOwn
<1>8. RunTypeOK'
  BY <1>1, <1>2, <1>7 DEF RunInv, RunTypeOK
<1>9. DirectoryLoaded'
  BY <1>1, <1>2 DEF DirectoryLoaded
<1>10. TLBSound'
  BY <1>1, <1>2, <1>6, KernelTLB
<1>11. UserPermissions'
  BY <1>3, <1>4, <1>5, AllocPermissions
<1>12. FaultDenied' /\ FaultsJustified'
  BY <1>1 DEF FaultDenied, FaultsJustified
<1> QED
  BY <1>6, <1>7, <1>8, <1>9, <1>10, <1>11, <1>12 DEF RunInv

\* The dynamic linkage page.
LEMMA LoadDllStep == ASSUME RunInv, elf_load_dll PROVE RunInv'
<1>1. pc = "load" /\ pc' = "enter" /\ UNCHANGED <<cr3, tlb, CID, loaded, access>>
  BY DEF elf_load_dll, cpuVars
<1>2. CID = 1 /\ cr3 = 0 /\ CID' = 1
  BY <1>1 DEF RunInv, RunTypeOK, DirectoryLoaded
<1>3. StoreTo(1, VM_DYNLINK)
  BY <1>2 DEF elf_load_dll
<1>4. VM_DYNLINK \in UserVA /\ PT_PERM_PTU \in Perms /\ PT_PERM_PTU \in SUBSET Flags
  BY KernelAssumption, PermsFacts
<1>5. MPTInv' /\ UserPermissions' /\ LoaderStoresInProcess' /\ stored' \in Pages
  <2>1. CASE ~Present(get_ptbl_entry_by_va(1, VM_DYNLINK))
    <3>1. alloc_page(1, VM_DYNLINK, PT_PERM_PTU)
      BY <2>1, <1>2 DEF elf_load_dll
    <3>2. MPTInv'
      BY <3>1, <1>4, AllocPageKeeps, KernelNumbers DEF RunInv
    <3>3. UserPermissions'
      BY <3>1, <1>4, AllocPermissions
    <3> QED
      BY <3>1, <3>2, <3>3, <1>2, <1>3, <1>4, StoreOwn
  <2>2. CASE Present(get_ptbl_entry_by_va(1, VM_DYNLINK))
    <3>1. UNCHANGED mptVars
      BY <2>2, <1>2 DEF elf_load_dll
    <3>2. MPTInv' /\ UserPermissions'
      BY <3>1, QuietStep
    <3>3. get_ptbl_entry_by_va(1, VM_DYNLINK)' = get_ptbl_entry_by_va(1, VM_DYNLINK)
          /\ owner' = owner
      BY <3>1, LookupSame DEF mptVars, cVars, vmVars
    <3>4. stored' = get_ptbl_entry_by_va(1, VM_DYNLINK).page
      BY <3>3, <1>3 DEF StoreTo
    <3>5. stored' \in Pages /\ stored' # 0 /\ owner[stored'] = 1
      BY <3>4, <2>2, <1>4, MappedPage, KernelNumbers DEF RunInv
    <3>6. LoaderStoresInProcess'
      BY <3>3, <3>5, <1>2 DEF LoaderStoresInProcess
    <3> QED
      BY <3>2, <3>5, <3>6
  <2> QED
    BY <2>1, <2>2
<1>6. RunTypeOK'
  BY <1>1, <1>2, <1>5 DEF RunInv, RunTypeOK
<1>7. DirectoryLoaded'
  BY <1>1, <1>2 DEF DirectoryLoaded
<1>8. TLBSound'
  BY <1>1, <1>2, <1>5, KernelTLB
<1>9. FaultDenied' /\ FaultsJustified'
  BY <1>1 DEF FaultDenied, FaultsJustified
<1> QED
  BY <1>5, <1>6, <1>7, <1>8, <1>9 DEF RunInv

\* Enter, TrapEntry and TrapReturn: another directory is loaded.
LEMMA SwitchStep == ASSUME RunInv, Enter \/ TrapEntry \/ TrapReturn PROVE RunInv'
<1>1. UNCHANGED mptVars /\ UNCHANGED <<CID, loaded, stored, access>>
  BY DEF Enter, TrapEntry, TrapReturn
<1>2. \/ pc \in {"enter", "resume"} /\ pc' = "user" /\ set_pdir_base(CID)
      \/ pc = "trap" /\ pc' = "handle" /\ set_pdir_base(0)
  BY DEF Enter, TrapEntry, TrapReturn
<1>3. MPTInv' /\ UserPermissions' /\ LoaderStoresInProcess'
  BY <1>1, QuietStep
<1>4. CID = 1 /\ CID \in ID /\ 0 \in ID
  BY <1>2, KernelNumbers DEF RunInv, RunTypeOK
<1>5. RunTypeOK'
  BY <1>1, <1>2, <1>4 DEF RunInv, RunTypeOK
<1>6. DirectoryLoaded'
  BY <1>1, <1>2 DEF DirectoryLoaded, set_pdir_base
<1>7. PDirPool' = PDirPool /\ mem' = mem
  BY <1>1 DEF mptVars, vmVars
<1>8. TLBSound'
  BY <1>2, <1>4, <1>7, SwitchTLB
<1>9. FaultDenied' /\ FaultsJustified'
  <2>1. get_ptbl_entry_by_va(CID, access.va)' = get_ptbl_entry_by_va(CID, access.va)
    BY <1>1, <1>7 DEF get_ptbl_entry_by_va
  <2> QED
    BY <2>1, <1>1, <1>2 DEF RunInv, FaultDenied, FaultsJustified, Permits
<1> QED
  BY <1>3, <1>5, <1>6, <1>8, <1>9 DEF RunInv

\* A page fault is one that the tables deny, on a user page.
LEMMA FaultStep == ASSUME RunInv, PageFault PROVE RunInv'
<1>1. pc = "user" /\ pc' = "trap" /\ UNCHANGED mptVars
      /\ UNCHANGED <<cr3, tlb, CID, loaded, stored, access>>
  BY DEF PageFault, cpuVars
<1>2. CID = 1 /\ cr3 = CID /\ access.va \in VA
  BY <1>1 DEF RunInv, RunTypeOK, DirectoryLoaded
<1>3. MPTInv' /\ UserPermissions' /\ LoaderStoresInProcess'
  BY <1>1, QuietStep
<1>4. PDirPool' = PDirPool /\ mem' = mem
  BY <1>1 DEF mptVars, vmVars
<1>5. PICK e \in Translations(access.va) : ~Permits(e)
  BY DEF PageFault
<1>6. e = get_ptbl_entry_by_va(CID, access.va)
  BY <1>2, <1>5 DEF Translations, RunInv, TLBSound
<1>7. access.va \in UserVA
  <2> SUFFICES ASSUME access.va \notin UserVA PROVE FALSE
    OBVIOUS
  <2>1. access.va[1] \notin UserPDX
    BY <1>2, UserOrKernel
  <2>2. Present(e) /\ "W" \in e.perm
    BY <2>1, <1>2, <1>6, IdentityLookup, KernelNumbers DEF RunInv
  <2> QED
    BY <2>2, <1>5 DEF Permits
<1>8. RunTypeOK'
  BY <1>1, <1>2 DEF RunInv, RunTypeOK
<1>9. DirectoryLoaded'
  BY <1>1, <1>2 DEF DirectoryLoaded
<1>10. TLBSound'
  BY <1>1, <1>4 DEF RunInv, TLBSound, get_ptbl_entry_by_va
<1>11. FaultDenied'
  <2>1. get_ptbl_entry_by_va(CID, access.va)' = e
    BY <1>1, <1>4, <1>6 DEF get_ptbl_entry_by_va
  <2> QED
    BY <2>1, <1>1, <1>5 DEF FaultDenied, Permits
<1>12. FaultsJustified'
  BY <1>1, <1>7 DEF FaultsJustified
<1> QED
  BY <1>3, <1>8, <1>9, <1>10, <1>11, <1>12 DEF RunInv

\* The process begins an access, or exits.
LEMMA ProcessStep ==
  ASSUME RunInv, Exit \/ \E v \in Touched, write \in BOOLEAN : BeginAccess(v, write)
  PROVE  RunInv'
<1>1. UNCHANGED mptVars /\ UNCHANGED <<cr3, tlb, CID, loaded, stored>>
      /\ pc = "user" /\ pc' \in {"user", "monitor"}
  BY DEF Exit, BeginAccess, cpuVars
<1>2. access' \in [va : VA, write : BOOLEAN, active : BOOLEAN]
  <2>1. CASE Exit
    BY <2>1 DEF Exit, RunInv, RunTypeOK
  <2>2. CASE \E v \in Touched, write \in BOOLEAN : BeginAccess(v, write)
    BY <2>2, KernelAssumption DEF BeginAccess
  <2> QED
    BY <2>1, <2>2
<1>3. CID = 1 /\ cr3 = CID
  BY <1>1 DEF RunInv, RunTypeOK, DirectoryLoaded
<1>4. MPTInv' /\ UserPermissions' /\ LoaderStoresInProcess'
  BY <1>1, QuietStep
<1>5. PDirPool' = PDirPool /\ mem' = mem
  BY <1>1 DEF mptVars, vmVars
<1>6. RunTypeOK'
  BY <1>1, <1>2, <1>3 DEF RunInv, RunTypeOK
<1>7. DirectoryLoaded'
  BY <1>1, <1>3 DEF DirectoryLoaded
<1>8. TLBSound'
  BY <1>1, <1>5 DEF RunInv, TLBSound, get_ptbl_entry_by_va
<1>9. FaultDenied' /\ FaultsJustified'
  BY <1>1 DEF FaultDenied, FaultsJustified
<1> QED
  BY <1>4, <1>6, <1>7, <1>8, <1>9 DEF RunInv

(***************************************************************************)
(* A store to memory of a process that is not a page table: no directory   *)
(* and no page table is there, so nothing that is mapped changes.          *)
(***************************************************************************)
LEMMA StoreKeeps ==
  ASSUME MPTInv, NEW p \in Pages, owner[p] # NoID, p \notin TablePages,
         NEW t \in PTX, NEW x \in Entry,
         mem' = [mem EXCEPT ![p][t] = x], UNCHANGED <<cVars, PDirPool>>
  PROVE  /\ MPTInv'
         /\ \A i \in ID, v \in VA : get_ptbl_entry_by_va(i, v)' = get_ptbl_entry_by_va(i, v)
<1>1. Structures /\ PDirPool \in [ID -> [PDX -> Entry]] /\ mem \in [Pages -> [PTX -> Entry]]
  BY InvParts DEF Structures, MPTTypeOK
<1>2. PDirPool' = PDirPool /\ owner' = owner /\ UNCHANGED atVars
  BY DEF cVars
<1>3. p \in UserPages
  BY DEF MPTInv, OwnerMarksAllocated, ATInv, OnlyNormalAllocated
<1>4. \A d \in PDX : IDPTblPage(d) # p /\ IDPTblPage(d) \in Pages
  BY <1>3, IdentityPages
<1>5. mem' \in [Pages -> [PTX -> Entry]] /\ \A q \in Pages : q # p => mem'[q] = mem[q]
  BY <1>1
<1>6. ASSUME NEW i \in ID, NEW d \in PDX, Present(PDirPool[i][d])
      PROVE  PDirPool[i][d].page \in Pages /\ PDirPool[i][d].page # p
  <2>1. CASE i = 0 \/ d \notin UserPDX
    <3>1. PDirPool[i][d] = IdentityPDE(d)
      BY <2>1, <1>1 DEF Structures, KernelEntries
    <3> QED
      BY <3>1, <1>4, EntryTypes
  <2>2. CASE i # 0 /\ d \in UserPDX
    <3>1. i \in ID \ {0} /\ d \in UserPDX /\ Present(PDirPool[i][d])
      BY <2>2, <1>6
    <3>2. PDirPool[i][d].page \in TablePages /\ PDirPool[i][d].page \in Pages
      BY <3>1, <1>1, TableOwned
    <3> QED
      BY <3>2
  <2> QED
    BY <2>1, <2>2
<1>7. ASSUME NEW i \in ID, NEW v \in VA
      PROVE  get_ptbl_entry_by_va(i, v)' = get_ptbl_entry_by_va(i, v)
  <2>1. v[1] \in PDX /\ v[2] \in PTX
    BY DEF VA
  <2>2. CASE Present(PDirPool[i][v[1]])
    BY <2>1, <2>2, <1>2, <1>5, <1>6 DEF get_ptbl_entry_by_va
  <2>3. CASE ~Present(PDirPool[i][v[1]])
    BY <2>3, <1>2 DEF get_ptbl_entry_by_va
  <2> QED
    BY <2>2, <2>3
<1>8. MPTTypeOK'
  BY <1>1, <1>2, <1>5 DEF Structures, MPTTypeOK
<1>9. KernelEntries'
  <2>1. \A d \in PDX : mem'[IDPTblPage(d)] = mem[IDPTblPage(d)]
    BY <1>4, <1>5
  <2> QED
    BY <2>1, <1>1, <1>2 DEF Structures, KernelEntries
<1>10. TableSlots' = TableSlots /\ TablePages' = TablePages
  BY <1>2 DEF TableSlots, TablePages
<1>11. UserEntries' /\ TablesPrivate'
  BY <1>1, <1>2, <1>10 DEF Structures, UserEntries, TablesPrivate
<1>12. Isolation'
  <2> SUFFICES ASSUME NEW i \in ID \ {0}, NEW v \in UserVA, Present(get_ptbl_entry_by_va(i, v)')
               PROVE  owner'[get_ptbl_entry_by_va(i, v)'.page] = i
                      /\ get_ptbl_entry_by_va(i, v)'.page \notin TablePages'
    BY DEF Isolation
  <2>1. get_ptbl_entry_by_va(i, v)' = get_ptbl_entry_by_va(i, v)
    BY <1>7, UserPage
  <2> QED
    BY <2>1, <1>1, <1>2, <1>10, MappingOwned DEF Structures
<1>13. ATInv' /\ OwnerMarksAllocated'
  BY <1>2 DEF atVars, MPTInv, ATInv, ATTypeOK, OnlyNormalAllocated, NormalExists, at_is_norm,
              at_is_allocated, OwnerMarksAllocated
<1>14. MPTInv'
  BY <1>8, <1>9, <1>11, <1>12, <1>13, InvNext DEF Structures
<1> QED
  BY <1>7, <1>14

(***************************************************************************)
(* The process ends an access.  A store to its own data changes nothing    *)
(* that is mapped; one to a kernel address or to its own program is the    *)
(* last step that is followed.                                             *)
(***************************************************************************)
LEMMA AccessDone == ASSUME RunInv, CompleteAccess PROVE KInv'
<1>1. pc = "user" /\ UNCHANGED <<cVars, PDirPool, cr3, tlb, CID, loaded, stored>>
  BY DEF CompleteAccess, cpuVars
<1>2. CID = 1 /\ cr3 = CID /\ CID \in ID \ {0} /\ access.va \in VA /\ MPTInv
      /\ access \in [va : VA, write : BOOLEAN, active : BOOLEAN]
  BY <1>1, KernelNumbers DEF RunInv, RunTypeOK, DirectoryLoaded
<1>3. PICK e \in Translations(access.va) :
         /\ Permits(e)
         /\ IF access.write THEN \E s \in Stores : StoreWord(e, s)
            ELSE access' = NoAccess /\ UNCHANGED <<mem, pc>>
  BY DEF CompleteAccess
<1>4. e = get_ptbl_entry_by_va(1, access.va)
  BY <1>2, <1>3 DEF Translations, RunInv, TLBSound
<1>5. UNCHANGED <<atVars, AT, owner, CONTAINER>>
  BY <1>1 DEF cVars, atVars
<1>6. NoAccess \in [va : VA, write : BOOLEAN, active : BOOLEAN]
  BY KernelNumbers DEF NoAccess
<1>7. ASSUME MPTInv', pc' = pc, access' = NoAccess,
             \A i \in ID, v \in VA : get_ptbl_entry_by_va(i, v)' = get_ptbl_entry_by_va(i, v)
      PROVE  RunInv'
  <2>1. RunTypeOK'
    BY <1>1, <1>2, <1>6, <1>7 DEF RunInv, RunTypeOK
  <2>2. DirectoryLoaded'
    BY <1>1, <1>2, <1>7 DEF DirectoryLoaded
  <2>3. TLBSound'
    <3>1. \A v \in VA : get_ptbl_entry_by_va(cr3, v)' = get_ptbl_entry_by_va(cr3, v)
      <4>1. \A v \in VA : get_ptbl_entry_by_va(1, v)' = get_ptbl_entry_by_va(1, v)
        BY <1>2, <1>7
      <4>2. cr3 = 1 /\ cr3' = 1
        BY <1>1, <1>2
      <4> QED
        BY <4>1, <4>2 DEF get_ptbl_entry_by_va
    <3> QED
      BY <3>1, <1>1 DEF RunInv, TLBSound
  <2>4. UserPermissions'
    <3>1. \A v \in UserVA : get_ptbl_entry_by_va(1, v)' = get_ptbl_entry_by_va(1, v)
      BY <1>2, <1>7, UserPage
    <3> QED
      BY <3>1 DEF RunInv, UserPermissions
  <2>5. FaultDenied' /\ FaultsJustified'
    BY <1>1, <1>7 DEF FaultDenied, FaultsJustified
  <2>6. LoaderStoresInProcess'
    BY <1>1, <1>5, <1>7 DEF RunInv, LoaderStoresInProcess, FreePages, at_is_norm, at_is_allocated
  <2> QED
    BY <1>7, <2>1, <2>2, <2>3, <2>4, <2>5, <2>6 DEF RunInv
<1>8. CASE ~access.write
  <2>1. access' = NoAccess /\ mem' = mem /\ pc' = pc
    BY <1>3, <1>8
  <2>2. MPTInv'
    BY <2>1, <1>1, <1>2, <1>5, InvUnchanged
  <2>3. \A i \in ID, v \in VA : get_ptbl_entry_by_va(i, v)' = get_ptbl_entry_by_va(i, v)
    BY <2>1, <1>1, LookupSame
  <2> QED
    BY <2>1, <2>2, <2>3, <1>1, <1>7 DEF KInv
<1>9. CASE access.write
  <2>1. PICK s \in Stores : StoreWord(e, s)
    BY <1>3, <1>9
  <2>2. s[1] \in PTX /\ s[2] \in Entry
    BY KernelAssumption
  <2>3. CASE OwnData(e)
    <3>1. owner[e.page] = 1 /\ e.page \notin TablePages /\ access' = NoAccess /\ pc' = pc
          /\ mem' = [mem EXCEPT ![e.page][s[1]] = s[2]]
      BY <2>1, <2>3, <1>2 DEF OwnData, StoreWord
    <3>2. e.page \in Pages /\ owner[e.page] # NoID
      <4>1. CASE access.va \in UserVA
        BY <4>1, <3>1, <1>2, <1>3, <1>4, MappedPage, KernelNumbers DEF Permits
      <4>2. CASE access.va \notin UserVA
        <5>1. e.page = PageAt(access.va)
          BY <4>2, <1>2, <1>4, UserOrKernel, IdentityLookup
        <5>2. access.va[1] \in PDX /\ access.va[2] \in PTX
              /\ PageAt(access.va) = PageAt(<<access.va[1], access.va[2]>>)
          BY <1>2 DEF VA, PageAt
        <5> QED
          BY <5>1, <5>2, <3>1, IdentityPages, KernelNumbers
      <4> QED
        BY <4>1, <4>2
    <3>3. /\ MPTInv'
          /\ \A i \in ID, v \in VA : get_ptbl_entry_by_va(i, v)' = get_ptbl_entry_by_va(i, v)
      BY <3>1, <3>2, <2>2, <1>1, <1>2, StoreKeeps
    <3> QED
      BY <3>1, <3>3, <1>1, <1>7 DEF KInv
  <2>4. CASE ~OwnData(e)
    <3>1. pc' = "overwritten" /\ access'.write /\ access'.va = access.va
      BY <2>1, <2>4, <1>2, <1>9 DEF StoreWord
    <3>2. access.va \notin UserVA \/ InImage(access.va)
      <4> SUFFICES ASSUME access.va \in UserVA PROVE InImage(access.va)
        OBVIOUS
      <4>1. owner[e.page] = 1 /\ e.page \notin TablePages
        BY <1>2, <1>3, <1>4, MappedPage DEF Permits
      <4> QED
        BY <4>1, <2>4, <1>2 DEF OwnData
    <3> QED
      BY <3>1, <3>2 DEF KInv, UserHitsOwn, InImage
  <2> QED
    BY <2>3, <2>4
<1> QED
  BY <1>8, <1>9

\* The CPU caches a translation: a global one only of the kernel part.
LEMMA FillStep == ASSUME RunInv, NEW v \in Touched, FillTLB(v) PROVE RunInv'
<1> DEFINE e == get_ptbl_entry_by_va(cr3, v)
<1>1. Present(e) /\ tlb' = tlb \cup {<<v, e>>} /\ UNCHANGED mptVars
      /\ UNCHANGED <<cr3, pc, CID, loaded, stored, access>>
  BY DEF FillTLB, runVars
<1>2. v \in VA /\ cr3 \in {0, 1} /\ MPTInv
  BY KernelAssumption DEF RunInv, RunTypeOK, DirectoryLoaded
<1>3. MPTInv' /\ UserPermissions' /\ LoaderStoresInProcess'
  BY <1>1, QuietStep
<1>4. PDirPool' = PDirPool /\ mem' = mem
  BY <1>1 DEF mptVars, vmVars
<1>5. "G" \in e.perm => v[1] \notin UserPDX
  <2> SUFFICES ASSUME v[1] \in UserPDX PROVE "G" \notin e.perm
    OBVIOUS
  <2>1. v \in UserVA
    BY <1>2, UserOrKernel
  <2>2. CASE cr3 = 0
    BY <2>2, <1>2, IdentityLookup, KernelNumbers
  <2>3. CASE cr3 = 1
    <3>1. e.perm \in Perms
      BY <2>1, <2>3, <1>1, PermsFacts DEF RunInv, UserPermissions
    <3> QED
      BY <3>1, PermsFacts
  <2> QED
    BY <2>2, <2>3, <1>2
<1>6. RunTypeOK'
  BY <1>1 DEF RunInv, RunTypeOK, mptVars, cVars
<1>7. DirectoryLoaded'
  BY <1>1 DEF RunInv, DirectoryLoaded
<1>8. TLBSound'
  <2> SUFFICES ASSUME NEW x \in tlb'
               PROVE  /\ x[1] \in VA
                      /\ x[2] = get_ptbl_entry_by_va(cr3, x[1])'
                      /\ "G" \in x[2].perm => x[1][1] \notin UserPDX
    BY DEF TLBSound
  <2>1. get_ptbl_entry_by_va(cr3, x[1])' = get_ptbl_entry_by_va(cr3, x[1])
    BY <1>1, <1>4 DEF get_ptbl_entry_by_va
  <2>2. CASE x \in tlb
    BY <2>1, <2>2 DEF RunInv, TLBSound
  <2>3. CASE x = <<v, e>>
    <3>1. x[1] = v /\ x[2] = e
      BY <2>3
    <3> QED
      BY <3>1, <2>1, <1>2, <1>5
  <2> QED
    BY <2>2, <2>3, <1>1
<1>9. FaultDenied' /\ FaultsJustified'
  <2>1. get_ptbl_entry_by_va(CID, access.va)' = get_ptbl_entry_by_va(CID, access.va)
    BY <1>1, <1>4 DEF get_ptbl_entry_by_va
  <2> QED
    BY <2>1, <1>1 DEF RunInv, FaultDenied, FaultsJustified, Permits
<1> QED
  BY <1>3, <1>6, <1>7, <1>8, <1>9 DEF RunInv

\* The fault handler maps a page, or stops the machine.
LEMMA HandlerStep == ASSUME RunInv, pgflt_handler PROVE RunInv'
<1>1. pc = "handle" /\ UNCHANGED <<cr3, tlb, CID, loaded, stored, access>>
  BY DEF pgflt_handler, cpuVars
<1>2. CID = 1 /\ cr3 = 0 /\ access.va \in UserVA /\ CID' = 1
  BY <1>1 DEF RunInv, RunTypeOK, DirectoryLoaded, FaultsJustified
<1> DEFINE e == get_ptbl_entry_by_va(CID, access.va)
<1>3. ~Permits(e)
  BY <1>1 DEF RunInv, FaultDenied
<1>4. CASE Present(e)
  <2>1. pc' = "panic" /\ UNCHANGED mptVars
    BY <1>4 DEF pgflt_handler, Protection
  <2>2. MPTInv' /\ UserPermissions' /\ LoaderStoresInProcess'
    BY <2>1, <1>1, QuietStep
  <2>3. RunTypeOK'
    BY <2>1, <1>1, <1>2 DEF RunInv, RunTypeOK
  <2>4. DirectoryLoaded'
    BY <2>1, <1>1, <1>2 DEF DirectoryLoaded
  <2>5. TLBSound'
    BY <2>2, <1>1, <1>2, KernelTLB
  <2>6. access.write /\ "W" \notin e.perm
    BY <1>3, <1>4 DEF Permits
  <2>7. e.perm # PT_PERM_PTU
    BY <2>6, PermsFacts
  <2>8. \E i \in DOMAIN Image : Image[i].va = access.va /\ Image[i].perm = e.perm
    BY <2>7, <1>2, <1>4 DEF RunInv, UserPermissions
  <2>9. FaultDenied' /\ FaultsJustified'
    BY <2>1, <2>6, <2>8, <1>1 DEF FaultDenied, FaultsJustified
  <2> QED
    BY <2>2, <2>3, <2>4, <2>5, <2>9 DEF RunInv
<1>5. CASE ~Present(e)
  <2>1. pc' = "resume" /\ alloc_page(1, access.va, PT_PERM_PTU)
    BY <1>2, <1>5 DEF pgflt_handler, Protection, FaultPerm
  <2>2. PT_PERM_PTU \in Perms /\ PT_PERM_PTU \in SUBSET Flags
    BY PermsFacts
  <2>3. MPTInv'
    BY <2>1, <2>2, <1>2, AllocPageKeeps, KernelNumbers DEF RunInv
  <2>4. UserPermissions'
    BY <2>1, <2>2, <1>2, AllocPermissions
  <2>5. LoaderStoresInProcess'
    BY <2>1, <2>2, <1>1, <1>2, AllocStored
  <2>6. RunTypeOK'
    BY <2>1, <1>1, <1>2 DEF RunInv, RunTypeOK
  <2>7. DirectoryLoaded'
    BY <2>1, <1>1, <1>2 DEF DirectoryLoaded
  <2>8. TLBSound'
    BY <2>3, <1>1, <1>2, KernelTLB
  <2>9. FaultDenied' /\ FaultsJustified'
    BY <2>1 DEF FaultDenied, FaultsJustified
  <2> QED
    BY <2>3, <2>4, <2>5, <2>6, <2>7, <2>8, <2>9 DEF RunInv
<1> QED
  BY <1>4, <1>5

LEMMA KernelStutter == ASSUME RunInv, UNCHANGED kVars PROVE RunInv'
<1>1. UNCHANGED mptVars /\ UNCHANGED <<cr3, tlb, pc, CID, loaded, stored, access>>
  BY DEF kVars, cpuVars, runVars
<1>2. MPTInv' /\ UserPermissions' /\ LoaderStoresInProcess'
  BY <1>1, QuietStep
<1>3. PDirPool' = PDirPool /\ mem' = mem /\ CONTAINER' = CONTAINER
  BY <1>1 DEF mptVars, vmVars, cVars
<1>4. RunTypeOK' /\ DirectoryLoaded'
  BY <1>1, <1>3 DEF RunInv, RunTypeOK, DirectoryLoaded
<1>5. TLBSound'
  BY <1>1, <1>3 DEF RunInv, TLBSound, get_ptbl_entry_by_va
<1>6. FaultDenied' /\ FaultsJustified'
  <2>1. get_ptbl_entry_by_va(CID, access.va)' = get_ptbl_entry_by_va(CID, access.va)
    BY <1>1, <1>3 DEF get_ptbl_entry_by_va
  <2> QED
    BY <2>1, <1>1 DEF RunInv, FaultDenied, FaultsJustified, Permits
<1> QED
  BY <1>2, <1>4, <1>5, <1>6 DEF RunInv

LEMMA RunNotOver == RunInv' => pc' # "overwritten"
BY DEF RunInv, RunTypeOK

LEMMA KernelInit == ASSUME KInit PROVE RunInv
<1>1. MPTInv
  BY InitKeeps DEF KInit
<1>2. RunTypeOK
  <2>1. CONTAINER[0].nchildren = 0
    BY KernelNumbers DEF KInit, MPTInit, CInit, NewRecord
  <2> QED
    BY <2>1, KernelNumbers DEF KInit, RunTypeOK, NoAccess
<1>3. DirectoryLoaded /\ TLBSound
  BY DEF KInit, DirectoryLoaded, TLBSound
<1>4. UserPermissions
  <2>1. \A d \in UserPDX : PDirPool[1][d] = NoEntry
    BY KernelNumbers DEF KInit, MPTInit, InitialPDE, UserPDX
  <2>2. \A v \in UserVA : get_ptbl_entry_by_va(1, v) = NoEntry
    BY <2>1, UserPage, EntryTypes DEF get_ptbl_entry_by_va
  <2> QED
    BY <2>2, EntryTypes DEF UserPermissions
<1>5. FaultDenied /\ FaultsJustified
  BY DEF KInit, FaultDenied, FaultsJustified
<1>6. LoaderStoresInProcess
  BY ATAssumption DEF KInit, LoaderStoresInProcess, NoPage
<1> QED
  BY <1>1, <1>2, <1>3, <1>4, <1>5, <1>6 DEF RunInv

----------------------------------------------------------------------------
(***************************************************************************)
(* What runs, what is loaded and what the TLB and the tables hold fit      *)
(* together in every state, for every program and size of memory, until    *)
(* the process stores to a kernel address or to its own program; it does   *)
(* so only in an access that is one of these two.                          *)
(***************************************************************************)
THEOREM KernelInvariant == KSpec => []KInv
<1>1. KInit => KInv
  <2> SUFFICES ASSUME KInit PROVE KInv
    OBVIOUS
  <2>1. RunInv /\ pc # "overwritten"
    BY KernelInit DEF KInit
  <2> QED
    BY <2>1 DEF KInv
<1>2. KInv /\ [KNext]_kVars => KInv'
  <2> SUFFICES ASSUME KInv, [KNext]_kVars PROVE KInv'
    OBVIOUS
  <2>1. RunInv' => KInv'
    BY RunNotOver DEF KInv
  <2>2. CASE pc # "overwritten"
    <3>1. RunInv
      BY <2>2 DEF KInv
    <3>2. CASE mon_start_user
      BY <3>1, <3>2, <2>1, StartStep
    <3>3. CASE KernelStep
      BY <3>1, <3>3, <2>1, LoadPageStep, LoadDllStep, SwitchStep, HandlerStep DEF KernelStep
    <3>4. CASE AccessStep \/ Exit
      BY <3>1, <3>4, <2>1, FaultStep, AccessDone, ProcessStep DEF AccessStep
    <3>5. CASE \E v \in Touched : FillTLB(v) \/ \E write \in BOOLEAN : BeginAccess(v, write)
      BY <3>1, <3>5, <2>1, FillStep, ProcessStep
    <3>6. CASE UNCHANGED kVars
      BY <3>1, <3>6, <2>1, KernelStutter
    <3> QED
      BY <3>2, <3>3, <3>4, <3>5, <3>6 DEF KNext
  <2>3. CASE pc = "overwritten"
    <3>1. ~KNext
      BY <2>3 DEF KNext, mon_start_user, KernelStep, elf_load_page, elf_load_dll, Enter, TrapEntry,
                  pgflt_handler, TrapReturn, AccessStep, CompleteAccess, PageFault, Exit,
                  FillTLB, BeginAccess
    <3>2. pc' = pc /\ access' = access
      BY <3>1 DEF kVars, runVars
    <3> QED
      BY <2>3, <3>2 DEF KInv, UserHitsOwn, InImage
  <2> QED
    BY <2>2, <2>3
<1> QED
  BY <1>1, <1>2, PTL DEF KSpec

(***************************************************************************)
(* Whenever the loader or the fault handler writes page tables through     *)
(* their physical addresses, the CPU translates by the identity, whatever  *)
(* the process has stored to its own data.                                 *)
(***************************************************************************)
THEOREM TablesWrittenPhysically == KSpec => []PhysicalView
<1>1. KInv => PhysicalView
  <2> SUFFICES ASSUME KInv, pc \in {"load", "handle"}, NEW v \in VA, NEW e \in Translations(v)
               PROVE  Present(e) /\ e.page = PageAt(v)
    BY DEF PhysicalView
  <2>1. RunInv
    BY DEF KInv
  <2>2. cr3 = 0
    BY <2>1 DEF RunInv, DirectoryLoaded
  <2>3. e = get_ptbl_entry_by_va(0, v)
    BY <2>1, <2>2 DEF Translations, RunInv, TLBSound
  <2> QED
    BY <2>1, <2>3, IdentityLookup, KernelNumbers DEF RunInv
<1> QED
  BY <1>1, KernelInvariant, PTL

(***************************************************************************)
(* The TLB never holds a translation that the loaded directory does not    *)
(* have, as long as the process stores to no kernel address and not to its *)
(* own program.                                                            *)
(***************************************************************************)
THEOREM NoStaleTranslation == KSpec => []TLBCoherent
<1>1. KInv => TLBCoherent
  BY DEF KInv, RunInv, TLBSound, TLBCoherent
<1> QED
  BY <1>1, KernelInvariant, PTL

(***************************************************************************)
(* A process reaches its own memory through its user pages, and nothing    *)
(* else: what goes over the kernel's memory is a store to a kernel         *)
(* address, and what goes over the program is one to the program.          *)
(***************************************************************************)
THEOREM ProcessHitsOwn == KSpec => []UserHitsOwn
<1>1. KInv => UserHitsOwn
  <2> SUFFICES ASSUME KInv PROVE UserHitsOwn
    OBVIOUS
  <2>1. CASE pc = "overwritten"
    BY <2>1 DEF KInv
  <2>2. CASE pc # "overwritten"
    <3>1. RunInv
      BY <2>2 DEF KInv
    <3>2. ASSUME pc = "user", NEW v \in UserVA, NEW e \in Translations(v), Present(e)
          PROVE  owner[e.page] = CID /\ e.page \notin TablePages
      <4>1. CID = 1 /\ cr3 = CID
        BY <3>1, <3>2 DEF RunInv, DirectoryLoaded, RunTypeOK
      <4>2. e = get_ptbl_entry_by_va(CID, v)
        BY <3>1, <4>1 DEF Translations, RunInv, TLBSound
      <4> QED
        BY <3>1, <3>2, <4>1, <4>2, MappedPage, KernelNumbers DEF RunInv
    <3> QED
      BY <3>2, <2>2 DEF UserHitsOwn
  <2> QED
    BY <2>1, <2>2
<1> QED
  BY <1>1, KernelInvariant, PTL

(***************************************************************************)
(* The machine stops only for a write to a page linked as read-only, and   *)
(* the handler allocates only for user pages, until the process stores to  *)
(* a kernel address or to its own program.                                 *)
(***************************************************************************)
THEOREM FaultsAreJustified == KSpec => []FaultsJustified
<1>1. KInv => FaultsJustified
  BY DEF KInv, RunInv, FaultsJustified
<1> QED
  BY <1>1, KernelInvariant, PTL

(***************************************************************************)
(* The loader stores to memory of the process, or to page 0 when memory    *)
(* has run out.                                                            *)
(***************************************************************************)
THEOREM LoaderStoresOwn == KSpec => []LoaderStoresInProcess
<1>1. KInv => LoaderStoresInProcess
  BY DEF KInv, RunInv, LoaderStoresInProcess
<1> QED
  BY <1>1, KernelInvariant, PTL
=============================================================================
