------------------------------ MODULE MCKernel ------------------------------
(***************************************************************************)
(* Kernel with 5 directory entries of 4 pages; entries 2 and 3 are the     *)
(* user range (pages 8 to 15), IDPTbl takes pages 1 to 5.  The program has *)
(* a read-only and a writable page.  It loads from and stores to both, a   *)
(* page of the kernel, and pages that it gets by demand paging in an old   *)
(* and in a new table.  Memory has from fewer free pages than loading it   *)
(* needs to as many as all of its faults need.                             *)
(***************************************************************************)
EXTENDS Kernel

MCPerms == {PT_PERM_PTU, {"P", "U"}}
MCJunk  == {[page |-> 0, perm |-> {"P", "W", "U"}]}

MCImage == << [va |-> <<2, 0>>, perm |-> {"P", "U"}],
              [va |-> <<2, 1>>, perm |-> PT_PERM_PTU] >>

MCDynlink == <<2, 3>>

MCTouched == {<<0, 0>>, <<2, 0>>, <<2, 1>>, <<2, 2>>, <<3, 0>>}

\* 3 is a present entry of page 0, 0 an empty one.
MCStores == {<<0, [page |-> 0, perm |-> {"P", "W"}]>>, <<2, NoEntry>>}

MCInit == KInit /\ NUM_PAGES = 18
                /\ FreePages(AT) \in {8 .. n : n \in 8 .. 14}

MCSpec == MCInit /\ [][KNext]_kVars /\ WF_kVars(KernelStep) /\ WF_kVars(AccessStep)
=============================================================================
