------------------------------- MODULE MCMPT -------------------------------
(***************************************************************************)
(* MPT with 7 directory entries of 2 pages: entries 4 and 5 are the user   *)
(* range (pages 8 to 11), IDPTbl takes pages 1 to 7.  Two processes share  *)
(* three normal pages, with a hole between them; every page holds entries  *)
(* at boot that would map page 0 to the user.                              *)
(***************************************************************************)
EXTENDS MPT

MCJunk == {[page |-> 0, perm |-> {"P", "W", "U"}]}

MCPerms == {PT_PERM_PTU}

MCInit == MPTInit /\ NUM_PAGES = 12 /\ FreePages(AT) = {8, 9, 11}

MCSpec == MCInit /\ [][MPTNext]_mptVars
=============================================================================
