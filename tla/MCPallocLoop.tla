---------------------------- MODULE MCPallocLoop ----------------------------
(* PallocLoop on a table of 9 pages, 5 of them in the user range, for every *)
(* size of memory and every set of usable pages.                            *)
EXTENDS PallocLoop
=============================================================================
