---------------------------- MODULE MCTrapFrame -----------------------------
(***************************************************************************)
(* Page fault (14, with an error code), divide error (0, without), and a   *)
(* vector without a stub (19, without).  Up to two words on the stack when *)
(* code pushes; each page fault leaves two more (see StateRestored).       *)
(***************************************************************************)
EXTENDS TrapFrame
=============================================================================
