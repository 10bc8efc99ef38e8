---------------------------- MODULE MCContainer ----------------------------
(* MContainer with 4 user pages and 5 containers of at most 2 children.  *)
EXTENDS MContainer
=============================================================================
