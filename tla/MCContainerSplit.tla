-------------------------- MODULE MCContainerSplit --------------------------
(***************************************************************************)
(* MContainer with callers that check what the comments of MContainer.c    *)
(* ask of them, the quota, and not the number of children, which nothing   *)
(* asks of them: alloc_mem_quota and the tests call container_split as     *)
(* often as they like.                                                     *)
(***************************************************************************)
EXTENDS MContainer

(***************************************************************************)
(* container_split "Dedicates [quota] pages of memory for a new child      *)
(* process" and "Returns the container index for the new child process":   *)
(* the record it fills in belongs to no process yet.                       *)
(***************************************************************************)
SplitTakesNewContainer ==
    [][\A c \in ID : InUse(c) => CONTAINER'[c].parent = CONTAINER[c].parent]_cVars
=============================================================================
