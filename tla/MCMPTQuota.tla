----------------------------- MODULE MCMPTQuota -----------------------------
(***************************************************************************)
(* What the comments of MContainer.c say of quotas, asked of the system in *)
(* which alloc_page is the caller of container_alloc: neither of the two   *)
(* looks at the quota.                                                     *)
(***************************************************************************)
EXTENDS MCMPT

(***************************************************************************)
(* container_can_consume "Determines whether the process # [id] can        *)
(* consume an extra [n] pages of memory": it says yes only if n more pages *)
(* stay within the quota.                                                  *)
(***************************************************************************)
CanConsumeIsRight ==
    \A c \in ID, n \in 1 .. WORD - 1 :
        InUse(c) /\ container_can_consume(c, n)
          => CONTAINER[c].usage + n <= CONTAINER[c].quota
=============================================================================
