----------------------------- MODULE PallocLoop -----------------------------
(***************************************************************************)
(* palloc as the code runs it: one step per evaluation of the loop's       *)
(* condition and body, with the local variables of the function.  AT and   *)
(* last_palloc_index change only where the code stores to them, after the  *)
(* loop, so every behaviour here is a behaviour of MATOp.                  *)
(*                                                                         *)
(* The kernel runs with interrupts off on one processor: nothing frees a   *)
(* page between the first and the last step of a palloc.                   *)
(***************************************************************************)
EXTENDS MATOp

VARIABLES pc,                 \* "idle", "scan": in the loop, "exit": after it
          palloc_index,
          palloc_free_index,  \* the page found; nps as long as none is
          first

loopVars == <<pc, palloc_index, palloc_free_index, first>>
plVars   == <<atVars, loopVars>>

PLInit ==
    /\ ATInit
    /\ pc = "idle"
    /\ palloc_index = VM_USERLO_PI
    /\ palloc_free_index = get_nps
    /\ first = TRUE

----------------------------------------------------------------------------
\* Faulty forms of the definitions below, for checking the properties.

BeginScanWithoutFirst ==
    /\ pc = "idle"
    /\ pc' = "scan"
    /\ palloc_index' = last_palloc_index
    /\ palloc_free_index' = get_nps
    /\ first' = FALSE
    /\ UNCHANGED atVars

BeginScanAfterMemo ==
    /\ pc = "idle"
    /\ pc' = "scan"
    /\ palloc_index' = IF last_palloc_index + 1 >= VM_USERHI_PI
                         THEN VM_USERLO_PI ELSE last_palloc_index + 1
    /\ palloc_free_index' = get_nps
    /\ first' = TRUE
    /\ UNCHANGED atVars

NextIndexLateWrap(i) == IF i + 1 > VM_USERHI_PI THEN VM_USERLO_PI ELSE i + 1

NextIndexClamped(i) == IF i + 1 >= VM_USERHI_PI THEN i ELSE i + 1

ReturnIgnoresFailure ==
    /\ pc = "exit"
    /\ pc' = "idle"
    /\ AT' = at_set_allocated(AT, palloc_free_index, 1)
    /\ last_palloc_index' = VM_USERLO_PI
    /\ UNCHANGED <<NUM_PAGES, palloc_index, palloc_free_index, first>>

----------------------------------------------------------------------------
\* The assignments before the loop.
BeginScan ==
    /\ pc = "idle"
    /\ pc' = "scan"
    /\ palloc_index' = last_palloc_index
    /\ palloc_free_index' = get_nps
    /\ first' = TRUE
    /\ UNCHANGED atVars

\* palloc_index++ and the wrap at the end of the user range.
NextIndex(i) == IF i + 1 >= VM_USERHI_PI THEN VM_USERLO_PI ELSE i + 1

LoopCondition ==
    /\ palloc_index # last_palloc_index \/ first
    /\ palloc_free_index = get_nps

ScanStep ==
    /\ pc = "scan"
    /\ LoopCondition
    /\ first' = FALSE
    /\ palloc_free_index' =
         IF at_is_norm(AT, palloc_index) /\ ~at_is_allocated(AT, palloc_index)
           THEN palloc_index ELSE palloc_free_index
    /\ palloc_index' = NextIndex(palloc_index)
    /\ UNCHANGED <<pc, atVars>>

ScanEnd ==
    /\ pc = "scan"
    /\ ~LoopCondition
    /\ pc' = "exit"
    /\ UNCHANGED <<palloc_index, palloc_free_index, first, atVars>>

\* The code after the loop; palloc_free_index' is the value palloc returns.
Return ==
    /\ pc = "exit"
    /\ pc' = "idle"
    /\ IF palloc_free_index = get_nps
         THEN /\ palloc_free_index' = 0
              /\ last_palloc_index' = VM_USERLO_PI
              /\ AT' = AT
         ELSE /\ palloc_free_index' = palloc_free_index
              /\ AT' = at_set_allocated(AT, palloc_free_index, 1)
              /\ last_palloc_index' = palloc_free_index
    /\ UNCHANGED <<NUM_PAGES, palloc_index, first>>

Free ==
    /\ pc = "idle"
    /\ \E p \in Pages : at_is_allocated(AT, p) /\ pfree(p)
    /\ UNCHANGED loopVars

PLNext == BeginScan \/ ScanStep \/ ScanEnd \/ Return \/ Free

\* Once called, palloc keeps running: nothing preempts the kernel.
PLSpec == PLInit /\ [][PLNext]_plVars /\ WF_plVars(ScanStep \/ ScanEnd \/ Return)

----------------------------------------------------------------------------
PLTypeOK ==
    /\ ATTypeOK
    /\ pc \in {"idle", "scan", "exit"}
    /\ palloc_index \in UserPages
    /\ palloc_free_index \in UserPages \cup {NUM_PAGES, 0}
    /\ first \in BOOLEAN

(***************************************************************************)
(* What the loop knows.  After some rounds it has looked at the pages from *)
(* last_palloc_index up to palloc_index (at all pages, when it is back at  *)
(* its start), and either found none of them free, or only the last one.   *)
(***************************************************************************)
Scanned ==
    IF first THEN {}
    ELSE IF palloc_index = last_palloc_index THEN UserPages
    ELSE {p \in UserPages :
            RingDist(last_palloc_index, p) < RingDist(last_palloc_index, palloc_index)}

ScanInv ==
    pc \in {"scan", "exit"} =>
        IF palloc_free_index = NUM_PAGES
          THEN Scanned \cap FreePages(AT) = {}
          ELSE Scanned \cap FreePages(AT) = {palloc_free_index}

StartInv == pc \in {"scan", "exit"} /\ first => palloc_index = last_palloc_index

ExitInv == pc = "exit" => ~LoopCondition

(***************************************************************************)
(* The inductive invariant of the loop.  It fixes what palloc returns: at  *)
(* the exit, either no page at all is free, or palloc_free_index is the    *)
(* first free page from last_palloc_index on.                              *)
(***************************************************************************)
PLInv == ATInv /\ PLTypeOK /\ ScanInv /\ StartInv /\ ExitInv

(***************************************************************************)
(* The value nps, which stands for "nothing found yet" in                  *)
(* palloc_free_index, is never the number of a free page: a machine whose  *)
(* memory ends inside the user range cannot make palloc overlook a page.   *)
(***************************************************************************)
SentinelNotFree == NUM_PAGES \notin FreePages(AT)

(***************************************************************************)
(* Every palloc returns, whatever last_palloc_index it starts from: the    *)
(* wrapping index comes back to the start.                                 *)
(***************************************************************************)
PallocTerminates == pc = "scan" ~> pc = "idle"
=============================================================================
