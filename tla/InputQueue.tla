----------------------------- MODULE InputQueue -----------------------------
(***************************************************************************)
(* What the console input buffer promises: a queue that holds up to        *)
(* Capacity characters in order, and forgets all of them when one more     *)
(* arrives.  The module Console implements it.                             *)
(***************************************************************************)
EXTENDS Naturals, Sequences

CONSTANTS Char, Capacity

VARIABLES queue,
          last,   \* what was taken last, 0 if nothing was there
          odd     \* whether an odd number of characters were put

qVars == <<queue, last, odd>>

QInit == queue = <<>> /\ last = 0 /\ odd = FALSE

Put(c) ==
    /\ queue' = IF Len(queue) < Capacity THEN Append(queue, c) ELSE <<>>
    /\ last' = last /\ odd' = ~odd

Take ==
    /\ queue # <<>>
    /\ last' = Head(queue) /\ queue' = Tail(queue) /\ odd' = odd

TakeNothing ==
    /\ queue = <<>>
    /\ last' = 0 /\ UNCHANGED <<queue, odd>>

QNext == (\E c \in Char : Put(c)) \/ Take \/ TakeNothing

QSpec == QInit /\ [][QNext]_qVars
=============================================================================
