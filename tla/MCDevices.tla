----------------------------- MODULE MCDevices ------------------------------
(***************************************************************************)
(* The three parts around the monitor that have no memory in common with   *)
(* each other: console input, the command line, and traps.  The kernel is  *)
(* one thread: one of them moves and the others rest as they were at the   *)
(* start.                                                                  *)
(*                                                                         *)
(* Console: two shift keys, an escaped control key, alt, caps lock, a      *)
(* letter, a digit, and Enter and Delete of both blocks; over the serial   *)
(* line a NUL and a byte that is negative as a char.                       *)
(*                                                                         *)
(* Readline: a screen of 3 rows of 3 cells, and lines of up to 6           *)
(* characters: a line with its prompt reaches over the start of the        *)
(* screen.                                                                 *)
(*                                                                         *)
(* TrapFrame: page fault (14, with an error code), divide error (0,        *)
(* without), and a vector without a stub (19, without).  Up to two words   *)
(* on the stack when code pushes; each page fault leaves two more.         *)
(***************************************************************************)
EXTENDS TrapFrame, Console, Readline

Plain(c)   == [esc |-> FALSE, code |-> c]
Escaped(c) == [esc |-> TRUE, code |-> c]

MCKey == {Plain(SHIFT_L), Plain(SHIFT_R), Escaped(CONTROL), Plain(ALT_KEY), Plain(CAPS),
          Plain(LETTER), Plain(DIGIT), Plain(ENTER), Escaped(ENTER), Plain(DELETE), Escaped(DELETE)}

MCPrompt  == <<"x", "space">>
MCMessage == {<<"tab", "x", "nl">>, <<"ctl", "nl", "cr", "bs", "neg">>}

----------------------------------------------------------------------------
devVars == <<tfVars, consVars, rlVars>>

Quiet   == ConsInit
Cleared == RLInit /\ terminal.pos = 0
NoTrap  == TFInit /\ vector = T_PGFLT /\ stack = <<1>> /\ cpu.eip = 1 /\ cpu.eflags = 1 /\ cpu.gp = 1

DevInit ==
    \/ ConsInit /\ Cleared /\ NoTrap
    \/ Quiet /\ RLInit /\ NoTrap
    \/ Quiet /\ Cleared /\ TFInit

Keys  == Cleared /\ NoTrap /\ UNCHANGED <<rlVars, tfVars>>
Poll  == Keys /\ GetcStep
Line  == Quiet /\ NoTrap /\ RLNext /\ UNCHANGED <<consVars, tfVars>>
Traps == Quiet /\ Cleared /\ TFNext /\ UNCHANGED <<consVars, rlVars>>

\* A trap other than a page fault stops the machine.
Stopped == phase = "panic" /\ UNCHANGED devVars

DevNext == Poll \/ (Keys /\ Arrive) \/ Line \/ Traps \/ Stopped

DevSpec == DevInit /\ [][DevNext]_devVars /\ WF_devVars(Poll)
=============================================================================
