----------------------------- MODULE TrapFrame ------------------------------
(***************************************************************************)
(* Entering and leaving the kernel on a trap: what the CPU, the stubs and  *)
(* _alltraps of kern/dev/idt.S push, what trap reads of it as a tf_t, and  *)
(* what trap_return pops.  Traps come from code at the kernel's privilege  *)
(* (the process is called like a function), so that the CPU stays on the   *)
(* stack of the code that it interrupts.                                   *)
(*                                                                         *)
(* The stack is a sequence of words that grows at its end.  The general    *)
(* registers, which pushal and popal move together, are one word.          *)
(***************************************************************************)
EXTENDS Naturals, Sequences, SequencesExt

CONSTANTS Value,      \* values of registers and of words
          Vector,     \* interrupt vectors
          HasErr,     \* external: the vectors for which the CPU pushes an error code
          Installed,  \* the vectors that intr_init_idt gives a stub of their own
          T_PGFLT, T_DEFAULT,
          DEPTH       \* a bound: words on the stack when code pushes or traps

ASSUME TrapFrameAssumption ==
    /\ HasErr \subseteq Vector /\ Installed \subseteq Vector
    /\ T_PGFLT \in Installed \cap HasErr
    /\ T_DEFAULT \notin Vector
    /\ DEPTH \in Nat

VARIABLES stack,
          cpu,      \* registers: eip, eflags, ds, es, gp
          vector,   \* the trap that is being entered
          phase,
          before    \* history: the stack, the registers and the error code at the trap

tfVars == <<stack, cpu, vector, phase, before>>

CPU_GDT_KCODE == 8
CPU_GDT_KDATA == 16

----------------------------------------------------------------------------
\* Faulty forms of the definitions below, for checking the properties.

StubErrorNever(v) == <<>>

ReturnSkipOne == 1

----------------------------------------------------------------------------
TFInit ==
    /\ \E w \in Value : stack = <<w>>
    /\ cpu \in [eip : Value, eflags : Value, ds : {CPU_GDT_KDATA}, es : {CPU_GDT_KDATA}, gp : Value]
    /\ vector \in Vector
    /\ phase = "run"
    /\ before = [stack |-> <<>>, cpu |-> cpu, err |-> 0]

\* The code that runs: it pushes, pops and computes.
Execute ==
    /\ phase = "run"
    /\ \E pc, flags, g \in Value : cpu' = [cpu EXCEPT !.eip = pc, !.eflags = flags, !.gp = g]
    /\ \/ Len(stack) < DEPTH /\ \E w \in Value : stack' = Append(stack, w)
       \/ Len(stack) > 1 /\ stack' = Front(stack)
    /\ UNCHANGED <<vector, phase, before>>

\* The CPU takes a trap, through the interrupt gate of its vector.
Trap(v) ==
    /\ phase = "run" /\ phase' = "stub" /\ vector' = v
    /\ Len(stack) <= DEPTH
    /\ \E err \in IF v \in HasErr THEN Value ELSE {0} :
          /\ before' = [stack |-> stack, cpu |-> cpu, err |-> err]
          /\ stack' = stack \o <<cpu.eflags, CPU_GDT_KCODE, cpu.eip>>
                            \o IF v \in HasErr THEN <<err>> ELSE <<>>
    /\ cpu' = cpu

----------------------------------------------------------------------------
\* intr_init_idt: the number that the stub of a vector pushes.
Trapno(v) == IF v \in Installed THEN v ELSE T_DEFAULT

\* TRAPHANDLER_NOEC pushes 0 in place of the error code.  Xdefault is a
\* TRAPHANDLER.
StubError(v) == IF v \in Installed \ HasErr THEN <<0>> ELSE <<>>

\* A stub, and _alltraps.
Entry ==
    /\ phase = "stub" /\ phase' = "trap"
    /\ stack' = stack \o StubError(vector) \o <<Trapno(vector)>> \o <<cpu.ds, cpu.es, cpu.gp>>
    /\ cpu' = [cpu EXCEPT !.ds = CPU_GDT_KDATA, !.es = CPU_GDT_KDATA]
    /\ UNCHANGED <<vector, before>>

\* struct tf_t, from the address that _alltraps passes upwards.
Word(k) == stack[Len(stack) - k]

tf == [gp |-> Word(0), es |-> Word(1), ds |-> Word(2), trapno |-> Word(3),
       err |-> Word(4), eip |-> Word(5), cs |-> Word(6), eflags |-> Word(7)]

\* trap returns from a page fault, having used the registers; it panics on
\* any other trap.
HandleTrap ==
    /\ phase = "trap"
    /\ phase' = IF tf.trapno = T_PGFLT THEN "return" ELSE "panic"
    /\ \E flags, g \in Value : cpu' = [cpu EXCEPT !.eflags = flags, !.gp = g]
    /\ UNCHANGED <<stack, vector, before>>

ReturnSkip == 2

\* trap_return: popal, the segments, skip trapno and err, ret.
trap_return ==
    /\ phase = "return" /\ phase' = "resumed"
    /\ cpu' = [cpu EXCEPT !.gp = Word(0), !.es = Word(1), !.ds = Word(2),
                          !.eip = Word(3 + ReturnSkip)]
    /\ stack' = SubSeq(stack, 1, Len(stack) - (4 + ReturnSkip))
    /\ UNCHANGED <<vector, before>>

\* The interrupted code goes on.
Resume ==
    /\ phase = "resumed" /\ phase' = "run"
    /\ UNCHANGED <<stack, cpu, vector, before>>

TFNext == Execute \/ (\E v \in Vector : Trap(v)) \/ Entry \/ HandleTrap \/ trap_return \/ Resume

TFSpec == TFInit /\ [][TFNext]_tfVars

----------------------------------------------------------------------------
(***************************************************************************)
(* trap gets a frame that says where and why the trap happened, for every  *)
(* vector with a stub of its own, with an error code from the CPU or not.  *)
(***************************************************************************)
FrameIsRight(v) ==
    phase = "trap" /\ vector = v =>
        /\ tf.trapno = v /\ tf.err = before.err
        /\ [cpu EXCEPT !.eip = tf.eip, !.eflags = tf.eflags,
                       !.ds = tf.ds, !.es = tf.es, !.gp = tf.gp] = before.cpu

InstalledFramesRight == \A v \in Installed : FrameIsRight(v)

(***************************************************************************)
(* Only a page fault is ever returned from, also with the shifted frame    *)
(* that the default stub builds; the instruction that faulted is executed  *)
(* again with the same general and segment registers, and no word that the *)
(* interrupted code had pushed has changed.  This is not all of the CPU    *)
(* state: see StateRestored.                                               *)
(***************************************************************************)
FaultReturns ==
    phase = "resumed" =>
        /\ vector = T_PGFLT
        /\ cpu.eip = before.cpu.eip /\ cpu.gp = before.cpu.gp
        /\ cpu.ds = before.cpu.ds /\ cpu.es = before.cpu.es
        /\ IsPrefix(before.stack, stack)

(***************************************************************************)
(* What the comment above trap_return says of it: it restores the CPU      *)
(* state from the frame and returns with iret, so that flags and stack     *)
(* pointer are those of the interrupted code.  The code ends with ret,     *)
(* which leaves the code segment and the flags of the frame on the stack.  *)
(***************************************************************************)
StateRestored == phase = "resumed" => cpu = before.cpu /\ stack = before.stack

(***************************************************************************)
(* What makes these inductive: the words that have been pushed since the   *)
(* trap, by phase.  Only with an error code, from the CPU or the stub,     *)
(* are they in the places that tf_t and trap_return expect.                *)
(***************************************************************************)
StackWord == Value \cup Vector \cup {0, T_DEFAULT, CPU_GDT_KCODE, CPU_GDT_KDATA}

Registers == [eip : Value, eflags : Value, ds : {CPU_GDT_KDATA}, es : {CPU_GDT_KDATA}, gp : Value]

TFTypeOK ==
    /\ stack \in Seq(StackWord) /\ Len(stack) > 0
    /\ cpu \in Registers
    /\ vector \in Vector
    /\ phase \in {"run", "stub", "trap", "return", "resumed", "panic"}
    /\ before \in [stack : Seq(StackWord), cpu : Registers, err : Value \cup {0}]

\* The interrupted code's words are below n others.
AboveInterrupted(n) ==
    /\ Len(stack) = Len(before.stack) + n
    /\ \A i \in 1 .. Len(before.stack) : stack[i] = before.stack[i]

CPUFrame(k) ==
    Word(k) = before.cpu.eip /\ Word(k + 1) = CPU_GDT_KCODE /\ Word(k + 2) = before.cpu.eflags

CPUPushed ==
    phase = "stub" =>
        /\ cpu = before.cpu
        /\ vector \in HasErr => AboveInterrupted(4) /\ Word(0) = before.err /\ CPUFrame(1)
        /\ vector \notin HasErr => AboveInterrupted(3) /\ before.err = 0 /\ CPUFrame(0)

FrameBuilt ==
    phase \in {"trap", "return"} =>
        /\ Word(0) = before.cpu.gp /\ Word(1) = before.cpu.es /\ Word(2) = before.cpu.ds
        /\ Word(3) = Trapno(vector)
        /\ vector \in Installed => AboveInterrupted(8) /\ Word(4) = before.err /\ CPUFrame(5)

TFInv ==
    /\ TFTypeOK /\ CPUPushed /\ FrameBuilt
    /\ phase = "return" => vector = T_PGFLT
    /\ FaultReturns
=============================================================================
