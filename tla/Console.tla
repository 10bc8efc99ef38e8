------------------------------ MODULE Console -------------------------------
(***************************************************************************)
(* Console input: the ring buffer cons of kern/dev/console.c, filled by    *)
(* polling the serial port and the keyboard.  No interrupt of either is    *)
(* ever enabled, so they are polled by cons_getc and nothing else, one     *)
(* character at a time, while more may be arriving.                        *)
(*                                                                         *)
(* The serial line is a queue of bytes, the keyboard one of scan codes,    *)
(* which the driver of the module Keyboard makes characters of, or 0 where *)
(* there is none.                                                          *)
(***************************************************************************)
EXTENDS Keyboard

CONSTANTS CONSOLE_BUFFER_SIZE,
          SerialByte,     \* what comes over the serial line
          FIFO,           \* depth of the serial line's own queue
          MAX_INPUT,      \* a bound: how many bytes and key events arrive in all
          serial_exists

ASSUME ConsoleAssumption ==
    /\ CONSOLE_BUFFER_SIZE \in Nat /\ CONSOLE_BUFFER_SIZE > 1
    /\ SerialByte \subseteq 0 .. 255
    /\ FIFO \in Nat /\ MAX_INPUT \in Nat
    /\ serial_exists \in BOOLEAN

VARIABLES buf, rpos, wpos,  \* cons
          line,             \* the queue of the serial line
          arrived,          \* how much input has arrived
          read,             \* history: whether the drivers returned an odd number of characters
          pc,               \* where cons_getc is
          result            \* what cons_getc returned last

cons     == <<buf, rpos, wpos>>
consVars == <<kbdVars, cons, line, arrived, read, pc, result>>

Slot == 0 .. CONSOLE_BUFFER_SIZE - 1

\* A byte as a char, which is signed.
AsChar(c) == IF c > 127 THEN c - 256 ELSE c

----------------------------------------------------------------------------
\* Faulty forms of the definitions below, for checking the properties.

\* A character is not stored when the buffer is full.
StoreIfRoom(c) ==
    LET w == IF wpos + 1 = CONSOLE_BUFFER_SIZE THEN 0 ELSE wpos + 1
    IN  IF w = rpos THEN UNCHANGED <<buf, wpos>>
        ELSE buf' = [buf EXCEPT ![wpos] = AsChar(c)] /\ wpos' = w

\* The keyboard is polled only if there is no serial port.
AfterPollOnlyOne(d) == "take"

----------------------------------------------------------------------------
\* cons_init
ConsInit ==
    /\ KbdInit
    /\ buf = [s \in Slot |-> 0] /\ rpos = 0 /\ wpos = 0
    /\ line = <<>> /\ arrived = 0 /\ read = FALSE
    /\ pc = "idle" /\ result = 0

\* Input arrives, at any time; a full device drops it.
SerialArrives(c) ==
    /\ serial_exists /\ Len(line) < FIFO
    /\ line' = Append(line, c) /\ UNCHANGED kbdVars

Arrive ==
    /\ arrived < MAX_INPUT /\ arrived' = arrived + 1
    /\ \/ \E c \in SerialByte : SerialArrives(c)
       \/ \E k \in Key : (Press(k) \/ Release(k)) /\ line' = line
    /\ UNCHANGED <<cons, read, pc, result>>

----------------------------------------------------------------------------
cons_getc ==
    /\ pc = "idle"
    /\ pc' = IF serial_exists THEN "serial" ELSE "keyboard"
    /\ UNCHANGED <<kbdVars, cons, line, arrived, read, result>>

Advance(pos) == IF pos + 1 = CONSOLE_BUFFER_SIZE THEN 0 ELSE pos + 1

Store(c) == buf' = [buf EXCEPT ![wpos] = AsChar(c)] /\ wpos' = Advance(wpos)

\* One round of the loop of cons_intr, in which the driver returned c.
cons_intr(c) ==
    /\ IF c = 0 THEN UNCHANGED <<buf, wpos, read>> ELSE Store(c) /\ read' = ~read
    /\ UNCHANGED <<rpos, arrived, pc, result>>

serial_proc_data ==
    /\ pc = "serial" /\ line # <<>>
    /\ line' = Tail(line) /\ cons_intr(Head(line))
    /\ UNCHANGED kbdVars

keyboard_intr ==
    /\ pc = "keyboard"
    /\ kbd_proc_data /\ cons_intr(decoded'.char)
    /\ line' = line

AfterPoll(d) == IF d = "serial" THEN "keyboard" ELSE "take"

\* The driver has no more data.
cons_intr_end(d) ==
    /\ pc = d /\ IF d = "serial" THEN line = <<>> ELSE queue = <<>>
    /\ pc' = AfterPoll(d)
    /\ UNCHANGED <<kbdVars, cons, line, arrived, read, result>>

TakeChar ==
    /\ pc = "take" /\ pc' = "idle"
    /\ IF rpos # wpos
         THEN result' = buf[rpos] /\ rpos' = Advance(rpos)
         ELSE result' = 0 /\ rpos' = rpos
    /\ UNCHANGED <<kbdVars, buf, wpos, line, arrived, read>>

\* getchar calls cons_getc until it returns a character.
GetcStep ==
    \/ cons_getc \/ serial_proc_data \/ keyboard_intr \/ TakeChar
    \/ cons_intr_end("serial") \/ cons_intr_end("keyboard")

ConsNext == GetcStep \/ Arrive

ConsSpec == ConsInit /\ [][ConsNext]_consVars /\ WF_consVars(GetcStep)

----------------------------------------------------------------------------
\* The ring buffer as a sequence: the length of the part from r to w, where
\* the k-th character of it is, around the end of the buffer, and the characters.
RingLen(r, w) == IF r <= w THEN w - r ELSE w - r + CONSOLE_BUFFER_SIZE

RingPlace(r, k) ==
    IF r + k - 1 < CONSOLE_BUFFER_SIZE THEN r + k - 1 ELSE r + k - 1 - CONSOLE_BUFFER_SIZE

RingSeq(b, r, w) == [k \in 1 .. RingLen(r, w) |-> b[RingPlace(r, k)]]

\* The characters between rpos and wpos.
Waiting == RingSeq(buf, rpos, wpos)

(***************************************************************************)
(* The ring buffer is a queue: every character the drivers return goes in, *)
(* and comes out once, in order, wherever the two positions are; one       *)
(* character too many makes the buffer empty, never a mix of old and new.  *)
(***************************************************************************)
AnyChar == {AsChar(c) : c \in SerialByte \cup {CharOf(flags, k) : flags \in SUBSET {"CTL", "SHIFT", "CAPSLOCK"}, k \in Key}}

Input == INSTANCE InputQueue WITH Char <- AnyChar \ {0}, Capacity <- CONSOLE_BUFFER_SIZE - 1,
                                  queue <- Waiting, last <- result, odd <- read

RingIsQueue == Input!QSpec

(***************************************************************************)
(* No input is left behind: once input stops arriving, the calls of        *)
(* cons_getc that getchar makes have taken all of it, from both devices    *)
(* and from the buffer.                                                    *)
(***************************************************************************)
AllTaken == <>[](rpos = wpos /\ line = <<>> /\ queue = <<>>)

\* The buffer holds characters that came from a driver, or its zeros.
ConsTypeOK ==
    /\ rpos \in Slot /\ wpos \in Slot
    /\ buf \in [Slot -> AnyChar \cup {0}]
    /\ line \in Seq(SerialByte)

ConsInv == KbdInv /\ ConsTypeOK
=============================================================================
