------------------------------ MODULE Keyboard ------------------------------
(***************************************************************************)
(* The keyboard driver, kbd_proc_data of kern/dev/keyboard.c, reading the  *)
(* scan codes of a keyboard with keys that are pressed, repeated and       *)
(* released in any order.                                                  *)
(*                                                                         *)
(* A scan code is the escape byte 0xE0, or 7 bits and the release bit      *)
(* 0x80.  An escape tells keys with the same 7 bits apart; the driver      *)
(* ors 0x80 to the code of an escaped key, written here as the pair of the *)
(* escape and the code.  Of the character tables there is a key of each    *)
(* kind: a letter, a digit, and Enter and Delete of both blocks.           *)
(***************************************************************************)
EXTENDS Integers, Sequences

CONSTANTS Key,      \* keys: [esc, code], the index of the driver's tables
          PENDING   \* a bound: scan codes waiting in the keyboard

\* The codes that the tables shiftcode, togglecode and charcode give a meaning.
SHIFT_L == 42
SHIFT_R == 54
CONTROL == 29
ALT_KEY == 56
CAPS    == 58
NUM     == 69
SCROLL  == 70
DELETE  == 83
ENTER   == 28
LETTER  == 30   \* a
DIGIT   == 2    \* 1

NO      == 0
KEY_DEL == 233

ASSUME KeyboardAssumption ==
    /\ Key \subseteq [esc : BOOLEAN, code : 0 .. 127]
    /\ PENDING \in Nat

VARIABLES shift,   \* the flags of the driver
          queue,   \* scan codes that wait, each with the event it belongs to
          held,    \* the keys that are down
          latest,  \* history: modifiers whose last event was a press, and locks
          seen,    \* history: the keys down after the events the driver has read
          decoded  \* what the driver made of the last scan code, and what it was

kbdVars == <<shift, queue, held, latest, seen, decoded>>

ModifierOf(k) ==
    CASE k \in [esc : {FALSE}, code : {SHIFT_L, SHIFT_R}]  -> {"SHIFT"}
      [] k \in [esc : BOOLEAN, code : {CONTROL}]           -> {"CTL"}
      [] k \in [esc : BOOLEAN, code : {ALT_KEY}]           -> {"ALT"}
      [] OTHER                                             -> {}

shiftcode(k) == ModifierOf(k)

togglecode(k) ==
    CASE k = [esc |-> FALSE, code |-> CAPS]   -> {"CAPSLOCK"}
      [] k = [esc |-> FALSE, code |-> NUM]    -> {"NUMLOCK"}
      [] k = [esc |-> FALSE, code |-> SCROLL] -> {"SCROLLLOCK"}
      [] OTHER                                -> {}

\* normalmap, shiftmap and ctlmap.
Maps(normal, shifted, ctl) == [normalmap |-> normal, shiftmap |-> shifted, ctlmap |-> ctl]

Row(k) ==
    CASE k = [esc |-> FALSE, code |-> LETTER] -> Maps(97, 65, 1)
      [] k = [esc |-> FALSE, code |-> DIGIT]  -> Maps(49, 33, NO)
      [] k = [esc |-> FALSE, code |-> ENTER]  -> Maps(10, 10, 13)
      [] k = [esc |-> TRUE,  code |-> ENTER]  -> Maps(10, 10, NO)
      [] k = [esc |-> FALSE, code |-> DELETE] -> Maps(46, 46, NO)
      [] k = [esc |-> TRUE,  code |-> DELETE] -> Maps(KEY_DEL, KEY_DEL, KEY_DEL)
      [] OTHER                                -> Maps(NO, NO, NO)

\* charcode: control goes before shift.
charcode(flags) ==
    IF "CTL" \in flags THEN "ctlmap" ELSE IF "SHIFT" \in flags THEN "shiftmap" ELSE "normalmap"

SwapCase(c) == IF c \in 97 .. 122 THEN c - 32 ELSE IF c \in 65 .. 90 THEN c + 32 ELSE c

\* The character of a key under the flags.
CharOf(flags, k) ==
    LET c == Row(k)[charcode(flags)] IN IF "CAPSLOCK" \in flags THEN SwapCase(c) ELSE c

----------------------------------------------------------------------------
\* Faulty forms of the definitions below, for checking the properties.

\* One of the two keys is enough.
RebootsOnEither(flags, c) == flags \cap {"CTL", "ALT"} # {} /\ c = KEY_DEL

\* The escape is not forgotten after a press.
AfterPressKeepsEscape(k) == shift \cup shiftcode(k)

----------------------------------------------------------------------------
Nothing == [char |-> NO, meant |-> NO, reboot |-> FALSE]

KbdInit ==
    /\ shift = {} /\ queue = <<>> /\ held = {} /\ latest = {} /\ seen = {}
    /\ decoded = Nothing

Toggled(S, T) == (S \ T) \cup (T \ S)

(***************************************************************************)
(* The codes of an event: the escape, if the key has one, and the code.    *)
(* With them goes the character that is typed, by the last event of each   *)
(* modifier.                                                               *)
(***************************************************************************)
Codes(k, release, meant) ==
    LET c == [byte |-> "code", code |-> k.code, release |-> release, event |-> k, meant |-> meant]
    IN  IF k.esc THEN <<[c EXCEPT !.byte = "E0"], c>> ELSE <<c>>

\* A key is pressed, or repeats, or is released.
Press(k) ==
    /\ Len(queue) + 2 <= PENDING
    /\ latest' = Toggled(latest \cup ModifierOf(k), togglecode(k))
    /\ queue' = queue \o Codes(k, FALSE, CharOf(latest', k))
    /\ held' = held \cup {k}
    /\ UNCHANGED <<shift, seen, decoded>>

Release(k) ==
    /\ k \in held /\ Len(queue) + 2 <= PENDING
    /\ latest' = latest \ ModifierOf(k)
    /\ queue' = queue \o Codes(k, TRUE, NO)
    /\ held' = held \ {k}
    /\ UNCHANGED <<shift, seen, decoded>>

----------------------------------------------------------------------------
\* kbd_proc_data, by the kind of scan code it reads.  decoded.char is what
\* it returns.
Reads(byte, release) ==
    /\ queue # <<>> /\ Head(queue).byte = byte /\ Head(queue).release \in release
    /\ queue' = Tail(queue) /\ UNCHANGED <<held, latest>>

Escape ==
    /\ Reads("E0", BOOLEAN)
    /\ shift' = shift \cup {"E0ESC"}
    /\ decoded' = Nothing /\ seen' = seen

\* The key of the code just read.
KeyRead == [esc |-> "E0ESC" \in shift, code |-> Head(queue).code]

ReleaseShift(k) == shift \ (shiftcode(k) \cup {"E0ESC"})

KeyReleased ==
    /\ Reads("code", {TRUE})
    /\ shift' = ReleaseShift(KeyRead)
    /\ decoded' = Nothing /\ seen' = seen \ {Head(queue).event}

AfterPress(k) == (shift \ {"E0ESC"}) \cup shiftcode(k)

Reboots(flags, c) == {"CTL", "ALT"} \subseteq flags /\ c = KEY_DEL

KeyPressed ==
    /\ Reads("code", {FALSE})
    /\ shift' = Toggled(AfterPress(KeyRead), togglecode(KeyRead))
    /\ decoded' = LET c == CharOf(shift', KeyRead)
                  IN  [char |-> c, meant |-> Head(queue).meant, reboot |-> Reboots(shift', c)]
    /\ seen' = seen \cup {Head(queue).event}

kbd_proc_data == Escape \/ KeyReleased \/ KeyPressed

----------------------------------------------------------------------------
(***************************************************************************)
(* Each press is read as the character of its key, with each modifier as   *)
(* its last event left it (releasing one of two shift keys is the end of   *)
(* shift) and each lock as often switched as its key was pressed: an       *)
(* escape belongs to the code after it and to no other, whichever events   *)
(* are presses, repeats or releases.                                       *)
(***************************************************************************)
TypedAsMeant == decoded.char = decoded.meant

\* The keys of a modifier that are down.
Down(m) == {k \in seen : m \in ModifierOf(k)}

(***************************************************************************)
(* The machine reboots only with a control key, an alt key and Delete      *)
(* down: neither modifier sticks after its keys are up, in whatever order  *)
(* left and right keys were pressed and released.                          *)
(***************************************************************************)
RebootIsMeant ==
    decoded.reboot => /\ Down("CTL") # {} /\ Down("ALT") # {}
                      /\ [esc |-> TRUE, code |-> DELETE] \in seen

(***************************************************************************)
(* What makes these inductive.  An escape is followed by the code of its   *)
(* key, and the driver remembers it exactly while that code is next: so    *)
(* the key read is the key of the event.  Reading on from the driver's     *)
(* flags, F after each code that waits, leads to the modifiers and locks   *)
(* as the events left them.  A modifier that is set has a key that is      *)
(* down.                                                                   *)
(***************************************************************************)
Flags == {"SHIFT", "CTL", "ALT", "CAPSLOCK", "NUMLOCK", "SCROLLLOCK"}

ScanCode == [byte : {"code", "E0"}, code : 0 .. 127, release : BOOLEAN, event : Key, meant : 0 .. 255]

KbdTypeOK ==
    /\ shift \subseteq Flags \cup {"E0ESC"} /\ latest \subseteq Flags
    /\ queue \in Seq(ScanCode)
    /\ decoded \in [char : 0 .. 255, meant : 0 .. 255, reboot : BOOLEAN]

Completes(c) == c.byte = "code" /\ c.event.esc

EscapesPaired ==
    /\ "E0ESC" \in shift <=> queue # <<>> /\ Completes(queue[1])
    /\ \A i \in DOMAIN queue :
          /\ queue[i].code = queue[i].event.code
          /\ queue[i].byte = "E0" =>
               i < Len(queue) /\ Completes(queue[i + 1]) /\ queue[i + 1].event = queue[i].event
          /\ i > 1 /\ Completes(queue[i]) => queue[i - 1].byte = "E0"

FlagsAfter(flags, c) ==
    IF c.byte = "E0" THEN flags
    ELSE IF c.release THEN flags \ ModifierOf(c.event)
    ELSE Toggled(flags \cup ModifierOf(c.event), togglecode(c.event))

LeadsToLatest(F) ==
    /\ F[0] = shift \ {"E0ESC"} /\ F[Len(queue)] = latest
    /\ \A i \in DOMAIN queue :
          /\ F[i] = FlagsAfter(F[i - 1], queue[i])
          /\ queue[i].byte = "code" /\ ~queue[i].release => queue[i].meant = CharOf(F[i], queue[i].event)

ModifiersDown == \A m \in shift \cap {"SHIFT", "CTL", "ALT"} : Down(m) # {}

KbdInv ==
    /\ KbdTypeOK /\ EscapesPaired /\ ModifiersDown
    /\ \E F \in [0 .. Len(queue) -> SUBSET Flags] : LeadsToLatest(F)
    /\ TypedAsMeant /\ RebootIsMeant
=============================================================================
