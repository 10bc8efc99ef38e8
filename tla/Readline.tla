------------------------------ MODULE Readline ------------------------------
(***************************************************************************)
(* The command line of the monitor: readline of kern/dev/console.c with    *)
(* its echo on the screen (video_putc of kern/dev/video.c), and runcmd and *)
(* the loop of monitor of kern/lib/monitor.c.                              *)
(*                                                                         *)
(* Characters are told apart as far as the code does: letters, space, and  *)
(* the names of the others ("ctl": any other below a space, "neg": above   *)
(* 127, negative as a char).                                               *)
(***************************************************************************)
EXTENDS Integers, Sequences, FiniteSets

CONSTANTS CRT_ROWS, CRT_COLS,
          BUFLEN,     \* of linebuf
          MAXARGS,    \* of argv in runcmd
          Letter,
          Prompt,     \* "$> "
          Message     \* what commands, and the user process, print

CRT_SIZE == CRT_ROWS * CRT_COLS

Printable == Letter \cup {"space", "del"}
Typed     == Printable \cup {"bs", "nl", "cr", "ctl", "neg"}
Glyph     == Printable \cup {"ctl", "neg"}  \* what is written as it is
Printed   == Glyph \cup {"bs", "nl", "cr", "tab"}

\* A line fits on the screen, with a row to spare.  A carriage return is only
\* printed when the user process echoes the action it was given, at the start of
\* a row; it would leave what was typed after the cursor otherwise.
ASSUME ReadlineAssumption ==
    /\ CRT_ROWS \in Nat \ {0, 1} /\ CRT_COLS \in Nat \ {0}
    /\ BUFLEN \in Nat \ {0} /\ BUFLEN - 1 <= CRT_SIZE - CRT_COLS
    /\ MAXARGS \in Nat \ {0}
    /\ Letter \cap {"space", "del", "bs", "nl", "cr", "tab", "ctl", "neg"} = {}
    /\ Prompt \in Seq(Printable)
    /\ Message \subseteq Seq(Printed)
    /\ \A m \in Message : \A k \in DOMAIN m : m[k] = "cr" => k > 1 /\ m[k - 1] = "nl"

VARIABLES terminal,  \* crt_pos and the cells of crt_buf
          linebuf,   \* linebuf[0 .. i - 1]
          stage,     \* "prompt", "read", or "run" with a line
          outcome    \* history: what became of the last line

rlVars == <<terminal, linebuf, stage, outcome>>

----------------------------------------------------------------------------
\* Faulty forms of the definitions below, for checking the properties.

LineHasRoomForNul == Len(linebuf) < BUFLEN

ErasesAnything(c) == c \in {"bs", "del"}

BackspaceKeepsCell(t) == IF t.pos > 0 THEN [t EXCEPT !.pos = @ - 1] ELSE t

ScrollNotMoved(t) == [t EXCEPT !.pos = @ - CRT_COLS]

----------------------------------------------------------------------------
\* video_putc on a terminal t.

Blank == "space"

Backspace(t) ==
    IF t.pos > 0 THEN [pos |-> t.pos - 1, cell |-> [t.cell EXCEPT ![t.pos - 1] = Blank]] ELSE t

CarriageReturn(t) == [t EXCEPT !.pos = @ - (@ % CRT_COLS)]

NewLine(t) == CarriageReturn([t EXCEPT !.pos = @ + CRT_COLS])

WriteCell(t, c) == [pos |-> t.pos + 1, cell |-> [t.cell EXCEPT ![t.pos] = c]]

\* The rows move up by one, the last becomes blank.
Scroll(t) ==
    [pos  |-> t.pos - CRT_COLS,
     cell |-> [x \in 0 .. CRT_SIZE - 1 |->
                 IF x < CRT_SIZE - CRT_COLS THEN t.cell[x + CRT_COLS] ELSE Blank]]

ScrollIfFull(t) == IF t.pos >= CRT_SIZE THEN Scroll(t) ELSE t

PutSpace(t) == ScrollIfFull(WriteCell(t, Blank))

video_putc(t, c) ==
    ScrollIfFull(CASE c = "bs"  -> Backspace(t)
                   [] c = "nl"  -> NewLine(t)
                   [] c = "cr"  -> CarriageReturn(t)
                   [] c = "tab" -> PutSpace(PutSpace(PutSpace(PutSpace(PutSpace(t)))))
                   [] OTHER     -> WriteCell(t, c))

\* dprintf: the terminal after each character of s.
PrintOn(t, s) ==
    LET after[k \in 0 .. Len(s)] == IF k = 0 THEN t ELSE video_putc(after[k - 1], s[k])
    IN  after[Len(s)]

----------------------------------------------------------------------------
\* video_init takes the cursor where the BIOS left it, with nothing after it.
RLInit ==
    /\ \E pos \in 0 .. CRT_SIZE - 1 :
          terminal = [pos |-> pos, cell |-> [x \in 0 .. CRT_SIZE - 1 |-> Blank]]
    /\ linebuf = <<>> /\ stage = "prompt" /\ outcome = "none"

BeginLine ==
    /\ stage = "prompt" /\ stage' = "read"
    /\ terminal' = PrintOn(terminal, Prompt)
    /\ linebuf' = <<>>
    /\ UNCHANGED outcome

LineHasRoom == Len(linebuf) < BUFLEN - 1

Erases(c) == c \in {"bs", "del"} /\ linebuf # <<>>

\* One round of the loop of readline, by the character that getchar returned.
ReadNegative ==
    /\ stage = "read" /\ stage' = "prompt"  \* readline returns NULL
    /\ \E m \in Message : terminal' = PrintOn(terminal, m)
    /\ outcome' = "none"
    /\ UNCHANGED linebuf

Erase(c) ==
    /\ stage = "read" /\ Erases(c)
    /\ terminal' = video_putc(terminal, "bs")
    /\ linebuf' = SubSeq(linebuf, 1, Len(linebuf) - 1)
    /\ UNCHANGED <<stage, outcome>>

Insert(c) ==
    /\ stage = "read" /\ ~Erases(c) /\ c \in Printable /\ LineHasRoom
    /\ terminal' = video_putc(terminal, c)
    /\ linebuf' = Append(linebuf, c)
    /\ UNCHANGED <<stage, outcome>>

EndLine(c) ==
    /\ stage = "read" /\ c \in {"nl", "cr"}
    /\ terminal' = video_putc(terminal, "nl")
    /\ stage' = "run"
    /\ UNCHANGED <<linebuf, outcome>>

ReadChar(c) == (c = "neg" /\ ReadNegative) \/ Erase(c) \/ Insert(c) \/ EndLine(c)

----------------------------------------------------------------------------
\* The positions where the words of the line start, split at white space.
WordStarts ==
    {k \in DOMAIN linebuf : linebuf[k] # "space" /\ (k = 1 \/ linebuf[k - 1] = "space")}

argc == Cardinality(WordStarts)

\* runcmd, and the next round of monitor: no command ends the monitor.
runcmd ==
    /\ stage = "run" /\ stage' = "prompt"
    /\ outcome' = IF argc = 0 THEN "empty"
                  ELSE IF argc > MAXARGS - 1 THEN "too many" ELSE "called"
    /\ IF argc = 0 THEN terminal' = terminal
                   ELSE \E m \in Message : terminal' = PrintOn(terminal, m)
    /\ UNCHANGED linebuf

RLNext == BeginLine \/ runcmd \/ \E c \in Typed : ReadChar(c)

RLSpec == RLInit /\ [][RLNext]_rlVars

----------------------------------------------------------------------------
(***************************************************************************)
(* linebuf has room for the characters and the NUL after them, argv for    *)
(* the words and the null after them, and the cursor is on the screen.     *)
(***************************************************************************)
RLTypeOK ==
    /\ terminal.pos \in 0 .. CRT_SIZE - 1
    /\ terminal.cell \in [0 .. CRT_SIZE - 1 -> Glyph]
    /\ Len(linebuf) + 1 <= BUFLEN
    /\ stage = "prompt" /\ outcome = "called" => argc + 1 <= MAXARGS
    /\ stage \in {"prompt", "read", "run"}
    /\ outcome \in {"none", "empty", "too many", "called"}

(***************************************************************************)
(* What you see is what you get: before the cursor, the screen shows the   *)
(* line that will be run, and the prompt before it as far as it has not    *)
(* scrolled away, and nothing after it - through insertions, erasures over *)
(* the start of a row, and scrolling in the middle of the line.            *)
(***************************************************************************)
EchoMatches ==
    stage = "read" =>
        LET shown == Prompt \o linebuf
            start == terminal.pos - Len(shown)
        IN  /\ terminal.pos >= Len(linebuf)
            /\ \A k \in 1 .. Len(shown) :
                  start + k - 1 >= 0 => terminal.cell[start + k - 1] = shown[k]
            /\ \A x \in terminal.pos .. CRT_SIZE - 1 : terminal.cell[x] = Blank

----------------------------------------------------------------------------
\* The inductive invariant: nothing is after the cursor, and while a line is
\* read, the screen shows it.

Terminal == [pos : 0 .. CRT_SIZE - 1, cell : [0 .. CRT_SIZE - 1 -> Glyph]]

Settled(t) == t \in Terminal /\ \A x \in t.pos .. CRT_SIZE - 1 : t.cell[x] = Blank

\* The cells before the cursor hold the last characters of s.
Shows(t, s) ==
    \A k \in 1 .. Len(s) : \A x \in 0 .. CRT_SIZE - 1 :
        x - k = t.pos - Len(s) - 1 => t.cell[x] = s[k]

RLInv ==
    /\ Settled(terminal)
    /\ linebuf \in Seq(Printable) /\ Len(linebuf) < BUFLEN
    /\ stage \in {"prompt", "read", "run"}
    /\ outcome \in {"none", "empty", "too many", "called"}
    /\ stage = "prompt" /\ outcome = "called" => argc < MAXARGS
    /\ stage = "read" => terminal.pos >= Len(linebuf) /\ Shows(terminal, Prompt \o linebuf)
=============================================================================
