------------------------------- MODULE Format -------------------------------
(***************************************************************************)
(* Formatted output: vprintfmt of kern/lib/printfmt.c, which is also       *)
(* user/lib/printfmt.c but for %o, with the three consumers that the user  *)
(* library gives it (printf, vsprintf, vsnprintf), and the functions that  *)
(* read a number back, strtol of user/lib/string.c and atoi of             *)
(* user/lib/atoi.c.                                                        *)
(*                                                                         *)
(* A format is a sequence of characters, followed by "NUL".  It is put     *)
(* together from pieces, each a literal or a conversion, which say what it *)
(* means: the code only sees the characters.  Arguments are words, as they *)
(* lie on the stack: a long long takes two.                                *)
(***************************************************************************)
EXTENDS Strings, SequencesExt

CONSTANTS UINT,      \* values of a word, 2^32 in the code
          MAX_BUF,   \* of printf
          Job        \* a bound: the calls made

VARIABLES job,       \* the call: library, consumer, pieces and arguments
          fmt, fp,   \* the format, and the index of the next character
          ap,        \* the arguments not yet taken
          mode,      \* "idle", "text", "escape", "done", or "read"
          spec,      \* padc, width, precision, lflag, altflag
          out,       \* the consumer's buffer and count, and the console
          text,      \* history: all characters given to putch
          number     \* what strtol and atoi made of the text

fmtVars == <<job, fmt, fp, ap, mode, spec, out, text, number>>

ULONGLONG == UINT * UINT

Digit    == <<"0", "1", "2", "3", "4", "5", "6", "7", "8", "9", "a", "b", "c", "d", "e", "f">>
NullText == <<"(", "n", "u", "l", "l", ")">>
Unseen   == {"NUL", "nl"}  \* the characters outside ' ' .. '~'

DigitValue(c) == IF \E d \in DOMAIN Digit : Digit[d] = c
                   THEN (CHOOSE d \in DOMAIN Digit : Digit[d] = c) - 1 ELSE 99

\* A word, or two, as a signed number.
Signed(v, range) == IF v >= range \div 2 THEN v - range ELSE v

----------------------------------------------------------------------------
\* Faulty forms of the definitions below, for checking the properties.

\* The character that fills the buffer is not sent with it.
PutchDropsLast(b, c) ==
    IF Len(b.buf) + 1 = MAX_BUF - 1
      THEN [b EXCEPT !.console = @ \o b.buf, !.buf = <<>>, !.cnt = @ + 1]
      ELSE [b EXCEPT !.buf = Append(@, c), !.cnt = @ + 1]

\* The sign is put before a number that is printed as it is.
MagnitudeAsIs(v) == IF v < 0 THEN v + ULONGLONG ELSE v

----------------------------------------------------------------------------
\* The consumers.  out.buf is what is in the buffer, out.cnt counts.

UpToNul(s) == IF Contains(s, "NUL") THEN SubSeq(s, 1, SelectInSeq(s, LAMBDA c : c = "NUL") - 1) ELSE s

\* sys_puts prints the string, so nothing after a NUL.
Flush(b) == [b EXCEPT !.console = @ \o UpToNul(b.buf), !.buf = <<>>]

printf_putch(b, c) ==
    LET filled == [b EXCEPT !.buf = Append(@, c), !.cnt = @ + 1]
    IN  IF Len(filled.buf) = MAX_BUF - 1 THEN Flush(filled) ELSE filled

\* The end of the buffer is at room characters, and out of reach for vsprintf.
sprintputch(b, c) ==
    [b EXCEPT !.buf = IF job.call = "vsprintf" \/ Len(@) < job.size - 1 THEN Append(@, c) ELSE @,
              !.cnt = @ + 1]

putch(b, c) == IF job.call = "printf" THEN printf_putch(b, c) ELSE sprintputch(b, c)

\* The characters of s, one after the other.
Put(s) ==
    LET after[k \in 0 .. Len(s)] == IF k = 0 THEN out ELSE putch(after[k - 1], s[k])
    IN  out' = after[Len(s)] /\ text' = text \o s

----------------------------------------------------------------------------
\* Numbers.

Pad(n, c) == IF n > 0 THEN [k \in 1 .. n |-> c] ELSE <<>>

\* The digits, the first after width - 1 less the other digits of padding.
printnum(num, base, width, padc) ==
    LET print[n \in 0 .. num] == [w \in Int |->
          (IF n >= base THEN print[n \div base][w - 1] ELSE Pad(w - 1, padc))
             \o <<Digit[(n % base) + 1]>>]
    IN  print[num][width]

\* How many words getuint and getint take, and what they make of them.
Words == IF spec.lflag >= 2 THEN 2 ELSE 1

getuint == IF spec.lflag >= 2 THEN ap[1].w + UINT * ap[2].w ELSE ap[1].w

getint == Signed(getuint, IF spec.lflag >= 2 THEN ULONGLONG ELSE UINT)

Magnitude(v) == IF v < 0 THEN (-v) % ULONGLONG ELSE v

----------------------------------------------------------------------------
\* vprintfmt, one step per character outside an escape, and one per case of
\* the switch in it.

At(k) == IF k <= Len(fmt) THEN fmt[k] ELSE "NUL"

FreshSpec == [padc |-> " ", width |-> -1, precision |-> -1, lflag |-> 0, altflag |-> FALSE]

Plain ==
    /\ mode = "text" /\ At(fp) \notin {"%", "NUL"}
    /\ Put(<<At(fp)>>) /\ fp' = fp + 1
    /\ UNCHANGED <<mode, ap, spec>>

Percent ==
    /\ mode = "text" /\ At(fp) = "%"
    /\ mode' = "escape" /\ spec' = FreshSpec /\ fp' = fp + 1
    /\ UNCHANGED <<ap, out, text>>

\* The end of the format; printf sends the rest of its buffer.
End ==
    /\ mode = "text" /\ At(fp) = "NUL"
    /\ mode' = "done"
    /\ out' = IF job.call = "printf" THEN Flush(out) ELSE out
    /\ UNCHANGED <<fp, ap, spec, text>>

Flag ==
    /\ mode = "escape" /\ fp' = fp + 1
    /\ \/ At(fp) \in {"-", "0"} /\ spec' = [spec EXCEPT !.padc = At(fp)]
       \/ At(fp) = "." /\ spec' = [spec EXCEPT !.width = IF @ < 0 THEN 0 ELSE @]
       \/ At(fp) = "#" /\ spec' = [spec EXCEPT !.altflag = TRUE]
       \/ At(fp) = "l" /\ spec' = [spec EXCEPT !.lflag = @ + 1]
    /\ UNCHANGED <<mode, ap, out, text>>

\* process_precision: the first number is the width.
Sized(n) == IF spec.width < 0 THEN [spec EXCEPT !.width = n, !.precision = -1]
                              ELSE [spec EXCEPT !.precision = n]

\* The end of the digits that start at k, and their value.
DigitsEnd(k) == k + Count({j \in Nat : DigitValue(At(k + j)) < 10})

ValueOf(s) ==
    LET value[k \in 0 .. Len(s)] == IF k = 0 THEN 0 ELSE value[k - 1] * 10 + DigitValue(s[k])
    IN  value[Len(s)]

Width ==
    /\ mode = "escape" /\ DigitValue(At(fp)) \in 1 .. 9
    /\ spec' = Sized(ValueOf(SubSeq(fmt, fp, DigitsEnd(fp) - 1))) /\ fp' = DigitsEnd(fp)
    /\ UNCHANGED <<mode, ap, out, text>>

Star ==
    /\ mode = "escape" /\ At(fp) = "*"
    /\ spec' = Sized(ap[1].w) /\ ap' = Tail(ap) /\ fp' = fp + 1
    /\ UNCHANGED <<mode, out, text>>

\* A conversion that takes n arguments and prints s.
Convert(c, n, s) ==
    /\ mode = "escape" /\ At(fp) = c
    /\ Put(s) /\ ap' = SubSeq(ap, n + 1, Len(ap))
    /\ mode' = "text" /\ fp' = fp + 1 /\ spec' = spec

\* The case 's'.  strnlen takes a precision of -1 for no limit.
ConvertString ==
    LET p     == IF "s" \in DOMAIN ap[1] THEN ap[1].s ELSE NullText
        shown == IF spec.precision < 0 THEN p ELSE Cut(p, spec.precision)
        seen  == [k \in DOMAIN shown |-> IF spec.altflag /\ shown[k] \in Unseen THEN "?" ELSE shown[k]]
        rest  == spec.width - Len(shown)
    IN  IF spec.width > 0 /\ spec.padc # "-" THEN Pad(rest, spec.padc) \o seen ELSE seen \o Pad(rest, " ")

printnumber(num, base) == printnum(num, base, spec.width, spec.padc)

Conversion ==
    \/ Convert("c", 1, <<ap[1].c>>)
    \/ Convert("s", 1, ConvertString)
    \/ Convert("d", Words, (IF getint < 0 THEN <<"-">> ELSE <<>>) \o printnumber(Magnitude(getint), 10))
    \/ Convert("u", Words, printnumber(getuint, 10))
    \/ job.lib = "kern" /\ Convert("o", Words, printnumber(getuint, 8))
    \/ job.lib = "user" /\ Convert("o", 0, <<"X", "X", "X">>)
    \/ Convert("p", 1, <<"0", "x">> \o printnumber(ap[1].w, 16))
    \/ Convert("x", Words, printnumber(getuint, 16))
    \/ Convert("%", 0, <<"%">>)

Known == {"-", "0", ".", "#", "l", "*", "c", "s", "d", "u", "o", "p", "x", "%"}

\* Go back to the character after the %, and on from there as text.
Unrecognized ==
    /\ mode = "escape" /\ At(fp) \notin Known /\ DigitValue(At(fp)) \notin 1 .. 9
    /\ Put(<<"%">>)
    /\ fp' = 1 + (CHOOSE k \in 1 .. fp - 1 : At(k) = "%" /\ \A j \in k + 1 .. fp - 1 : At(j) # "%")
    /\ mode' = "text"
    /\ UNCHANGED <<ap, spec>>

vprintfmt ==
    /\ Plain \/ Percent \/ End \/ Flag \/ Width \/ Star \/ Conversion \/ Unrecognized
    /\ UNCHANGED <<job, fmt, number>>

----------------------------------------------------------------------------
\* strtol and atoi on the text that was printed.

TextAt(k) == IF k <= Len(text) THEN text[k] ELSE "NUL"

\* The value of the n digits from k on; the arithmetic wraps.
DigitsFrom(k, n, base) ==
    LET value[j \in 0 .. n] ==
          IF j = 0 THEN 0 ELSE (value[j - 1] * base + DigitValue(TextAt(k + j - 1))) % UINT
    IN  value[n]

\* A faulty form of ReadDigits: the largest digit is not one.
ReadDigitsShort(k, base) ==
    LET n == Count({j \in Nat : DigitValue(TextAt(k + j)) < base - 1})
    IN  [end |-> k + n, val |-> DigitsFrom(k, n, base)]

\* The number in base that starts at k.
ReadDigits(k, base) ==
    LET n == Count({j \in Nat : DigitValue(TextAt(k + j)) < base})
    IN  [end |-> k + n, val |-> DigitsFrom(k, n, base)]

Sign(k) == IF TextAt(k) = "-" THEN -1 ELSE 1
AfterSign(k) == IF TextAt(k) \in {"+", "-"} THEN k + 1 ELSE k

strtol(base) ==
    LET k == 1 + Count({j \in Nat : TextAt(1 + j) = " "})
        d == AfterSign(k)
        n == IF base \in {0, 16} /\ TextAt(d) = "0" /\ TextAt(d + 1) = "x" THEN ReadDigits(d + 2, 16)
             ELSE IF base = 0 /\ TextAt(d) = "0" THEN ReadDigits(d + 1, 8)
             ELSE ReadDigits(d, IF base = 0 THEN 10 ELSE base)
    IN  Signed((Sign(k) * n.val) % UINT, UINT)

\* *i is not set if there are no digits.
atoi ==
    LET d == AfterSign(1)
        n == ReadDigits(d, 10)
    IN  IF n.end = d THEN [loc |-> 0, i |-> 0]
        ELSE [loc |-> n.end - 1, i |-> Signed((Sign(1) * n.val) % UINT, UINT)]

ReadBack(base) ==
    /\ mode \in {"done", "read"} /\ mode' = "read"
    /\ number' = [base |-> base, strtol |-> strtol(base), atoi |-> atoi]
    /\ UNCHANGED <<job, fmt, fp, ap, spec, out, text>>

----------------------------------------------------------------------------
\* The format of a call, and what va_list holds.
FormatOf(j) == FlattenSeq([k \in DOMAIN j.pieces |-> j.pieces[k].chars])
ArgsOf(j)   == FlattenSeq([k \in DOMAIN j.pieces |-> j.pieces[k].args])

NoNumber == [base |-> 99, strtol |-> 0, atoi |-> [loc |-> 0, i |-> 0]]

FmtInit(j, m) ==
    /\ job = j
    /\ fmt = FormatOf(j) /\ fp = 1 /\ ap = ArgsOf(j)
    /\ mode = m /\ spec = FreshSpec
    /\ out = [buf |-> <<>>, cnt |-> 0, console |-> <<>>]
    /\ text = <<>> /\ number = NoNumber

FmtNext == vprintfmt \/ \E base \in {0, 10, 16} : ReadBack(base)

\* A program that uses the library: it works on memory, or it prints.
NoJob == [lib |-> "kern", call |-> "printf", size |-> 0, pieces |-> <<>>]

LibInit ==
    \/ StrInit /\ FmtInit(NoJob, "idle")
    \/ /\ mem = [x \in Addr |-> 0] /\ call = Ready /\ before = mem /\ ret = 0
       /\ \E j \in Job : FmtInit(j, "text")

LibNext ==
    \/ mode = "idle" /\ StrNext /\ UNCHANGED fmtVars
    \/ mode # "idle" /\ FmtNext /\ UNCHANGED strVars

LibSpec == LibInit /\ [][LibNext]_<<strVars, fmtVars>>

----------------------------------------------------------------------------
(***************************************************************************)
(* What a format means.  A piece has its characters, the arguments it      *)
(* takes and the text it stands for.                                       *)
(***************************************************************************)
Literal(s) == [conv |-> "none", chars |-> s, args |-> <<>>, means |-> s]

\* An escape that is not recognized stands for itself, whatever it has taken.
Unknown(s, args) == [conv |-> "none", chars |-> s, args |-> args, means |-> s]

\* base to the power of k.
Power(base, k) ==
    LET power[j \in 0 .. k] == IF j = 0 THEN 1 ELSE base * power[j - 1]
    IN  power[k]

\* n in a base, most significant digit first.
Numeral(n, base) ==
    LET len == CHOOSE k \in 1 .. n + 1 : n < Power(base, k) /\ (k = 1 \/ n >= Power(base, k - 1))
    IN  [k \in 1 .. len |-> Digit[((n \div Power(base, len - k)) % base) + 1]]

Padded(s, width, c) == Pad(width - Len(s), c) \o s

\* What may stand between the % and the conversion, in the order
\* [-][0][#][width][.precision][l][l].  A width or a precision is a number or
\* a star with an argument that is not negative; 0 as a number stands for
\* none.  (The code also takes modifiers in another order, repeated ones and
\* stars of negative arguments; pieces have none of these.)
Escapes == [minus : BOOLEAN, zero : BOOLEAN, alt : BOOLEAN, width : Nat, wstar : BOOLEAN,
            prec : Nat, pstar : BOOLEAN, longs : 0 .. 2]

Escape(minus, zero, alt, width, wstar, prec, pstar, longs) ==
    [minus |-> minus, zero |-> zero, alt |-> alt, width |-> width, wstar |-> wstar,
     prec |-> prec, pstar |-> pstar, longs |-> longs]

Bare == Escape(FALSE, FALSE, FALSE, 0, FALSE, 0, FALSE, 0)

IsEscape(e) == e \in Escapes /\ (e.pstar => e.prec > 0)

\* The later of the two flags counts.
PadChar(e) == IF e.zero THEN "0" ELSE IF e.minus THEN "-" ELSE " "

Opt(given, c) == IF given THEN <<c>> ELSE <<>>

SizeChars(n, star) == IF star THEN <<"*">> ELSE IF n = 0 THEN <<>> ELSE Numeral(n, 10)
SizeArgs(n, star)  == IF star THEN <<[w |-> n]>> ELSE <<>>

EscapeParts(e, conv) ==
    << <<"%">>, Opt(e.minus, "-"), Opt(e.zero, "0"), Opt(e.alt, "#"), SizeChars(e.width, e.wstar),
       Opt(e.prec > 0, "."), SizeChars(e.prec, e.pstar), Opt(e.longs >= 1, "l"), Opt(e.longs = 2, "l"),
       <<conv>> >>

\* A conversion of arg, which is passed as args.
Piece(e, conv, arg, args, means) ==
    [conv  |-> conv, esc |-> e, arg |-> arg, chars |-> FlattenSeq(EscapeParts(e, conv)),
     args  |-> SizeArgs(e.width, e.wstar) \o SizeArgs(e.prec, e.pstar) \o args,
     means |-> means]

\* %ll takes two words, but for a pointer.
TwoWords(e, conv) == e.longs = 2 /\ conv # "p"

\* How many values a number has.
Values(e, conv) == IF TwoWords(e, conv) THEN ULONGLONG ELSE UINT

NumeralOf(conv, value) ==
    Numeral(IF value < 0 THEN -value ELSE value,
            CASE conv \in {"d", "u"} -> 10 [] conv \in {"x", "p"} -> 16 [] conv = "o" -> 8)

Lead(conv, value) == IF value < 0 THEN <<"-">> ELSE IF conv = "p" THEN <<"0", "x">> ELSE <<>>

\* A number.  The width is that of the digits: neither a sign nor 0x counts.
\* Precision and "#" mean nothing, and "-" pads on the left too, with "-": see
\* MinusPadsRight.
Number(e, conv, value) ==
    LET bits == value % Values(e, conv)
    IN  Piece(e, conv, [v |-> value],
              IF TwoWords(e, conv) THEN <<[w |-> bits % UINT], [w |-> bits \div UINT]>> ELSE <<[w |-> bits]>>,
              Lead(conv, value) \o Padded(NumeralOf(conv, value), e.width, PadChar(e)))

\* A string, or the null pointer.
Str(e, arg) ==
    LET s     == IF "s" \in DOMAIN arg THEN arg.s ELSE NullText
        cut   == IF e.prec = 0 THEN s ELSE Cut(s, e.prec)
        shown == [k \in DOMAIN cut |-> IF e.alt /\ cut[k] \in Unseen THEN "?" ELSE cut[k]]
    IN  Piece(e, "s", arg, <<arg>>,
              IF PadChar(e) = "-" THEN shown \o Pad(e.width - Len(cut), " ")
              ELSE Padded(shown, e.width, PadChar(e)))

\* A character, a percent sign, and %o of the user library, which takes no
\* argument: the modifiers mean nothing.
Character(e, c) == Piece(e, "c", [c |-> c], <<[c |-> c]>>, <<c>>)

PercentSign(e) == Piece(e, "%", [v |-> 0], <<>>, <<"%">>)

OctalOfUser(e) == Piece(e, "o", [v |-> 0], <<>>, <<"X", "X", "X">>)

----------------------------------------------------------------------------
(***************************************************************************)
(* The calls: their formats are made of such pieces, and the arguments are *)
(* of the types that the format says.                                      *)
(***************************************************************************)
Plainly(s, i) == \A k \in i .. Len(s) : s[k] \notin {"%", "NUL"}

IsLiteral(p) == p = Literal(p.chars) /\ p.chars \in Seq(STRING) /\ p.chars # <<>> /\ Plainly(p.chars, 1)

IsModifier(c) == c \in {"-", "0", ".", "#", "l", "*"} \/ DigitValue(c) \in 1 .. 9

\* Modifiers, and then a character that is none and no conversion, or, in the
\* last piece, the end of the format.
IsUnknown(p, last) ==
    /\ p = Unknown(p.chars, p.args) /\ p.chars \in Seq(STRING)
    /\ p.chars # <<>> /\ p.chars[1] = "%" /\ Plainly(p.chars, 2)
    /\ LET n == Len(p.chars)
       IN  /\ \A k \in 2 .. n - 1 : IsModifier(p.chars[k])
           /\ \/ last /\ (n = 1 \/ IsModifier(p.chars[n]))
              \/ n > 1 /\ ~IsModifier(p.chars[n]) /\ p.chars[n] \notin Known
    /\ p.args \in Seq([w : Int])
    /\ Len(p.args) = Cardinality({k \in DOMAIN p.chars : p.chars[k] = "*"})

IsNumber(p, lib) ==
    /\ p.conv \in {"d", "u", "x", "p"} \/ (p.conv = "o" /\ lib = "kern")
    /\ LET n == Values(p.esc, p.conv)
       IN  p.arg.v \in IF p.conv = "d" THEN n \div 2 - n .. n \div 2 - 1 ELSE 0 .. n - 1
    /\ p = Number(p.esc, p.conv, p.arg.v)

IsStr(p) ==
    /\ p.conv = "s"
    /\ "s" \in DOMAIN p.arg => p.arg.s \in Seq(STRING)
    /\ p = Str(p.esc, p.arg)

IsPiece(p, lib, last) ==
    \/ IsLiteral(p) \/ IsUnknown(p, last)
    \/ /\ IsEscape(p.esc)
       /\ \/ IsNumber(p, lib) \/ IsStr(p)
          \/ p.conv = "c" /\ p = Character(p.esc, p.arg.c)
          \/ p = PercentSign(p.esc)
          \/ lib = "user" /\ p = OctalOfUser(p.esc)

ASSUME FormatAssumption ==
    /\ UINT \in Nat \ {0, 1} /\ MAX_BUF \in Nat /\ MAX_BUF >= 2
    /\ \A j \in Job :
          /\ j.call \in {"printf", "vsprintf", "vsnprintf"} /\ j.size \in Nat
          /\ j.lib \in {"kern", "user"}
          /\ j.pieces \in Seq({j.pieces[k] : k \in DOMAIN j.pieces})
          /\ \A k \in DOMAIN j.pieces : IsPiece(j.pieces[k], j.lib, k = Len(j.pieces))

----------------------------------------------------------------------------
Meaning == FlattenSeq([k \in DOMAIN job.pieces |-> job.pieces[k].means])

\* The arguments that are taken next are there, and are what the conversion
\* takes them for.
IsWord(k) == k <= Len(ap) /\ ap[k].w \in 0 .. UINT - 1

ArgumentsFit ==
    mode = "escape" =>
        /\ At(fp) \in {"*", "c", "s"} => ap # <<>>
        /\ At(fp) = "*" => ap[1].w \in Int
        /\ At(fp) = "s" /\ "s" \in DOMAIN ap[1] => ap[1].s \in Seq(STRING)
        /\ At(fp) = "p" => IsWord(1)
        /\ At(fp) \in {"d", "u", "x"} \/ (At(fp) = "o" /\ job.lib = "kern") => \A k \in 1 .. Words : IsWord(k)

(***************************************************************************)
(* vprintfmt prints what the format means, and takes exactly its arguments:*)
(* the flags of one conversion do not reach into the next, numbers of two  *)
(* words, stars and unknown escapes take what is theirs, the smallest      *)
(* negative number has its digits, and an escape that the format ends in   *)
(* the middle of does not lead past the NUL.                               *)
(***************************************************************************)
FormatsAsMeant ==
    mode # "idle" =>
        /\ ArgumentsFit
        /\ IsPrefix(text, Meaning)
        /\ fp <= Len(fmt) + 1
        /\ mode \in {"done", "read"} => text = Meaning /\ ap = <<>>

(***************************************************************************)
(* Nothing is lost or written too far on the way out: printf sends all of  *)
(* the text, through any number of full buffers, if there is no NUL in it; *)
(* a buffer keeps room for its NUL; vsnprintf stores the start of the text *)
(* that fits with a NUL (in one character if the size is 0), and both of   *)
(* them return how long the text is.                                       *)
(***************************************************************************)
OutputComplete ==
    /\ mode # "idle" /\ job.call = "printf" => Len(out.buf) + 1 <= MAX_BUF - 1
    /\ mode \in {"done", "read"} =>
          /\ out.cnt = Len(text)
          /\ job.call = "printf" /\ ~Contains(text, "NUL") => out.console = text
          /\ job.call = "vsprintf" => out.buf = text
          /\ job.call = "vsnprintf" =>
                /\ out.buf = Cut(text, IF job.size > 0 THEN job.size - 1 ELSE 0)
                /\ Len(out.buf) + 1 <= (IF job.size > 1 THEN job.size ELSE 1)

(***************************************************************************)
(* A number that was printed is read back as the same number, by strtol in *)
(* its base, or by the prefix, and by atoi, to the last bit of the word    *)
(* and with any padding that the reader skips.                             *)
(***************************************************************************)
Readable(p, base) ==
    /\ ~TwoWords(p.esc, p.conv)
    /\ p.esc.zero \/ p.esc.width = 0 \/ (PadChar(p.esc) = " " /\ p.arg.v >= 0 /\ p.conv # "p")
    /\ \/ p.conv \in {"d", "u"} /\ (base = 10 \/ (base = 0 /\ ~p.esc.zero))
       \/ p.conv = "x" /\ base = 16
       \/ p.conv = "p" /\ base \in {0, 16}

ReadsBack ==
    mode = "read" /\ Len(job.pieces) = 1 =>
        LET p == job.pieces[1]
        IN  p.conv \in {"d", "u", "x", "p"} /\ Readable(p, number.base) =>
              /\ number.strtol = Signed(p.arg.v % UINT, UINT)
              /\ p.conv \in {"d", "u"} /\ (p.esc.zero \/ p.esc.width = 0) =>
                    number.atoi = [loc |-> Len(text), i |-> Signed(p.arg.v % UINT, UINT)]

(***************************************************************************)
(* The comment of the flag "-", "flag to pad on the right": a number with  *)
(* it starts with its sign or 0x and its digits, and what fills the width  *)
(* follows.  printnum does not do so: it puts "-" before the digits.       *)
(***************************************************************************)
MinusPadsRight ==
    mode = "done" /\ Len(job.pieces) = 1 =>
        LET p == job.pieces[1]
        IN  p.conv \in {"d", "u", "x", "p"} /\ PadChar(p.esc) = "-" =>
                IsPrefix(Lead(p.conv, p.arg.v) \o NumeralOf(p.conv, p.arg.v), text)
=============================================================================
