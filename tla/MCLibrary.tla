----------------------------- MODULE MCLibrary ------------------------------
(***************************************************************************)
(* Words of 16 values, so that a long long has 256 and its smallest value  *)
(* is -128; a print buffer of 4; and a memory of 6 bytes in words of 2.    *)
(* Every kind of piece alone and with every consumer, and every pair of    *)
(* kinds.                                                                  *)
(***************************************************************************)
EXTENDS Format

MCFill == {0, 1, 5, -1}

Shorts == {-8, -3, 0, 7}
Longs  == {-128, -17, 100}

\* [-][0][#][width] and [ll]; the width as a star.
E(m, z, a, w, ls)  == Escape(m, z, a, w, FALSE, 0, FALSE, ls)
Starred(m, z, w)   == Escape(m, z, FALSE, w, TRUE, 0, FALSE, 0)
Precise(w, p, s)   == Escape(TRUE, FALSE, FALSE, w, FALSE, p, s, 1)

Numbers ==
    {Number(e, "d", v) :
        e \in {E(FALSE, FALSE, FALSE, 0, 0), E(FALSE, FALSE, FALSE, 3, 0), E(FALSE, TRUE, FALSE, 3, 1),
               E(TRUE, FALSE, TRUE, 3, 0), E(TRUE, TRUE, FALSE, 3, 0), Starred(FALSE, FALSE, 0),
               Starred(FALSE, TRUE, 3), Starred(TRUE, FALSE, 3), Precise(3, 2, FALSE), Precise(0, 2, TRUE)},
        v \in Shorts}
      \cup {Number(E(m, z, FALSE, w, 0), c, v) :
                m \in BOOLEAN, z \in BOOLEAN, w \in {0, 10}, c \in {"u", "x", "p"}, v \in {0, 8, 15}}
      \cup {Number(E(m, FALSE, FALSE, 0, 2), "d", v) : m \in BOOLEAN, v \in Longs}
      \cup {Number(E(FALSE, TRUE, FALSE, 3, 2), c, 255) : c \in {"u", "x"}}
      \cup {Number(E(FALSE, FALSE, FALSE, 3, 2), "p", 15)}

Strs ==
    {Str(Escape(m, z, a, w, FALSE, p.prec, p.star, 0), arg) :
        m \in BOOLEAN, z \in BOOLEAN, a \in BOOLEAN, w \in {0, 4},
        p \in {[prec |-> 0, star |-> FALSE], [prec |-> 2, star |-> FALSE], [prec |-> 2, star |-> TRUE]},
        arg \in {[s |-> <<>>], [s |-> <<"a", "nl", "b">>], [w |-> 0]}}
      \cup {Str(Starred(m, FALSE, 4), [s |-> <<"a", "b">>]) : m \in BOOLEAN}

\* Modifiers that mean nothing, but for the arguments that they take.
Idle == Escape(TRUE, TRUE, TRUE, 3, TRUE, 2, TRUE, 2)

Others == {Literal(<<"a", "5">>), Character(Bare, "z"), Character(Idle, "NUL"), PercentSign(Bare),
           Unknown(<<"%", "5", "z">>, <<>>), Unknown(<<"%", "*", "y">>, <<[w |-> 3]>>)}

\* A format may end in the middle of an escape.
Cut_off == {Unknown(<<"%">>, <<>>), Unknown(<<"%", "-", "1", "2">>, <<>>), Unknown(<<"%", "l">>, <<>>)}

Octal(lib) == IF lib = "kern" THEN {Number(E(FALSE, FALSE, FALSE, 3, 0), "o", 15)}
              ELSE {OctalOfUser(Bare), OctalOfUser(Idle)}

Alone(lib) == Numbers \cup Strs \cup Others \cup {Character(Idle, "z"), PercentSign(Idle)}
                \cup Cut_off \cup Octal(lib)

\* One of each kind, to be followed by another.
Kinds(lib) ==
    {Number(E(FALSE, TRUE, FALSE, 3, 0), "d", -3), Number(Starred(TRUE, FALSE, 3), "x", 12),
     Number(E(FALSE, FALSE, FALSE, 0, 2), "d", -128), Number(Bare, "p", 9),
     Str(Escape(TRUE, FALSE, TRUE, 4, FALSE, 2, TRUE, 0), [s |-> <<"a", "nl", "b">>]),
     Str(E(FALSE, FALSE, FALSE, 4, 0), [w |-> 0])}
      \cup Others \cup Octal(lib)

Calls == [call : {"printf", "vsprintf"}, size : {0}] \cup [call : {"vsnprintf"}, size : {0, 1, 4}]

MakeJob(lib, c, pieces) == [lib |-> lib, call |-> c.call, size |-> c.size, pieces |-> pieces]

MCJob ==
    {MakeJob("user", c, <<>>) : c \in Calls}
      \cup UNION {{MakeJob(lib, c, <<p>>) : c \in Calls, p \in Alone(lib)} : lib \in {"kern", "user"}}
      \cup UNION {{MakeJob(lib, c, <<p, q>>) : c \in Calls, p \in Kinds(lib), q \in Kinds(lib) \cup Cut_off}
                    : lib \in {"kern", "user"}}

\* The run of MinusPadsRight: numbers with the flag, alone.
MCMinusJob ==
    {MakeJob("kern", [call |-> "printf", size |-> 0], <<Number(E(m, FALSE, FALSE, 5, 0), c, v)>>) :
        m \in BOOLEAN, c \in {"d", "u", "x"}, v \in {0, 7}}
=============================================================================
