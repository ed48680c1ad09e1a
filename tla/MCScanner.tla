----------------------------- MODULE MCScanner -----------------------------
(***************************************************************************)
(* Texts for the scanner: every sequence up to a length over a few small   *)
(* alphabets, each the bytes one part of the scanner tells apart.          *)
(***************************************************************************)
EXTENDS Scanner

Texts(C, n) == UNION {[1 .. k -> C] : k \in 0 .. n}

\* A character outside ASCII is always two bytes.
WholeCharacters(s) ==
  \A k \in DOMAIN s :
     /\ s[k] = "H1" => Peek(s, k + 1) = "H2"
     /\ s[k] = "H2" => k > 1 /\ s[k - 1] = "H1"

LexSources ==
  Texts({"/", "*", "a", "\n"}, 6)
    \cup Texts({"0", "1", "b", "x", "e", ".", "-"}, 4)
    \cup Texts({"'", "\"", "\\", "a", "x"}, 5)
    \cup Texts({"<", ">", "=", "-", "+", "&", "!"}, 4)
    \cup Texts({"|", "^", "%", ":", "$", "BT", "@"}, 3)
    \cup Texts({";", ",", "(", "]", "?", "~", "#"}, 2)
    \cup {s \in Texts({"a", "H1", "H2", "1", " "}, 5) : WholeCharacters(s)}

\* Floats with a fraction and an exponent on both sides of the i32 range.
LexFloats ==
  {<<"1", ".">> \o frac \o <<"e">> \o exp :
     frac \in Texts({"0"}, 2), exp \in Texts({"-", "1", "9"}, 4)}

LexTexts == LexSources \cup LexFloats
=============================================================================
