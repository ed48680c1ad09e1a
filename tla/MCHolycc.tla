------------------------------ MODULE MCHolycc ------------------------------
(***************************************************************************)
(* Runs of holycc: sequences of phrases, each family around one part of    *)
(* the grammar or of the passes, as one file or as several.                *)
(***************************************************************************)
EXTENDS HolyccProps

\* The sequences of up to n of the phrases C, and of n or fewer tokens.
Tokenses(C, n) == UNION {[1 .. l -> C] : l \in 0 .. n}
Phrases(C, n)  == {FlattenSeq(t) : t \in Tokenses(C, n)}

\* One file that is one line: a text between two others.
OneFile(before, texts, after) == {<<<<before \o t \o after>>>> : t \in texts}

Operators == OneFile(<<"a">>, Tokenses({"a", "-", "BT", "*", "=", "(", ")", "^^"}, 4), <<";">>)
Negations == OneFile(<<"-">>, Tokenses({"a", "-", "BT", "!", "(", ")", "++"}, 4), <<";">>)
Ternaries == OneFile(<<"a">>, Tokenses({"a", "?", ":", "<", "+", "!"}, 4), <<";">>)
Terms     == OneFile(<<"f">>, Tokenses({"a", "(", ")", ",", "[", "]", "A", "++", "."}, 4), <<";">>)
Casts     == OneFile(<<"a", "=">>, Tokenses({"(", ")", "A", "U8", "*", "a", "-", "1.5"}, 4), <<";">>)
Keywords2 == OneFile(<<>>, Tokenses({"sizeof", "offset", "defined", "(", ")", "A", ".", "a"}, 4), <<";">>)
Pointers  == OneFile(<<"I64">>,
               Phrases({<<"A">>, <<"*">>, <<"(", "*">>, <<"f">>, <<")">>, <<"(">>, <<",">>,
                        <<"=", "1">>}, 4)
                 \cup Phrases({<<"(", "*", "f", ")", "(">>, <<"U8">>, <<",">>, <<"...">>, <<")">>,
                              <<"*", "*", "*", "*", "*">>}, 3), <<";">>)
Lists     == OneFile(<<"I64", "a">>, Tokenses({"[", "]", "a", ",", "*", "=", "{", "}"}, 4), <<";">>)
Locals    == OneFile(<<"U0", "f", "(", ")", "{", "I64">>,
               Phrases({<<"a">>, <<"*">>, <<"(", "*", "g", ")", "(", ")">>, <<"[">>, <<"]">>, <<",">>, <<"=">>,
                        <<"pi">>, <<"if">>}, 4), <<";", "}">>)
Classes   == OneFile(<<"union", "A", "{">>,
               Phrases({<<"I64">>, <<"a">>, <<"*">>, <<",">>, <<";">>, <<"(", ")">>, <<"(", "*", "f", ")">>}, 4)
                 \cup Phrases({<<"I64", "a">>, <<"[", "1", "]">>, <<"(", ")">>, <<"{">>, <<"}">>, <<";">>}, 3),
               <<";", "}", ";">>)

Statements ==
  {<<"if", "(", "a", ")">>, <<"else">>, <<"{">>, <<"}">>, <<"I64", "a", ";">>, <<"a", ";">>,
   <<"switch", "(", "a", ")", "{">>, <<"case", "1", "...", "2", ":">>, <<"case", ":">>,
   <<"start", ":">>, <<"end", ":">>, <<"for", "(", "I64", "i", "=", "1", ";", "i", ";", "i", "++", ")">>,
   <<"for", "(", ";", ";", ")">>, <<"while", "(", "a", ")">>, <<"do">>, <<"try", "{">>, <<"catch", "{">>,
   <<"return">>, <<"goto", "a", ";">>, <<"lock">>, <<"asm">>, <<"break", ";">>, <<"default", ":">>,
   <<"\"s\"", ",">>, <<"A", "*", "a", ";">>, <<"sizeof", "(">>, <<")", ";">>, <<"#">>, <<"reg">>}
Nesting ==
  {<<"if", "(", "a", ")">>, <<"else">>, <<"{">>, <<"}">>, <<"I64", "a", ";">>, <<"a", ";">>,
   <<"switch", "(", "a", ")", "{">>, <<"case", "1", "...", "2", ":">>, <<"start", ":">>, <<"end", ":">>,
   <<"do">>, <<"while", "(", "a", ")">>, <<"try", "{">>, <<"catch", "{">>, <<"asm">>, <<"lock">>}
InFunction == OneFile(<<"U0", "f", "(", "I64", "a", ")", "{">>,
                      Phrases(Statements, 2) \cup Phrases(Nesting, 3), <<"}">>)
AtTop      == OneFile(<<>>, Phrases(Statements, 2), <<>>)

Scopes == OneFile(<<"U0", "f", "(", ")", "{">>,
            Phrases({<<"I64", "a", ";">>, <<"a", ";">>, <<"{">>, <<"}">>, <<"{", "I64", "a", ";", "}">>,
                     <<"if", "(", "1", ")">>, <<"else">>, <<"switch", "(", "1", ")", "{">>}, 4)
              \cup
            Phrases({<<"I64", "a", ";">>, <<"a", ";">>, <<"{", "I64", "a", ";", "}">>, <<"case", "1", ":">>,
                     <<"switch", "(", "1", ")", "{">>, <<"while", "(", "a", ")">>, <<"}">>,
                     <<"for", "(", "I64", "a", "=", "a", ";", "a", ";", ")">>,
                     <<"try", "{", "I64", "a", ";", "}">>, <<"catch", "{", "I64", "a", ";", "}">>}, 3), <<"}">>)

Masks == OneFile(<<"I64", "b", ";", "U0", "f", "(", "F64", "c", ")", "{">>,
           Phrases({<<"F64", "b", ";">>, <<"I64", "c", ";">>, <<"A", "*", "c", ";">>, <<"b", "&", "c", ";">>,
                    <<"c", "^", "c", "|", "b", ";">>, <<"{">>, <<"}">>,
                    <<"for", "(", "F64", "b", "=", "1", ";", "b", "&", "b", ";", ")">>}, 4), <<"}">>)

\* Lines of a file with directives.
Lines3 == Tokenses({<<"#", "define", "a", "1">>, <<"#", "define", "a">>, <<"#", "define", "a", "-", "1", ";">>, <<"a", ";">>,
            <<"#", "ifdef", "a">>, <<"#", "else">>, <<"#", "endif">>, <<"#", "assert", "a">>, <<"#", "include", "\"s\"">>,
            <<"#", "include">>, <<"#", "exe", "{", "a", ";", "}">>, <<"#">>, <<"U0", "f", "(", ")", "{">>, <<"}">>}, 3)
Directed == {<<t>> : t \in Lines3 \ {<<>>}}

\* Files that declare and call one function, and others that take its name.
Callers == {<<<<"I64", "f", "(", "I64", "a", ")", ";">>>>,
  <<<<"U0", "f", "(", "I64", "a", ",", "I64", "b", "=", "1", ")", ";">>>>,
  <<<<"F64", "f", "(", "I64", "a", "=", "1", ",", "...", ")", "{", "f", "(", "a", ",", "1", ")", ";", "}">>>>,
  <<<<"I64", "f", "(", ")", "{", "f", "(", ")", ";", "}">>>>,
  <<<<"F64", "f", ";">>>>, <<<<"class", "f", "{", "}", ";">>>>, <<<<"#", "define", "f", "1">>>>,
  <<<<"f", "(", "1", ")", ";">>>>, <<<<"f", "(", ",", ")", ";">>>>, <<<<"f", "(", ")", "&", "1", ";">>>>,
  <<<<"I64", "b", "=", "f", "&", "1.5", ";">>>>, <<<<"f", "&", "f", ";">>>>,
  <<<<"U0", "g", "(", "I64", "f", ")", "{", "f", "(", "1", ",", "2", ")", ";", "}">>>>,
  <<<<"U0", "g", "(", ")", "{", "{", "I64", "f", ";", "}", "f", "(", "1", ",", "2", ")", ";", "}">>>>,
  <<<<"I64", "b", "[", "f", "(", ")", "]", ",", "c", "=", "sizeof", "(", "f", "(", ")", ")", ";">>>>}
Programs == Tokenses(Callers, 3) \ {<<>>}

LintCorpora == {Operators, Negations, Ternaries, Terms, Casts, Keywords2, Pointers, Lists, Locals,
                Classes, InFunction, AtTop, Scopes, Masks, Directed, Programs}
=============================================================================
