---------------------------- MODULE ParserCursor ----------------------------
(***************************************************************************)
(* The parser's view of a file: the tokens, the cursor, the diagnostics    *)
(* and the switch depth (src/parse/parser.rs), and the classes of tokens   *)
(* it tells apart (src/lex/token.rs, src/lex/keyword.rs).                  *)
(*                                                                         *)
(* A token is a string: a punctuation its spelling (BT is the backtick),   *)
(* a word itself, a literal one of the members of Literals.  A parser      *)
(* state is a record p; every function of the parser is an operator from   *)
(* a state to [p |-> the state after, r |-> what it returned].             *)
(***************************************************************************)
EXTENDS Naturals, Sequences, FiniteSets, SequencesExt

CONSTANTS
  CapNames   \* the names that start with a capital letter

ASSUME CursorAssumption == CapNames \subseteq STRING

Eof == "<eof>"

IntLits   == {"0", "1", "2"}
FloatLits == {"1.5"}
CharLits  == {"'c'"}
StrLits   == {"\"s\""}
Literals  == IntLits \cup FloatLits \cup CharLits \cup StrLits

Puncts ==
  {";", ",", ":", "?", "(", ")", "{", "}", "[", "]", "~", "!", ".", "+", "-",
   "*", "/", "%", "&", "|", "^", "=", "<", ">", "BT", "@", "#",
   "!=", "==", "<=", ">=", "&&", "||", "^^", "++", "--", "<<", ">>", "<<=",
   ">>=", "*=", "/=", "%=", "+=", "-=", "&=", "|=", "^=", "->", "::", "..", "..."}

PrimTypes ==
  {"U0", "I0", "U8", "I8", "Bool", "U16", "I16", "U32", "I32", "U64", "I64", "F64"}

\* Storage and linkage modifiers that lead a declaration at file scope.
ModifierWords ==
  {"static", "public", "interrupt", "extern", "_extern", "import", "_import",
   "intern", "argpop", "noargpop", "nostkchk", "lastclass"}

StmtKeywords ==
  {"return", "goto", "break", "if", "else", "while", "do", "for", "switch",
   "try", "catch", "lock", "case", "default", "sizeof", "defined"}

Keywords == PrimTypes \cup ModifierWords \cup StmtKeywords \cup {"asm", "class", "union"}

IsIdent(t) == t \notin Puncts \cup Literals \cup {Eof}   \* TokenKind::Ident
IsName(t)  == IsIdent(t) /\ t \notin Keywords            \* lookup_keyword = None
-----------------------------------------------------------------------------
(* Returns.  None is the empty sequence; a node of the tree is a sequence   *)
(* whose first element names its kind.                                      *)

None == <<>>
Ret(p, r) == [p |-> p, r |-> r]

\* toks ends with Eof; line[k] is the line of token k.
NewParser(toks, line) ==
  [toks |-> toks, line |-> line, cur |-> 1, diags |-> <<>>, depth |-> 0]

PeekAt(p, n) == p.toks[IF p.cur + n > Len(p.toks) THEN Len(p.toks) ELSE p.cur + n]
Peek(p)  == PeekAt(p, 0)
AtEof(p) == Peek(p) = Eof

Bump(p) == IF AtEof(p) THEN p ELSE [p EXCEPT !.cur = @ + 1]

ErrorAt(p, at, rule) == [p EXCEPT !.diags = Append(@, [rule |-> rule, at |-> at])]
Error(p, rule) == ErrorAt(p, p.cur, rule)

\* "p.eat(kind);", its result ignored.
Eat(p, kind) == IF Peek(p) = kind THEN Bump(p) ELSE p

\* "if !p.eat(kind) { p.error_at(...) }".
Expect(p, kind, rule) == IF Peek(p) = kind THEN Bump(p) ELSE Error(p, rule)

\* checkpoint() keeps the cursor and the number of diagnostics of an earlier
\* state, cp; the switch depth is not part of it.
Restore(p, cp) == [p EXCEPT !.cur = cp.cur, !.diags = SubSeq(@, 1, Len(cp.diags))]

\* The index after the first token from k on that kind says is the end, or of
\* the Eof.
AfterFirst(p, IsEnd(_)) ==
  LET n == CHOOSE k \in p.cur .. Len(p.toks) :
             /\ p.toks[k] = Eof \/ IsEnd(k)
             /\ \A m \in p.cur .. k - 1 : p.toks[m] # Eof /\ ~IsEnd(m)
  IN  IF p.toks[n] = Eof THEN n ELSE n + 1

RecoverToSemicolon(p) == [p EXCEPT !.cur = AfterFirst(p, LAMBDA k : p.toks[k] = ";")]

\* Past the brace that closes the one just eaten, or to the end.
SkipBraces(p) ==
  LET Open(k) == 1 + Cardinality({m \in p.cur .. k : p.toks[m] = "{"})
                   - Cardinality({m \in p.cur .. k : p.toks[m] = "}"})
  IN  [p EXCEPT !.cur = AfterFirst(p, LAMBDA k : Open(k) = 0)]
=============================================================================
