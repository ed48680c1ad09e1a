------------------------------ MODULE Scanner ------------------------------
(***************************************************************************)
(* The lexer of holyc-parser (src/lex/scanner.rs): bytes to tokens.        *)
(*                                                                         *)
(* A byte is a one-character string; BT is the backtick (which a TLA+     *)
(* string cannot hold); H1 and H2 are the two bytes of one                 *)
(* character outside ASCII (the source is a &str, so they come in pairs).  *)
(* A token carries the range start .. end-1 of the bytes it was read from; *)
(* lines and columns are functions of that offset, and the values of       *)
(* literals are left out, the exponent excepted: it decides a diagnostic.  *)
(* One step is one call of next_token.                                     *)
(***************************************************************************)
EXTENDS Integers, Sequences, FiniteSets

CONSTANTS
  Sources,   \* the texts lexed: sequences of bytes
  STR_LEN,   \* length cap of an identifier (144)
  CHAR_LEN,  \* length cap of a character constant (8)
  I32MAX     \* largest i32: the exponent of a float is one (2^31 - 1)

ASSUME ScannerAssumption ==
  /\ Sources \subseteq Seq(STRING \ {""})
  /\ STR_LEN \in Nat \ {0}
  /\ CHAR_LEN \in Nat \ {0}
  /\ I32MAX \in Nat \ {0}

VARIABLES
  src,    \* the source text
  i,      \* index of the next byte
  toks,   \* tokens returned so far
  diags   \* diagnostics reported so far: records of a rule and an index

vars == <<src, i, toks, diags>>
-----------------------------------------------------------------------------
(* Bytes. *)

Space    == {" ", "\t", "\n"}
DecDigit == {"0", "1", "9"}
HexLetter == {"a", "b", "e", "E"}
Alpha    == HexLetter \cup {"x", "X", "H1", "H2", "_"}
Alnum    == Alpha \cup DecDigit
HexDigit == DecDigit \cup HexLetter
ExpMark  == {"e", "E"}
Quote    == "\""

DigitValue(c) == CASE c = "0" -> 0 [] c = "1" -> 1 [] c = "9" -> 9

\* The byte at k; "" stands for None, past the end.
Peek(s, k) == IF k \in DOMAIN s THEN s[k] ELSE ""

\* The next two bytes, from k, are x and y.
Pair(s, k, x, y) == Peek(s, k) = x /\ Peek(s, k + 1) = y

\* The first index from k on whose byte is not in C: where a loop
\* "while peek() is in C, bump" stops.
RunEnd(s, k, C) ==
  CHOOSE e \in k .. Len(s) + 1 :
     /\ e = Len(s) + 1 \/ s[e] \notin C
     /\ \A m \in k .. e - 1 : s[m] \in C

Diag(rule, at) == <<[rule |-> rule, at |-> at]>>

\* What a scan function returns: the kind, the index after the token and
\* the diagnostics it reported.
Scanned(kind, end, ds) == [kind |-> kind, end |-> end, diags |-> ds]
-----------------------------------------------------------------------------
(* Trivia. *)

\* Mutant of BlockEnd: comments that do not nest.
BlockEndFlat(s, k) ==
  LET ends == {m \in k + 2 .. Len(s) + 1 : s[m - 2] = "*" /\ s[m - 1] = "/"}
  IN  IF ends = {} THEN 0 ELSE CHOOSE e \in ends : \A m \in ends : e <= m

\* The index after the block comment whose opening ends before k, or 0 when
\* the text ends inside it.
BlockEnd(s, k) ==
  LET After[at \in (k .. Len(s) + 1) \X Nat] ==
        LET m == at[1]
            depth == at[2]
        IN  IF depth = 0 THEN m
            ELSE IF m > Len(s) THEN 0
            ELSE IF Pair(s, m, "*", "/") THEN After[<<m + 2, depth - 1>>]
            ELSE IF Pair(s, m, "/", "*") THEN After[<<m + 2, depth + 1>>]
            ELSE After[<<m + 1, depth>>]
  IN  After[<<k, 1>>]

\* Where the next token starts, from k, and the diagnostics on the way.
SkipTrivia(s, k) ==
  LET Skip[m \in k .. Len(s) + 1] ==
        CASE Peek(s, m) \in Space -> Skip[m + 1]
          [] Pair(s, m, "/", "/") -> Skip[RunEnd(s, m + 2, {s[b] : b \in DOMAIN s} \ {"\n"})]
          [] Pair(s, m, "/", "*") ->
               LET e == BlockEnd(s, m + 2)
               IN  IF e = 0 THEN [at |-> Len(s) + 1, diags |-> Diag("lex-unterminated-comment", m)]
                   ELSE Skip[e]
          [] OTHER -> [at |-> m, diags |-> <<>>]
  IN  Skip[k]
-----------------------------------------------------------------------------
(* Identifiers. *)

\* At most STR_LEN + 1 bytes are kept; a cap that falls inside a character
\* leaves a name that is not UTF-8, and is replaced by the empty one.
ScanIdent(s, k) ==
  LET end  == RunEnd(s, k, Alnum)
      long == end - k > STR_LEN
      name == SubSeq(s, k, IF long THEN k + STR_LEN ELSE end - 1)
      utf8 == name[Len(name)] # "H1"
  IN  Scanned(IF utf8 THEN "Ident" ELSE "EmptyIdent", end,
              (IF long THEN Diag("lex-ident-too-long", k) ELSE <<>>)
                \o (IF utf8 THEN <<>> ELSE Diag("lex-ident-non-utf8", k)))
-----------------------------------------------------------------------------
(* Numbers. *)

\* Release builds wrap on overflow; the sum of two i32 leaves the range by
\* less than its width.
WrapI32(n) ==
  CASE n > I32MAX      -> n - 2 * (I32MAX + 1)
    [] n < -I32MAX - 1 -> n + 2 * (I32MAX + 1)
    [] OTHER           -> n

\* The digits k .. e-1 as a saturating i32.
Exponent(s, k, e) ==
  LET Acc[m \in k - 1 .. e - 1] ==
        IF m < k THEN 0
        ELSE LET v == Acc[m - 1] * 10 + DigitValue(s[m])
             IN  IF v > I32MAX THEN I32MAX ELSE v
  IN  Acc[e - 1]

\* From the e/E at k, after `frac` fraction digits.
ScanFloatExponent(s, start, k, frac) ==
  LET neg    == Peek(s, k + 1) = "-"
      first  == IF Peek(s, k + 1) \in {"-", "+"} THEN k + 2 ELSE k + 1
      end    == RunEnd(s, first, DecDigit)
      j      == Exponent(s, first, end)
      signed == WrapI32((IF neg THEN -j ELSE j) - frac)
  IN  Scanned("FloatLit", end,
              (IF end = first THEN Diag("lex-bad-exponent", start) ELSE <<>>)
                \o (IF signed < 0 THEN Diag("exponent-float-literal", start) ELSE <<>>))

\* Mutant of ScanFloatAfterDot: the fraction digits are not taken off.
ScanFloatAfterDotWhole(s, start, k) ==
  LET end == RunEnd(s, k, DecDigit)
  IN  IF Peek(s, end) \in ExpMark THEN ScanFloatExponent(s, start, end, 0)
      ELSE Scanned("FloatLit", end, <<>>)

\* From the first fraction digit, k.
ScanFloatAfterDot(s, start, k) ==
  LET end == RunEnd(s, k, DecDigit)
  IN  IF Peek(s, end) \in ExpMark THEN ScanFloatExponent(s, start, end, end - k)
      ELSE Scanned("FloatLit", end, <<>>)

\* 0x and 0b with the digits they allow.
ScanPrefixed(s, k, digits, rule) ==
  LET end == RunEnd(s, k + 2, digits)
  IN  Scanned("IntLit", end, IF end = k + 2 THEN Diag(rule, k) ELSE <<>>)

ScanNumber(s, k) ==
  LET end == RunEnd(s, k, DecDigit)
  IN  CASE s[k] = "0" /\ Peek(s, k + 1) \in {"x", "X"} ->
             ScanPrefixed(s, k, HexDigit, "lex-bad-hex")
        [] s[k] = "0" /\ Peek(s, k + 1) = "b" ->
             ScanPrefixed(s, k, {"0", "1"}, "lex-bad-binary")
        [] Peek(s, end) = "." /\ Peek(s, end + 1) # "." ->
             ScanFloatAfterDot(s, k, end + 1)
        [] Peek(s, end) \in ExpMark -> ScanFloatExponent(s, k, end, 0)
        [] OTHER -> Scanned("IntLit", end, <<>>)

ScanDotOrFloat(s, k) ==
  CASE Peek(s, k + 1) \in DecDigit -> ScanFloatAfterDot(s, k, k + 1)
    [] Peek(s, k + 1) = "." ->
         IF Peek(s, k + 2) = "." THEN Scanned("Ellipsis", k + 3, <<>>)
         ELSE Scanned("DotDot", k + 2, <<>>)
    [] OTHER -> Scanned("Dot", k + 1, <<>>)
-----------------------------------------------------------------------------
(* Quotes. *)

\* The index after the escape whose backslash is before k.
EscapeEnd(s, k) ==
  CASE k > Len(s) -> k
    [] Peek(s, k) \in {"x", "X"} ->
         LET run == RunEnd(s, k + 1, HexDigit) IN IF run > k + 3 THEN k + 3 ELSE run
    [] OTHER -> k + 1

\* The index after the byte, plain or escaped, at k.
CharEnd(s, k) == IF Peek(s, k) = "\\" THEN EscapeEnd(s, k + 1) ELSE k + 1

\* A constant that is too long is drained to the next quote, escaped or not.
ScanChar(s, k) ==
  LET From[at \in (k + 1 .. Len(s) + 1) \X (0 .. CHAR_LEN)] ==
        LET m     == at[1]
            count == at[2]
            next  == CharEnd(s, m)
            quote == RunEnd(s, next, {s[b] : b \in DOMAIN s} \ {"'"})
        IN  CASE m > Len(s) -> Scanned("CharLit", m, Diag("lex-unterminated-char", k))
              [] Peek(s, m) = "'" -> Scanned("CharLit", m + 1, <<>>)
              [] OTHER ->
                   IF count < CHAR_LEN THEN From[<<next, count + 1>>]
                   ELSE Scanned("CharLit", IF quote > Len(s) THEN quote ELSE quote + 1,
                                Diag("lex-char-too-long", k))
  IN  From[<<k + 1, 0>>]

ScanString(s, k) ==
  LET From[m \in k + 1 .. Len(s) + 1] ==
        CASE m > Len(s) -> Scanned("StrLit", m, Diag("lex-unterminated-string", k))
          [] Peek(s, m) = Quote -> Scanned("StrLit", m + 1, <<>>)
          [] OTHER -> From[CharEnd(s, m)]
  IN  From[k + 1]
-----------------------------------------------------------------------------
(* Punctuation. *)

\* The one-byte operators and what a second byte makes of each.
Single ==
  [b \in {";", ",", "(", ")", "{", "}", "[", "]", "~", "?", "!", "=", ":", "+",
          "-", "*", "/", "%", "&", "|", "^", "<", ">"} |->
   CASE b = ";" -> "Semicolon" [] b = "," -> "Comma"    [] b = "(" -> "LParen"
     [] b = ")" -> "RParen"    [] b = "{" -> "LBrace"   [] b = "}" -> "RBrace"
     [] b = "[" -> "LBracket"  [] b = "]" -> "RBracket" [] b = "~" -> "Tilde"
     [] b = "?" -> "Question"  [] b = "!" -> "Bang"     [] b = "=" -> "Eq"
     [] b = ":" -> "Colon"     [] b = "+" -> "Plus"     [] b = "-" -> "Minus"
     [] b = "*" -> "Star"      [] b = "/" -> "Slash"    [] b = "%" -> "Percent"
     [] b = "&" -> "Amp"       [] b = "|" -> "Pipe"     [] b = "^" -> "Caret"
     [] b = "<" -> "Lt"        [] b = ">" -> "Gt"]

Dual ==
  {<<"!", "=", "BangEq">>, <<"=", "=", "EqEq">>, <<":", ":", "ColonColon">>,
   <<"+", "+", "PlusPlus">>, <<"+", "=", "PlusEq">>,
   <<"-", ">", "Arrow">>, <<"-", "-", "MinusMinus">>, <<"-", "=", "MinusEq">>,
   <<"*", "=", "StarEq">>, <<"/", "=", "SlashEq">>, <<"%", "=", "PercentEq">>,
   <<"&", "&", "AmpAmp">>, <<"&", "=", "AmpEq">>,
   <<"|", "|", "PipePipe">>, <<"|", "=", "PipeEq">>,
   <<"^", "=", "CaretEq">>, <<"^", "^", "CaretCaret">>,
   <<"<", "=", "LtEq">>, <<"<", "<", "Shl">>,
   <<">", "=", "GtEq">>, <<">", ">", "Shr">>}

\* Mutant of Triple: shifts have no assigning form.
TripleNever(s, k) == FALSE

\* The = that makes <<= and >>= of the two bytes at k.
Triple(s, k) == Peek(s, k + 2) = "="

\* A byte nothing starts with is reported, and read as a `!`.
ScanPunct(s, k) ==
  LET duals == {d \in Dual : d[1] = s[k] /\ d[2] = Peek(s, k + 1)}
  IN  CASE s[k] \notin DOMAIN Single -> Scanned("Bang", k + 1, Diag("lex-unknown-byte", k))
        [] duals = {} /\ s[k] \in DOMAIN Single -> Scanned(Single[s[k]], k + 1, <<>>)
        [] OTHER ->
             LET kind == (CHOOSE d \in duals : TRUE)[3]
             IN  CASE kind = "Shl" /\ Triple(s, k) -> Scanned("ShlEq", k + 3, <<>>)
                   [] kind = "Shr" /\ Triple(s, k) -> Scanned("ShrEq", k + 3, <<>>)
                   [] OTHER -> Scanned(kind, k + 2, <<>>)
-----------------------------------------------------------------------------
(* The loop of lex_all, one next_token at a time. *)

Done == toks # <<>> /\ toks[Len(toks)].kind = "Eof"

Init ==
  /\ src \in Sources
  /\ i = 1
  /\ toks = <<>>
  /\ diags = <<>>

\* next_token when the next byte that is not trivia is in C; scanned is what
\* the scan function made of it.
Lex(C, Scan(_, _)) ==
  LET skip  == SkipTrivia(src, i)
      token == Scan(src, skip.at)
  IN  /\ ~Done
      /\ Peek(src, skip.at) \in C
      /\ i' = token.end
      /\ toks' = Append(toks, [kind |-> token.kind, start |-> skip.at, end |-> token.end])
      /\ diags' = diags \o skip.diags \o token.diags
      /\ UNCHANGED src

OneByte(s, k) ==
  LET kind == CASE s[k] = "#" -> "Hash" [] s[k] = "@" -> "At" [] OTHER -> "Backtick"
  IN  Scanned(kind, k + 1, <<>>)
AtEof(s, k) == Scanned("Eof", k, <<>>)

Others == {src[k] : k \in DOMAIN src} \ (Alnum \cup {Quote, "'", ".", "#", "@", "BT"})

LexIdent  == Lex(Alpha, ScanIdent)
LexNumber == Lex(DecDigit, ScanNumber)
LexString == Lex({Quote}, ScanString)
LexChar   == Lex({"'"}, ScanChar)
LexDot    == Lex({"."}, ScanDotOrFloat)
LexByte   == Lex({"#", "@", "BT"}, OneByte)
LexPunct  == Lex(Others, ScanPunct)

\* Mutant of LexEof: an empty text has no end.
LexEofOnce == toks # <<>> /\ Lex({""}, AtEof)

LexEof == Lex({""}, AtEof)

Next ==
  \/ LexIdent \/ LexNumber \/ LexString \/ LexChar
  \/ LexDot \/ LexByte \/ LexPunct \/ LexEof

Spec == Init /\ [][Next]_vars /\ WF_vars(Next)
-----------------------------------------------------------------------------
(* What the scanner promises, told without its loops. *)

\* The bytes k .. e-1, as many of them as there are.
Bytes(k, e) == SubSeq(src, k, IF e - 1 > Len(src) THEN Len(src) ELSE e - 1)

\* The delimiters of comments inside the block comment that starts at p: two
\* bytes are one unless the first is the second byte of the one before.
Delims(p) ==
  LET Is[m \in p + 1 .. Len(src)] ==
        /\ m > p + 1
        /\ Bytes(m, m + 2) \in {<<"/", "*">>, <<"*", "/">>}
        /\ ~Is[m - 1]
  IN  {m \in p + 2 .. Len(src) - 1 : Is[m]}

\* p .. e-1 is a block comment: at e as many have closed as had opened, and
\* at no earlier place.
BlockComment(p, e) ==
  LET Depth(m) == 1 + Cardinality({d \in Delims(p) : d < m /\ src[d] = "/"})
                    - Cardinality({d \in Delims(p) : d < m /\ src[d] = "*"})
  IN  /\ Bytes(p, p + 2) = <<"/", "*">>
      /\ e - 2 \in Delims(p)
      /\ Depth(e) = 0
      /\ \A m \in p + 2 .. e - 2 : Depth(m) > 0

LineComment(p, e) ==
  /\ Bytes(p, p + 2) = <<"/", "/">>
  /\ \A m \in p .. e - 1 : src[m] # "\n"
  /\ e = Len(src) + 1 \/ src[e] = "\n"

\* Nothing but spaces and whole comments from a to b-1.
OnlyTrivia(a, b) ==
  LET To[m \in a .. b] ==
        \/ m = a
        \/ m > a /\ To[m - 1] /\ src[m - 1] \in Space
        \/ \E p \in a .. m - 2 : To[p] /\ (BlockComment(p, m) \/ LineComment(p, m))
  IN  To[b]

\* A comment that no text closes, reported where it opens.
OpenComment(a) ==
  \E p \in a .. Len(src) - 1 :
     /\ OnlyTrivia(a, p)
     /\ Bytes(p, p + 2) = <<"/", "*">>
     /\ \A e \in p + 2 .. Len(src) + 1 : ~BlockComment(p, e)
     /\ \E d \in DOMAIN diags : diags[d] = [rule |-> "lex-unterminated-comment", at |-> p]

\* The tokens and the trivia between them tile the source: no byte is read
\* twice, none is skipped that is not a space or in a comment (comments nest,
\* scanner.rs:88-127), every token but the last is at least one byte long, and
\* a text that ends inside a comment is reported and has no further token.
SourceIsTiled ==
  \A k \in DOMAIN toks :
     LET from == IF k = 1 THEN 1 ELSE toks[k - 1].end
         t    == toks[k]
     IN  IF t.kind = "Eof"
         THEN t.start = Len(src) + 1 /\ (OnlyTrivia(from, t.start) \/ OpenComment(from))
         ELSE t.end > t.start /\ OnlyTrivia(from, t.start)

\* The spelling of each kind of punctuation, as TokenKind::spelling has it.
Spelling ==
  {<<Single[b], <<b>>>> : b \in DOMAIN Single}
    \cup {<<d[3], <<d[1], d[2]>>>> : d \in Dual}
    \cup {<<"ShlEq", <<"<", "<", "=">>>>, <<"ShrEq", <<">", ">", "=">>>>,
          <<"Dot", <<".">>>>, <<"DotDot", <<".", ".">>>>, <<"Ellipsis", <<".", ".", ".">>>>,
          <<"Backtick", <<"BT">>>>, <<"At", <<"@">>>>, <<"Hash", <<"#">>>>}

\* Operators are read by maximal munch (scanner.rs:499-605): a punctuation
\* token is spelled by its bytes, and no longer spelling matches there. The
\* placeholder for an unknown byte is the exception, and is reported.
LongestSpelling ==
  \A k \in DOMAIN toks :
     LET t == toks[k] IN
     \A sp \in Spelling :
        sp[1] = t.kind =>
          \/ /\ Bytes(t.start, t.end) = sp[2]
             /\ \A other \in Spelling :
                  Len(other[2]) > Len(sp[2]) => Bytes(t.start, t.start + Len(other[2])) # other[2]
          \/ \E d \in DOMAIN diags : diags[d] = [rule |-> "lex-unknown-byte", at |-> t.start]

\* Whatever the text, lex_all ends, with an Eof token (scanner.rs:34-45).
EndsWithEof == <>Done

\* The exponent a float literal is written with, and its fraction digits.
WrittenExponent(t) ==
  LET mark == CHOOSE m \in t.start .. t.end - 1 : src[m] \in ExpMark
      Value[m \in mark .. t.end - 1] ==
        IF m = mark \/ src[m] \notin DecDigit THEN 0 ELSE 10 * Value[m - 1] + DigitValue(src[m])
  IN  IF Peek(src, mark + 1) = "-" THEN -Value[t.end - 1] ELSE Value[t.end - 1]

FractionDigits(t) ==
  Cardinality({m \in t.start .. t.end - 1 :
     /\ src[m] \in DecDigit
     /\ \E d \in t.start .. m : src[d] = "."
     /\ \A e \in t.start .. m : src[e] \notin ExpMark})

\* A float literal whose exponent, less its fraction digits, is negative is
\* reported where it starts, and no other is (scanner.rs:320-362: HolyC reads
\* such literals wrong), as long as the exponent is an i32: a larger one
\* saturates, and the difference wraps.
NegativeExponentIsFlagged ==
  \A k \in DOMAIN toks :
     LET t == toks[k]
         e == WrittenExponent(t)
     IN  (/\ t.kind = "FloatLit"
          /\ \E m \in t.start .. t.end - 1 : src[m] \in ExpMark
          /\ {e, e - FractionDigits(t)} \subseteq -I32MAX .. I32MAX)
         => (e - FractionDigits(t) < 0
             <=> \E d \in DOMAIN diags :
                   diags[d] = [rule |-> "exponent-float-literal", at |-> t.start])
=============================================================================
