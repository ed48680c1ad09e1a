---------------------------- MODULE ScannerProofs ----------------------------
(***************************************************************************)
(* The lexer, for every text: its tokens and trivia tile the source,       *)
(* operators are read by maximal munch, and the exponents it warns of are  *)
(* the negative ones.                                                      *)
(*                                                                         *)
(* The scan functions are loops, written as recursive functions.  What a   *)
(* loop computes is shown by induction, in the form of the least number    *)
(* principle: if it went wrong somewhere, it would go wrong at a last      *)
(* place, one step before where it is right.                               *)
(***************************************************************************)
EXTENDS Scanner, FiniteSetTheorems, WellFoundedInduction, TLAPS

-----------------------------------------------------------------------------
(***************************************************************************)
(* Induction and recursion, with sets and functions for predicates.        *)
(***************************************************************************)
NatLess == {ss \in Nat \X Nat : ss[1] < ss[2]}

LEMMA NatLessWellFounded == IsWellFoundedOn(NatLess, Nat)
BY NatLessThanWellFounded DEF OpToRel, NatLess

\* A set of naturals has a least element.
LEMMA Least ==
  ASSUME NEW T, T \subseteq Nat, T # {}
  PROVE  \E x \in T : \A y \in T : x <= y
<1>1. PICK x \in T : \A y \in T : <<y, x>> \notin NatLess
  BY NatLessWellFounded, WFMin
<1>2. \A y \in T : ~(y < x)
  BY <1>1 DEF NatLess
<1> QED
  BY <1>2

\* A set of naturals that has 0, and with each number the next, has them all.
LEMMA Induction ==
  ASSUME NEW T, 0 \in T, \A n \in Nat : n \in T => n + 1 \in T
  PROVE  Nat \subseteq T
<1>1. SUFFICES ASSUME Nat \ T # {} PROVE FALSE
  OBVIOUS
<1>2. PICK x \in Nat \ T : \A y \in Nat \ T : x <= y
  BY <1>1, Least
<1>3. x # 0 /\ x - 1 \in Nat /\ x - 1 \in T /\ (x - 1) + 1 = x
  BY <1>2
<1> QED
  BY <1>3

\* From the right end of an interval down.
LEMMA Downward ==
  ASSUME NEW a \in Int, NEW b \in Int, NEW T,
         \A m \in a .. b : (\A l \in m + 1 .. b : l \in T) => m \in T
  PROVE  \A m \in a .. b : m \in T
<1> DEFINE Good == {n \in Nat : \A m \in a .. b : b - m <= n - 1 => m \in T}
<1>1. 0 \in Good
  OBVIOUS
<1>2. ASSUME NEW n \in Nat, n \in Good PROVE n + 1 \in Good
  <2>1. ASSUME NEW m \in a .. b, b - m <= n PROVE m \in T
    <3>1. \A l \in m + 1 .. b : l \in a .. b /\ b - l <= n - 1
      BY <2>1
    <3> QED
      BY <1>2, <3>1
  <2> QED
    BY <2>1
<1>3. Nat \subseteq Good
  <2> HIDE DEF Good
  <2> QED
    BY <1>1, <1>2, Induction
<1> QED
  <2>1. ASSUME NEW m \in a .. b PROVE m \in T
    <3>1. (b - m) + 1 \in Nat /\ b - m <= ((b - m) + 1) - 1
      OBVIOUS
    <3> QED
      BY <1>3, <3>1
  <2> QED
    BY <2>1

\* From the left end up.
LEMMA Upward ==
  ASSUME NEW a \in Int, NEW b \in Int, NEW T,
         \A m \in a .. b : (\A l \in a .. m - 1 : l \in T) => m \in T
  PROVE  \A m \in a .. b : m \in T
<1> DEFINE Good == {n \in Nat : \A m \in a .. b : m - a <= n - 1 => m \in T}
<1>1. 0 \in Good
  OBVIOUS
<1>2. ASSUME NEW n \in Nat, n \in Good PROVE n + 1 \in Good
  <2>1. ASSUME NEW m \in a .. b, m - a <= n PROVE m \in T
    <3>1. \A l \in a .. m - 1 : l \in a .. b /\ l - a <= n - 1
      BY <2>1
    <3> QED
      BY <1>2, <3>1
  <2> QED
    BY <2>1
<1>3. Nat \subseteq Good
  <2> HIDE DEF Good
  <2> QED
    BY <1>1, <1>2, Induction
<1> QED
  <2>1. ASSUME NEW m \in a .. b PROVE m \in T
    <3>1. (m - a) + 1 \in Nat /\ m - a <= ((m - a) + 1) - 1
      OBVIOUS
    <3> QED
      BY <1>3, <3>1
  <2> QED
    BY <2>1

\* g is what a loop over S computes that goes on from x at next[x] while x is in A,
\* and returns out[x] elsewhere.
IsLoop(g, S, A, next, out) == g = [x \in S |-> IF x \in A THEN g[next[x]] ELSE out[x]]

\* g is what is computed over a .. b, each value from the one before.
IsFold(g, a, b, V, c, step) ==
  /\ g \in [a .. b -> V]
  /\ g = [m \in a .. b |-> IF m = a THEN c ELSE step[<<m, g[m - 1]>>]]

\* g says to which places of a .. b a chain of the steps E leads from a.
IsPath(g, a, b, E) ==
  g = [m \in a .. b |-> m = a \/ \E p \in a .. m - 1 : g[p] /\ <<p, m>> \in E]

\* A loop whose rank falls with every turn computes something.
LEMMA LoopExists ==
  ASSUME NEW S, NEW N \in Nat, NEW rank \in [S -> 0 .. N], NEW A, NEW next, NEW out,
         \A x \in S : x \in A => next[x] \in S /\ rank[next[x]] < rank[x]
  PROVE  \E g : IsLoop(g, S, A, next, out)
<1> DEFINE Below(n)  == {x \in S : rank[x] < n}
           Solves(g, n) == g = [x \in Below(n) |-> IF x \in A THEN g[next[x]] ELSE out[x]]
           Solved == {n \in Nat : \E g : Solves(g, n)}
<1>1. 0 \in Solved
  <2>1. Below(0) = {}
    OBVIOUS
  <2>2. Solves([x \in {} |-> out[x]], 0)
    BY <2>1
  <2> QED
    BY <2>2
<1>2. ASSUME NEW n \in Nat, n \in Solved PROVE n + 1 \in Solved
  <2>1. PICK g : Solves(g, n)
    BY <1>2
  <2> DEFINE h == [x \in Below(n + 1) |-> IF x \in A THEN g[next[x]] ELSE out[x]]
  <2>2. ASSUME NEW x \in Below(n + 1), x \in A PROVE h[next[x]] = g[next[x]]
    <3>1. next[x] \in Below(n) /\ next[x] \in Below(n + 1)
      BY <2>2
    <3> QED
      BY <2>1, <3>1
  <2>3. Solves(h, n + 1)
    BY <2>2
  <2> HIDE DEF h
  <2> QED
    BY <2>3
<1>3. N + 1 \in Solved
  <2> HIDE DEF Solved
  <2>1. Nat \subseteq Solved
    BY <1>1, <1>2, Induction
  <2> QED
    BY <2>1
<1>4. Below(N + 1) = S
  OBVIOUS
<1> QED
  BY <1>3, <1>4 DEF IsLoop

\* A computation from left to right computes something.
LEMMA FoldExists ==
  ASSUME NEW a \in Int, NEW b \in Int, NEW V, NEW c \in V, NEW step \in [(a .. b) \X V -> V]
  PROVE  \E g : IsFold(g, a, b, V, c, step)
<1> DEFINE To(n) == {m \in a .. b : m - a < n}
           Solves(g, n) == /\ g \in [To(n) -> V]
                           /\ g = [m \in To(n) |-> IF m = a THEN c ELSE step[<<m, g[m - 1]>>]]
           Solved == {n \in Nat : \E g : Solves(g, n)}
<1>1. 0 \in Solved
  <2>1. To(0) = {}
    OBVIOUS
  <2>2. Solves([m \in {} |-> c], 0)
    BY <2>1
  <2> QED
    BY <2>2
<1>2. ASSUME NEW n \in Nat, n \in Solved PROVE n + 1 \in Solved
  <2>1. PICK g : Solves(g, n)
    BY <1>2
  <2> DEFINE h == [m \in To(n + 1) |-> IF m = a THEN c ELSE step[<<m, g[m - 1]>>]]
  <2>2. ASSUME NEW m \in To(n + 1), m # a
        PROVE  h[m - 1] = g[m - 1] /\ g[m - 1] \in V /\ m \in a .. b
    <3>1. m - 1 \in To(n) /\ m - 1 \in To(n + 1)
      BY <2>2
    <3> QED
      BY <2>1, <3>1
  <2>3. h \in [To(n + 1) -> V]
    <3>1. ASSUME NEW m \in To(n + 1) PROVE (IF m = a THEN c ELSE step[<<m, g[m - 1]>>]) \in V
      BY <2>2
    <3> QED
      BY <3>1
  <2>4. Solves(h, n + 1)
    BY <2>2, <2>3
  <2> HIDE DEF h, Solves
  <2> QED
    BY <2>4
<1>3. Nat \subseteq Solved
  <2> HIDE DEF Solved
  <2> QED
    BY <1>1, <1>2, Induction
<1>4. PICK n \in Nat : n > b - a
  <2>1. CASE b >= a
    <3>1. (b - a) + 1 \in Nat /\ (b - a) + 1 > b - a
      BY <2>1
    <3> QED
      BY <3>1
  <2>2. CASE b < a
    <3>1. 0 > b - a
      BY <2>2
    <3> QED
      BY <3>1
  <2> QED
    BY <2>1, <2>2
<1>5. To(n) = a .. b
  BY <1>4
<1>6. PICK g : Solves(g, n)
  BY <1>3
<1> QED
  BY <1>5, <1>6 DEF IsFold

\* Chains of steps to the right lead to certain places.
LEMMA PathExists ==
  ASSUME NEW a \in Int, NEW b \in Int, NEW E
  PROVE  \E g : IsPath(g, a, b, E)
<1> DEFINE To(n) == {m \in a .. b : m - a < n}
           Solves(g, n) ==
             g = [m \in To(n) |-> m = a \/ \E p \in a .. m - 1 : g[p] /\ <<p, m>> \in E]
           Solved == {n \in Nat : \E g : Solves(g, n)}
<1>1. 0 \in Solved
  <2>1. To(0) = {}
    OBVIOUS
  <2>2. Solves([m \in {} |-> TRUE], 0)
    BY <2>1
  <2> QED
    BY <2>2
<1>2. ASSUME NEW n \in Nat, n \in Solved PROVE n + 1 \in Solved
  <2>1. PICK g : Solves(g, n)
    BY <1>2
  <2> DEFINE h == [m \in To(n + 1) |-> m = a \/ \E p \in a .. m - 1 : g[p] /\ <<p, m>> \in E]
  <2>2. ASSUME NEW m \in To(n + 1), NEW p \in a .. m - 1 PROVE h[p] = g[p]
    <3>1. p \in To(n) /\ p \in To(n + 1)
      BY <2>2
    <3> QED
      BY <2>1, <3>1
  <2>3. ASSUME NEW m \in To(n + 1)
        PROVE  (\E p \in a .. m - 1 : g[p] /\ <<p, m>> \in E)
                 = (\E p \in a .. m - 1 : h[p] /\ <<p, m>> \in E)
    <3> HIDE DEF h
    <3> QED
      BY <2>2
  <2>4. Solves(h, n + 1)
    BY <2>3
  <2> HIDE DEF h, Solves
  <2> QED
    BY <2>4
<1>3. Nat \subseteq Solved
  <2> HIDE DEF Solved
  <2> QED
    BY <1>1, <1>2, Induction
<1>4. PICK n \in Nat : n > b - a
  <2>1. CASE b >= a
    <3>1. (b - a) + 1 \in Nat /\ (b - a) + 1 > b - a
      BY <2>1
    <3> QED
      BY <3>1
  <2>2. CASE b < a
    <3>1. 0 > b - a
      BY <2>2
    <3> QED
      BY <3>1
  <2> QED
    BY <2>1, <2>2
<1>5. To(n) = a .. b
  BY <1>4
<1>6. PICK g : Solves(g, n)
  BY <1>3
<1> QED
  BY <1>5, <1>6 DEF IsPath
-----------------------------------------------------------------------------
(***************************************************************************)
(* Bytes, runs and what a scan function may return.                        *)
(***************************************************************************)
Byte == STRING \ {""}
Text == Seq(Byte)

\* Diagnostics, and the places where they say that an exponent is negative.
Rules == {"lex-unterminated-comment", "lex-ident-too-long", "lex-ident-non-utf8",
          "lex-bad-hex", "lex-bad-binary", "lex-bad-exponent", "exponent-float-literal",
          "lex-unterminated-char", "lex-char-too-long", "lex-unterminated-string",
          "lex-unknown-byte"}

Reports == Seq([rule : Rules, at : Nat])

Flagged(ds) == {ds[d].at : d \in {n \in DOMAIN ds : ds[n].rule = "exponent-float-literal"}}

LEMMA TextLen ==
  ASSUME NEW s \in Text
  PROVE  s \in Seq(Byte) /\ Len(s) \in Nat /\ DOMAIN s = 1 .. Len(s)
BY DEF Text

\* There is a byte at every place of a text, and none past its end.
LEMMA PeekIn ==
  ASSUME NEW s \in Text, NEW k \in 1 .. Len(s)
  PROVE  Peek(s, k) = s[k] /\ s[k] # ""
<1>1. s[k] \in Byte
  BY TextLen
<1> QED
  BY <1>1, TextLen DEF Peek, Byte

LEMMA PeekPast ==
  ASSUME NEW s \in Text, NEW k \in Int, k > Len(s)
  PROVE  Peek(s, k) = ""
<1>1. k \notin DOMAIN s
  BY TextLen
<1> QED
  BY <1>1 DEF Peek

LEMMA PeekHas ==
  ASSUME NEW s \in Text, NEW k \in Int, Peek(s, k) # ""
  PROVE  k \in 1 .. Len(s)
<1>1. k \in DOMAIN s
  BY DEF Peek
<1> QED
  BY <1>1, TextLen

\* A run stops at the first byte that is not in the set, or at the end.
LEMMA RunEnds ==
  ASSUME NEW s \in Text, NEW C, NEW k \in 1 .. Len(s) + 1
  PROVE  /\ RunEnd(s, k, C) \in k .. Len(s) + 1
         /\ RunEnd(s, k, C) = Len(s) + 1 \/ s[RunEnd(s, k, C)] \notin C
         /\ \A m \in k .. RunEnd(s, k, C) - 1 : s[m] \in C
<1> DEFINE Stops == {e \in k .. Len(s) + 1 : e = Len(s) + 1 \/ s[e] \notin C}
<1>1. Len(s) \in Nat
  BY TextLen
<1>2. Stops \subseteq Nat /\ Len(s) + 1 \in Stops
  BY <1>1
<1>3. PICK e \in Stops : \A o \in Stops : e <= o
  <2> HIDE DEF Stops
  <2> QED
    BY <1>2, Least
<1>4. \A m \in k .. e - 1 : s[m] \in C
  BY <1>1, <1>3
<1> QED
  BY <1>3, <1>4 DEF RunEnd

\* A plain or escaped byte takes at least one, and stays inside.
LEMMA CharEnds ==
  ASSUME NEW s \in Text, NEW m \in 1 .. Len(s)
  PROVE  CharEnd(s, m) \in m + 1 .. Len(s) + 1
<1>1. Len(s) \in Nat
  BY TextLen
<1>2. ASSUME m + 1 <= Len(s)
      PROVE  RunEnd(s, m + 2, HexDigit) \in m + 2 .. Len(s) + 1
  BY <1>1, <1>2, RunEnds
<1>3. EscapeEnd(s, m + 1) \in m + 1 .. Len(s) + 1
  <2>1. CASE m + 1 > Len(s)
    <3>1. m + 1 \in Int /\ m + 1 = Len(s) + 1
      BY <1>1, <2>1
    <3>2. Peek(s, m + 1) = ""
      BY <2>1, <3>1, PeekPast
    <3>3. EscapeEnd(s, m + 1) = m + 1
      BY <2>1, <3>2 DEF EscapeEnd
    <3> QED
      BY <1>1, <3>1, <3>3
  <2>2. CASE m + 1 <= Len(s) /\ Peek(s, m + 1) \in {"x", "X"}
    BY <1>1, <1>2, <2>2 DEF EscapeEnd
  <2>3. CASE m + 1 <= Len(s) /\ Peek(s, m + 1) \notin {"x", "X"}
    BY <1>1, <2>3 DEF EscapeEnd
  <2> QED
    BY <1>1, <2>1, <2>2, <2>3
<1> QED
  BY <1>1, <1>3 DEF CharEnd

\* The loop of scan_string ends, at the closing quote or at the end of the text.
LEMMA StringScanned ==
  ASSUME NEW s \in Text, NEW k \in 1 .. Len(s)
  PROVE  ScanString(s, k) \in
           [kind : {"StrLit"}, end : k + 1 .. Len(s) + 1,
            diags : {<<>>, Diag("lex-unterminated-string", k)}]
<1> DEFINE S == k + 1 .. Len(s) + 1
           A == {m \in S : m <= Len(s) /\ Peek(s, m) # Quote}
           next == [m \in S |-> CharEnd(s, m)]
           out  == [m \in S |-> IF m > Len(s)
                                THEN Scanned("StrLit", m, Diag("lex-unterminated-string", k))
                                ELSE Scanned("StrLit", m + 1, <<>>)]
           rank == [m \in S |-> Len(s) + 1 - m]
           F == CHOOSE g : g = [m \in S |->
                  CASE m > Len(s) -> Scanned("StrLit", m, Diag("lex-unterminated-string", k))
                    [] Peek(s, m) = Quote -> Scanned("StrLit", m + 1, <<>>)
                    [] OTHER -> g[CharEnd(s, m)]]
           Result == [kind : {"StrLit"}, end : k + 1 .. Len(s) + 1,
                      diags : {<<>>, Diag("lex-unterminated-string", k)}]
<1>1. Len(s) \in Nat
  BY TextLen
<1>2. ScanString(s, k) = F[k + 1]
  BY DEF ScanString
<1>3. \A m \in A : next[m] \in m + 1 .. Len(s) + 1
  <2>1. \A m \in A : m \in 1 .. Len(s)
    BY <1>1
  <2> QED
    BY <2>1, CharEnds
<1>4. PICK g : IsLoop(g, S, A, next, out)
  <2>1. rank \in [S -> 0 .. Len(s) + 1]
    BY <1>1
  <2>2. \A m \in S : m \in A => next[m] \in S /\ rank[next[m]] < rank[m]
    BY <1>1, <1>3
  <2>3. Len(s) + 1 \in Nat
    BY <1>1
  <2> HIDE DEF S, A, next, out, rank
  <2> QED
    BY <2>1, <2>2, <2>3, LoopExists
<1>5. F = [m \in S |-> IF m \in A THEN F[next[m]] ELSE out[m]]
  <2>1. \E h : h = [m \in S |->
                  CASE m > Len(s) -> Scanned("StrLit", m, Diag("lex-unterminated-string", k))
                    [] Peek(s, m) = Quote -> Scanned("StrLit", m + 1, <<>>)
                    [] OTHER -> h[CharEnd(s, m)]]
    BY <1>1, <1>4 DEF IsLoop
  <2>2. F = [m \in S |->
                  CASE m > Len(s) -> Scanned("StrLit", m, Diag("lex-unterminated-string", k))
                    [] Peek(s, m) = Quote -> Scanned("StrLit", m + 1, <<>>)
                    [] OTHER -> F[CharEnd(s, m)]]
    BY <2>1
  <2> HIDE DEF F
  <2> QED
    BY <1>1, <2>2
<1> DEFINE Good == {m \in S : F[m] \in Result}
<1>6. ASSUME NEW m \in S, \A l \in m + 1 .. Len(s) + 1 : l \in Good PROVE m \in Good
  <2> HIDE DEF F, Result
  <2>1. CASE m \in A
    <3>1. F[m] = F[next[m]] /\ next[m] \in Good
      BY <1>3, <1>5, <1>6, <2>1
    <3> QED
      BY <3>1
  <2>2. CASE m \notin A
    <3>1. F[m] = out[m] /\ out[m] \in Result
      BY <1>1, <1>5, <2>2 DEF Scanned, Result
    <3> QED
      BY <3>1
  <2> QED
    BY <2>1, <2>2
<1>7. \A m \in S : m \in Good
  <2>1. k + 1 \in Int /\ Len(s) + 1 \in Int
    BY <1>1
  <2> HIDE DEF Good
  <2> QED
    BY <2>1, <1>6, Downward
<1> QED
  BY <1>1, <1>2, <1>7

\* So does the loop of scan_char, the count of the bytes kept in its place.
LEMMA CharScanned ==
  ASSUME NEW s \in Text, NEW k \in 1 .. Len(s)
  PROVE  ScanChar(s, k) \in
           [kind : {"CharLit"}, end : k + 1 .. Len(s) + 1,
            diags : {<<>>, Diag("lex-unterminated-char", k), Diag("lex-char-too-long", k)}]
<1> DEFINE P == k + 1 .. Len(s) + 1
           S == P \X (0 .. CHAR_LEN)
           Rest(m) == RunEnd(s, CharEnd(s, m), {s[b] : b \in DOMAIN s} \ {"'"})
           A == {x \in S : x[1] <= Len(s) /\ Peek(s, x[1]) # "'" /\ x[2] < CHAR_LEN}
           next == [x \in S |-> <<CharEnd(s, x[1]), x[2] + 1>>]
           out  == [x \in S |->
                     CASE x[1] > Len(s) -> Scanned("CharLit", x[1], Diag("lex-unterminated-char", k))
                       [] Peek(s, x[1]) = "'" -> Scanned("CharLit", x[1] + 1, <<>>)
                       [] OTHER -> Scanned("CharLit", IF Rest(x[1]) > Len(s) THEN Rest(x[1])
                                                      ELSE Rest(x[1]) + 1,
                                           Diag("lex-char-too-long", k))]
           rank == [x \in S |-> Len(s) + 1 - x[1]]
           Turn(g, x) ==
             CASE x[1] > Len(s) -> Scanned("CharLit", x[1], Diag("lex-unterminated-char", k))
               [] Peek(s, x[1]) = "'" -> Scanned("CharLit", x[1] + 1, <<>>)
               [] OTHER -> IF x[2] < CHAR_LEN THEN g[<<CharEnd(s, x[1]), x[2] + 1>>]
                           ELSE Scanned("CharLit", IF Rest(x[1]) > Len(s) THEN Rest(x[1])
                                                   ELSE Rest(x[1]) + 1,
                                        Diag("lex-char-too-long", k))
           F == CHOOSE g : g = [x \in S |-> Turn(g, x)]
           Result == [kind : {"CharLit"}, end : k + 1 .. Len(s) + 1,
                      diags : {<<>>, Diag("lex-unterminated-char", k),
                               Diag("lex-char-too-long", k)}]
<1>1. Len(s) \in Nat /\ CHAR_LEN \in Nat
  BY TextLen, ScannerAssumption
<1>2. ScanChar(s, k) = F[<<k + 1, 0>>]
  BY DEF ScanChar
<1>3. \A m \in P : m <= Len(s) => CharEnd(s, m) \in m + 1 .. Len(s) + 1
  <2>1. \A m \in P : m <= Len(s) => m \in 1 .. Len(s)
    BY <1>1
  <2> QED
    BY <2>1, CharEnds
<1>4. \A m \in P : m > Len(s) => Peek(s, m) = ""
  <2>1. P \subseteq Int
    BY <1>1
  <2> QED
    BY <2>1, PeekPast
<1>5. PICK g : IsLoop(g, S, A, next, out)
  <2>1. rank \in [S -> 0 .. Len(s) + 1]
    BY <1>1
  <2>2. \A x \in S : x \in A => next[x] \in S /\ rank[next[x]] < rank[x]
    BY <1>1, <1>3
  <2>3. Len(s) + 1 \in Nat
    BY <1>1
  <2> HIDE DEF S, A, next, out, rank
  <2> QED
    BY <2>1, <2>2, <2>3, LoopExists
<1>6. \A h : \A x \in S : Turn(h, x) = IF x \in A THEN h[next[x]] ELSE out[x]
  <2> SUFFICES ASSUME NEW h, NEW m \in P, NEW c \in 0 .. CHAR_LEN
               PROVE  Turn(h, <<m, c>>) = IF <<m, c>> \in A THEN h[next[<<m, c>>]] ELSE out[<<m, c>>]
    OBVIOUS
  <2> HIDE DEF Rest
  <2>1. CASE m > Len(s)
    <3>1. Peek(s, m) # "'" /\ <<m, c>> \in S /\ <<m, c>> \notin A
      <4>1. Peek(s, m) = ""
        BY <1>4, <2>1
      <4>2. Peek(s, m) # "'"
        BY <4>1
      <4>3. <<m, c>> \in S
        OBVIOUS
      <4>4. ~(m <= Len(s))
        BY <1>1, <2>1
      <4> QED
        BY <4>2, <4>3, <4>4
    <3>2. Turn(h, <<m, c>>) = Scanned("CharLit", m, Diag("lex-unterminated-char", k))
      BY <1>1, <2>1, <3>1
    <3>3. out[<<m, c>>] = Scanned("CharLit", m, Diag("lex-unterminated-char", k))
      BY <1>1, <2>1, <3>1
    <3> QED
      BY <3>1, <3>2, <3>3
  <2>2. CASE m <= Len(s) /\ Peek(s, m) = "'"
    BY <1>1, <2>2
  <2>3. CASE m <= Len(s) /\ Peek(s, m) # "'"
    BY <1>1, <2>3
  <2> QED
    BY <1>1, <2>1, <2>2, <2>3
<1>6a. IsLoop(F, S, A, next, out)
  <2> HIDE DEF Turn, A, next, out, S
  <2>1. \E h : h = [x \in S |-> Turn(h, x)]
    BY <1>5, <1>6 DEF IsLoop
  <2> QED
    BY <1>6, <2>1 DEF IsLoop
<1> DEFINE Good == {m \in P : \A c \in 0 .. CHAR_LEN : F[<<m, c>>] \in Result}
<1>7. ASSUME NEW m \in P, \A l \in m + 1 .. Len(s) + 1 : l \in Good PROVE m \in Good
  <2> SUFFICES ASSUME NEW c \in 0 .. CHAR_LEN PROVE F[<<m, c>>] \in Result
    OBVIOUS
  <2> HIDE DEF F
  <2>1. CASE <<m, c>> \in A
    <3>1. F[<<m, c>>] = F[<<CharEnd(s, m), c + 1>>] /\ CharEnd(s, m) \in Good
          /\ c + 1 \in 0 .. CHAR_LEN
      <4>1. next[<<m, c>>] = <<CharEnd(s, m), c + 1>>
        OBVIOUS
      <4>2. F[<<m, c>>] = F[next[<<m, c>>]]
        <5> HIDE DEF A, next, out
        <5> QED
          BY <1>6a, <2>1 DEF IsLoop
      <4>3. CharEnd(s, m) \in Good
        BY <1>1, <1>3, <1>7, <2>1
      <4> QED
        BY <1>1, <2>1, <4>1, <4>2, <4>3
    <3> QED
      BY <3>1
  <2>2. CASE <<m, c>> \notin A
    <3>1. F[<<m, c>>] = out[<<m, c>>]
      BY <1>6a, <2>2 DEF IsLoop
    <3>2. out[<<m, c>>] \in Result
      <4>1. CASE m > Len(s)
        BY <1>1, <1>4, <4>1 DEF Scanned
      <4>2. CASE m <= Len(s) /\ Peek(s, m) = "'"
        BY <1>1, <4>2 DEF Scanned
      <4>3. CASE m <= Len(s) /\ Peek(s, m) # "'"
        <5>1. CharEnd(s, m) \in m + 1 .. Len(s) + 1 /\ CharEnd(s, m) \in 1 .. Len(s) + 1
          BY <1>1, <1>3, <4>3
        <5>2. Rest(m) \in CharEnd(s, m) .. Len(s) + 1
          BY <5>1, RunEnds
        <5>3. (IF Rest(m) > Len(s) THEN Rest(m) ELSE Rest(m) + 1) \in P
          BY <1>1, <5>1, <5>2
        <5> HIDE DEF Rest
        <5> QED
          BY <1>1, <4>3, <5>3 DEF Scanned
      <4> QED
        BY <1>1, <4>1, <4>2, <4>3
    <3> QED
      BY <3>1, <3>2
  <2> QED
    BY <2>1, <2>2
<1>8. \A m \in P : m \in Good
  <2>1. k + 1 \in Int /\ Len(s) + 1 \in Int
    BY <1>1
  <2> HIDE DEF Good
  <2> QED
    BY <2>1, <1>7, Downward
<1>9. k + 1 \in P /\ 0 \in 0 .. CHAR_LEN
  BY <1>1
<1> HIDE DEF F, P
<1> QED
  BY <1>2, <1>8, <1>9

-----------------------------------------------------------------------------
(***************************************************************************)
(* Trivia: what the two loops compute, turn by turn.                       *)
(***************************************************************************)
LEMMA PairIn ==
  ASSUME NEW s \in Text, NEW m \in Int, m > 0, NEW x, NEW y \in {"/", "*"}, Pair(s, m, x, y)
  PROVE  /\ m + 1 <= Len(s)
         /\ m + 2 \in 1 .. Len(s) + 1
         /\ s[m] = x
         /\ s[m + 1] = y
<1>0. Len(s) \in Nat
  BY TextLen
<1>1. m + 1 \in Int /\ m + 1 > 0
  OBVIOUS
<1>2. Peek(s, m) = x /\ Peek(s, m + 1) = y
  BY DEF Pair
<1>3. m + 1 \in 1 .. Len(s)
  BY <1>1, <1>2, PeekHas
<1>4. m \in 1 .. Len(s)
  BY <1>0, <1>3
<1>5. s[m] = x /\ s[m + 1] = y
  BY <1>2, <1>3, <1>4, PeekIn
<1>6. m + 1 <= Len(s) /\ m + 2 \in 1 .. Len(s) + 1
  BY <1>0, <1>3
<1> QED
  BY <1>5, <1>6

\* A turn of the loop that looks for the end of a block comment.
BlockTurn(s, f, m, depth) ==
  IF depth = 0 THEN m
  ELSE IF m > Len(s) THEN 0
  ELSE IF Pair(s, m, "*", "/") THEN f[<<m + 2, depth - 1>>]
  ELSE IF Pair(s, m, "/", "*") THEN f[<<m + 2, depth + 1>>]
  ELSE f[<<m + 1, depth>>]

LEMMA BlockLoop ==
  ASSUME NEW s \in Text, NEW k \in 1 .. Len(s) + 1
  PROVE  \E f : /\ BlockEnd(s, k) = f[<<k, 1>>]
                /\ \A m \in k .. Len(s) + 1, depth \in Nat :
                     f[<<m, depth>>] = BlockTurn(s, f, m, depth)
<1> DEFINE P == k .. Len(s) + 1
           S == P \X Nat
           A == {x \in S : x[2] # 0 /\ x[1] <= Len(s)}
           next == [x \in S |-> IF Pair(s, x[1], "*", "/") THEN <<x[1] + 2, x[2] - 1>>
                                ELSE IF Pair(s, x[1], "/", "*") THEN <<x[1] + 2, x[2] + 1>>
                                ELSE <<x[1] + 1, x[2]>>]
           out  == [x \in S |-> IF x[2] = 0 THEN x[1] ELSE 0]
           rank == [x \in S |-> Len(s) + 1 - x[1]]
           Turn(h, x) == BlockTurn(s, h, x[1], x[2])
           F == CHOOSE g : g = [x \in S |-> Turn(g, x)]
<1>1. Len(s) \in Nat
  BY TextLen
<1>2. BlockEnd(s, k) = F[<<k, 1>>]
  BY DEF BlockEnd, BlockTurn
<1>3. ASSUME NEW m \in P, NEW x, NEW y \in {"/", "*"}, Pair(s, m, x, y) PROVE m + 2 \in P
  <2>1. m \in Int /\ m > 0
    BY <1>1
  <2>2. m + 2 \in 1 .. Len(s) + 1
    BY <1>3, <2>1, PairIn
  <2> QED
    BY <1>1, <2>1, <2>2
<1>4. \A x \in A : next[x] \in S /\ next[x][1] > x[1]
  <2> SUFFICES ASSUME NEW m \in P, NEW d \in Nat, <<m, d>> \in A
               PROVE  next[<<m, d>>] \in S /\ next[<<m, d>>][1] > m
    OBVIOUS
  <2>1. CASE Pair(s, m, "*", "/")
    <3>1. m + 2 \in P
      BY <1>3, <2>1
    <3>2. d - 1 \in Nat
      OBVIOUS
    <3> QED
      BY <1>1, <2>1, <3>1, <3>2
  <2>2. CASE ~Pair(s, m, "*", "/") /\ Pair(s, m, "/", "*")
    <3>1. m + 2 \in P
      BY <1>3, <2>2
    <3> QED
      BY <1>1, <2>2, <3>1
  <2>3. CASE ~Pair(s, m, "*", "/") /\ ~Pair(s, m, "/", "*")
    BY <1>1, <2>3
  <2> QED
    BY <2>1, <2>2, <2>3
<1>5. PICK g : IsLoop(g, S, A, next, out)
  <2>1. rank \in [S -> 0 .. Len(s) + 1]
    BY <1>1
  <2>2. \A x \in S : x \in A => next[x] \in S /\ rank[next[x]] < rank[x]
    <3> HIDE DEF A, next
    <3> SUFFICES ASSUME NEW x \in S, x \in A PROVE next[x] \in S /\ rank[next[x]] < rank[x]
      OBVIOUS
    <3>1. next[x] \in S /\ next[x][1] > x[1]
      BY <1>4
    <3>2. x[1] \in P /\ next[x][1] \in P
      BY <3>1
    <3>3. rank[x] = Len(s) + 1 - x[1] /\ rank[next[x]] = Len(s) + 1 - next[x][1]
      BY <3>1
    <3> QED
      BY <1>1, <3>1, <3>2, <3>3
  <2>3. Len(s) + 1 \in Nat
    BY <1>1
  <2> HIDE DEF S, A, next, out, rank
  <2> QED
    BY <2>1, <2>2, <2>3, LoopExists
<1>6. \A h : \A x \in S : Turn(h, x) = IF x \in A THEN h[next[x]] ELSE out[x]
  <2> SUFFICES ASSUME NEW h, NEW x \in S
               PROVE  Turn(h, x) = IF x \in A THEN h[next[x]] ELSE out[x]
    OBVIOUS
  <2>0. x[1] \in P /\ x[2] \in Nat
    OBVIOUS
  <2>1. CASE x \in A
    BY <1>1, <2>0, <2>1 DEF BlockTurn
  <2>2. CASE x \notin A
    BY <1>1, <2>0, <2>2 DEF BlockTurn
  <2> QED
    BY <2>1, <2>2
<1>7. F = [x \in S |-> Turn(F, x)]
  <2> HIDE DEF A, next, out, S, Turn
  <2>1. \E h : h = [x \in S |-> Turn(h, x)]
    BY <1>5, <1>6 DEF IsLoop
  <2> QED
    BY <2>1
<1>8. \A m \in P, d \in Nat : F[<<m, d>>] = BlockTurn(s, F, m, d)
  <2> HIDE DEF F
  <2> QED
    BY <1>7
<1> QED
  BY <1>2, <1>8

\* A block comment ends past its opening, or not at all.
LEMMA BlockEndIn ==
  ASSUME NEW s \in Text, NEW k \in 1 .. Len(s) + 1
  PROVE  BlockEnd(s, k) \in {0} \cup (k .. Len(s) + 1)
<1>1. PICK f : /\ BlockEnd(s, k) = f[<<k, 1>>]
               /\ \A m \in k .. Len(s) + 1, depth \in Nat :
                    f[<<m, depth>>] = BlockTurn(s, f, m, depth)
  BY BlockLoop
<1>2. Len(s) \in Nat
  BY TextLen
<1> DEFINE P == k .. Len(s) + 1
           Good == {m \in P : \A d \in Nat : f[<<m, d>>] \in {0} \cup P}
<1>3. ASSUME NEW m \in P, \A l \in m + 1 .. Len(s) + 1 : l \in Good PROVE m \in Good
  <2> SUFFICES ASSUME NEW d \in Nat PROVE f[<<m, d>>] \in {0} \cup P
    OBVIOUS
  <2>1. f[<<m, d>>] = BlockTurn(s, f, m, d)
    BY <1>1
  <2>2. ASSUME NEW x, NEW y \in {"/", "*"}, Pair(s, m, x, y) PROVE m + 2 \in Good
    <3>1. m \in Int /\ m > 0
      BY <1>2
    <3>2. m + 2 \in 1 .. Len(s) + 1
      BY <2>2, <3>1, PairIn
    <3>3. m + 2 \in m + 1 .. Len(s) + 1
      BY <1>2, <3>2
    <3> QED
      BY <1>3, <3>3
  <2>3. CASE d = 0
    BY <2>1, <2>3 DEF BlockTurn
  <2>4. CASE d # 0 /\ m > Len(s)
    BY <2>1, <2>4 DEF BlockTurn
  <2>5. CASE d # 0 /\ m <= Len(s) /\ Pair(s, m, "*", "/")
    <3>1. m + 2 \in Good
      BY <2>2, <2>5
    <3>2. d - 1 \in Nat /\ f[<<m, d>>] = f[<<m + 2, d - 1>>]
      BY <1>2, <2>1, <2>5 DEF BlockTurn
    <3> QED
      BY <3>1, <3>2
  <2>6. CASE d # 0 /\ m <= Len(s) /\ ~Pair(s, m, "*", "/") /\ Pair(s, m, "/", "*")
    <3>1. m + 2 \in Good
      BY <2>2, <2>6
    <3>2. d + 1 \in Nat /\ f[<<m, d>>] = f[<<m + 2, d + 1>>]
      BY <1>2, <2>1, <2>6 DEF BlockTurn
    <3> QED
      BY <3>1, <3>2
  <2>7. CASE d # 0 /\ m <= Len(s) /\ ~Pair(s, m, "*", "/") /\ ~Pair(s, m, "/", "*")
    <3>1. m + 1 \in Good
      BY <1>2, <1>3, <2>7
    <3>2. f[<<m, d>>] = f[<<m + 1, d>>]
      BY <1>2, <2>1, <2>7 DEF BlockTurn
    <3> QED
      BY <3>1, <3>2
  <2> QED
    BY <1>2, <2>3, <2>4, <2>5, <2>6, <2>7
<1>4. \A m \in P : m \in Good
  <2>1. k \in Int /\ Len(s) + 1 \in Int
    BY <1>2
  <2> HIDE DEF Good
  <2> QED
    BY <2>1, <1>3, Downward
<1>5. k \in P /\ 1 \in Nat
  BY <1>2
<1>6. k \in Good
  BY <1>4, <1>5
<1> QED
  BY <1>1, <1>5, <1>6

\* A turn of the loop over trivia.
SkipTurn(s, f, m) ==
  CASE Peek(s, m) \in Space -> f[m + 1]
    [] Pair(s, m, "/", "/") -> f[RunEnd(s, m + 2, {s[b] : b \in DOMAIN s} \ {"\n"})]
    [] Pair(s, m, "/", "*") ->
         IF BlockEnd(s, m + 2) = 0
         THEN [at |-> Len(s) + 1, diags |-> Diag("lex-unterminated-comment", m)]
         ELSE f[BlockEnd(s, m + 2)]
    [] OTHER -> [at |-> m, diags |-> <<>>]

\* Its cases exclude each other.
LEMMA SkipCases ==
  ASSUME NEW s, NEW f, NEW m \in Int
  PROVE  /\ Peek(s, m) \in Space => SkipTurn(s, f, m) = f[m + 1]
         /\ Pair(s, m, "/", "/") =>
              SkipTurn(s, f, m) = f[RunEnd(s, m + 2, {s[b] : b \in DOMAIN s} \ {"\n"})]
         /\ Pair(s, m, "/", "*") /\ BlockEnd(s, m + 2) = 0 =>
              SkipTurn(s, f, m) = [at |-> Len(s) + 1, diags |-> Diag("lex-unterminated-comment", m)]
         /\ Pair(s, m, "/", "*") /\ BlockEnd(s, m + 2) # 0 =>
              SkipTurn(s, f, m) = f[BlockEnd(s, m + 2)]
         /\ Peek(s, m) \notin Space /\ ~Pair(s, m, "/", "/") /\ ~Pair(s, m, "/", "*") =>
              SkipTurn(s, f, m) = [at |-> m, diags |-> <<>>]
<1>1. CASE Peek(s, m) \in Space
  <2>1. ~Pair(s, m, "/", "/") /\ ~Pair(s, m, "/", "*")
    BY <1>1 DEF Pair, Space
  <2> QED
    BY <1>1, <2>1 DEF SkipTurn
<1>2. CASE Pair(s, m, "/", "/")
  <2>1. ~(Peek(s, m) \in Space) /\ ~Pair(s, m, "/", "*")
    BY <1>2 DEF Pair, Space
  <2> QED
    BY <1>2, <2>1 DEF SkipTurn
<1>3. CASE Pair(s, m, "/", "*")
  <2>1. ~(Peek(s, m) \in Space) /\ ~Pair(s, m, "/", "/")
    BY <1>3 DEF Pair, Space
  <2> QED
    BY <1>3, <2>1 DEF SkipTurn
<1>4. CASE Peek(s, m) \notin Space /\ ~Pair(s, m, "/", "/") /\ ~Pair(s, m, "/", "*")
  BY <1>4 DEF SkipTurn
<1> QED
  BY <1>1, <1>2, <1>3, <1>4

\* Each piece of trivia ends past its start, inside the text.
LEMMA PieceEnds ==
  ASSUME NEW s \in Text, NEW m \in 1 .. Len(s) + 1
  PROVE  /\ Peek(s, m) \in Space => m + 1 \in m + 1 .. Len(s) + 1
         /\ Pair(s, m, "/", "/") =>
              RunEnd(s, m + 2, {s[b] : b \in DOMAIN s} \ {"\n"}) \in m + 2 .. Len(s) + 1
         /\ Pair(s, m, "/", "*") /\ BlockEnd(s, m + 2) # 0 =>
              BlockEnd(s, m + 2) \in m + 2 .. Len(s) + 1
<1>1. Len(s) \in Nat /\ m \in Int /\ m > 0
  BY TextLen
<1>2. ASSUME Peek(s, m) \in Space PROVE m + 1 \in m + 1 .. Len(s) + 1
  <2>1. Peek(s, m) # ""
    BY <1>2 DEF Space
  <2>2. m \in 1 .. Len(s)
    BY <1>1, <2>1, PeekHas
  <2> QED
    BY <1>1, <2>2
<1>3. ASSUME Pair(s, m, "/", "/")
      PROVE  RunEnd(s, m + 2, {s[b] : b \in DOMAIN s} \ {"\n"}) \in m + 2 .. Len(s) + 1
  <2>1. m + 2 \in 1 .. Len(s) + 1
    BY <1>1, <1>3, PairIn
  <2> QED
    BY <2>1, RunEnds
<1>4. ASSUME Pair(s, m, "/", "*"), BlockEnd(s, m + 2) # 0
      PROVE  BlockEnd(s, m + 2) \in m + 2 .. Len(s) + 1
  <2>1. m + 2 \in 1 .. Len(s) + 1
    BY <1>1, <1>4, PairIn
  <2> QED
    BY <1>4, <2>1, BlockEndIn
<1> QED
  BY <1>2, <1>3, <1>4

LEMMA SkipLoop ==
  ASSUME NEW s \in Text, NEW k \in 1 .. Len(s) + 1
  PROVE  \E f : /\ SkipTrivia(s, k) = f[k]
                /\ \A m \in k .. Len(s) + 1 : f[m] = SkipTurn(s, f, m)
<1> DEFINE S == k .. Len(s) + 1
           A == {m \in S : \/ Peek(s, m) \in Space
                           \/ Pair(s, m, "/", "/")
                           \/ Pair(s, m, "/", "*") /\ BlockEnd(s, m + 2) # 0}
           next == [m \in S |->
                     IF Peek(s, m) \in Space THEN m + 1
                     ELSE IF Pair(s, m, "/", "/")
                          THEN RunEnd(s, m + 2, {s[b] : b \in DOMAIN s} \ {"\n"})
                          ELSE BlockEnd(s, m + 2)]
           out  == [m \in S |->
                     IF Pair(s, m, "/", "*")
                     THEN [at |-> Len(s) + 1, diags |-> Diag("lex-unterminated-comment", m)]
                     ELSE [at |-> m, diags |-> <<>>]]
           rank == [m \in S |-> Len(s) + 1 - m]
           F == CHOOSE g : g = [m \in S |-> SkipTurn(s, g, m)]
<1>1. Len(s) \in Nat
  BY TextLen
<1>2. SkipTrivia(s, k) = F[k]
  BY DEF SkipTrivia, SkipTurn
<1>3. \A m \in A : next[m] \in m + 1 .. Len(s) + 1
  <2> SUFFICES ASSUME NEW m \in S, m \in A PROVE next[m] \in m + 1 .. Len(s) + 1
    OBVIOUS
  <2>1. m \in 1 .. Len(s) + 1
    BY <1>1
  <2>2. CASE Peek(s, m) \in Space
    BY <2>1, <2>2, PieceEnds
  <2>3. CASE Peek(s, m) \notin Space /\ Pair(s, m, "/", "/")
    BY <1>1, <2>1, <2>3, PieceEnds
  <2>4. CASE Peek(s, m) \notin Space /\ ~Pair(s, m, "/", "/") /\ Pair(s, m, "/", "*")
    <3>1. BlockEnd(s, m + 2) # 0 /\ next[m] = BlockEnd(s, m + 2)
      BY <2>4
    <3>2. BlockEnd(s, m + 2) \in m + 2 .. Len(s) + 1
      BY <2>1, <2>4, <3>1, PieceEnds
    <3>3. next[m] \in m + 2 .. Len(s) + 1
      BY <3>1, <3>2
    <3> HIDE DEF next
    <3> QED
      BY <1>1, <3>3
  <2> QED
    BY <2>2, <2>3, <2>4
<1>4. PICK g : IsLoop(g, S, A, next, out)
  <2>1. rank \in [S -> 0 .. Len(s) + 1]
    BY <1>1
  <2>2. \A m \in S : m \in A => next[m] \in S /\ rank[next[m]] < rank[m]
    <3> HIDE DEF A, next
    <3> QED
      BY <1>1, <1>3
  <2>3. Len(s) + 1 \in Nat
    BY <1>1
  <2> HIDE DEF S, A, next, out, rank
  <2> QED
    BY <2>1, <2>2, <2>3, LoopExists
<1>5. \A h : \A m \in S : SkipTurn(s, h, m) = IF m \in A THEN h[next[m]] ELSE out[m]
  <2> SUFFICES ASSUME NEW h, NEW m \in S
               PROVE  SkipTurn(s, h, m) = IF m \in A THEN h[next[m]] ELSE out[m]
    OBVIOUS
  <2>0. m \in Int
    BY <1>1
  <2>1. Pair(s, m, "/", "*") => Peek(s, m) \notin Space /\ ~Pair(s, m, "/", "/")
    BY DEF Pair, Space
  <2>2. CASE m \in A
    <3>1. CASE Peek(s, m) \in Space
      <4>1. next[m] = m + 1
        BY <3>1
      <4>2. SkipTurn(s, h, m) = h[m + 1]
        BY <2>0, <3>1, SkipCases
      <4> QED
        BY <2>2, <4>1, <4>2
    <3>2. CASE Peek(s, m) \notin Space /\ Pair(s, m, "/", "/")
      BY <2>0, <2>2, <3>2, SkipCases
    <3>3. CASE Peek(s, m) \notin Space /\ ~Pair(s, m, "/", "/")
      <4>1. Pair(s, m, "/", "*") /\ BlockEnd(s, m + 2) # 0
        BY <2>2, <3>3
      <4>2. SkipTurn(s, h, m) = h[BlockEnd(s, m + 2)]
        BY <2>0, <4>1, SkipCases
      <4> QED
        BY <2>2, <3>3, <4>2
    <3> QED
      BY <3>1, <3>2, <3>3
  <2>3. CASE m \notin A
    BY <2>0, <2>3, SkipCases
  <2> QED
    BY <2>2, <2>3
<1>6. F = [m \in S |-> SkipTurn(s, F, m)]
  <2> HIDE DEF A, next, out, S
  <2>1. \E h : h = [m \in S |-> SkipTurn(s, h, m)]
    BY <1>4, <1>5 DEF IsLoop
  <2> QED
    BY <2>1
<1>7. \A m \in S : F[m] = SkipTurn(s, F, m)
  <2> HIDE DEF F
  <2> QED
    BY <1>6
<1> QED
  BY <1>2, <1>7

\* Trivia ends inside the text; what it reports is at most one open comment,
\* and then it has eaten everything.
Open(s) == {Diag("lex-unterminated-comment", p) : p \in 1 .. Len(s)}

LEMMA SkipEnds ==
  ASSUME NEW s \in Text, NEW k \in 1 .. Len(s) + 1
  PROVE  SkipTrivia(s, k) \in [at : k .. Len(s) + 1, diags : {<<>>} \cup Open(s)]
<1>1. PICK f : /\ SkipTrivia(s, k) = f[k]
               /\ \A m \in k .. Len(s) + 1 : f[m] = SkipTurn(s, f, m)
  BY SkipLoop
<1>2. Len(s) \in Nat
  BY TextLen
<1> DEFINE P == k .. Len(s) + 1
           Result == [at : P, diags : {<<>>} \cup Open(s)]
           Good == {m \in P : f[m] \in Result}
<1>3. ASSUME NEW m \in P, \A l \in m + 1 .. Len(s) + 1 : l \in Good PROVE m \in Good
  <2> HIDE DEF Result
  <2>0. m \in Int /\ m \in 1 .. Len(s) + 1 /\ f[m] = SkipTurn(s, f, m)
    BY <1>1, <1>2
  <2>1. CASE Peek(s, m) \in Space
    <3>1. m + 1 \in m + 1 .. Len(s) + 1
      BY <2>0, <2>1, PieceEnds
    <3>2. f[m] = f[m + 1]
      BY <2>0, <2>1, SkipCases
    <3> QED
      BY <1>3, <3>1, <3>2
  <2>2. CASE Pair(s, m, "/", "/")
    <3> DEFINE e == RunEnd(s, m + 2, {s[b] : b \in DOMAIN s} \ {"\n"})
    <3>1. e \in m + 2 .. Len(s) + 1
      BY <2>0, <2>2, PieceEnds
    <3>2. f[m] = f[e]
      BY <2>0, <2>2, SkipCases
    <3>3. e \in m + 1 .. Len(s) + 1
      <4> HIDE DEF e
      <4> QED
        BY <1>2, <2>0, <3>1
    <3> QED
      BY <1>3, <3>2, <3>3
  <2>3. CASE Pair(s, m, "/", "*") /\ BlockEnd(s, m + 2) # 0
    <3>1. BlockEnd(s, m + 2) \in m + 2 .. Len(s) + 1
      BY <2>0, <2>3, PieceEnds
    <3>2. f[m] = f[BlockEnd(s, m + 2)]
      BY <2>0, <2>3, SkipCases
    <3>3. BlockEnd(s, m + 2) \in m + 1 .. Len(s) + 1
      BY <1>2, <2>0, <3>1
    <3> QED
      BY <1>3, <3>2, <3>3
  <2>4. CASE Pair(s, m, "/", "*") /\ BlockEnd(s, m + 2) = 0
    <3>1. f[m] = [at |-> Len(s) + 1, diags |-> Diag("lex-unterminated-comment", m)]
      BY <2>0, <2>4, SkipCases
    <3>2. Len(s) + 1 \in P
      BY <1>2
    <3>3. m \in 1 .. Len(s)
      <4>1. m + 1 <= Len(s)
        BY <2>0, <2>4, PairIn
      <4> QED
        BY <1>2, <2>0, <4>1
    <3>4. Diag("lex-unterminated-comment", m) \in Open(s)
      BY <3>3 DEF Open
    <3> HIDE DEF P
    <3> QED
      BY <3>1, <3>2, <3>4 DEF Result
  <2>5. CASE Peek(s, m) \notin Space /\ ~Pair(s, m, "/", "/") /\ ~Pair(s, m, "/", "*")
    <3>1. f[m] = [at |-> m, diags |-> <<>>]
      BY <2>0, <2>5, SkipCases
    <3> QED
      BY <3>1 DEF Result
  <2> QED
    BY <2>1, <2>2, <2>3, <2>4, <2>5
<1>4. \A m \in P : m \in Good
  <2>1. k \in Int /\ Len(s) + 1 \in Int
    BY <1>2
  <2> HIDE DEF Good
  <2> QED
    BY <2>1, <1>3, Downward
<1>5. k \in P
  BY <1>2
<1>6. k \in Good
  BY <1>4, <1>5
<1> QED
  BY <1>1, <1>6
-----------------------------------------------------------------------------
(***************************************************************************)
(* Diagnostics, and what each scan function returns.                       *)
(***************************************************************************)
LEMMA Reported ==
  /\ <<>> \in Reports
  /\ \A rule \in Rules, k \in Nat : Diag(rule, k) \in Reports
  /\ \A x \in Reports, y \in Reports : x \o y \in Reports
<1> DEFINE R == [rule : Rules, at : Nat]
<1>1. Reports = Seq(R)
  BY DEF Reports
<1>2. ASSUME NEW rule \in Rules, NEW k \in Nat PROVE Diag(rule, k) \in Reports
  <2> DEFINE e == [rule |-> rule, at |-> k]
  <2>1. e \in R
    OBVIOUS
  <2>2. <<e>> \in Seq(R)
    <3> HIDE DEF e, R
    <3> QED
      BY <2>1
  <2> QED
    BY <1>1, <2>2 DEF Diag
<1>3. <<>> \in Seq(R) /\ \A x \in Seq(R), y \in Seq(R) : x \o y \in Seq(R)
  <2> HIDE DEF R
  <2> QED
    OBVIOUS
<1> QED
  BY <1>1, <1>2, <1>3

LEMMA FlaggedBy ==
  ASSUME NEW rule, NEW k
  PROVE  /\ Flagged(<<>>) = {}
         /\ rule = "exponent-float-literal" => Flagged(Diag(rule, k)) = {k}
         /\ rule # "exponent-float-literal" => Flagged(Diag(rule, k)) = {}
<1>1. Flagged(<<>>) = {}
  BY DEF Flagged
<1>2. DOMAIN Diag(rule, k) = {1} /\ Diag(rule, k)[1].rule = rule /\ Diag(rule, k)[1].at = k
  BY DEF Diag
<1>3. Flagged(Diag(rule, k)) = {Diag(rule, k)[d].at : d \in {n \in {1} : rule = "exponent-float-literal"}}
  BY <1>2 DEF Flagged
<1> QED
  BY <1>1, <1>2, <1>3

LEMMA FlaggedBoth ==
  ASSUME NEW x \in Reports, NEW y \in Reports
  PROVE  Flagged(x \o y) = Flagged(x) \cup Flagged(y)
<1>1. /\ x \in Seq([rule : Rules, at : Nat]) /\ y \in Seq([rule : Rules, at : Nat])
      /\ DOMAIN x = 1 .. Len(x) /\ DOMAIN y = 1 .. Len(y) /\ Len(x) \in Nat /\ Len(y) \in Nat
      /\ DOMAIN (x \o y) = 1 .. Len(x) + Len(y)
  BY DEF Reports
<1>2. \A n \in 1 .. Len(x) : (x \o y)[n] = x[n]
  BY <1>1
<1>3. \A n \in 1 .. Len(y) : (x \o y)[Len(x) + n] = y[n]
  BY <1>1
<1>4. ASSUME NEW a \in Flagged(x \o y) PROVE a \in Flagged(x) \cup Flagged(y)
  <2>1. PICK n \in 1 .. Len(x) + Len(y) :
          (x \o y)[n].rule = "exponent-float-literal" /\ (x \o y)[n].at = a
    BY <1>1, <1>4 DEF Flagged
  <2>2. CASE n <= Len(x)
    <3>1. n \in DOMAIN x /\ x[n] = (x \o y)[n]
      BY <1>1, <1>2, <2>2
    <3> QED
      BY <2>1, <3>1 DEF Flagged
  <2>3. CASE n > Len(x)
    <3>1. n - Len(x) \in DOMAIN y /\ Len(x) + (n - Len(x)) = n
      BY <1>1, <2>3
    <3>2. y[n - Len(x)] = (x \o y)[n]
      BY <1>1, <1>3, <3>1
    <3> QED
      BY <2>1, <3>1, <3>2 DEF Flagged
  <2> QED
    BY <1>1, <2>2, <2>3
<1>5. ASSUME NEW a \in Flagged(x) PROVE a \in Flagged(x \o y)
  <2>1. PICK n \in 1 .. Len(x) : x[n].rule = "exponent-float-literal" /\ x[n].at = a
    BY <1>1, <1>5 DEF Flagged
  <2>2. n \in DOMAIN (x \o y) /\ (x \o y)[n] = x[n]
    BY <1>1, <1>2
  <2> QED
    BY <2>1, <2>2 DEF Flagged
<1>6. ASSUME NEW a \in Flagged(y) PROVE a \in Flagged(x \o y)
  <2>1. PICK n \in 1 .. Len(y) : y[n].rule = "exponent-float-literal" /\ y[n].at = a
    BY <1>1, <1>6 DEF Flagged
  <2>2. Len(x) + n \in DOMAIN (x \o y) /\ (x \o y)[Len(x) + n] = y[n]
    BY <1>1, <1>3
  <2> QED
    BY <2>1, <2>2 DEF Flagged
<1> QED
  BY <1>4, <1>5, <1>6

\* An exponent is flagged at a place if the diagnostic is there.
LEMMA FlaggedIs ==
  ASSUME NEW ds \in Reports, NEW a
  PROVE  a \in Flagged(ds) <=> \E d \in DOMAIN ds : ds[d] = [rule |-> "exponent-float-literal", at |-> a]
<1> DEFINE R == [rule : Rules, at : Nat]
<1>1. \A d \in DOMAIN ds : ds[d] \in R
  <2>1. ds \in Seq(R)
    BY DEF Reports
  <2> HIDE DEF R
  <2> QED
    BY <2>1
<1>2. ASSUME a \in Flagged(ds)
      PROVE  \E d \in DOMAIN ds : ds[d] = [rule |-> "exponent-float-literal", at |-> a]
  <2>1. PICK d \in DOMAIN ds : ds[d].rule = "exponent-float-literal" /\ ds[d].at = a
    BY <1>2 DEF Flagged
  <2>2. ds[d] = [rule |-> ds[d].rule, at |-> ds[d].at]
    BY <1>1
  <2> QED
    BY <2>1, <2>2
<1>3. ASSUME NEW d \in DOMAIN ds, ds[d] = [rule |-> "exponent-float-literal", at |-> a]
      PROVE  a \in Flagged(ds)
  BY <1>3 DEF Flagged
<1> QED
  BY <1>2, <1>3

\* What a scan at k returns that says nothing of exponents: it takes a byte or more.
Silent == {ds \in Reports : Flagged(ds) = {}}

Plain(s, k, kinds) == [kind : kinds, end : k + 1 .. Len(s) + 1, diags : Silent]

LEMMA SilentReports ==
  /\ <<>> \in Silent
  /\ \A rule \in Rules \ {"exponent-float-literal"}, k \in Nat : Diag(rule, k) \in Silent
  /\ \A x \in Silent, y \in Silent : x \o y \in Silent
BY Reported, FlaggedBy, FlaggedBoth DEF Silent

LEMMA ScannedIn ==
  ASSUME NEW s, NEW k, NEW kinds, NEW kind \in kinds, NEW end \in k + 1 .. Len(s) + 1,
         NEW ds \in Silent
  PROVE  Scanned(kind, end, ds) \in Plain(s, k, kinds)
BY DEF Scanned, Plain

\* A run that starts with a byte of the set takes it.
LEMMA RunTakes ==
  ASSUME NEW s \in Text, NEW C, NEW k \in 1 .. Len(s), s[k] \in C
  PROVE  RunEnd(s, k, C) \in k + 1 .. Len(s) + 1
<1>1. Len(s) \in Nat /\ k \in 1 .. Len(s) + 1
  BY TextLen
<1>2. RunEnd(s, k, C) \in k .. Len(s) + 1 /\ (RunEnd(s, k, C) = Len(s) + 1 \/ s[RunEnd(s, k, C)] \notin C)
  BY <1>1, RunEnds
<1>3. RunEnd(s, k, C) # k
  BY <1>1, <1>2
<1> QED
  BY <1>1, <1>2, <1>3

LEMMA IdentScanned ==
  ASSUME NEW s \in Text, NEW k \in 1 .. Len(s), s[k] \in Alpha
  PROVE  ScanIdent(s, k) \in Plain(s, k, {"Ident", "EmptyIdent"})
<1> DEFINE end  == RunEnd(s, k, Alnum)
           long == end - k > STR_LEN
           name == SubSeq(s, k, IF long THEN k + STR_LEN ELSE end - 1)
           utf8 == name[Len(name)] # "H1"
           ds   == (IF long THEN Diag("lex-ident-too-long", k) ELSE <<>>)
                     \o (IF utf8 THEN <<>> ELSE Diag("lex-ident-non-utf8", k))
<1>1. end \in k + 1 .. Len(s) + 1
  BY RunTakes DEF Alnum
<1>2. ds \in Silent
  <2> HIDE DEF long, utf8
  <2>1. k \in Nat
    BY TextLen
  <2> QED
    BY <2>1, SilentReports DEF Rules
<1>3. ScanIdent(s, k) = Scanned(IF utf8 THEN "Ident" ELSE "EmptyIdent", end, ds)
  BY DEF ScanIdent
<1>4. (IF utf8 THEN "Ident" ELSE "EmptyIdent") \in {"Ident", "EmptyIdent"}
  <2> HIDE DEF utf8
  <2> QED
    OBVIOUS
<1> HIDE DEF utf8, end, ds
<1> QED
  BY <1>1, <1>2, <1>3, <1>4, ScannedIn

LEMMA PrefixedScanned ==
  ASSUME NEW s \in Text, NEW k \in 1 .. Len(s), k + 1 <= Len(s), NEW digits,
         NEW rule \in {"lex-bad-hex", "lex-bad-binary"}
  PROVE  ScanPrefixed(s, k, digits, rule) \in Plain(s, k, {"IntLit"})
<1> DEFINE end == RunEnd(s, k + 2, digits)
           ds  == IF end = k + 2 THEN Diag(rule, k) ELSE <<>>
<1>0. Len(s) \in Nat /\ k \in Nat
  BY TextLen
<1>1. k + 2 \in 1 .. Len(s) + 1
  BY <1>0
<1>2. end \in k + 2 .. Len(s) + 1
  BY <1>1, RunEnds
<1>3. end \in k + 1 .. Len(s) + 1
  <2> HIDE DEF end
  <2> QED
    BY <1>0, <1>2
<1>4. ds \in Silent
  <2> HIDE DEF end
  <2> QED
    BY <1>0, SilentReports DEF Rules
<1>5. ScanPrefixed(s, k, digits, rule) = Scanned("IntLit", end, ds)
  BY DEF ScanPrefixed
<1> HIDE DEF end, ds
<1> QED
  BY <1>3, <1>4, <1>5, ScannedIn

LEMMA QuotesScanned ==
  ASSUME NEW s \in Text, NEW k \in 1 .. Len(s)
  PROVE  /\ ScanString(s, k) \in Plain(s, k, {"StrLit"})
         /\ ScanChar(s, k) \in Plain(s, k, {"CharLit"})
<1>1. k \in Nat
  BY TextLen
<1>2. {<<>>, Diag("lex-unterminated-string", k), Diag("lex-unterminated-char", k),
       Diag("lex-char-too-long", k)} \subseteq Silent
  BY <1>1, SilentReports DEF Rules
<1>3. ScanString(s, k) \in Plain(s, k, {"StrLit"})
  BY <1>2, StringScanned DEF Plain
<1>4. ScanChar(s, k) \in Plain(s, k, {"CharLit"})
  BY <1>2, CharScanned DEF Plain
<1> QED
  BY <1>3, <1>4

LEMMA ByteScanned ==
  ASSUME NEW s \in Text, NEW k \in 1 .. Len(s)
  PROVE  OneByte(s, k) \in Plain(s, k, {"Hash", "At", "Backtick"})
<1>1. k + 1 \in k + 1 .. Len(s) + 1
  BY TextLen
<1>2. (CASE s[k] = "#" -> "Hash" [] s[k] = "@" -> "At" [] OTHER -> "Backtick")
        \in {"Hash", "At", "Backtick"}
  OBVIOUS
<1> QED
  BY <1>1, <1>2, SilentReports, ScannedIn DEF OneByte
-----------------------------------------------------------------------------
(***************************************************************************)
(* Punctuation: the table of spellings, and maximal munch.                 *)
(***************************************************************************)
Ops == {";", ",", "(", ")", "{", "}", "[", "]", "~", "?", "!", "=", ":", "+",
        "-", "*", "/", "%", "&", "|", "^", "<", ">"}
Rare == {"ShlEq", "ShrEq", "Dot", "DotDot", "Ellipsis", "Backtick", "At", "Hash"}
LongKinds == {"Ident", "EmptyIdent", "IntLit", "FloatLit", "StrLit", "CharLit", "Eof"}

LEMMA SingleIs ==
  /\ Single[";"] = "Semicolon" /\ Single[","] = "Comma" /\ Single["("] = "LParen"
  /\ Single[")"] = "RParen" /\ Single["{"] = "LBrace" /\ Single["}"] = "RBrace"
  /\ Single["["] = "LBracket" /\ Single["]"] = "RBracket" /\ Single["~"] = "Tilde"
  /\ Single["?"] = "Question" /\ Single["!"] = "Bang" /\ Single["="] = "Eq"
  /\ Single[":"] = "Colon" /\ Single["+"] = "Plus" /\ Single["-"] = "Minus"
  /\ Single["*"] = "Star" /\ Single["/"] = "Slash" /\ Single["%"] = "Percent"
  /\ Single["&"] = "Amp" /\ Single["|"] = "Pipe" /\ Single["^"] = "Caret"
  /\ Single["<"] = "Lt" /\ Single[">"] = "Gt"
<1>1. Single[";"] = "Semicolon" /\ Single[","] = "Comma" /\ Single["("] = "LParen"
  BY DEF Single
<1>2. Single[")"] = "RParen" /\ Single["{"] = "LBrace" /\ Single["}"] = "RBrace"
  BY DEF Single
<1>3. Single["["] = "LBracket" /\ Single["]"] = "RBracket" /\ Single["~"] = "Tilde"
  BY DEF Single
<1>4. Single["?"] = "Question" /\ Single["!"] = "Bang" /\ Single["="] = "Eq"
  BY DEF Single
<1>5. Single[":"] = "Colon" /\ Single["+"] = "Plus" /\ Single["-"] = "Minus"
  BY DEF Single
<1>6. Single["*"] = "Star" /\ Single["/"] = "Slash" /\ Single["%"] = "Percent"
  BY DEF Single
<1>7. Single["&"] = "Amp" /\ Single["|"] = "Pipe" /\ Single["^"] = "Caret"
  BY DEF Single
<1>8. Single["<"] = "Lt" /\ Single[">"] = "Gt"
  BY DEF Single
<1> QED
  BY <1>1, <1>2, <1>3, <1>4, <1>5, <1>6, <1>7, <1>8

LEMMA SingleOf ==
  /\ DOMAIN Single = Ops
  /\ \A b \in Ops, c \in Ops : Single[b] = Single[c] => b = c
  /\ \A b \in Ops, d \in Dual : Single[b] # d[3]
  /\ \A b \in Ops : Single[b] \notin Rare
  /\ \A b \in Ops : Single[b] \notin LongKinds
<1>0. DOMAIN Single = Ops
  BY DEF Single, Ops
<1>1. ASSUME NEW b \in Ops, NEW c \in Ops, Single[b] = Single[c] PROVE b = c
  <2>1. CASE b \in {";", ",", "("}
    BY <1>1, <2>1, SingleIs DEF Ops
  <2>2. CASE b \in {")", "{", "}"}
    BY <1>1, <2>2, SingleIs DEF Ops
  <2>3. CASE b \in {"[", "]", "~"}
    BY <1>1, <2>3, SingleIs DEF Ops
  <2>4. CASE b \in {"?", "!", "="}
    BY <1>1, <2>4, SingleIs DEF Ops
  <2>5. CASE b \in {":", "+", "-"}
    BY <1>1, <2>5, SingleIs DEF Ops
  <2>6. CASE b \in {"*", "/", "%"}
    BY <1>1, <2>6, SingleIs DEF Ops
  <2>7. CASE b \in {"&", "|", "^"}
    BY <1>1, <2>7, SingleIs DEF Ops
  <2>8. CASE b \in {"<", ">"}
    BY <1>1, <2>8, SingleIs DEF Ops
  <2> QED
    BY <2>1, <2>2, <2>3, <2>4, <2>5, <2>6, <2>7, <2>8 DEF Ops
<1> DEFINE Names == {"Semicolon", "Comma", "LParen", "RParen", "LBrace", "RBrace", "LBracket",
                     "RBracket", "Tilde", "Question", "Bang", "Eq", "Colon", "Plus", "Minus",
                     "Star", "Slash", "Percent", "Amp", "Pipe", "Caret", "Lt", "Gt"}
<1>2. ASSUME NEW b \in Ops, NEW d \in Dual PROVE Single[b] # d[3]
  <2>1. Single[b] \in Names
    BY SingleIs DEF Ops
  <2>2. d[3] \notin Names
    BY DEF Dual
  <2> HIDE DEF Names
  <2> QED
    BY <2>1, <2>2
<1>3. \A b \in Ops : Single[b] \notin Rare
  BY SingleIs DEF Ops, Rare
<1>4. \A b \in Ops : Single[b] \notin LongKinds
  BY SingleIs DEF Ops, LongKinds
<1> QED
  BY <1>0, <1>1, <1>2, <1>3, <1>4

LEMMA DualOf ==
  /\ \A d \in Dual, e \in Dual : d[3] = e[3] => d[1] = e[1] /\ d[2] = e[2]
  /\ \A d \in Dual : d[1] \in Ops /\ d[2] # "" /\ d[1] # "." /\ d[3] \notin Rare
  /\ \A d \in Dual : d[3] \notin LongKinds
  /\ \A d \in Dual : d[1] = "<" /\ d[2] = "<" => d[3] = "Shl"
  /\ \A d \in Dual : d[1] = ">" /\ d[2] = ">" => d[3] = "Shr"
  /\ \A d \in Dual : d[3] = "Shl" => d[1] = "<" /\ d[2] = "<"
  /\ \A d \in Dual : d[3] = "Shr" => d[1] = ">" /\ d[2] = ">"
<1>1. ASSUME NEW d \in Dual, NEW e \in Dual, d[3] = e[3] PROVE d[1] = e[1] /\ d[2] = e[2]
  BY <1>1 DEF Dual
<1>2. ASSUME NEW d \in Dual
      PROVE  /\ d[1] \in Ops /\ d[2] # "" /\ d[1] # "." /\ d[3] \notin Rare
             /\ d[3] \notin LongKinds
  <2>1. d[1] \in {"!", "=", ":", "+", "-", "*", "/", "%", "&", "|", "^", "<", ">"}
    BY DEF Dual
  <2>2. d[2] \in {"=", ":", "+", ">", "-", "&", "|", "^", "<"}
    BY DEF Dual
  <2>3. d[3] \notin Rare
    BY DEF Dual, Rare
  <2>4. d[3] \notin LongKinds
    BY DEF Dual, LongKinds
  <2>5. d[1] \in Ops
    BY <2>1 DEF Ops
  <2>6. d[1] # "."
    BY <2>1
  <2>7. d[2] # ""
    BY <2>2
  <2> QED
    BY <2>3, <2>4, <2>5, <2>6, <2>7
<1>3. ASSUME NEW d \in Dual, d[1] = "<", d[2] = "<" PROVE d[3] = "Shl"
  BY <1>3 DEF Dual
<1>4. ASSUME NEW d \in Dual, d[1] = ">", d[2] = ">" PROVE d[3] = "Shr"
  BY <1>4 DEF Dual
<1>5. ASSUME NEW d \in Dual, d[3] = "Shl" PROVE d[1] = "<" /\ d[2] = "<"
  BY <1>5 DEF Dual
<1>6. ASSUME NEW d \in Dual, d[3] = "Shr" PROVE d[1] = ">" /\ d[2] = ">"
  BY <1>6 DEF Dual
<1> QED
  BY <1>1, <1>2, <1>3, <1>4, <1>5, <1>6

\* The rows of the table.
LEMMA SpellingRows ==
  ASSUME NEW sp \in Spelling
  PROVE  \/ \E b \in Ops : sp[1] = Single[b] /\ sp[2] = <<b>>
         \/ \E d \in Dual : sp[1] = d[3] /\ sp[2] = <<d[1], d[2]>>
         \/ sp[1] = "ShlEq" /\ sp[2] = <<"<", "<", "=">>
         \/ sp[1] = "ShrEq" /\ sp[2] = <<">", ">", "=">>
         \/ sp[1] = "Dot" /\ sp[2] = <<".">>
         \/ sp[1] = "DotDot" /\ sp[2] = <<".", ".">>
         \/ sp[1] = "Ellipsis" /\ sp[2] = <<".", ".", ".">>
         \/ sp[1] = "Backtick" /\ sp[2] = <<"BT">>
         \/ sp[1] = "At" /\ sp[2] = <<"@">>
         \/ sp[1] = "Hash" /\ sp[2] = <<"#">>
<1>1. CASE sp \in {<<Single[b], <<b>>>> : b \in DOMAIN Single}
  BY <1>1, SingleOf
<1>2. CASE sp \in {<<d[3], <<d[1], d[2]>>>> : d \in Dual}
  BY <1>2
<1>3. CASE sp \in {<<"ShlEq", <<"<", "<", "=">>>>, <<"ShrEq", <<">", ">", "=">>>>,
                   <<"Dot", <<".">>>>, <<"DotDot", <<".", ".">>>>, <<"Ellipsis", <<".", ".", ".">>>>,
                   <<"Backtick", <<"BT">>>>, <<"At", <<"@">>>>, <<"Hash", <<"#">>>>}
  BY <1>3
<1> QED
  BY <1>1, <1>2, <1>3 DEF Spelling

\* A kind has one spelling.
LEMMA SpellingOf ==
  ASSUME NEW sp \in Spelling
  PROVE  /\ \A b \in Ops : sp[1] = Single[b] => sp[2] = <<b>>
         /\ \A d \in Dual : sp[1] = d[3] => sp[2] = <<d[1], d[2]>>
         /\ sp[1] = "ShlEq" => sp[2] = <<"<", "<", "=">>
         /\ sp[1] = "ShrEq" => sp[2] = <<">", ">", "=">>
         /\ sp[1] = "Dot" => sp[2] = <<".">>
         /\ sp[1] = "DotDot" => sp[2] = <<".", ".">>
         /\ sp[1] = "Ellipsis" => sp[2] = <<".", ".", ".">>
         /\ sp[1] = "Backtick" => sp[2] = <<"BT">>
         /\ sp[1] = "At" => sp[2] = <<"@">>
         /\ sp[1] = "Hash" => sp[2] = <<"#">>
<1>1. CASE \E b \in Ops : sp[1] = Single[b] /\ sp[2] = <<b>>
  BY <1>1, SingleOf DEF Rare
<1>2. CASE \E d \in Dual : sp[1] = d[3] /\ sp[2] = <<d[1], d[2]>>
  <2>1. PICK d \in Dual : sp[1] = d[3] /\ sp[2] = <<d[1], d[2]>>
    BY <1>2
  <2>2. \A b \in Ops : sp[1] # Single[b]
    BY <2>1, SingleOf
  <2>3. \A e \in Dual : sp[1] = e[3] => sp[2] = <<e[1], e[2]>>
    BY <2>1, DualOf
  <2>4. sp[1] \notin Rare
    BY <2>1, DualOf
  <2> QED
    BY <2>2, <2>3, <2>4 DEF Rare
<1>3. ASSUME sp[1] \in Rare
      PROVE  /\ \A b \in Ops : sp[1] # Single[b]
             /\ \A d \in Dual : sp[1] # d[3]
  BY <1>3, SingleOf, DualOf
<1>4. CASE /\ ~\E b \in Ops : sp[1] = Single[b] /\ sp[2] = <<b>>
           /\ ~\E d \in Dual : sp[1] = d[3] /\ sp[2] = <<d[1], d[2]>>
  <2>1. sp[1] \in Rare
    BY <1>4, SpellingRows DEF Rare
  <2> QED
    BY <1>3, <1>4, <2>1, SpellingRows
<1> QED
  BY <1>1, <1>2, <1>4

LEMMA ShortSequences ==
  ASSUME NEW S, NEW s \in Seq(S)
  PROVE  /\ Len(s) = 1 => s = <<s[1]>>
         /\ Len(s) = 2 => s = <<s[1], s[2]>>
         /\ Len(s) = 3 => s = <<s[1], s[2], s[3]>>
<1>1. ASSUME Len(s) = 1 PROVE s = <<s[1]>>
  BY <1>1
<1>2. ASSUME Len(s) = 2 PROVE s = <<s[1], s[2]>>
  BY <1>2
<1>3. ASSUME Len(s) = 3 PROVE s = <<s[1], s[2], s[3]>>
  BY <1>3
<1> QED
  BY <1>1, <1>2, <1>3

LEMMA PartOf ==
  ASSUME NEW S, NEW s \in Seq(S), NEW k \in 1 .. Len(s), NEW e \in k .. Len(s)
  PROVE  /\ SubSeq(s, k, e) \in Seq(S)
         /\ Len(SubSeq(s, k, e)) = e - k + 1
         /\ \A n \in 1 .. e - k + 1 : SubSeq(s, k, e)[n] = s[k + n - 1]
OBVIOUS

\* The bytes at a place are those that Peek shows there.
LEMMA BytesAre ==
  ASSUME src \in Text, NEW k \in 1 .. Len(src)
  PROVE  /\ Bytes(k, k + 1) = <<src[k]>>
         /\ k + 1 <= Len(src) => Bytes(k, k + 2) = <<src[k], src[k + 1]>>
         /\ k + 2 <= Len(src) => Bytes(k, k + 3) = <<src[k], src[k + 1], src[k + 2]>>
         /\ Len(Bytes(k, k + 2)) = 2 => k + 1 <= Len(src)
         /\ Len(Bytes(k, k + 3)) = 3 => k + 2 <= Len(src)
<1>1. Len(src) \in Nat /\ src \in Seq(Byte)
  BY TextLen
<1>2. Bytes(k, k + 1) = SubSeq(src, k, k)
  BY <1>1 DEF Bytes
<1>3. k + 1 <= Len(src) => Bytes(k, k + 2) = SubSeq(src, k, k + 1)
  BY <1>1 DEF Bytes
<1>4. k + 2 <= Len(src) => Bytes(k, k + 3) = SubSeq(src, k, k + 2)
  BY <1>1 DEF Bytes
<1>5. k + 1 > Len(src) => Bytes(k, k + 2) = SubSeq(src, k, k) /\ Bytes(k, k + 3) = SubSeq(src, k, k)
  BY <1>1 DEF Bytes
<1>6. k + 1 <= Len(src) /\ k + 2 > Len(src) => Bytes(k, k + 3) = SubSeq(src, k, k + 1)
  BY <1>1 DEF Bytes
<1>7. SubSeq(src, k, k) = <<src[k]>>
  <2> DEFINE b == SubSeq(src, k, k)
  <2>1. b \in Seq(Byte) /\ Len(b) = 1 /\ b[1] = src[k]
    BY <1>1, PartOf
  <2>2. b = <<src[k]>>
    <3> HIDE DEF b
    <3> QED
      BY <2>1, ShortSequences
  <2> QED
    BY <2>2
<1>8. ASSUME k + 1 <= Len(src) PROVE SubSeq(src, k, k + 1) = <<src[k], src[k + 1]>>
  <2> DEFINE b == SubSeq(src, k, k + 1)
  <2>1. b \in Seq(Byte) /\ Len(b) = 2 /\ b[1] = src[k] /\ b[2] = src[k + 1]
    <3>1. k + 1 \in k .. Len(src)
      BY <1>1, <1>8
    <3> QED
      BY <1>1, <3>1, PartOf
  <2>2. b = <<src[k], src[k + 1]>>
    <3> HIDE DEF b
    <3> QED
      BY <2>1, ShortSequences
  <2> QED
    BY <2>2
<1>9. ASSUME k + 2 <= Len(src) PROVE SubSeq(src, k, k + 2) = <<src[k], src[k + 1], src[k + 2]>>
  <2> DEFINE b == SubSeq(src, k, k + 2)
  <2>1. /\ b \in Seq(Byte) /\ Len(b) = 3
        /\ b[1] = src[k] /\ b[2] = src[k + 1] /\ b[3] = src[k + 2]
    <3>1. k + 2 \in k .. Len(src)
      BY <1>1, <1>9
    <3> QED
      BY <1>1, <3>1, PartOf
  <2>2. b = <<src[k], src[k + 1], src[k + 2]>>
    <3> HIDE DEF b
    <3> QED
      BY <2>1, ShortSequences
  <2> QED
    BY <2>2
<1>10. ASSUME k + 1 > Len(src) PROVE Len(Bytes(k, k + 2)) # 2 /\ Len(Bytes(k, k + 3)) # 3
  <2>1. Bytes(k, k + 2) = <<src[k]>> /\ Bytes(k, k + 3) = <<src[k]>>
    BY <1>5, <1>7, <1>10
  <2>2. Len(<<src[k]>>) = 1
    OBVIOUS
  <2> HIDE DEF Bytes
  <2> QED
    BY <2>1, <2>2
<1>11. ASSUME k + 1 <= Len(src), k + 2 > Len(src) PROVE Len(Bytes(k, k + 3)) # 3
  <2> DEFINE b == <<src[k], src[k + 1]>>
  <2>1. Bytes(k, k + 3) = b
    BY <1>6, <1>8, <1>11
  <2>2. Len(b) = 2
    OBVIOUS
  <2> HIDE DEF b
  <2>3. Len(Bytes(k, k + 3)) = 2
    BY <2>1, <2>2
  <2>4. \A n : n = 2 => n # 3
    OBVIOUS
  <2> QED
    BY <2>3, <2>4
<1>12. Bytes(k, k + 1) = <<src[k]>>
  BY <1>2, <1>7
<1>13. k + 1 <= Len(src) => Bytes(k, k + 2) = <<src[k], src[k + 1]>>
  BY <1>3, <1>8
<1>14. k + 2 <= Len(src) => Bytes(k, k + 3) = <<src[k], src[k + 1], src[k + 2]>>
  BY <1>4, <1>9
<1>15. /\ Len(Bytes(k, k + 2)) = 2 => k + 1 <= Len(src)
       /\ Len(Bytes(k, k + 3)) = 3 => k + 2 <= Len(src)
  BY <1>1, <1>10, <1>11
<1> QED
  BY <1>12, <1>13, <1>14, <1>15

LEMMA BytesMatch ==
  ASSUME src \in Text, NEW k \in 1 .. Len(src), NEW x, NEW y, NEW z
  PROVE  /\ Bytes(k, k + 1) = <<x>> <=> src[k] = x
         /\ Bytes(k, k + 2) = <<x, y>> => src[k] = x /\ k + 1 <= Len(src) /\ Peek(src, k + 1) = y
         /\ Bytes(k, k + 3) = <<x, y, z>> =>
              src[k] = x /\ k + 2 <= Len(src) /\ Peek(src, k + 1) = y /\ Peek(src, k + 2) = z
<1>1. Len(src) \in Nat
  BY TextLen
<1>2. ASSUME k + 1 <= Len(src) PROVE Peek(src, k + 1) = src[k + 1]
  <2>1. k + 1 \in 1 .. Len(src)
    BY <1>1, <1>2
  <2> QED
    BY <2>1, PeekIn
<1>3. ASSUME k + 2 <= Len(src) PROVE Peek(src, k + 2) = src[k + 2]
  <2>1. k + 2 \in 1 .. Len(src)
    BY <1>1, <1>3
  <2> QED
    BY <2>1, PeekIn
<1>4. Bytes(k, k + 1) = <<x>> <=> src[k] = x
  BY BytesAre
<1>5. ASSUME Bytes(k, k + 2) = <<x, y>>
      PROVE  src[k] = x /\ k + 1 <= Len(src) /\ Peek(src, k + 1) = y
  <2>1. k + 1 <= Len(src)
    <3>1. Len(Bytes(k, k + 2)) = 2
      BY <1>5
    <3> QED
      BY <3>1, BytesAre
  <2>2. <<x, y>> = <<src[k], src[k + 1]>>
    BY <1>5, <2>1, BytesAre
  <2> QED
    BY <1>2, <2>1, <2>2
<1>6. ASSUME Bytes(k, k + 3) = <<x, y, z>>
      PROVE  src[k] = x /\ k + 2 <= Len(src) /\ Peek(src, k + 1) = y /\ Peek(src, k + 2) = z
  <2>1. k + 2 <= Len(src)
    <3>1. Len(Bytes(k, k + 3)) = 3
      BY <1>6
    <3> QED
      BY <3>1, BytesAre
  <2>2. <<x, y, z>> = <<src[k], src[k + 1], src[k + 2]>>
    BY <1>6, <2>1, BytesAre
  <2>3. k + 1 <= Len(src)
    BY <1>1, <2>1
  <2> QED
    BY <1>2, <1>3, <2>1, <2>2, <2>3
<1> QED
  BY <1>4, <1>5, <1>6

\* What is there when a spelling of the table matches.
LEMMA Matches ==
  ASSUME src \in Text, NEW k \in 1 .. Len(src), NEW sp \in Spelling,
         Bytes(k, k + Len(sp[2])) = sp[2]
  PROVE  \/ Len(sp[2]) = 1
         \/ /\ Len(sp[2]) = 2
            /\ \/ \E d \in Dual : d[1] = src[k] /\ d[2] = Peek(src, k + 1)
               \/ src[k] = "." /\ Peek(src, k + 1) = "."
         \/ /\ Len(sp[2]) = 3
            /\ \/ src[k] = "<" /\ Peek(src, k + 1) = "<" /\ Peek(src, k + 2) = "="
               \/ src[k] = ">" /\ Peek(src, k + 1) = ">" /\ Peek(src, k + 2) = "="
               \/ src[k] = "." /\ Peek(src, k + 1) = "." /\ Peek(src, k + 2) = "."
<1>1. ASSUME NEW x, sp[2] = <<x>> PROVE Len(sp[2]) = 1
  <2>1. Len(<<x>>) = 1
    OBVIOUS
  <2> QED
    BY <1>1, <2>1
<1>2. ASSUME NEW x, NEW y, sp[2] = <<x, y>>
      PROVE  Len(sp[2]) = 2 /\ src[k] = x /\ Peek(src, k + 1) = y
  <2>1. Len(<<x, y>>) = 2
    OBVIOUS
  <2>2. Len(sp[2]) = 2
    BY <1>2, <2>1
  <2>3. Bytes(k, k + 2) = <<x, y>>
    BY <1>2, <2>2
  <2> QED
    BY <2>2, <2>3, BytesMatch
<1>3. ASSUME NEW x, NEW y, NEW z, sp[2] = <<x, y, z>>
      PROVE  Len(sp[2]) = 3 /\ src[k] = x /\ Peek(src, k + 1) = y /\ Peek(src, k + 2) = z
  <2>1. Len(<<x, y, z>>) = 3
    OBVIOUS
  <2>2. Len(sp[2]) = 3
    BY <1>3, <2>1
  <2>3. Bytes(k, k + 3) = <<x, y, z>>
    BY <1>3, <2>2
  <2> QED
    BY <2>2, <2>3, BytesMatch
<1>4. CASE sp[2] \in {<<b>> : b \in Ops \cup {".", "BT", "@", "#"}}
  BY <1>1, <1>4
<1>5. CASE \E d \in Dual : sp[2] = <<d[1], d[2]>>
  BY <1>2, <1>5
<1>6. CASE sp[2] = <<".", ".">>
  BY <1>2, <1>6
<1>7. CASE sp[2] = <<"<", "<", "=">>
  BY <1>3, <1>7
<1>8. CASE sp[2] = <<">", ">", "=">>
  BY <1>3, <1>8
<1>9. CASE sp[2] = <<".", ".", ".">>
  BY <1>3, <1>9
<1> QED
  BY <1>4, <1>5, <1>6, <1>7, <1>8, <1>9, SpellingRows

\* A token of this kind at k .. e-1 is spelled by its bytes, and no longer
\* spelling matches at k.
Munched(kind, k, e) ==
  \A sp \in Spelling :
     sp[1] = kind =>
       /\ Bytes(k, e) = sp[2]
       /\ \A other \in Spelling :
            Len(other[2]) > Len(sp[2]) => Bytes(k, k + Len(other[2])) # other[2]

\* Enough for that: the bytes, and that none of the longer spellings is there.
LEMMA MunchedBy ==
  ASSUME src \in Text, NEW k \in 1 .. Len(src), NEW e, NEW kind, NEW n \in 1 .. 3,
         \A sp \in Spelling : sp[1] = kind => Bytes(k, e) = sp[2] /\ Len(sp[2]) = n,
         n < 2 => /\ ~\E d \in Dual : d[1] = src[k] /\ d[2] = Peek(src, k + 1)
                  /\ ~(src[k] = "." /\ Peek(src, k + 1) = "."),
         n < 3 => /\ ~(src[k] = "<" /\ Peek(src, k + 1) = "<" /\ Peek(src, k + 2) = "=")
                  /\ ~(src[k] = ">" /\ Peek(src, k + 1) = ">" /\ Peek(src, k + 2) = "=")
                  /\ ~(src[k] = "." /\ Peek(src, k + 1) = "." /\ Peek(src, k + 2) = ".")
  PROVE  Munched(kind, k, e)
<1> SUFFICES ASSUME NEW sp \in Spelling, sp[1] = kind,
                    NEW other \in Spelling, Len(other[2]) > Len(sp[2]),
                    Bytes(k, k + Len(other[2])) = other[2]
             PROVE  FALSE
  BY DEF Munched
<1>1. Len(sp[2]) = n
  OBVIOUS
<1>2. CASE Len(other[2]) = 1
  BY <1>1, <1>2
<1>3. CASE Len(other[2]) = 2
  <2>1. n < 2
    BY <1>1, <1>3
  <2>2. Len(other[2]) # 1 /\ Len(other[2]) # 3
    BY <1>3
  <2> QED
    BY <2>1, <2>2, Matches
<1>4. CASE Len(other[2]) = 3
  <2>1. n < 3
    BY <1>1, <1>4
  <2>2. Len(other[2]) # 1 /\ Len(other[2]) # 2
    BY <1>4
  <2> QED
    BY <2>1, <2>2, Matches
<1> QED
  BY <1>2, <1>3, <1>4, Matches

\* What the last three scan functions return.
OpKinds == {Single[b] : b \in Ops} \cup {d[3] : d \in Dual} \cup Rare

LEMMA OpKindsAre == \A kind \in OpKinds : kind \notin LongKinds
<1>1. \A kind \in Rare : kind \notin LongKinds
  BY DEF Rare, LongKinds
<1>2. \A kind \in {Single[b] : b \in Ops} : kind \notin LongKinds
  BY SingleOf
<1>3. \A kind \in {d[3] : d \in Dual} : kind \notin LongKinds
  BY DualOf
<1> QED
  BY <1>1, <1>2, <1>3 DEF OpKinds

LEMMA PunctScanned ==
  ASSUME src \in Text, NEW k \in 1 .. Len(src)
  PROVE  /\ ScanPunct(src, k) \in Plain(src, k, OpKinds)
         /\ \/ ScanPunct(src, k).diags = Diag("lex-unknown-byte", k)
            \/ Munched(ScanPunct(src, k).kind, k, ScanPunct(src, k).end)
<1> DEFINE duals == {d \in Dual : d[1] = src[k] /\ d[2] = Peek(src, k + 1)}
           r == ScanPunct(src, k)
<1>0. Len(src) \in Nat /\ k \in Nat /\ k + 1 \in Int /\ k + 2 \in Int
  BY TextLen
<1>a. k + 1 \in k + 1 .. Len(src) + 1
  BY <1>0
<1>1. CASE src[k] \notin DOMAIN Single
  <2>1. \A d \in Dual : d[1] # src[k]
    BY <1>1, SingleOf, DualOf
  <2>2. r = Scanned("Bang", k + 1, Diag("lex-unknown-byte", k))
    BY <1>1 DEF ScanPunct
  <2>3. Diag("lex-unknown-byte", k) \in Silent
    BY <1>0, SilentReports DEF Rules
  <2>4. "Bang" \in OpKinds
    <3>1. Single["!"] = "Bang" /\ "!" \in Ops
      BY SingleIs DEF Ops
    <3> QED
      BY <3>1 DEF OpKinds
  <2>5. r \in Plain(src, k, OpKinds)
    BY <1>a, <2>2, <2>3, <2>4, ScannedIn
  <2>6. r.diags = Diag("lex-unknown-byte", k)
    BY <2>2 DEF Scanned
  <2> QED
    BY <2>5, <2>6
<1>2. CASE src[k] \in DOMAIN Single /\ duals = {}
  <2>1. r = Scanned(Single[src[k]], k + 1, <<>>)
    BY <1>2 DEF ScanPunct
  <2>2. src[k] \in Ops /\ Single[src[k]] \in OpKinds
    BY <1>2, SingleOf DEF OpKinds
  <2>3. r \in Plain(src, k, OpKinds)
    BY <1>a, <2>1, <2>2, ScannedIn, SilentReports
  <2>4. Munched(Single[src[k]], k, k + 1)
    <3>1. \A sp \in Spelling : sp[1] = Single[src[k]] => Bytes(k, k + 1) = sp[2] /\ Len(sp[2]) = 1
      <4> SUFFICES ASSUME NEW sp \in Spelling, sp[1] = Single[src[k]]
                   PROVE  Bytes(k, k + 1) = sp[2] /\ Len(sp[2]) = 1
        OBVIOUS
      <4>1. sp[2] = <<src[k]>>
        BY <2>2, SpellingOf
      <4>2. Len(<<src[k]>>) = 1
        OBVIOUS
      <4> QED
        BY <4>1, <4>2, BytesMatch
    <3>2. /\ ~\E d \in Dual : d[1] = src[k] /\ d[2] = Peek(src, k + 1)
          /\ src[k] # "."
      BY <1>2, <2>2 DEF Ops
    <3>3. /\ ~(src[k] = "<" /\ Peek(src, k + 1) = "<" /\ Peek(src, k + 2) = "=")
          /\ ~(src[k] = ">" /\ Peek(src, k + 1) = ">" /\ Peek(src, k + 2) = "=")
      <4>1. <<"<", "<", "Shl">> \in Dual /\ <<">", ">", "Shr">> \in Dual
        BY DEF Dual
      <4> QED
        BY <3>2, <4>1
    <3>4. 1 \in 1 .. 3
      OBVIOUS
    <3> QED
      BY <3>1, <3>2, <3>3, <3>4, MunchedBy
  <2> QED
    BY <2>1, <2>3, <2>4 DEF Scanned
<1>3. CASE src[k] \in DOMAIN Single /\ duals # {}
  <2> DEFINE d == CHOOSE x \in duals : TRUE
  <2>1. d \in Dual /\ d[1] = src[k] /\ d[2] = Peek(src, k + 1)
    BY <1>3
  <2>2. k + 1 \in 1 .. Len(src)
    BY <1>0, <2>1, DualOf, PeekHas
  <2>3. ASSUME Triple(src, k) PROVE k + 2 \in 1 .. Len(src)
    <3>1. Peek(src, k + 2) # ""
      BY <2>3 DEF Triple
    <3> QED
      BY <1>0, <3>1, PeekHas
  <2>4. Peek(src, k + 1) = src[k + 1]
    BY <2>2, PeekIn
  <2>5. d[3] \in OpKinds /\ "ShlEq" \in OpKinds /\ "ShrEq" \in OpKinds
    BY <2>1 DEF OpKinds, Rare
  <2>6. r = LET kind == d[3]
            IN  CASE kind = "Shl" /\ Triple(src, k) -> Scanned("ShlEq", k + 3, <<>>)
                  [] kind = "Shr" /\ Triple(src, k) -> Scanned("ShrEq", k + 3, <<>>)
                  [] OTHER -> Scanned(kind, k + 2, <<>>)
    BY <1>3 DEF ScanPunct
  <2> HIDE DEF d, r
  <2>7. CASE d[3] = "Shl" /\ Triple(src, k)
    <3>1. r = Scanned("ShlEq", k + 3, <<>>)
      BY <2>6, <2>7
    <3>2. k + 3 \in k + 1 .. Len(src) + 1
      BY <1>0, <2>3, <2>7
    <3>3. src[k] = "<" /\ src[k + 1] = "<" /\ src[k + 2] = "=" /\ k + 2 <= Len(src)
      <4>1. Peek(src, k + 2) = "="
        BY <2>7 DEF Triple
      <4>2. k + 2 \in 1 .. Len(src)
        BY <2>3, <2>7
      <4>3. src[k + 2] = "="
        BY <4>1, <4>2, PeekIn
      <4>4. d[1] = "<" /\ d[2] = "<"
        BY <2>1, <2>7, DualOf
      <4> QED
        BY <2>1, <2>4, <4>2, <4>3, <4>4
    <3>4. Bytes(k, k + 3) = <<"<", "<", "=">>
      BY <3>3, BytesAre
    <3>5. Munched("ShlEq", k, k + 3)
      <4>1. Len(<<"<", "<", "=">>) = 3
        OBVIOUS
      <4>2. \A sp \in Spelling : sp[1] = "ShlEq" => Bytes(k, k + 3) = sp[2] /\ Len(sp[2]) = 3
        BY <3>4, <4>1, SpellingOf
      <4>3. 3 \in 1 .. 3 /\ ~(3 < 2) /\ ~(3 < 3)
        OBVIOUS
      <4> QED
        BY <4>2, <4>3, MunchedBy
    <3>6. r \in Plain(src, k, OpKinds)
      BY <2>5, <3>1, <3>2, ScannedIn, SilentReports
    <3> QED
      BY <3>1, <3>5, <3>6 DEF Scanned, r
  <2>8. CASE d[3] = "Shr" /\ Triple(src, k)
    <3>1. r = Scanned("ShrEq", k + 3, <<>>)
      BY <2>6, <2>8
    <3>2. k + 3 \in k + 1 .. Len(src) + 1
      BY <1>0, <2>3, <2>8
    <3>3. src[k] = ">" /\ src[k + 1] = ">" /\ src[k + 2] = "=" /\ k + 2 <= Len(src)
      <4>1. Peek(src, k + 2) = "="
        BY <2>8 DEF Triple
      <4>2. k + 2 \in 1 .. Len(src)
        BY <2>3, <2>8
      <4>3. src[k + 2] = "="
        BY <4>1, <4>2, PeekIn
      <4>4. d[1] = ">" /\ d[2] = ">"
        BY <2>1, <2>8, DualOf
      <4> QED
        BY <2>1, <2>4, <4>2, <4>3, <4>4
    <3>4. Bytes(k, k + 3) = <<">", ">", "=">>
      BY <3>3, BytesAre
    <3>5. Munched("ShrEq", k, k + 3)
      <4>1. Len(<<">", ">", "=">>) = 3
        OBVIOUS
      <4>2. \A sp \in Spelling : sp[1] = "ShrEq" => Bytes(k, k + 3) = sp[2] /\ Len(sp[2]) = 3
        BY <3>4, <4>1, SpellingOf
      <4>3. 3 \in 1 .. 3 /\ ~(3 < 2) /\ ~(3 < 3)
        OBVIOUS
      <4> QED
        BY <4>2, <4>3, MunchedBy
    <3>6. r \in Plain(src, k, OpKinds)
      BY <2>5, <3>1, <3>2, ScannedIn, SilentReports
    <3> QED
      BY <3>1, <3>5, <3>6 DEF Scanned, r
  <2>9. CASE ~(d[3] = "Shl" /\ Triple(src, k)) /\ ~(d[3] = "Shr" /\ Triple(src, k))
    <3>1. r = Scanned(d[3], k + 2, <<>>)
      BY <2>6, <2>9
    <3>2. k + 2 \in k + 1 .. Len(src) + 1
      BY <1>0, <2>2
    <3>3. Bytes(k, k + 2) = <<d[1], d[2]>>
      BY <1>0, <2>1, <2>2, <2>4, BytesAre
    <3>4. Munched(d[3], k, k + 2)
      <4>1. Len(<<d[1], d[2]>>) = 2
        OBVIOUS
      <4>2. \A sp \in Spelling : sp[1] = d[3] => Bytes(k, k + 2) = sp[2] /\ Len(sp[2]) = 2
        BY <2>1, <3>3, <4>1, SpellingOf
      <4>3. 2 \in 1 .. 3 /\ ~(2 < 2)
        OBVIOUS
      <4>4. /\ ~(src[k] = "<" /\ Peek(src, k + 1) = "<" /\ Peek(src, k + 2) = "=")
            /\ ~(src[k] = ">" /\ Peek(src, k + 1) = ">" /\ Peek(src, k + 2) = "=")
            /\ src[k] # "."
        BY <2>1, <2>9, DualOf DEF Triple
      <4> QED
        BY <4>2, <4>3, <4>4, MunchedBy
    <3>5. r \in Plain(src, k, OpKinds)
      BY <2>5, <3>1, <3>2, ScannedIn, SilentReports
    <3> QED
      BY <3>1, <3>4, <3>5 DEF Scanned, r
  <2> QED
    BY <2>7, <2>8, <2>9
<1> QED
  BY <1>1, <1>2, <1>3

LEMMA ByteMunched ==
  ASSUME src \in Text, NEW k \in 1 .. Len(src), src[k] \in {"#", "@", "BT"}
  PROVE  Munched(OneByte(src, k).kind, k, OneByte(src, k).end)
<1> DEFINE kind == CASE src[k] = "#" -> "Hash" [] src[k] = "@" -> "At" [] OTHER -> "Backtick"
<1>1. OneByte(src, k) = Scanned(kind, k + 1, <<>>)
  BY DEF OneByte
<1>2. ASSUME NEW sp \in Spelling, sp[1] = kind PROVE sp[2] = <<src[k]>>
  <2>1. CASE src[k] = "#"
    BY <1>2, <2>1, SpellingOf
  <2>2. CASE src[k] = "@"
    BY <1>2, <2>2, SpellingOf
  <2>3. CASE src[k] = "BT"
    BY <1>2, <2>3, SpellingOf
  <2> QED
    BY <2>1, <2>2, <2>3
<1>3. Bytes(k, k + 1) = <<src[k]>> /\ Len(<<src[k]>>) = 1
  BY BytesAre
<1>4. src[k] \notin Ops /\ src[k] \notin {"<", ">", "."}
  BY DEF Ops
<1>5. ~\E d \in Dual : d[1] = src[k] /\ d[2] = Peek(src, k + 1)
  BY <1>4, DualOf
<1>6. Munched(kind, k, k + 1)
  <2>1. \A sp \in Spelling : sp[1] = kind => Bytes(k, k + 1) = sp[2] /\ Len(sp[2]) = 1
    <3> HIDE DEF kind
    <3> QED
      BY <1>2, <1>3
  <2>2. 1 \in 1 .. 3
    OBVIOUS
  <2>3. src[k] # "." /\ src[k] # "<" /\ src[k] # ">"
    BY <1>4
  <2> HIDE DEF kind
  <2> QED
    BY <1>5, <2>1, <2>2, <2>3, MunchedBy
<1> HIDE DEF kind
<1> QED
  BY <1>1, <1>6 DEF Scanned

LEMMA DotScanned ==
  ASSUME src \in Text, NEW k \in 1 .. Len(src), src[k] = ".", Peek(src, k + 1) \notin DecDigit
  PROVE  /\ ScanDotOrFloat(src, k) \in Plain(src, k, OpKinds)
         /\ Munched(ScanDotOrFloat(src, k).kind, k, ScanDotOrFloat(src, k).end)
<1> DEFINE r == ScanDotOrFloat(src, k)
<1>0. Len(src) \in Nat /\ k \in Nat
  BY TextLen
<1>1. ASSUME Peek(src, k + 1) # "" PROVE k + 1 \in 1 .. Len(src) /\ Peek(src, k + 1) = src[k + 1]
  <2>1. k + 1 \in Int
    BY <1>0
  <2> QED
    BY <1>1, <2>1, PeekHas, PeekIn
<1>2. ASSUME Peek(src, k + 2) # "" PROVE k + 2 \in 1 .. Len(src) /\ Peek(src, k + 2) = src[k + 2]
  <2>1. k + 2 \in Int
    BY <1>0
  <2> QED
    BY <1>2, <2>1, PeekHas, PeekIn
<1>3. ~\E d \in Dual : d[1] = src[k] /\ d[2] = Peek(src, k + 1)
  BY DualOf
<1>4. src[k] # "<" /\ src[k] # ">"
  OBVIOUS
<1>5. "Dot" \in OpKinds /\ "DotDot" \in OpKinds /\ "Ellipsis" \in OpKinds
  BY DEF OpKinds, Rare
<1>6. CASE Peek(src, k + 1) # "."
  <2>1. r = Scanned("Dot", k + 1, <<>>)
    BY <1>6 DEF ScanDotOrFloat
  <2>2. k + 1 \in k + 1 .. Len(src) + 1
    BY <1>0
  <2>3. Munched("Dot", k, k + 1)
    <3>1. Bytes(k, k + 1) = <<".">> /\ Len(<<".">>) = 1
      BY BytesAre
    <3>2. \A sp \in Spelling : sp[1] = "Dot" => Bytes(k, k + 1) = sp[2] /\ Len(sp[2]) = 1
      BY <3>1, SpellingOf
    <3>3. 1 \in 1 .. 3
      OBVIOUS
    <3> QED
      BY <1>3, <1>4, <1>6, <3>2, <3>3, MunchedBy
  <2>4. r \in Plain(src, k, OpKinds)
    BY <1>5, <2>1, <2>2, ScannedIn, SilentReports
  <2> QED
    BY <2>1, <2>3, <2>4 DEF Scanned
<1>7. CASE Peek(src, k + 1) = "." /\ Peek(src, k + 2) # "."
  <2>1. r = Scanned("DotDot", k + 2, <<>>)
    BY <1>7 DEF ScanDotOrFloat
  <2>a. k + 1 \in 1 .. Len(src) /\ src[k + 1] = "."
    BY <1>1, <1>7
  <2>2. k + 2 \in k + 1 .. Len(src) + 1 /\ k + 1 <= Len(src)
    BY <1>0, <2>a
  <2>3. Munched("DotDot", k, k + 2)
    <3>1. Bytes(k, k + 2) = <<".", ".">>
      BY <2>a, <2>2, BytesAre
    <3>2. Len(<<".", ".">>) = 2
      OBVIOUS
    <3>3. \A sp \in Spelling : sp[1] = "DotDot" => Bytes(k, k + 2) = sp[2] /\ Len(sp[2]) = 2
      BY <3>1, <3>2, SpellingOf
    <3>4. 2 \in 1 .. 3 /\ ~(2 < 2)
      OBVIOUS
    <3> QED
      BY <1>3, <1>4, <1>7, <3>3, <3>4, MunchedBy
  <2>4. r \in Plain(src, k, OpKinds)
    BY <1>5, <2>1, <2>2, ScannedIn, SilentReports
  <2> QED
    BY <2>1, <2>3, <2>4 DEF Scanned
<1>8. CASE Peek(src, k + 1) = "." /\ Peek(src, k + 2) = "."
  <2>1. r = Scanned("Ellipsis", k + 3, <<>>)
    BY <1>8 DEF ScanDotOrFloat
  <2>a. k + 1 \in 1 .. Len(src) /\ src[k + 1] = "."
    BY <1>1, <1>8
  <2>b. k + 2 \in 1 .. Len(src) /\ src[k + 2] = "."
    BY <1>2, <1>8
  <2>2. k + 3 \in k + 1 .. Len(src) + 1 /\ k + 2 <= Len(src)
    BY <1>0, <2>b
  <2>3. Munched("Ellipsis", k, k + 3)
    <3>1. Bytes(k, k + 3) = <<".", ".", ".">>
      BY <2>a, <2>b, <2>2, BytesAre
    <3>2. Len(<<".", ".", ".">>) = 3
      OBVIOUS
    <3>3. \A sp \in Spelling : sp[1] = "Ellipsis" => Bytes(k, k + 3) = sp[2] /\ Len(sp[2]) = 3
      BY <3>1, <3>2, SpellingOf
    <3>4. 3 \in 1 .. 3 /\ ~(3 < 2) /\ ~(3 < 3)
      OBVIOUS
    <3> QED
      BY <3>3, <3>4, MunchedBy
  <2>4. r \in Plain(src, k, OpKinds)
    BY <1>5, <2>1, <2>2, ScannedIn, SilentReports
  <2> QED
    BY <2>1, <2>3, <2>4 DEF Scanned
<1> QED
  BY <1>6, <1>7, <1>8
-----------------------------------------------------------------------------
(***************************************************************************)
(* Numbers: what the exponent of a float literal comes to.                 *)
(***************************************************************************)
LEMMA DigitIn == \A c \in DecDigit : DigitValue(c) \in Nat
BY DEF DecDigit, DigitValue

\* The value of the digits up to each place, after mark.
Digits(s, mark, e) ==
  CHOOSE g : g = [m \in mark .. e - 1 |->
                    IF m = mark \/ s[m] \notin DecDigit THEN 0
                    ELSE 10 * g[m - 1] + DigitValue(s[m])]

LEMMA DigitsAre ==
  ASSUME NEW s, NEW mark \in Int, NEW e \in Int
  PROVE  \A m \in mark .. e - 1 :
           /\ Digits(s, mark, e)[m] \in Nat
           /\ Digits(s, mark, e)[m] = IF m = mark \/ s[m] \notin DecDigit THEN 0
                                      ELSE 10 * Digits(s, mark, e)[m - 1] + DigitValue(s[m])
<1> DEFINE step == [x \in (mark .. e - 1) \X Nat |->
                     IF s[x[1]] \notin DecDigit THEN 0 ELSE 10 * x[2] + DigitValue(s[x[1]])]
<1>1. step \in [(mark .. e - 1) \X Nat -> Nat]
  <2>1. ASSUME NEW m \in mark .. e - 1, NEW v \in Nat, s[m] \in DecDigit
        PROVE  10 * v + DigitValue(s[m]) \in Nat
    <3>1. DigitValue(s[m]) \in Nat
      BY <2>1, DigitIn
    <3> QED
      BY <3>1
  <2>2. ASSUME NEW x \in (mark .. e - 1) \X Nat
        PROVE  (IF s[x[1]] \notin DecDigit THEN 0 ELSE 10 * x[2] + DigitValue(s[x[1]])) \in Nat
    <3>1. x[1] \in mark .. e - 1 /\ x[2] \in Nat
      OBVIOUS
    <3> QED
      BY <2>1, <3>1
  <2> QED
    BY <2>2
<1>2. PICK g : IsFold(g, mark, e - 1, Nat, 0, step)
  <2>1. e - 1 \in Int /\ 0 \in Nat
    OBVIOUS
  <2> HIDE DEF step
  <2> QED
    BY <1>1, <2>1, FoldExists
<1> DEFINE Eq(h) == h = [m \in mark .. e - 1 |->
                    IF m = mark \/ s[m] \notin DecDigit THEN 0
                    ELSE 10 * h[m - 1] + DigitValue(s[m])]
<1>3. Eq(g)
  <2>1. g \in [mark .. e - 1 -> Nat]
    BY <1>2 DEF IsFold
  <2>2. ASSUME NEW m \in mark .. e - 1, m # mark
        PROVE  step[<<m, g[m - 1]>>] = IF s[m] \notin DecDigit THEN 0
                                       ELSE 10 * g[m - 1] + DigitValue(s[m])
    <3>1. m - 1 \in mark .. e - 1
      BY <2>2
    <3>2. g[m - 1] \in Nat
      BY <2>1, <3>1
    <3> QED
      BY <3>2
  <2> HIDE DEF step
  <2> QED
    BY <1>2, <2>2 DEF IsFold
<1> DEFINE D == Digits(s, mark, e)
<1>4. Eq(D)
  BY <1>3 DEF Digits
<1> DEFINE Good == {m \in mark .. e - 1 : D[m] \in Nat}
<1>5. ASSUME NEW m \in mark .. e - 1, \A l \in mark .. m - 1 : l \in Good PROVE m \in Good
  <2> HIDE DEF D
  <2>1. CASE m = mark \/ s[m] \notin DecDigit
    BY <1>4, <2>1
  <2>2. CASE m # mark /\ s[m] \in DecDigit
    <3>1. m - 1 \in mark .. m - 1
      BY <2>2
    <3>2. D[m - 1] \in Nat /\ DigitValue(s[m]) \in Nat
      BY <1>5, <2>2, <3>1, DigitIn
    <3>3. D[m] = 10 * D[m - 1] + DigitValue(s[m])
      BY <1>4, <2>2
    <3> QED
      BY <3>2, <3>3
  <2> QED
    BY <2>1, <2>2
<1>6. \A m \in mark .. e - 1 : m \in Good
  <2>1. e - 1 \in Int
    OBVIOUS
  <2> HIDE DEF Good
  <2> QED
    BY <1>5, <2>1, Upward
<1> QED
  <2> HIDE DEF D
  <2>1. \A m \in mark .. e - 1 : D[m] = IF m = mark \/ s[m] \notin DecDigit THEN 0
                                          ELSE 10 * D[m - 1] + DigitValue(s[m])
    BY <1>4
  <2> QED
    BY <1>6, <2>1 DEF D

\* The exponent read by the loop of scan_float_exponent is that value, or the
\* largest i32.
Capped(n) == IF n > I32MAX THEN I32MAX ELSE n

LEMMA ExponentIs ==
  ASSUME NEW s, NEW mark \in Int, NEW first \in {mark + 1, mark + 2}, NEW e \in Int, first <= e,
         \A m \in first .. e - 1 : s[m] \in DecDigit,
         first = mark + 2 => s[mark + 1] \notin DecDigit
  PROVE  /\ Exponent(s, first, e) = Capped(Digits(s, mark, e)[e - 1])
         /\ Digits(s, mark, e)[e - 1] \in Nat
<1> DEFINE D == Digits(s, mark, e)
           A == CHOOSE g : g = [m \in first - 1 .. e - 1 |->
                  IF m < first THEN 0
                  ELSE LET v == g[m - 1] * 10 + DigitValue(s[m])
                       IN  IF v > I32MAX THEN I32MAX ELSE v]
           Eq(h) == h = [m \in first - 1 .. e - 1 |->
                  IF m < first THEN 0
                  ELSE LET v == h[m - 1] * 10 + DigitValue(s[m])
                       IN  IF v > I32MAX THEN I32MAX ELSE v]
           step == [x \in (first - 1 .. e - 1) \X Nat |->
                     IF s[x[1]] \in DecDigit THEN Capped(x[2] * 10 + DigitValue(s[x[1]])) ELSE 0]
<1>0. I32MAX \in Nat /\ I32MAX > 0
  <2>1. I32MAX \in Nat /\ I32MAX # 0
    BY ScannerAssumption
  <2> QED
    BY <2>1
<1>1. step \in [(first - 1 .. e - 1) \X Nat -> Nat]
  <2>1. ASSUME NEW m \in first - 1 .. e - 1, NEW v \in Nat, s[m] \in DecDigit
        PROVE  Capped(v * 10 + DigitValue(s[m])) \in Nat
    <3>1. DigitValue(s[m]) \in Nat
      BY <2>1, DigitIn
    <3> QED
      BY <1>0, <3>1 DEF Capped
  <2>2. ASSUME NEW x \in (first - 1 .. e - 1) \X Nat
        PROVE  (IF s[x[1]] \in DecDigit THEN Capped(x[2] * 10 + DigitValue(s[x[1]])) ELSE 0) \in Nat
    <3>1. x[1] \in first - 1 .. e - 1 /\ x[2] \in Nat
      OBVIOUS
    <3> QED
      BY <2>1, <3>1
  <2> QED
    BY <2>2
<1>2. PICK g : IsFold(g, first - 1, e - 1, Nat, 0, step)
  <2>1. e - 1 \in Int /\ first - 1 \in Int /\ 0 \in Nat
    OBVIOUS
  <2> HIDE DEF step
  <2> QED
    BY <1>1, <2>1, FoldExists
<1>3. Eq(g)
  <2>1. g \in [first - 1 .. e - 1 -> Nat]
    BY <1>2 DEF IsFold
  <2>2. ASSUME NEW m \in first - 1 .. e - 1, m # first - 1
        PROVE  /\ step[<<m, g[m - 1]>>] = Capped(g[m - 1] * 10 + DigitValue(s[m]))
               /\ ~(m < first)
    <3>1. m - 1 \in first - 1 .. e - 1 /\ m \in first .. e - 1
      BY <2>2
    <3>2. g[m - 1] \in Nat
      BY <2>1, <3>1
    <3> QED
      BY <3>1, <3>2
  <2> HIDE DEF step
  <2> QED
    BY <1>2, <2>2 DEF IsFold, Capped
<1>4. Eq(A)
  BY <1>3
<1>5. Exponent(s, first, e) = A[e - 1]
  BY DEF Exponent
<1>6. \A m \in mark .. e - 1 :
        /\ D[m] \in Nat
        /\ D[m] = IF m = mark \/ s[m] \notin DecDigit THEN 0 ELSE 10 * D[m - 1] + DigitValue(s[m])
  BY DigitsAre
<1> HIDE DEF A, D
<1>7. A[first - 1] = 0
  <2>1. first - 1 \in first - 1 .. e - 1 /\ first - 1 < first
    OBVIOUS
  <2> QED
    BY <1>4, <2>1
<1>8. D[first - 1] = 0
  <2>1. first - 1 \in mark .. e - 1
    OBVIOUS
  <2> QED
    BY <1>6, <2>1
<1> DEFINE Good == {m \in first - 1 .. e - 1 : A[m] = Capped(D[m])}
<1>9. ASSUME NEW m \in first - 1 .. e - 1, \A l \in first - 1 .. m - 1 : l \in Good PROVE m \in Good
  <2>1. CASE m = first - 1
    BY <1>0, <1>7, <1>8, <2>1 DEF Capped
  <2>2. CASE m # first - 1
    <3>1. m - 1 \in first - 1 .. m - 1 /\ m \in first .. e - 1 /\ ~(m < first)
      BY <2>2
    <3>2. m \in mark .. e - 1 /\ m - 1 \in mark .. e - 1 /\ m # mark
      BY <3>1
    <3>3. A[m - 1] = Capped(D[m - 1]) /\ D[m - 1] \in Nat /\ DigitValue(s[m]) \in Nat
      BY <1>6, <1>9, <3>1, <3>2, DigitIn
    <3>4. D[m] = 10 * D[m - 1] + DigitValue(s[m])
      BY <1>6, <3>1, <3>2
    <3>5. A[m] = Capped(A[m - 1] * 10 + DigitValue(s[m]))
      BY <1>4, <3>1 DEF Capped
    <3>6. \A x \in Nat, y \in Nat : Capped(Capped(x) * 10 + y) = Capped(10 * x + y)
      BY <1>0 DEF Capped
    <3> QED
      BY <3>3, <3>4, <3>5, <3>6
  <2> QED
    BY <2>1, <2>2
<1>10. \A m \in first - 1 .. e - 1 : m \in Good
  <2>1. first - 1 \in Int /\ e - 1 \in Int
    OBVIOUS
  <2> HIDE DEF Good
  <2> QED
    BY <1>9, <2>1, Upward
<1>11. e - 1 \in first - 1 .. e - 1 /\ e - 1 \in mark .. e - 1
  OBVIOUS
<1>12. A[e - 1] = Capped(D[e - 1]) /\ D[e - 1] \in Nat
  BY <1>6, <1>10, <1>11
<1> QED
  BY <1>5, <1>12 DEF D

\* The token that lies at start and was read as r.
Token(start, r) == [kind |-> r.kind, start |-> start, end |-> r.end]

\* The diagnostics ds say the truth of the exponent of t.
Told(t, ds) ==
  LET e == WrittenExponent(t)
  IN  (/\ \E m \in t.start .. t.end - 1 : src[m] \in ExpMark
       /\ {e, e - FractionDigits(t)} \subseteq -I32MAX .. I32MAX)
      => (e - FractionDigits(t) < 0 <=> t.start \in Flagged(ds))

\* What a scan of a number returns.
NumberRead(start, r) ==
  /\ r \in [kind : {"IntLit", "FloatLit"}, end : start + 1 .. Len(src) + 1, diags : Reports]
  /\ Flagged(r.diags) \subseteq {start}
  /\ r.kind = "FloatLit" => Told(Token(start, r), r.diags)

\* The fraction digits among the bytes before the exponent.
Fraction(start, mark) ==
  {m \in start .. mark - 1 : src[m] \in DecDigit /\ \E d \in start .. m : src[d] = "."}

\* A literal with one mark, followed by a sign at most and digits.
LEMMA WrittenIs ==
  ASSUME src \in Text, NEW start \in 1 .. Len(src), NEW mark \in start .. Len(src),
         src[mark] \in ExpMark, \A m \in start .. mark - 1 : src[m] \notin ExpMark,
         NEW end \in mark + 1 .. Len(src) + 1, \A m \in mark + 1 .. end - 1 : src[m] \notin ExpMark,
         NEW t, t.start = start, t.end = end
  PROVE  /\ WrittenExponent(t) = IF Peek(src, mark + 1) = "-" THEN -Digits(src, mark, end)[end - 1]
                                 ELSE Digits(src, mark, end)[end - 1]
         /\ FractionDigits(t) = Cardinality(Fraction(start, mark))
<1>0. Len(src) \in Nat
  BY TextLen
<1>1. mark = CHOOSE m \in t.start .. t.end - 1 : src[m] \in ExpMark
  <2>1. mark \in t.start .. t.end - 1
    BY <1>0
  <2>2. ASSUME NEW m \in t.start .. t.end - 1, src[m] \in ExpMark PROVE m = mark
    <3>1. m \notin start .. mark - 1 /\ m \notin mark + 1 .. end - 1
      BY <2>2
    <3> QED
      BY <1>0, <3>1
  <2> QED
    BY <2>1, <2>2
<1>2. WrittenExponent(t) = LET V == Digits(src, mark, t.end)
                           IN  IF Peek(src, mark + 1) = "-" THEN -V[t.end - 1] ELSE V[t.end - 1]
  BY <1>1 DEF WrittenExponent, Digits
<1>3. {m \in t.start .. t.end - 1 :
         /\ src[m] \in DecDigit
         /\ \E d \in t.start .. m : src[d] = "."
         /\ \A e \in t.start .. m : src[e] \notin ExpMark} = Fraction(start, mark)
  <2>1. ASSUME NEW m \in start .. end - 1, \A e \in start .. m : src[e] \notin ExpMark
        PROVE  m \in start .. mark - 1
    <3>1. ~(mark \in start .. m)
      BY <2>1
    <3> QED
      BY <1>0, <3>1
  <2>2. ASSUME NEW m \in start .. mark - 1
        PROVE  m \in start .. end - 1 /\ \A e \in start .. m : src[e] \notin ExpMark
    BY <1>0
  <2> QED
    BY <2>1, <2>2 DEF Fraction
<1> QED
  BY <1>2, <1>3 DEF FractionDigits

LEMMA ExponentRead ==
  ASSUME src \in Text, NEW start \in 1 .. Len(src), NEW mark \in start + 1 .. Len(src),
         src[mark] \in ExpMark, \A m \in start .. mark - 1 : src[m] \notin ExpMark,
         NEW frac \in Nat, frac = Cardinality(Fraction(start, mark))
  PROVE  NumberRead(start, ScanFloatExponent(src, start, mark, frac))
<1> DEFINE neg    == Peek(src, mark + 1) = "-"
           first  == IF Peek(src, mark + 1) \in {"-", "+"} THEN mark + 2 ELSE mark + 1
           end    == RunEnd(src, first, DecDigit)
           j      == Exponent(src, first, end)
           signed == WrapI32((IF neg THEN -j ELSE j) - frac)
           d1     == IF end = first THEN Diag("lex-bad-exponent", start) ELSE <<>>
           d2     == IF signed < 0 THEN Diag("exponent-float-literal", start) ELSE <<>>
           r      == ScanFloatExponent(src, start, mark, frac)
           t      == Token(start, r)
           V      == Digits(src, mark, end)[end - 1]
           e      == IF neg THEN -V ELSE V
<1>0. Len(src) \in Nat /\ start \in Nat /\ mark \in Int /\ mark \in start .. Len(src)
  BY TextLen
<1>m. I32MAX \in Nat /\ I32MAX > 0
  <2>1. I32MAX \in Nat /\ I32MAX # 0
    BY ScannerAssumption
  <2> QED
    BY <2>1
<1>1. r = Scanned("FloatLit", end, d1 \o d2)
  BY DEF ScanFloatExponent
<1>2. /\ first \in {mark + 1, mark + 2} /\ first \in 1 .. Len(src) + 1
      /\ first = mark + 2 => src[mark + 1] \notin DecDigit /\ src[mark + 1] \notin ExpMark
  <2>1. CASE Peek(src, mark + 1) \in {"-", "+"}
    <3>1. Peek(src, mark + 1) # ""
      BY <2>1
    <3>2. mark + 1 \in Int
      BY <1>0
    <3>3. mark + 1 \in 1 .. Len(src)
      BY <3>1, <3>2, PeekHas
    <3>4. src[mark + 1] \in {"-", "+"}
      BY <2>1, <3>3, PeekIn
    <3>5. src[mark + 1] \notin DecDigit /\ src[mark + 1] \notin ExpMark
      BY <3>4 DEF DecDigit, ExpMark
    <3> QED
      BY <1>0, <2>1, <3>3, <3>5
  <2>2. CASE Peek(src, mark + 1) \notin {"-", "+"}
    BY <1>0, <2>2
  <2> QED
    BY <2>1, <2>2
<1>3. end \in first .. Len(src) + 1 /\ \A m \in first .. end - 1 : src[m] \in DecDigit
  <2> HIDE DEF first
  <2> QED
    BY <1>2, RunEnds
<1> HIDE DEF first, end
<1>4. end \in mark + 1 .. Len(src) + 1 /\ end \in Int /\ first <= end
  BY <1>0, <1>2, <1>3
<1>5. \A m \in mark + 1 .. end - 1 : src[m] \notin ExpMark
  <2> SUFFICES ASSUME NEW m \in mark + 1 .. end - 1 PROVE src[m] \notin ExpMark
    OBVIOUS
  <2>1. CASE m >= first
    <3>1. src[m] \in DecDigit
      BY <1>2, <1>3, <2>1
    <3> QED
      BY <3>1 DEF DecDigit, ExpMark
  <2>2. CASE m < first
    <3>1. m = mark + 1 /\ first = mark + 2
      BY <1>0, <1>2, <2>2
    <3> QED
      BY <1>2, <3>1
  <2> QED
    BY <1>2, <2>1, <2>2
<1>6. j = Capped(V) /\ V \in Nat
  BY <1>0, <1>2, <1>3, <1>4, ExponentIs
<1>7. t.start = start /\ t.end = end /\ t.kind = "FloatLit" /\ r.end = end /\ r.kind = "FloatLit"
      /\ r.diags = d1 \o d2
  <2> HIDE DEF r, d1, d2
  <2> QED
    BY <1>1 DEF Token, Scanned
<1>8. WrittenExponent(t) = e /\ FractionDigits(t) = frac
  <2> HIDE DEF t, V
  <2> QED
    BY <1>0, <1>4, <1>5, <1>7, WrittenIs DEF V
<1> HIDE DEF V, j
<1>9. ASSUME {e, e - frac} \subseteq -I32MAX .. I32MAX PROVE signed = e - frac
  <2>1. V <= I32MAX
    BY <1>m, <1>6, <1>9
  <2>2. j = V
    BY <1>m, <1>6, <2>1 DEF Capped
  <2>3. e - frac \in -I32MAX .. I32MAX
    BY <1>9
  <2>4. WrapI32(e - frac) = e - frac
    <3> DEFINE n == e - frac
    <3>1. n \in Int /\ ~(n > I32MAX) /\ ~(n < -I32MAX - 1)
      BY <1>m, <2>3
    <3> HIDE DEF n
    <3>2. WrapI32(n) = n
      BY <3>1 DEF WrapI32
    <3> QED
      BY <3>2 DEF n
  <2> QED
    BY <2>2, <2>4
<1> HIDE DEF signed
<1>10. /\ d1 \in Reports /\ d2 \in Reports /\ Flagged(d1) = {}
       /\ Flagged(d2) = IF signed < 0 THEN {start} ELSE {}
  BY <1>0, Reported, FlaggedBy DEF Rules
<1>11. r.diags \in Reports /\ Flagged(r.diags) = IF signed < 0 THEN {start} ELSE {}
  <2> HIDE DEF d1, d2
  <2> QED
    BY <1>7, <1>10, Reported, FlaggedBoth
<1>12. Told(t, r.diags)
  <2> HIDE DEF t, r, e
  <2> QED
    BY <1>7, <1>8, <1>9, <1>11 DEF Told
<1>13. r \in [kind : {"IntLit", "FloatLit"}, end : start + 1 .. Len(src) + 1, diags : Reports]
  <2>1. end \in start + 1 .. Len(src) + 1
    BY <1>0, <1>4
  <2>2. d1 \o d2 \in Reports
    BY <1>7, <1>11
  <2> HIDE DEF r, d1, d2
  <2> QED
    BY <1>1, <2>1, <2>2 DEF Scanned
<1>14. NumberRead(start, r)
  <2> HIDE DEF r
  <2>1. Flagged(r.diags) \subseteq {start}
    BY <1>11
  <2> QED
    BY <1>12, <1>13, <2>1 DEF NumberRead, t
<1> QED
  BY <1>14

\* A literal without an exponent.
LEMMA NoExponentRead ==
  ASSUME src \in Text, NEW start \in 1 .. Len(src), NEW end \in start + 1 .. Len(src) + 1,
         NEW kind \in {"IntLit", "FloatLit"},
         kind = "FloatLit" => \A m \in start .. end - 1 : src[m] \notin ExpMark
  PROVE  NumberRead(start, Scanned(kind, end, <<>>))
<1> DEFINE r == Scanned(kind, end, <<>>)
<1>1. r.kind = kind /\ r.end = end /\ r.diags = <<>>
  BY DEF Scanned
<1>2. r \in [kind : {"IntLit", "FloatLit"}, end : start + 1 .. Len(src) + 1, diags : Reports]
  BY Reported DEF Scanned
<1>3. Flagged(r.diags) = {}
  BY <1>1, FlaggedBy
<1>4. r.kind = "FloatLit" => Told(Token(start, r), r.diags)
  <2>1. Token(start, r).start = start /\ Token(start, r).end = end
    BY <1>1 DEF Token
  <2> HIDE DEF r
  <2> QED
    BY <1>1, <2>1 DEF Told
<1>5. NumberRead(start, r)
  <2> HIDE DEF r
  <2> QED
    BY <1>2, <1>3, <1>4 DEF NumberRead
<1> QED
  BY <1>5

LEMMA DigitsAreNotMarks ==
  \A c \in DecDigit : c \notin ExpMark /\ c # "."
BY DEF DecDigit, ExpMark

\* From the fraction on, which starts at q, after the point.
LEMMA AfterDotRead ==
  ASSUME src \in Text, NEW start \in 1 .. Len(src), NEW q \in start + 1 .. Len(src) + 1,
         src[q - 1] = ".", \A m \in start .. q - 2 : src[m] \in DecDigit
  PROVE  NumberRead(start, ScanFloatAfterDot(src, start, q))
<1> DEFINE end == RunEnd(src, q, DecDigit)
<1>0. Len(src) \in Nat /\ q \in 1 .. Len(src) + 1
  BY TextLen
<1>1. end \in q .. Len(src) + 1 /\ \A m \in q .. end - 1 : src[m] \in DecDigit
  BY <1>0, RunEnds
<1>2. ScanFloatAfterDot(src, start, q) =
        IF Peek(src, end) \in ExpMark THEN ScanFloatExponent(src, start, end, end - q)
        ELSE Scanned("FloatLit", end, <<>>)
  BY DEF ScanFloatAfterDot
<1> HIDE DEF end
<1>3. end \in start + 1 .. Len(src) + 1 /\ end \in Int
  BY <1>0, <1>1
<1>4. \A m \in start .. end - 1 : src[m] \notin ExpMark
  <2> SUFFICES ASSUME NEW m \in start .. end - 1 PROVE src[m] \notin ExpMark
    OBVIOUS
  <2>1. CASE m \in start .. q - 2
    BY <2>1, DigitsAreNotMarks
  <2>2. CASE m = q - 1
    BY <2>2 DEF ExpMark
  <2>3. CASE m \in q .. end - 1
    BY <1>1, <2>3, DigitsAreNotMarks
  <2> QED
    BY <1>0, <1>3, <2>1, <2>2, <2>3
<1>5. CASE Peek(src, end) \in ExpMark
  <2>1. Peek(src, end) # ""
    BY <1>5 DEF ExpMark
  <2>2. end \in 1 .. Len(src) /\ src[end] \in ExpMark
    BY <1>3, <1>5, <2>1, PeekHas, PeekIn
  <2>3. end \in start + 1 .. Len(src)
    BY <1>0, <1>3, <2>2
  <2>4. Fraction(start, end) = q .. end - 1
    <3>1. ASSUME NEW m \in Fraction(start, end) PROVE m \in q .. end - 1
      <4>1. PICK d \in start .. m : src[d] = "."
        BY <3>1 DEF Fraction
      <4>2. m \in start .. end - 1 /\ src[m] \in DecDigit
        BY <3>1 DEF Fraction
      <4>3. d \notin start .. q - 2
        BY <4>1, DigitsAreNotMarks
      <4>4. m # q - 1
        BY <4>2, DigitsAreNotMarks
      <4> QED
        BY <1>0, <4>1, <4>2, <4>3, <4>4
    <3>2. ASSUME NEW m \in q .. end - 1 PROVE m \in Fraction(start, end)
      <4>1. m \in start .. end - 1 /\ q - 1 \in start .. m
        BY <1>0
      <4> QED
        BY <1>1, <4>1 DEF Fraction
    <3> QED
      BY <3>1, <3>2
  <2>5. Cardinality(q .. end - 1) = end - q /\ end - q \in Nat
    <3>1. q \in Int /\ end - 1 \in Int /\ q <= end
      BY <1>0, <1>1, <1>3
    <3>2. Cardinality(q .. end - 1) = IF q > end - 1 THEN 0 ELSE (end - 1) - q + 1
      BY <3>1, FS_Interval
    <3> QED
      BY <1>3, <3>1, <3>2
  <2>6. NumberRead(start, ScanFloatExponent(src, start, end, end - q))
    <3> DEFINE frac == end - q
    <3>1. frac \in Nat /\ frac = Cardinality(Fraction(start, end))
      BY <2>4, <2>5
    <3> HIDE DEF frac
    <3>2. \A m \in start .. end - 1 : src[m] \notin ExpMark
      BY <1>4
    <3>3. NumberRead(start, ScanFloatExponent(src, start, end, frac))
      BY <2>2, <2>3, <3>1, <3>2, ExponentRead
    <3> QED
      BY <3>3 DEF frac
  <2> QED
    BY <1>2, <1>5, <2>6
<1>6. CASE Peek(src, end) \notin ExpMark
  <2>1. NumberRead(start, Scanned("FloatLit", end, <<>>))
    BY <1>3, <1>4, NoExponentRead
  <2> QED
    BY <1>2, <1>6, <2>1
<1> QED
  BY <1>5, <1>6

\* A prefixed literal is no float.
LEMMA PrefixedRead ==
  ASSUME src \in Text, NEW start \in 1 .. Len(src), NEW r \in Plain(src, start, {"IntLit"})
  PROVE  NumberRead(start, r)
<1>1. r \in [kind : {"IntLit", "FloatLit"}, end : start + 1 .. Len(src) + 1, diags : Reports]
      /\ Flagged(r.diags) = {} /\ r.kind = "IntLit"
  BY DEF Plain, Silent
<1> QED
  BY <1>1 DEF NumberRead

LEMMA NumberScanned ==
  ASSUME src \in Text, NEW start \in 1 .. Len(src), src[start] \in DecDigit
  PROVE  NumberRead(start, ScanNumber(src, start))
<1> DEFINE end == RunEnd(src, start, DecDigit)
<1>0. Len(src) \in Nat /\ start \in Nat
  BY TextLen
<1>1. end \in start + 1 .. Len(src) + 1
  BY RunTakes
<1>2. \A m \in start .. end - 1 : src[m] \in DecDigit
  <2>1. start \in 1 .. Len(src) + 1
    BY <1>0
  <2> QED
    BY <2>1, RunEnds
<1>3. ScanNumber(src, start) =
        CASE src[start] = "0" /\ Peek(src, start + 1) \in {"x", "X"} ->
               ScanPrefixed(src, start, HexDigit, "lex-bad-hex")
          [] src[start] = "0" /\ Peek(src, start + 1) = "b" ->
               ScanPrefixed(src, start, {"0", "1"}, "lex-bad-binary")
          [] Peek(src, end) = "." /\ Peek(src, end + 1) # "." ->
               ScanFloatAfterDot(src, start, end + 1)
          [] Peek(src, end) \in ExpMark -> ScanFloatExponent(src, start, end, 0)
          [] OTHER -> Scanned("IntLit", end, <<>>)
  BY DEF ScanNumber
<1> HIDE DEF end
<1>4. ASSUME Peek(src, end) # "" PROVE end \in start + 1 .. Len(src) /\ src[end] = Peek(src, end)
  <2>1. end \in Int
    BY <1>1
  <2>2. end \in 1 .. Len(src)
    BY <1>4, <2>1, PeekHas
  <2>3. end \in start + 1 .. Len(src)
    BY <1>0, <1>1, <2>2
  <2>4. src[end] = Peek(src, end)
    BY <2>2, PeekIn
  <2> QED
    BY <2>3, <2>4
<1>5. ASSUME Peek(src, start + 1) # "" PROVE start + 1 <= Len(src)
  <2>1. start + 1 \in Int
    BY <1>0
  <2>2. start + 1 \in 1 .. Len(src)
    BY <1>5, <2>1, PeekHas
  <2> QED
    BY <2>2
<1>6. ASSUME Peek(src, start + 1) # ""
      PROVE  /\ NumberRead(start, ScanPrefixed(src, start, HexDigit, "lex-bad-hex"))
             /\ NumberRead(start, ScanPrefixed(src, start, {"0", "1"}, "lex-bad-binary"))
  BY <1>5, <1>6, PrefixedScanned, PrefixedRead
<1>7. ASSUME Peek(src, end) = "." PROVE NumberRead(start, ScanFloatAfterDot(src, start, end + 1))
  <2>1. end \in start + 1 .. Len(src) /\ src[end] = "."
    BY <1>4, <1>7
  <2> DEFINE q == end + 1
  <2>2. q \in start + 1 .. Len(src) + 1 /\ q - 1 = end /\ q - 2 = end - 1
    BY <1>0, <2>1
  <2> HIDE DEF q
  <2>3. src[q - 1] = "." /\ \A m \in start .. q - 2 : src[m] \in DecDigit
    BY <1>2, <2>1, <2>2
  <2>4. NumberRead(start, ScanFloatAfterDot(src, start, q))
    BY <2>2, <2>3, AfterDotRead
  <2> QED
    BY <2>4 DEF q
<1>8. ASSUME Peek(src, end) \in ExpMark PROVE NumberRead(start, ScanFloatExponent(src, start, end, 0))
  <2>1. Peek(src, end) # ""
    BY <1>8 DEF ExpMark
  <2>2. end \in start + 1 .. Len(src) /\ src[end] \in ExpMark
    BY <1>4, <1>8, <2>1
  <2>3. Fraction(start, end) = {}
    <3> SUFFICES ASSUME NEW m \in start .. end - 1, NEW d \in start .. m, src[d] = "." PROVE FALSE
      BY DEF Fraction
    <3>1. d \in start .. end - 1
      BY <1>0, <1>1
    <3> QED
      BY <1>2, <3>1, DigitsAreNotMarks
  <2>4. 0 = Cardinality(Fraction(start, end)) /\ 0 \in Nat
    BY <2>3, FS_EmptySet
  <2>5. \A m \in start .. end - 1 : src[m] \notin ExpMark
    BY <1>2, DigitsAreNotMarks
  <2> QED
    BY <2>2, <2>4, <2>5, ExponentRead
<1>9. NumberRead(start, Scanned("IntLit", end, <<>>))
  BY <1>1, NoExponentRead
<1>10. CASE Peek(src, start + 1) \in {"x", "X"}
  <2>1. Peek(src, start + 1) # "" /\ Peek(src, start + 1) # "b"
    BY <1>10
  <2> QED
    BY <1>3, <1>6, <1>7, <1>8, <1>9, <1>10, <2>1
<1>11. CASE Peek(src, start + 1) = "b"
  <2>1. Peek(src, start + 1) # "" /\ Peek(src, start + 1) \notin {"x", "X"}
    BY <1>11
  <2> QED
    BY <1>3, <1>6, <1>7, <1>8, <1>9, <1>11, <2>1
<1>12. CASE Peek(src, start + 1) \notin {"x", "X", "b"}
  BY <1>3, <1>7, <1>8, <1>9, <1>12
<1> QED
  BY <1>10, <1>11, <1>12

LEMMA DotFloatRead ==
  ASSUME src \in Text, NEW start \in 1 .. Len(src), src[start] = ".",
         Peek(src, start + 1) \in DecDigit
  PROVE  NumberRead(start, ScanDotOrFloat(src, start))
<1>0. Len(src) \in Nat /\ start \in Nat
  BY TextLen
<1>1. ScanDotOrFloat(src, start) = ScanFloatAfterDot(src, start, start + 1)
  BY DEF ScanDotOrFloat, DecDigit
<1> DEFINE q == start + 1
<1>2. q \in start + 1 .. Len(src) + 1 /\ q - 1 = start /\ \A m \in start .. q - 2 : FALSE
  BY <1>0
<1> HIDE DEF q
<1>3. NumberRead(start, ScanFloatAfterDot(src, start, q))
  BY <1>2, AfterDotRead
<1> QED
  BY <1>1, <1>3 DEF q
-----------------------------------------------------------------------------
(***************************************************************************)
(* A step of the scanner.                                                  *)
(***************************************************************************)
Kinds == OpKinds \cup LongKinds

\* What is read at a place that is not the end.
Read(at, r) ==
  /\ r \in [kind : Kinds \ {"Eof"}, end : at + 1 .. Len(src) + 1, diags : Reports]
  /\ Flagged(r.diags) \subseteq {at}
  /\ r.kind = "FloatLit" => Told(Token(at, r), r.diags)
  /\ r.diags = Diag("lex-unknown-byte", at) \/ Munched(r.kind, at, r.end)

\* Only the kinds of operators have a spelling.
LEMMA LongKindsMunched ==
  ASSUME NEW kind \in LongKinds, NEW k, NEW e
  PROVE  Munched(kind, k, e)
<1>1. \A sp \in Spelling : sp[1] \in OpKinds
  BY SpellingRows DEF OpKinds, Rare
<1> QED
  BY <1>1, OpKindsAre DEF Munched

LEMMA PlainRead ==
  ASSUME src \in Text, NEW k \in 1 .. Len(src), NEW kinds, kinds \subseteq Kinds \ {"Eof", "FloatLit"},
         NEW r \in Plain(src, k, kinds),
         r.diags = Diag("lex-unknown-byte", k) \/ Munched(r.kind, k, r.end)
  PROVE  Read(k, r)
<1>1. /\ r \in [kind : Kinds \ {"Eof"}, end : k + 1 .. Len(src) + 1, diags : Reports]
      /\ Flagged(r.diags) = {} /\ r.kind # "FloatLit"
  BY DEF Plain, Silent
<1> QED
  BY <1>1 DEF Read

LEMMA LongRead ==
  ASSUME src \in Text, NEW k \in 1 .. Len(src),
         NEW kinds, kinds \subseteq LongKinds \ {"Eof", "FloatLit"}, NEW r \in Plain(src, k, kinds)
  PROVE  Read(k, r)
<1>1. r.kind \in LongKinds
  BY DEF Plain
<1>2. Munched(r.kind, k, r.end)
  BY <1>1, LongKindsMunched
<1>3. kinds \subseteq Kinds \ {"Eof", "FloatLit"}
  BY DEF Kinds
<1> QED
  BY <1>2, <1>3, PlainRead

LEMMA NumberIsRead ==
  ASSUME src \in Text, NEW k \in 1 .. Len(src), NEW r, NumberRead(k, r)
  PROVE  Read(k, r)
<1>1. r.kind \in {"IntLit", "FloatLit"}
  BY DEF NumberRead
<1>2. r.kind \in LongKinds /\ r.kind # "Eof"
  BY <1>1 DEF LongKinds
<1>3. Munched(r.kind, k, r.end)
  BY <1>2, LongKindsMunched
<1>4. r \in [kind : Kinds \ {"Eof"}, end : k + 1 .. Len(src) + 1, diags : Reports]
  BY <1>2 DEF NumberRead, Kinds
<1> QED
  BY <1>3, <1>4 DEF NumberRead, Read

LEMMA OpRead ==
  ASSUME src \in Text, NEW k \in 1 .. Len(src), NEW r \in Plain(src, k, OpKinds),
         r.diags = Diag("lex-unknown-byte", k) \/ Munched(r.kind, k, r.end)
  PROVE  Read(k, r)
<1>1. OpKinds \subseteq Kinds \ {"Eof", "FloatLit"}
  <2>1. "Eof" \in LongKinds /\ "FloatLit" \in LongKinds
    BY DEF LongKinds
  <2> QED
    BY <2>1, OpKindsAre DEF Kinds
<1> QED
  BY <1>1, PlainRead

\* One call of next_token: trivia, then a token that is read whole, or the end.
Reads(at, ds, r) ==
  /\ at \in i .. Len(src) + 1
  /\ SkipTrivia(src, i) = [at |-> at, diags |-> ds]
  /\ ds \in {<<>>} \cup Open(src)
  /\ ~Done
  /\ UNCHANGED src
  /\ i' = r.end
  /\ toks' = Append(toks, Token(at, r))
  /\ diags' = diags \o ds \o r.diags
  /\ \/ at = Len(src) + 1 /\ r = Scanned("Eof", at, <<>>)
     \/ at <= Len(src) /\ Read(at, r)

LEMMA NextReads ==
  ASSUME src \in Text, i \in 1 .. Len(src) + 1, Next
  PROVE  \E at, ds, r : Reads(at, ds, r)
<1> DEFINE skip == SkipTrivia(src, i)
           at == skip.at
           Step(r) == /\ ~Done
                      /\ i' = r.end
                      /\ toks' = Append(toks, Token(at, r))
                      /\ diags' = diags \o skip.diags \o r.diags
                      /\ UNCHANGED src
<1>0. Len(src) \in Nat
  BY TextLen
<1>1. skip \in [at : i .. Len(src) + 1, diags : {<<>>} \cup Open(src)]
  BY SkipEnds
<1>2. ASSUME NEW r, Step(r), at <= Len(src), Read(at, r) PROVE \E a, ds, x : Reads(a, ds, x)
  <2>1. Reads(at, skip.diags, r)
    <3> HIDE DEF skip
    <3>1. at \in i .. Len(src) + 1 /\ skip.diags \in {<<>>} \cup Open(src)
          /\ skip = [at |-> at, diags |-> skip.diags]
      BY <1>1
    <3> QED
      BY <1>2, <3>1 DEF Reads, skip
  <2> QED
    BY <2>1
<1>3. ASSUME NEW r, Step(r), at = Len(src) + 1, r = Scanned("Eof", at, <<>>)
      PROVE  \E a, ds, x : Reads(a, ds, x)
  <2>1. Reads(at, skip.diags, r)
    <3> HIDE DEF skip
    <3>1. at \in i .. Len(src) + 1 /\ skip.diags \in {<<>>} \cup Open(src)
          /\ skip = [at |-> at, diags |-> skip.diags]
      BY <1>1
    <3> QED
      BY <1>3, <3>1 DEF Reads, skip
  <2> QED
    BY <2>1
<1>4. ASSUME Peek(src, at) # "" PROVE at \in 1 .. Len(src) /\ src[at] = Peek(src, at)
  <2>1. at \in Int
    BY <1>1
  <2>2. at \in 1 .. Len(src)
    <3> HIDE DEF at
    <3> QED
      BY <1>4, <2>1, PeekHas
  <2> QED
    BY <2>2, PeekIn
<1>5. CASE LexIdent
  <2>1. Step(ScanIdent(src, at)) /\ Peek(src, at) \in Alpha
    BY <1>5 DEF LexIdent, Lex, Token
  <2> HIDE DEF at, Step
  <2>2. Peek(src, at) # ""
    BY <2>1 DEF Alpha, HexLetter
  <2>3. at \in 1 .. Len(src) /\ src[at] = Peek(src, at)
    BY <1>4, <2>2
  <2>4. ScanIdent(src, at) \in Plain(src, at, {"Ident", "EmptyIdent"})
    BY <2>1, <2>3, IdentScanned
  <2>5. {"Ident", "EmptyIdent"} \subseteq LongKinds \ {"Eof", "FloatLit"}
    BY DEF LongKinds
  <2>6. Read(at, ScanIdent(src, at))
    BY <2>3, <2>4, <2>5, LongRead
  <2> QED
    BY <1>2, <2>1, <2>3, <2>6
<1>6. CASE LexNumber
  <2>1. Step(ScanNumber(src, at)) /\ Peek(src, at) \in DecDigit
    BY <1>6 DEF LexNumber, Lex, Token
  <2> HIDE DEF at, Step
  <2>2. Peek(src, at) # ""
    BY <2>1 DEF DecDigit
  <2>3. at \in 1 .. Len(src) /\ src[at] = Peek(src, at)
    BY <1>4, <2>2
  <2>4. Read(at, ScanNumber(src, at))
    BY <2>1, <2>3, NumberScanned, NumberIsRead
  <2> QED
    BY <1>2, <2>1, <2>3, <2>4
<1>7. CASE LexString
  <2>1. Step(ScanString(src, at)) /\ Peek(src, at) \in {Quote}
    BY <1>7 DEF LexString, Lex, Token
  <2> HIDE DEF at, Step
  <2>2. Peek(src, at) # ""
    BY <2>1 DEF Quote
  <2>3. at \in 1 .. Len(src) /\ src[at] = Peek(src, at)
    BY <1>4, <2>2
  <2>4. ScanString(src, at) \in Plain(src, at, {"StrLit"})
    BY <2>1, <2>3, QuotesScanned
  <2>5. {"StrLit"} \subseteq LongKinds \ {"Eof", "FloatLit"}
    BY DEF LongKinds
  <2>6. Read(at, ScanString(src, at))
    BY <2>3, <2>4, <2>5, LongRead
  <2> QED
    BY <1>2, <2>1, <2>3, <2>6
<1>8. CASE LexChar
  <2>1. Step(ScanChar(src, at)) /\ Peek(src, at) \in {"'"}
    BY <1>8 DEF LexChar, Lex, Token
  <2> HIDE DEF at, Step
  <2>2. Peek(src, at) # ""
    BY <2>1
  <2>3. at \in 1 .. Len(src) /\ src[at] = Peek(src, at)
    BY <1>4, <2>2
  <2>4. ScanChar(src, at) \in Plain(src, at, {"CharLit"})
    BY <2>1, <2>3, QuotesScanned
  <2>5. {"CharLit"} \subseteq LongKinds \ {"Eof", "FloatLit"}
    BY DEF LongKinds
  <2>6. Read(at, ScanChar(src, at))
    BY <2>3, <2>4, <2>5, LongRead
  <2> QED
    BY <1>2, <2>1, <2>3, <2>6
<1>9. CASE LexDot
  <2>1. Step(ScanDotOrFloat(src, at)) /\ Peek(src, at) \in {"."}
    BY <1>9 DEF LexDot, Lex, Token
  <2> HIDE DEF at, Step
  <2>2. Peek(src, at) # ""
    BY <2>1
  <2>3. at \in 1 .. Len(src) /\ src[at] = Peek(src, at)
    BY <1>4, <2>2
  <2>4. CASE Peek(src, at + 1) \in DecDigit
    <3>1. Read(at, ScanDotOrFloat(src, at))
      BY <2>1, <2>3, <2>4, DotFloatRead, NumberIsRead
    <3> QED
      BY <1>2, <2>1, <2>3, <3>1
  <2>5. CASE Peek(src, at + 1) \notin DecDigit
    <3>1. Read(at, ScanDotOrFloat(src, at))
      BY <2>1, <2>3, <2>5, DotScanned, OpRead
    <3> QED
      BY <1>2, <2>1, <2>3, <3>1
  <2> QED
    BY <2>4, <2>5
<1>10. CASE LexByte
  <2>1. Step(OneByte(src, at)) /\ Peek(src, at) \in {"#", "@", "BT"}
    BY <1>10 DEF LexByte, Lex, Token
  <2> HIDE DEF at, Step
  <2>2. Peek(src, at) # ""
    BY <2>1
  <2>3. at \in 1 .. Len(src) /\ src[at] = Peek(src, at)
    BY <1>4, <2>2
  <2>4. OneByte(src, at) \in Plain(src, at, OpKinds)
    <3>1. {"Hash", "At", "Backtick"} \subseteq OpKinds
      BY DEF OpKinds, Rare
    <3> QED
      BY <2>3, <3>1, ByteScanned DEF Plain
  <2>5. Read(at, OneByte(src, at))
    BY <2>1, <2>3, <2>4, ByteMunched, OpRead
  <2> QED
    BY <1>2, <2>1, <2>3, <2>5
<1>11. CASE LexPunct
  <2>1. Step(ScanPunct(src, at)) /\ Peek(src, at) \in Others
    BY <1>11 DEF LexPunct, Lex, Token
  <2> HIDE DEF at, Step
  <2>2. Peek(src, at) # ""
    <3>1. PICK k \in DOMAIN src : Peek(src, at) = src[k]
      BY <2>1 DEF Others
    <3>2. k \in 1 .. Len(src)
      BY <3>1, TextLen
    <3> QED
      BY <3>1, <3>2, PeekIn
  <2>3. at \in 1 .. Len(src) /\ src[at] = Peek(src, at)
    BY <1>4, <2>2
  <2>4. Read(at, ScanPunct(src, at))
    BY <2>3, PunctScanned, OpRead
  <2> QED
    BY <1>2, <2>1, <2>3, <2>4
<1>12. CASE LexEof
  <2>1. Step(AtEof(src, at)) /\ Peek(src, at) \in {""}
    BY <1>12 DEF LexEof, Lex, Token
  <2> HIDE DEF at, Step
  <2>2. at = Len(src) + 1
    <3>1. at \in i .. Len(src) + 1
      BY <1>1 DEF at
    <3>2. at \notin 1 .. Len(src)
      BY <2>1, PeekIn
    <3> QED
      BY <1>0, <3>1, <3>2
  <2> QED
    BY <1>3, <2>1, <2>2 DEF AtEof
<1> QED
  BY <1>5, <1>6, <1>7, <1>8, <1>9, <1>10, <1>11, <1>12 DEF Next
-----------------------------------------------------------------------------
(***************************************************************************)
(* The inductive invariant, and maximal munch.                             *)
(***************************************************************************)
Tokens == Seq([kind : Kinds, start : Nat, end : Nat])

\* The scanner is inside its text; its tokens are not empty, lie one after the
\* other and end at the next byte, and what it flagged is behind it.
ScannerInv ==
  /\ src \in Sources
  /\ i \in 1 .. Len(src) + 1
  /\ toks \in Tokens
  /\ diags \in Reports
  /\ \A k \in DOMAIN toks : toks[k].kind = "Eof" => k = Len(toks)
  /\ \A k \in DOMAIN toks :
       toks[k].kind # "Eof" => toks[k].start \in 1 .. Len(src) /\ toks[k].start < toks[k].end
                                 /\ toks[k].end <= i
  /\ \A k \in DOMAIN toks : k = Len(toks) => toks[k].end = i
  /\ toks = <<>> => i = 1
  /\ \A a \in Flagged(diags) : a < i

LEMMA SourcesAreText == Sources \subseteq Text
BY ScannerAssumption DEF Text, Byte

LEMMA TokensAre ==
  ASSUME NEW x \in Tokens, NEW t \in [kind : Kinds, start : Nat, end : Nat]
  PROVE  /\ Len(x) \in Nat /\ DOMAIN x = 1 .. Len(x)
         /\ \A k \in DOMAIN x : x[k] \in [kind : Kinds, start : Nat, end : Nat]
         /\ Append(x, t) \in Tokens
         /\ Len(Append(x, t)) = Len(x) + 1
         /\ DOMAIN Append(x, t) = 1 .. Len(x) + 1
         /\ \A k \in 1 .. Len(x) : Append(x, t)[k] = x[k]
         /\ Append(x, t)[Len(x) + 1] = t
<1> DEFINE T == [kind : Kinds, start : Nat, end : Nat]
<1>1. Tokens = Seq(T) /\ t \in T
  BY DEF Tokens
<1> HIDE DEF T
<1>2. x \in Seq(T) /\ t \in T
  BY <1>1
<1>3. /\ Len(x) \in Nat /\ DOMAIN x = 1 .. Len(x)
      /\ \A k \in DOMAIN x : x[k] \in T
      /\ Append(x, t) \in Seq(T)
      /\ Len(Append(x, t)) = Len(x) + 1
      /\ DOMAIN Append(x, t) = 1 .. Len(x) + 1
      /\ \A k \in 1 .. Len(x) : Append(x, t)[k] = x[k]
      /\ Append(x, t)[Len(x) + 1] = t
  BY <1>2
<1> QED
  BY <1>1, <1>3 DEF T

\* Before a step no token is the last one, Eof.
LEMMA NotDone ==
  ASSUME ScannerInv, ~Done
  PROVE  \A k \in DOMAIN toks : toks[k].kind # "Eof"
<1> SUFFICES ASSUME NEW k \in DOMAIN toks, toks[k].kind = "Eof" PROVE FALSE
  OBVIOUS
<1>1. k = Len(toks)
  BY DEF ScannerInv
<1>2. toks # <<>>
  OBVIOUS
<1> QED
  BY <1>1, <1>2 DEF Done

\* What a step adds.
LEMMA Added ==
  ASSUME ScannerInv, NEW at, NEW ds, NEW r, Reads(at, ds, r)
  PROVE  /\ src \in Text
         /\ Len(src) \in Nat
         /\ at \in Nat
         /\ Token(at, r) \in [kind : Kinds, start : Nat, end : Nat]
         /\ r.kind = "Eof" <=> at = Len(src) + 1
         /\ r.end \in i .. Len(src) + 1
         /\ at <= Len(src) => at < r.end
         /\ ds \in Reports
         /\ r.diags \in Reports
         /\ Flagged(ds) = {}
         /\ Flagged(r.diags) \subseteq {at}
         /\ at = Len(src) + 1 => Flagged(r.diags) = {}
<1>1. src \in Text
  BY SourcesAreText DEF ScannerInv
<1>2. Len(src) \in Nat
  BY <1>1, TextLen
<1>3. i \in 1 .. Len(src) + 1 /\ at \in i .. Len(src) + 1 /\ at \in Nat
  BY <1>2 DEF ScannerInv, Reads
<1>4. ds \in Reports /\ Flagged(ds) = {}
  <2>1. ASSUME NEW p \in 1 .. Len(src)
        PROVE  /\ Diag("lex-unterminated-comment", p) \in Reports
               /\ Flagged(Diag("lex-unterminated-comment", p)) = {}
    <3>1. p \in Nat /\ "lex-unterminated-comment" \in Rules
      BY DEF Rules
    <3> QED
      BY <3>1, Reported, FlaggedBy
  <2>2. ds \in {<<>>} \cup Open(src)
    BY DEF Reads
  <2> QED
    BY <2>1, <2>2, Reported, FlaggedBy DEF Open
<1>5. CASE at = Len(src) + 1
  <2>1. r = Scanned("Eof", at, <<>>)
    BY <1>2, <1>3, <1>5 DEF Reads
  <2>2. r.kind = "Eof" /\ r.end = at /\ r.diags = <<>>
    BY <2>1 DEF Scanned
  <2>3. "Eof" \in Kinds
    BY DEF Kinds, LongKinds
  <2>4. Token(at, r) \in [kind : Kinds, start : Nat, end : Nat]
    BY <1>3, <2>2, <2>3 DEF Token
  <2>5. Flagged(r.diags) = {} /\ r.diags \in Reports
    BY <2>2, Reported, FlaggedBy
  <2> QED
    BY <1>1, <1>2, <1>3, <1>4, <1>5, <2>2, <2>4, <2>5
<1>6. CASE at # Len(src) + 1
  <2>1. at <= Len(src) /\ Read(at, r)
    BY <1>2, <1>3, <1>6 DEF Reads
  <2>2. r \in [kind : Kinds \ {"Eof"}, end : at + 1 .. Len(src) + 1, diags : Reports]
        /\ Flagged(r.diags) \subseteq {at}
    BY <2>1 DEF Read
  <2>3. r.kind \in Kinds /\ r.kind # "Eof" /\ r.end \in at + 1 .. Len(src) + 1 /\ r.diags \in Reports
    BY <2>2
  <2>4. r.end \in Nat /\ r.end \in i .. Len(src) + 1 /\ at < r.end
    BY <1>2, <1>3, <2>3
  <2>5. Token(at, r) \in [kind : Kinds, start : Nat, end : Nat]
    BY <1>3, <2>3, <2>4 DEF Token
  <2> QED
    BY <1>1, <1>2, <1>3, <1>4, <1>6, <2>2, <2>3, <2>4, <2>5
<1> QED
  BY <1>5, <1>6

LEMMA InvInit ==
  ASSUME Init
  PROVE  ScannerInv
<1>1. src \in Sources /\ i = 1 /\ toks = <<>> /\ diags = <<>>
  BY DEF Init
<1>2. 1 \in 1 .. Len(src) + 1
  BY <1>1, SourcesAreText, TextLen
<1>3. <<>> \in Tokens /\ DOMAIN <<>> = {} /\ <<>> \in Reports /\ Flagged(<<>>) = {}
  BY Reported, FlaggedBy DEF Tokens
<1> QED
  BY <1>1, <1>2, <1>3 DEF ScannerInv

LEMMA InvStep ==
  ASSUME ScannerInv, NEW at, NEW ds, NEW r, Reads(at, ds, r)
  PROVE  ScannerInv'
<1> DEFINE t == Token(at, r)
           n == Len(toks)
<1>1. src' = src /\ i' = r.end /\ toks' = Append(toks, t) /\ diags' = diags \o ds \o r.diags
      /\ ~Done /\ at \in i .. Len(src) + 1
  BY DEF Reads
<1>2. /\ Len(src) \in Nat /\ at \in Nat /\ t \in [kind : Kinds, start : Nat, end : Nat]
      /\ r.kind = "Eof" <=> at = Len(src) + 1
      /\ r.end \in i .. Len(src) + 1
      /\ at <= Len(src) => at < r.end
  BY Added
<1>3. t.kind = r.kind /\ t.start = at /\ t.end = r.end
  BY DEF Token
<1> HIDE DEF t
<1>4. toks \in Tokens /\ i \in 1 .. Len(src) + 1
  BY DEF ScannerInv
<1>5. /\ n \in Nat /\ DOMAIN toks = 1 .. n
      /\ toks' \in Tokens /\ Len(toks') = n + 1 /\ DOMAIN toks' = 1 .. n + 1
      /\ \A k \in 1 .. n : toks'[k] = toks[k]
      /\ toks'[n + 1] = t
  BY <1>1, <1>2, <1>4, TokensAre
<1> HIDE DEF n
<1>6. \A k \in 1 .. n : toks[k].kind # "Eof"
  BY <1>1, <1>5, NotDone
<1>7. ASSUME NEW k \in DOMAIN toks' PROVE k \in 1 .. n \/ k = n + 1
  BY <1>5
<1>8. i' \in 1 .. Len(src') + 1 /\ src' \in Sources
  BY <1>1, <1>2, <1>4 DEF ScannerInv
<1>9. ASSUME NEW k \in DOMAIN toks', toks'[k].kind = "Eof" PROVE k = Len(toks')
  BY <1>5, <1>6, <1>7, <1>9
<1>10. ASSUME NEW k \in DOMAIN toks', toks'[k].kind # "Eof"
       PROVE  toks'[k].start \in 1 .. Len(src') /\ toks'[k].start < toks'[k].end
                /\ toks'[k].end <= i'
  <2>1. CASE k \in 1 .. n
    <3>1. toks[k].start \in 1 .. Len(src) /\ toks[k].start < toks[k].end /\ toks[k].end <= i
      BY <1>5, <1>6, <2>1 DEF ScannerInv
    <3>2. toks[k].end \in Nat
      BY <1>2, <1>4, <1>5, <2>1, TokensAre
    <3>3. toks[k].end <= r.end
      BY <1>2, <1>4, <3>1, <3>2
    <3> QED
      BY <1>1, <1>5, <2>1, <3>1, <3>3
  <2>2. CASE k = n + 1
    <3>1. toks'[k] = t
      BY <1>5, <2>2
    <3>2. at # Len(src) + 1
      BY <1>2, <1>3, <1>10, <3>1
    <3>3. at \in 1 .. Len(src) /\ at < r.end /\ r.end <= r.end
      BY <1>1, <1>2, <1>4, <3>2
    <3> QED
      BY <1>1, <1>3, <3>1, <3>3
  <2> QED
    BY <1>7, <2>1, <2>2
<1>11. ASSUME NEW k \in DOMAIN toks', k = Len(toks') PROVE toks'[k].end = i'
  BY <1>1, <1>3, <1>5, <1>11
<1>12. toks' # <<>>
  <2>1. Len(<<>>) = 0
    OBVIOUS
  <2>2. n + 1 # 0
    BY <1>5
  <2> QED
    BY <1>5, <2>1, <2>2
<1>13. diags \in Reports /\ \A a \in Flagged(diags) : a < i
  BY DEF ScannerInv
<1>14. /\ ds \in Reports /\ r.diags \in Reports /\ Flagged(ds) = {} /\ Flagged(r.diags) \subseteq {at}
       /\ at = Len(src) + 1 => Flagged(r.diags) = {}
  BY Added
<1>15. diags' \in Reports /\ Flagged(diags') = Flagged(diags) \cup Flagged(r.diags)
  <2>1. diags \o ds \in Reports /\ Flagged(diags \o ds) = Flagged(diags)
    <3>1. diags \o ds \in Reports
      BY <1>13, <1>14, Reported
    <3>2. Flagged(diags \o ds) = Flagged(diags) \cup Flagged(ds)
      BY <1>13, <1>14, FlaggedBoth
    <3> QED
      BY <1>14, <3>1, <3>2
  <2> QED
    BY <1>1, <1>14, <2>1, Reported, FlaggedBoth
<1>16. ASSUME NEW a \in Flagged(diags') PROVE a < i'
  <2>1. CASE a \in Flagged(diags)
    <3>1. \A b \in Flagged(diags) : b \in Nat
      <4>1. \A d \in DOMAIN diags : diags[d] \in [rule : Rules, at : Nat]
        <5> DEFINE R == [rule : Rules, at : Nat]
        <5>1. diags \in Seq(R)
          BY <1>13 DEF Reports
        <5>2. \A d \in DOMAIN diags : diags[d] \in R
          <6> HIDE DEF R
          <6> QED
            BY <5>1
        <5> QED
          BY <5>2
      <4> QED
        BY <4>1 DEF Flagged
    <3>2. a \in Nat /\ a < i
      BY <1>13, <2>1, <3>1
    <3> QED
      BY <1>1, <1>2, <1>4, <3>2
  <2>2. CASE a \in Flagged(r.diags)
    <3>1. a = at /\ at # Len(src) + 1
      BY <1>14, <2>2
    <3> QED
      BY <1>1, <1>2, <3>1
  <2> QED
    BY <1>15, <2>1, <2>2
<1> QED
  BY <1>5, <1>8, <1>9, <1>10, <1>11, <1>12, <1>15, <1>16 DEF ScannerInv

\* Every step is a call of next_token that reads something.
LEMMA StepReads ==
  ASSUME ScannerInv, Next
  PROVE  \E at, ds, r : Reads(at, ds, r)
BY SourcesAreText, NextReads DEF ScannerInv

LEMMA InvHolds == Spec => []ScannerInv
<1>1. Init => ScannerInv
  BY InvInit
<1>2. ScannerInv /\ [Next]_vars => ScannerInv'
  <2>1. CASE ScannerInv /\ Next
    BY <2>1, StepReads, InvStep
  <2>2. CASE ScannerInv /\ UNCHANGED vars
    BY <2>2 DEF ScannerInv, vars
  <2> QED
    BY <2>1, <2>2
<1> QED
  BY <1>1, <1>2, PTL DEF Spec

\* Nothing that was reported is lost.
Has(ds, e) == \E d \in DOMAIN ds : ds[d] = e

LEMMA StillReported ==
  ASSUME NEW x \in Reports, NEW y \in Reports, NEW e
  PROVE  Has(x, e) \/ Has(y, e) => Has(x \o y, e)
<1> DEFINE R == [rule : Rules, at : Nat]
<1>1. x \in Seq(R) /\ y \in Seq(R)
  BY DEF Reports
<1> HIDE DEF R
<1>2. /\ DOMAIN x = 1 .. Len(x) /\ DOMAIN y = 1 .. Len(y) /\ Len(x) \in Nat /\ Len(y) \in Nat
      /\ DOMAIN (x \o y) = 1 .. Len(x) + Len(y)
      /\ \A d \in 1 .. Len(x) : (x \o y)[d] = x[d]
      /\ \A d \in 1 .. Len(y) : (x \o y)[Len(x) + d] = y[d]
  BY <1>1
<1>3. ASSUME NEW d \in DOMAIN x, x[d] = e PROVE \E c \in DOMAIN (x \o y) : (x \o y)[c] = e
  <2>1. d \in DOMAIN (x \o y) /\ (x \o y)[d] = e
    BY <1>2, <1>3
  <2> QED
    BY <2>1
<1>4. ASSUME NEW d \in DOMAIN y, y[d] = e PROVE \E c \in DOMAIN (x \o y) : (x \o y)[c] = e
  <2>1. Len(x) + d \in DOMAIN (x \o y) /\ (x \o y)[Len(x) + d] = e
    BY <1>2, <1>4
  <2> QED
    BY <2>1
<1> QED
  BY <1>3, <1>4 DEF Has

\* The tokens after a step: those before it, unchanged, and the new one.
LEMMA TokensAfter ==
  ASSUME ScannerInv, NEW at, NEW ds, NEW r, Reads(at, ds, r), NEW k \in DOMAIN toks'
  PROVE  \/ k \in DOMAIN toks /\ toks'[k] = toks[k] /\ toks[k].kind # "Eof"
         \/ k = Len(toks) + 1 /\ toks'[k] = Token(at, r)
<1>1. toks' = Append(toks, Token(at, r)) /\ ~Done /\ toks \in Tokens
  BY DEF Reads, ScannerInv
<1>2. Token(at, r) \in [kind : Kinds, start : Nat, end : Nat]
  BY Added
<1>3. /\ Len(toks) \in Nat /\ DOMAIN toks = 1 .. Len(toks) /\ DOMAIN toks' = 1 .. Len(toks) + 1
      /\ \A n \in 1 .. Len(toks) : toks'[n] = toks[n]
      /\ toks'[Len(toks) + 1] = Token(at, r)
  BY <1>1, <1>2, TokensAre
<1>4. k \in 1 .. Len(toks) \/ k = Len(toks) + 1
  BY <1>3
<1> QED
  BY <1>1, <1>3, <1>4, NotDone

\* A token is munched, or the byte there was reported.
Spelled(t) ==
  \/ Munched(t.kind, t.start, t.end)
  \/ Has(diags, [rule |-> "lex-unknown-byte", at |-> t.start])

AllSpelled == \A k \in DOMAIN toks : Spelled(toks[k])

LEMMA ReportedAfter ==
  ASSUME ScannerInv, NEW at, NEW ds, NEW r, Reads(at, ds, r), NEW e,
         Has(diags, e) \/ Has(ds, e) \/ Has(r.diags, e)
  PROVE  Has(diags', e)
<1>1. diags' = diags \o ds \o r.diags
  BY DEF Reads
<1>2. diags \in Reports /\ ds \in Reports /\ r.diags \in Reports
  BY Added DEF ScannerInv
<1> DEFINE x == diags \o ds
<1>3. x \in Reports
  BY <1>2, Reported
<1>4. Has(diags, e) \/ Has(ds, e) => Has(x, e)
  BY <1>2, StillReported
<1> HIDE DEF x
<1>5. Has(x \o r.diags, e)
  BY <1>2, <1>3, <1>4, StillReported
<1> QED
  BY <1>1, <1>5 DEF x

LEMMA SpelledStep ==
  ASSUME ScannerInv, NEW at, NEW ds, NEW r, Reads(at, ds, r), AllSpelled
  PROVE  AllSpelled'
<1> SUFFICES ASSUME NEW k \in DOMAIN toks'
             PROVE  \/ Munched(toks'[k].kind, toks'[k].start, toks'[k].end)
                    \/ Has(diags', [rule |-> "lex-unknown-byte", at |-> toks'[k].start])
  <2>1. src' = src
    BY DEF Reads
  <2> QED
    BY <2>1 DEF AllSpelled, Spelled, Munched, Bytes
<1>1. CASE k \in DOMAIN toks /\ toks'[k] = toks[k]
  <2>1. \/ Munched(toks[k].kind, toks[k].start, toks[k].end)
        \/ Has(diags, [rule |-> "lex-unknown-byte", at |-> toks[k].start])
    BY <1>1 DEF AllSpelled, Spelled
  <2> QED
    BY <1>1, <2>1, ReportedAfter
<1>2. CASE toks'[k] = Token(at, r)
  <2>1. toks'[k].kind = r.kind /\ toks'[k].start = at /\ toks'[k].end = r.end
    BY <1>2 DEF Token
  <2>2. CASE r.kind = "Eof"
    <3>1. r.kind \in LongKinds
      BY <2>2 DEF LongKinds
    <3> QED
      BY <2>1, <3>1, LongKindsMunched
  <2>3. CASE r.kind # "Eof"
    <3>1. Read(at, r)
      BY <2>3, Added DEF Reads
    <3>2. CASE r.diags = Diag("lex-unknown-byte", at)
      <4>1. Has(r.diags, [rule |-> "lex-unknown-byte", at |-> at])
        BY <3>2 DEF Diag, Has
      <4> QED
        BY <2>1, <4>1, ReportedAfter
    <3>3. CASE Munched(r.kind, at, r.end)
      BY <2>1, <3>3
    <3> QED
      BY <3>1, <3>2, <3>3 DEF Read
  <2> QED
    BY <2>2, <2>3
<1> QED
  BY <1>1, <1>2, TokensAfter

\* Operators are read by maximal munch (scanner.rs:499-605), whatever the text.
THEOREM OperatorsAreLongest == Spec => []LongestSpelling
<1> DEFINE Inv == ScannerInv /\ AllSpelled
<1>1. Init => Inv
  BY InvInit DEF Init, AllSpelled
<1>2. Inv /\ [Next]_vars => Inv'
  <2>1. CASE Inv /\ Next
    BY <2>1, StepReads, InvStep, SpelledStep
  <2>2. CASE Inv /\ UNCHANGED vars
    BY <2>2 DEF ScannerInv, AllSpelled, Spelled, Munched, Bytes, vars
  <2> QED
    BY <2>1, <2>2
<1>3. Inv => LongestSpelling
  BY DEF AllSpelled, Spelled, Has, Munched, LongestSpelling
<1> QED
  BY <1>1, <1>2, <1>3, PTL DEF Spec
-----------------------------------------------------------------------------
(***************************************************************************)
(* Negative exponents.                                                     *)
(***************************************************************************)
\* Every float literal read so far is told of truly.
AllTold == \A k \in DOMAIN toks : toks[k].kind = "FloatLit" => Told(toks[k], diags)

\* What a literal says does not change.
LEMMA ToldSame ==
  ASSUME src' = src, NEW t
  PROVE  WrittenExponent(t)' = WrittenExponent(t) /\ FractionDigits(t)' = FractionDigits(t)
<1>1. WrittenExponent(t)' = WrittenExponent(t)
  BY DEF WrittenExponent, Peek
<1>2. FractionDigits(t)' = FractionDigits(t)
  BY DEF FractionDigits
<1> QED
  BY <1>1, <1>2

\* A step flags no place but that of its token, which is ahead of all others.
LEMMA FlaggedAfter ==
  ASSUME ScannerInv, NEW at, NEW ds, NEW r, Reads(at, ds, r)
  PROVE  /\ at \in Flagged(diags') <=> at \in Flagged(r.diags)
         /\ \A a \in Nat : a < i => (a \in Flagged(diags') <=> a \in Flagged(diags))
<1>1. diags' = diags \o ds \o r.diags
  BY DEF Reads
<1>2. diags \in Reports /\ ds \in Reports /\ r.diags \in Reports /\ Flagged(ds) = {}
      /\ Flagged(r.diags) \subseteq {at} /\ Len(src) \in Nat
  BY Added DEF ScannerInv
<1>3. diags \o ds \in Reports
  BY <1>2, Reported
<1>4. Flagged(diags \o ds) = Flagged(diags) \cup Flagged(ds)
  BY <1>2, FlaggedBoth
<1>5. Flagged(diags') = Flagged(diags \o ds) \cup Flagged(r.diags)
  BY <1>1, <1>2, <1>3, FlaggedBoth
<1>6. Flagged(diags') = Flagged(diags) \cup Flagged(r.diags)
  BY <1>2, <1>4, <1>5
<1>7. i \in 1 .. Len(src) + 1 /\ at \in i .. Len(src) + 1 /\ \A a \in Flagged(diags) : a < i
  BY DEF ScannerInv, Reads
<1>8. at \notin Flagged(diags)
  BY <1>2, <1>7
<1>9. \A a \in Nat : a < i => a # at
  BY <1>2, <1>7
<1> QED
  BY <1>2, <1>6, <1>8, <1>9

LEMMA ToldStep ==
  ASSUME ScannerInv, NEW at, NEW ds, NEW r, Reads(at, ds, r), AllTold
  PROVE  AllTold'
<1>1. src' = src
  BY DEF Reads
<1> SUFFICES ASSUME NEW k \in DOMAIN toks', toks'[k].kind = "FloatLit"
             PROVE  Told(toks'[k], diags')
  <2>1. \A t : WrittenExponent(t)' = WrittenExponent(t) /\ FractionDigits(t)' = FractionDigits(t)
    BY <1>1, ToldSame
  <2> QED
    BY <1>1, <2>1 DEF AllTold, Told
<1>2. CASE k \in DOMAIN toks /\ toks'[k] = toks[k]
  <2>1. Told(toks[k], diags)
    BY <1>2 DEF AllTold
  <2>2. toks[k].start \in Nat /\ toks[k].start < i
    <3>1. /\ toks[k].start \in 1 .. Len(src) /\ toks[k].start < toks[k].end /\ toks[k].end <= i
          /\ i \in 1 .. Len(src) + 1
      BY <1>2 DEF ScannerInv
    <3>2. toks[k].end \in Nat
      BY <1>2, TokensAre, Added DEF ScannerInv
    <3> QED
      BY <3>1, <3>2
  <2>3. toks[k].start \in Flagged(diags') <=> toks[k].start \in Flagged(diags)
    BY <2>2, FlaggedAfter
  <2> QED
    BY <1>2, <2>1, <2>3 DEF Told
<1>3. CASE toks'[k] = Token(at, r)
  <2>1. r.kind = "FloatLit" /\ Token(at, r).start = at
    BY <1>3 DEF Token
  <2>2. Read(at, r)
    <3>1. r.kind # "Eof"
      BY <2>1
    <3> QED
      BY <3>1, Added DEF Reads
  <2>3. Told(Token(at, r), r.diags)
    BY <2>1, <2>2 DEF Read
  <2>4. at \in Flagged(diags') <=> at \in Flagged(r.diags)
    BY FlaggedAfter
  <2> QED
    BY <1>3, <2>1, <2>3, <2>4 DEF Told
<1> QED
  BY <1>2, <1>3, TokensAfter

\* A float literal whose exponent, less its fraction digits, is negative is
\* reported where it starts, and no other is (scanner.rs:320-362), whatever the
\* text and the width of the exponent.
THEOREM NegativeExponentsFlagged == Spec => []NegativeExponentIsFlagged
<1> DEFINE Inv == ScannerInv /\ AllTold
<1>1. Init => Inv
  BY InvInit DEF Init, AllTold
<1>2. Inv /\ [Next]_vars => Inv'
  <2>1. CASE Inv /\ Next
    BY <2>1, StepReads, InvStep, ToldStep
  <2>2. CASE Inv /\ UNCHANGED vars
    <3>1. src' = src /\ i' = i /\ toks' = toks /\ diags' = diags
      BY <2>2 DEF vars
    <3>2. \A t : WrittenExponent(t)' = WrittenExponent(t) /\ FractionDigits(t)' = FractionDigits(t)
      BY <3>1, ToldSame
    <3> QED
      BY <2>2, <3>1, <3>2 DEF ScannerInv, AllTold, Told
  <2> QED
    BY <2>1, <2>2
<1>3. Inv => NegativeExponentIsFlagged
  <2> SUFFICES ASSUME Inv, NEW k \in DOMAIN toks, toks[k].kind = "FloatLit",
                      \E m \in toks[k].start .. toks[k].end - 1 : src[m] \in ExpMark,
                      {WrittenExponent(toks[k]), WrittenExponent(toks[k]) - FractionDigits(toks[k])}
                        \subseteq -I32MAX .. I32MAX
               PROVE  WrittenExponent(toks[k]) - FractionDigits(toks[k]) < 0
                      <=> \E d \in DOMAIN diags :
                            diags[d] = [rule |-> "exponent-float-literal", at |-> toks[k].start]
    BY DEF NegativeExponentIsFlagged
  <2>1. WrittenExponent(toks[k]) - FractionDigits(toks[k]) < 0 <=> toks[k].start \in Flagged(diags)
    BY DEF AllTold, Told
  <2>2. diags \in Reports
    BY DEF ScannerInv
  <2> QED
    BY <2>1, <2>2, FlaggedIs
<1> QED
  BY <1>1, <1>2, <1>3, PTL DEF Spec
-----------------------------------------------------------------------------
(***************************************************************************)
(* Block comments: the loop that counts, and the delimiters it counts.     *)
(***************************************************************************)
\* The delimiters of comments.
Mark(m) == Bytes(m, m + 2) \in {<<"/", "*">>, <<"*", "/">>}

\* They are marks, and of two marks that share a byte only the first is one.
LEMMA DelimsAre ==
  ASSUME src \in Text, NEW p \in 1 .. Len(src)
  PROVE  /\ Delims(p) \subseteq p + 2 .. Len(src) - 1
         /\ \A m \in p + 2 .. Len(src) - 1 : m \in Delims(p) <=> Mark(m) /\ m - 1 \notin Delims(p)
<1> DEFINE P == p + 1 .. Len(src)
           Of(g, m) == /\ m > p + 1
                       /\ Mark(m)
                       /\ ~g[m - 1]
           F == CHOOSE g : g = [m \in P |-> Of(g, m)]
           step == [x \in P \X BOOLEAN |-> x[1] > p + 1 /\ Mark(x[1]) /\ ~x[2]]
<1>0. Len(src) \in Nat
  BY TextLen
<1>1. Delims(p) = {m \in p + 2 .. Len(src) - 1 : F[m]}
  BY DEF Delims, Mark
<1>2. PICK g : IsFold(g, p + 1, Len(src), BOOLEAN, FALSE, step)
  <2>1. step \in [(p + 1 .. Len(src)) \X BOOLEAN -> BOOLEAN]
    OBVIOUS
  <2>2. p + 1 \in Int /\ Len(src) \in Int /\ FALSE \in BOOLEAN
    BY <1>0
  <2> HIDE DEF step, P
  <2> QED
    BY <2>1, <2>2, FoldExists
<1>3. g = [m \in P |-> Of(g, m)]
  <2>1. g \in [P -> BOOLEAN] /\ g = [m \in P |-> IF m = p + 1 THEN FALSE ELSE step[<<m, g[m - 1]>>]]
    BY <1>2 DEF IsFold
  <2>2. ASSUME NEW m \in P
        PROVE  Of(g, m) = IF m = p + 1 THEN FALSE ELSE step[<<m, g[m - 1]>>]
    <3>1. CASE m = p + 1
      <4>1. ~(m > p + 1)
        BY <1>0, <3>1
      <4> QED
        BY <3>1, <4>1
    <3>2. CASE m # p + 1
      <4>1. m > p + 1 /\ m - 1 \in P
        BY <1>0, <3>2
      <4>2. g[m - 1] \in BOOLEAN
        BY <2>1, <4>1
      <4>3. step[<<m, g[m - 1]>>] = (m > p + 1 /\ Mark(m) /\ ~g[m - 1])
        BY <4>2
      <4> QED
        BY <3>2, <4>3
    <3> QED
      BY <3>1, <3>2
  <2> HIDE DEF step, P, Of
  <2> QED
    BY <2>1, <2>2
<1>4. F = [m \in P |-> Of(F, m)]
  <2> HIDE DEF P, Of
  <2> QED
    BY <1>3
<1> HIDE DEF F
<1>5. \A m \in P : F[m] = Of(F, m)
  <2> HIDE DEF P, Of
  <2> QED
    BY <1>4
<1>6. \A m \in p + 2 .. Len(src) - 1 :
        m \in P /\ m - 1 \in P /\ m > p + 1 /\ (m - 1 = p + 1 \/ m - 1 \in p + 2 .. Len(src) - 1)
  BY <1>0
<1>7. p + 1 \in P => ~F[p + 1]
  <2>1. ~(p + 1 > p + 1)
    BY <1>0
  <2> QED
    BY <1>5, <2>1
<1>8. ASSUME NEW m \in p + 2 .. Len(src) - 1
      PROVE  m \in Delims(p) <=> Mark(m) /\ m - 1 \notin Delims(p)
  <2>1. m \in Delims(p) <=> F[m]
    BY <1>1
  <2>2. F[m] <=> Mark(m) /\ ~F[m - 1]
    BY <1>5, <1>6
  <2>3. m - 1 \in Delims(p) <=> F[m - 1]
    <3>1. CASE m - 1 = p + 1
      <4>1. m - 1 \notin p + 2 .. Len(src) - 1
        BY <1>0, <3>1
      <4> QED
        BY <1>1, <1>6, <1>7, <3>1, <4>1
    <3>2. CASE m - 1 \in p + 2 .. Len(src) - 1
      BY <1>1, <3>2
    <3> QED
      BY <1>6, <3>1, <3>2
  <2> QED
    BY <2>1, <2>2, <2>3
<1> QED
  BY <1>1, <1>8

\* How many comments are open at m, in the one that starts at p.
DelimsBefore(p, m, c) == {d \in Delims(p) : d < m /\ src[d] = c}
Depth(p, m) == 1 + Cardinality(DelimsBefore(p, m, "/")) - Cardinality(DelimsBefore(p, m, "*"))

LEMMA BlockCommentIs ==
  ASSUME NEW p, NEW e
  PROVE  BlockComment(p, e) <=>
           /\ Bytes(p, p + 2) = <<"/", "*">>
           /\ e - 2 \in Delims(p)
           /\ Depth(p, e) = 0
           /\ \A m \in p + 2 .. e - 2 : Depth(p, m) > 0
BY DEF BlockComment, Depth, DelimsBefore

\* The delimiters before a place, and before the next one.
LEMMA CountStep ==
  ASSUME src \in Text, NEW p \in 1 .. Len(src), NEW m \in Int, NEW c
  PROVE  /\ Cardinality(DelimsBefore(p, m, c)) \in Nat
         /\ Cardinality(DelimsBefore(p, m + 1, c)) =
              Cardinality(DelimsBefore(p, m, c)) + IF m \in Delims(p) /\ src[m] = c THEN 1 ELSE 0
<1> DEFINE S == DelimsBefore(p, m, c)
<1>0. Len(src) \in Nat /\ Delims(p) \subseteq p + 2 .. Len(src) - 1
  BY TextLen, DelimsAre
<1>1. \A d \in Delims(p) : d \in Int
  BY <1>0
<1>2. IsFiniteSet(S)
  <2>1. IsFiniteSet(p + 2 .. Len(src) - 1)
    BY <1>0, FS_Interval
  <2>2. S \in SUBSET (p + 2 .. Len(src) - 1)
    BY <1>0 DEF DelimsBefore
  <2> QED
    BY <2>1, <2>2, FS_Subset
<1>3. CASE m \in Delims(p) /\ src[m] = c
  <2>1. DelimsBefore(p, m + 1, c) = S \cup {m} /\ m \notin S
    <3>1. \A d \in Delims(p) : d < m + 1 /\ src[d] = c <=> (d < m /\ src[d] = c) \/ d = m
      BY <1>1, <1>3
    <3>2. ~(m < m)
      OBVIOUS
    <3> QED
      BY <1>3, <3>1, <3>2 DEF DelimsBefore
  <2> HIDE DEF S
  <2>2. Cardinality(S) \in Nat /\ Cardinality(S \cup {m}) = Cardinality(S) + 1
    BY <1>2, <2>1, FS_CardinalityType, FS_AddElement
  <2> QED
    BY <1>3, <2>1, <2>2 DEF S
<1>4. CASE ~(m \in Delims(p) /\ src[m] = c)
  <2>1. DelimsBefore(p, m + 1, c) = S
    <3>1. \A d \in Delims(p) : d < m + 1 /\ src[d] = c <=> d < m /\ src[d] = c
      BY <1>1, <1>4
    <3> QED
      BY <3>1 DEF DelimsBefore
  <2> HIDE DEF S
  <2>2. Cardinality(S) \in Nat
    BY <1>2, FS_CardinalityType
  <2> QED
    BY <1>4, <2>1, <2>2 DEF S
<1> QED
  BY <1>3, <1>4

\* It is one where the comment has just opened, one more past a delimiter that
\* opens, one less past one that closes, and else the same.
LEMMA DepthStep ==
  ASSUME src \in Text, NEW p \in 1 .. Len(src), NEW m \in Int
  PROVE  /\ Depth(p, m) \in Int
         /\ Depth(p, p + 2) = 1
         /\ m \notin Delims(p) => Depth(p, m + 1) = Depth(p, m)
         /\ m \in Delims(p) /\ src[m] = "/" => Depth(p, m + 1) = Depth(p, m) + 1
         /\ m \in Delims(p) /\ src[m] = "*" => Depth(p, m + 1) = Depth(p, m) - 1
<1> DEFINE opens(l) == Cardinality(DelimsBefore(p, l, "/"))
           closes(l) == Cardinality(DelimsBefore(p, l, "*"))
<1>1. /\ opens(m) \in Nat /\ closes(m) \in Nat
      /\ opens(m + 1) = opens(m) + IF m \in Delims(p) /\ src[m] = "/" THEN 1 ELSE 0
      /\ closes(m + 1) = closes(m) + IF m \in Delims(p) /\ src[m] = "*" THEN 1 ELSE 0
  BY CountStep
<1>2. opens(p + 2) = 0 /\ closes(p + 2) = 0
  <2>1. Delims(p) \subseteq p + 2 .. Len(src) - 1 /\ Len(src) \in Nat
    BY DelimsAre, TextLen
  <2>2. \A d \in Delims(p) : ~(d < p + 2)
    BY <2>1
  <2>3. DelimsBefore(p, p + 2, "/") = {} /\ DelimsBefore(p, p + 2, "*") = {}
    BY <2>2 DEF DelimsBefore
  <2> QED
    BY <2>3, FS_EmptySet
<1>3. /\ Depth(p, m) = 1 + opens(m) - closes(m)
      /\ Depth(p, m + 1) = 1 + opens(m + 1) - closes(m + 1)
      /\ Depth(p, p + 2) = 1 + opens(p + 2) - closes(p + 2)
  BY DEF Depth
<1> HIDE DEF opens, closes
<1>4. src[m] = "/" => src[m] # "*"
  OBVIOUS
<1>5. m \notin Delims(p) => Depth(p, m + 1) = Depth(p, m)
  BY <1>1, <1>3
<1>6. ASSUME m \in Delims(p), src[m] = "/" PROVE Depth(p, m + 1) = Depth(p, m) + 1
  <2>1. opens(m + 1) = opens(m) + 1 /\ closes(m + 1) = closes(m)
    BY <1>1, <1>4, <1>6
  <2> QED
    BY <1>1, <1>3, <2>1
<1>7. ASSUME m \in Delims(p), src[m] = "*" PROVE Depth(p, m + 1) = Depth(p, m) - 1
  <2>1. opens(m + 1) = opens(m) /\ closes(m + 1) = closes(m) + 1
    BY <1>1, <1>4, <1>7
  <2> QED
    BY <1>1, <1>3, <2>1
<1>8. Depth(p, m) \in Int /\ Depth(p, p + 2) = 1
  BY <1>1, <1>2, <1>3
<1> QED
  BY <1>5, <1>6, <1>7, <1>8

\* Marks are the two pairs of bytes the loop looks for.
LEMMA MarkIs ==
  ASSUME src \in Text, NEW m \in 1 .. Len(src)
  PROVE  /\ Pair(src, m, "/", "*") => /\ m + 1 <= Len(src) /\ src[m] = "/"
                                      /\ Bytes(m, m + 2) = <<"/", "*">>
         /\ Pair(src, m, "*", "/") => /\ m + 1 <= Len(src) /\ src[m] = "*"
                                      /\ Bytes(m, m + 2) = <<"*", "/">>
         /\ Mark(m) <=> Pair(src, m, "/", "*") \/ Pair(src, m, "*", "/")
<1>0. m \in Int /\ m > 0 /\ Len(src) \in Nat
  BY TextLen
<1>1. ASSUME NEW x, NEW y \in {"/", "*"}, Pair(src, m, x, y)
      PROVE  m + 1 <= Len(src) /\ src[m] = x /\ Bytes(m, m + 2) = <<x, y>>
  <2>1. m + 1 <= Len(src) /\ src[m] = x /\ src[m + 1] = y
    BY <1>0, <1>1, PairIn
  <2> QED
    BY <2>1, BytesAre
<1>2. ASSUME NEW x, NEW y, Bytes(m, m + 2) = <<x, y>> PROVE Pair(src, m, x, y)
  <2>1. src[m] = x /\ Peek(src, m + 1) = y
    BY <1>2, BytesMatch
  <2>2. Peek(src, m) = src[m]
    BY PeekIn
  <2> QED
    BY <2>1, <2>2 DEF Pair
<1>3. /\ Pair(src, m, "/", "*") => /\ m + 1 <= Len(src) /\ src[m] = "/"
                                   /\ Bytes(m, m + 2) = <<"/", "*">>
      /\ Pair(src, m, "*", "/") => /\ m + 1 <= Len(src) /\ src[m] = "*"
                                   /\ Bytes(m, m + 2) = <<"*", "/">>
  BY <1>1
<1>4. Mark(m) => Pair(src, m, "/", "*") \/ Pair(src, m, "*", "/")
  BY <1>2 DEF Mark
<1> QED
  BY <1>3, <1>4 DEF Mark

\* A turn of the loop follows the depth, from a byte that is not the second
\* one of a delimiter.
LEMMA DepthTurn ==
  ASSUME src \in Text, NEW p \in 1 .. Len(src), NEW m \in p + 2 .. Len(src), m - 1 \notin Delims(p)
  PROVE  /\ Pair(src, m, "*", "/") =>
              /\ m \in Delims(p) /\ m + 1 \notin Delims(p) /\ m + 1 <= Len(src)
              /\ Depth(p, m + 1) = Depth(p, m) - 1
              /\ Depth(p, m + 2) = Depth(p, m) - 1
         /\ Pair(src, m, "/", "*") =>
              /\ m + 1 \notin Delims(p) /\ m + 1 <= Len(src)
              /\ Depth(p, m + 1) = Depth(p, m) + 1
              /\ Depth(p, m + 2) = Depth(p, m) + 1
         /\ ~Pair(src, m, "*", "/") /\ ~Pair(src, m, "/", "*") =>
              m \notin Delims(p) /\ Depth(p, m + 1) = Depth(p, m)
<1>0. Len(src) \in Nat /\ m \in Int /\ m \in 1 .. Len(src) /\ m + 1 \in Int
      /\ (m + 1) + 1 = m + 2 /\ (m + 1) - 1 = m
  BY TextLen
<1>1. /\ Delims(p) \subseteq p + 2 .. Len(src) - 1
      /\ \A l \in p + 2 .. Len(src) - 1 : l \in Delims(p) <=> Mark(l) /\ l - 1 \notin Delims(p)
  BY DelimsAre
<1>2. ASSUME Mark(m), m + 1 <= Len(src) PROVE m \in Delims(p) /\ m + 1 \notin Delims(p)
  <2>1. m \in p + 2 .. Len(src) - 1
    BY <1>0, <1>2
  <2>2. m \in Delims(p)
    BY <1>1, <1>2, <2>1
  <2>3. m + 1 \notin Delims(p)
    <3>1. m + 1 \in p + 2 .. Len(src) - 1 => m + 1 \notin Delims(p)
      BY <1>0, <1>1, <2>2
    <3> QED
      BY <1>1, <3>1
  <2> QED
    BY <2>2, <2>3
<1>3. ASSUME Pair(src, m, "*", "/")
      PROVE  /\ m \in Delims(p) /\ m + 1 \notin Delims(p) /\ m + 1 <= Len(src)
             /\ Depth(p, m + 1) = Depth(p, m) - 1
             /\ Depth(p, m + 2) = Depth(p, m) - 1
  <2>1. m + 1 <= Len(src) /\ src[m] = "*" /\ Mark(m)
    BY <1>0, <1>3, MarkIs
  <2>2. m \in Delims(p) /\ m + 1 \notin Delims(p)
    BY <1>2, <2>1
  <2>3. Depth(p, m + 1) = Depth(p, m) - 1
    BY <1>0, <2>1, <2>2, DepthStep
  <2>4. Depth(p, (m + 1) + 1) = Depth(p, m + 1)
    BY <1>0, <2>2, DepthStep
  <2> QED
    BY <1>0, <2>1, <2>2, <2>3, <2>4
<1>4. ASSUME Pair(src, m, "/", "*")
      PROVE  /\ m + 1 \notin Delims(p) /\ m + 1 <= Len(src)
             /\ Depth(p, m + 1) = Depth(p, m) + 1
             /\ Depth(p, m + 2) = Depth(p, m) + 1
  <2>1. m + 1 <= Len(src) /\ src[m] = "/" /\ Mark(m)
    BY <1>0, <1>4, MarkIs
  <2>2. m \in Delims(p) /\ m + 1 \notin Delims(p)
    BY <1>2, <2>1
  <2>3. Depth(p, m + 1) = Depth(p, m) + 1
    BY <1>0, <2>1, <2>2, DepthStep
  <2>4. Depth(p, (m + 1) + 1) = Depth(p, m + 1)
    BY <1>0, <2>2, DepthStep
  <2> QED
    BY <1>0, <2>1, <2>2, <2>3, <2>4
<1>5. ASSUME ~Pair(src, m, "*", "/"), ~Pair(src, m, "/", "*")
      PROVE  m \notin Delims(p) /\ Depth(p, m + 1) = Depth(p, m)
  <2>1. ~Mark(m)
    BY <1>0, <1>5, MarkIs
  <2>2. m \notin Delims(p)
    BY <1>1, <2>1
  <2> QED
    BY <1>0, <2>2, DepthStep
<1> QED
  BY <1>3, <1>4, <1>5

\* The loop ends where the comment is closed, and nowhere if it never is.
ClosesAt(p, m, e) ==
  /\ e \in m + 2 .. Len(src) + 1
  /\ e - 2 \in Delims(p)
  /\ Depth(p, e) = 0
  /\ \A l \in m .. e - 2 : Depth(p, l) > 0

NeverCloses(p, m) == \A e \in m .. Len(src) + 1 : Depth(p, e) > 0

LEMMA BlockRuns ==
  ASSUME src \in Text, NEW p \in 1 .. Len(src), p + 2 <= Len(src) + 1
  PROVE  LET e == BlockEnd(src, p + 2)
         IN  IF e = 0 THEN NeverCloses(p, p + 2) ELSE ClosesAt(p, p + 2, e)
<1>0. Len(src) \in Nat /\ p + 2 \in 1 .. Len(src) + 1 /\ p + 2 \in Int /\ Len(src) + 1 \in Int
  BY TextLen
<1>1. PICK f : /\ BlockEnd(src, p + 2) = f[<<p + 2, 1>>]
               /\ \A m \in p + 2 .. Len(src) + 1, depth \in Nat :
                    f[<<m, depth>>] = BlockTurn(src, f, m, depth)
  BY <1>0, BlockLoop
<1> DEFINE P == p + 2 .. Len(src) + 1
           Result(m, e) == IF e = 0 THEN NeverCloses(p, m) ELSE ClosesAt(p, m, e)
           Good == {m \in P : m - 1 \notin Delims(p) /\ Depth(p, m) > 0 =>
                                Result(m, f[<<m, Depth(p, m)>>])}
<1>2. ASSUME NEW m \in P, \A l \in m + 1 .. Len(src) + 1 : l \in Good PROVE m \in Good
  <2> SUFFICES ASSUME m - 1 \notin Delims(p), Depth(p, m) > 0
               PROVE  Result(m, f[<<m, Depth(p, m)>>])
    OBVIOUS
  <2> DEFINE d == Depth(p, m)
             x == f[<<m, d>>]
  <2>0. m \in Int /\ d \in Nat /\ d # 0
    <3>1. m \in Int
      BY <1>0
    <3>2. Depth(p, m) \in Int
      BY <3>1, DepthStep
    <3> QED
      BY <3>1, <3>2
  <2>1. x = BlockTurn(src, f, m, d)
    BY <1>1, <2>0
  <2> HIDE DEF x, d
  \* The result at the next place carries over to m.
  <2>2. ASSUME NEW n \in {1, 2}, m + n <= Len(src) + 1, \A l \in m .. m + n - 1 : Depth(p, l) > 0,
               Result(m + n, x)
        PROVE  Result(m, x)
    <3>1. CASE x = 0
      <4>1. NeverCloses(p, m + n)
        BY <2>2, <3>1
      <4>2. \A e \in m .. Len(src) + 1 : e \in m .. m + n - 1 \/ e \in m + n .. Len(src) + 1
        BY <1>0, <2>0
      <4>3. NeverCloses(p, m)
        BY <2>2, <4>1, <4>2 DEF NeverCloses
      <4> QED
        BY <3>1, <4>3
    <3>2. CASE x # 0
      <4>1. ClosesAt(p, m + n, x)
        BY <2>2, <3>2
      <4>2. x \in m + n + 2 .. Len(src) + 1 /\ x - 2 \in Delims(p) /\ Depth(p, x) = 0
            /\ \A l \in m + n .. x - 2 : Depth(p, l) > 0
        BY <4>1 DEF ClosesAt
      <4>3. x \in m + 2 .. Len(src) + 1
        BY <1>0, <2>0, <4>2
      <4>4. \A l \in m .. x - 2 : l \in m .. m + n - 1 \/ l \in m + n .. x - 2
        BY <1>0, <2>0, <4>2
      <4>5. ClosesAt(p, m, x)
        BY <2>2, <4>2, <4>3, <4>4 DEF ClosesAt
      <4> QED
        BY <3>2, <4>5
    <3> QED
      BY <3>1, <3>2
  <2>3. CASE m > Len(src)
    <3>1. x = 0 /\ m = Len(src) + 1
      BY <1>0, <2>0, <2>1, <2>3 DEF BlockTurn
    <3>2. \A e \in m .. Len(src) + 1 : e = m
      BY <1>0, <2>0, <3>1
    <3>3. NeverCloses(p, m)
      BY <3>2 DEF NeverCloses
    <3> QED
      BY <3>1, <3>3 DEF x, d
  <2>4. CASE m <= Len(src) /\ Pair(src, m, "*", "/")
    <3>1. m \in p + 2 .. Len(src)
      BY <1>0, <2>0, <2>4
    <3>2. /\ m \in Delims(p) /\ m + 1 \notin Delims(p) /\ m + 1 <= Len(src)
          /\ Depth(p, m + 1) = d - 1
          /\ Depth(p, m + 2) = d - 1
      BY <2>4, <3>1, DepthTurn DEF d
    <3>3. x = f[<<m + 2, d - 1>>]
      BY <2>0, <2>1, <2>4 DEF BlockTurn
    <3>4. m + 2 \in P /\ m + 2 \in m + 1 .. Len(src) + 1 /\ (m + 2) - 1 = m + 1 /\ (m + 2) - 2 = m
      BY <1>0, <2>0, <3>2
    <3>5. CASE d - 1 = 0
      <4>1. x = BlockTurn(src, f, m + 2, 0)
        BY <1>1, <3>3, <3>4, <3>5
      <4>2. x = m + 2 /\ x # 0
        BY <1>0, <2>0, <4>1 DEF BlockTurn
      <4>3. \A l \in m .. x - 2 : l = m
        BY <2>0, <4>2
      <4>4. x \in m + 2 .. Len(src) + 1
        BY <2>0, <3>4, <4>2
      <4>5. ClosesAt(p, m, x)
        BY <3>2, <3>4, <3>5, <4>2, <4>3, <4>4 DEF ClosesAt
      <4> QED
        BY <4>2, <4>5 DEF x, d
    <3>6. CASE d - 1 # 0
      <4>1. Depth(p, m + 1) > 0 /\ Depth(p, m + 2) > 0
        BY <2>0, <3>2, <3>6
      <4>2. Result(m + 2, x)
        BY <1>2, <3>2, <3>3, <3>4, <4>1
      <4>3. \A l \in m .. m + 2 - 1 : Depth(p, l) > 0
        <5>1. \A l \in m .. m + 2 - 1 : l = m \/ l = m + 1
          BY <2>0
        <5> QED
          BY <4>1, <5>1
      <4>4. m + 2 <= Len(src) + 1
        BY <2>0, <3>4
      <4> HIDE DEF Result
      <4>5. Result(m, x)
        BY <2>2, <4>2, <4>3, <4>4
      <4> QED
        BY <4>5 DEF x, d
    <3> QED
      BY <3>5, <3>6
  <2>5. CASE m <= Len(src) /\ ~Pair(src, m, "*", "/") /\ Pair(src, m, "/", "*")
    <3>1. m \in p + 2 .. Len(src)
      BY <1>0, <2>0, <2>5
    <3>2. /\ m + 1 \notin Delims(p) /\ m + 1 <= Len(src)
          /\ Depth(p, m + 1) = d + 1
          /\ Depth(p, m + 2) = d + 1
      BY <2>5, <3>1, DepthTurn DEF d
    <3>3. x = f[<<m + 2, d + 1>>]
      BY <2>0, <2>1, <2>5 DEF BlockTurn
    <3>4. m + 2 \in P /\ m + 2 \in m + 1 .. Len(src) + 1 /\ (m + 2) - 1 = m + 1 /\ (m + 2) - 2 = m
      BY <1>0, <2>0, <3>2
    <3>5. Depth(p, m + 1) > 0 /\ Depth(p, m + 2) > 0
      BY <2>0, <3>2
    <3>6. Result(m + 2, x)
      BY <1>2, <3>2, <3>3, <3>4, <3>5
    <3>7. \A l \in m .. m + 2 - 1 : Depth(p, l) > 0
      <4>1. \A l \in m .. m + 2 - 1 : l = m \/ l = m + 1
        BY <2>0
      <4> QED
        BY <3>5, <4>1
    <3>8. m + 2 <= Len(src) + 1
      BY <2>0, <3>4
    <3> HIDE DEF Result
    <3>9. Result(m, x)
      BY <2>2, <3>6, <3>7, <3>8
    <3> QED
      BY <3>9 DEF x, d
  <2>6. CASE m <= Len(src) /\ ~Pair(src, m, "*", "/") /\ ~Pair(src, m, "/", "*")
    <3>1. m \in p + 2 .. Len(src)
      BY <1>0, <2>0, <2>6
    <3>2. m \notin Delims(p) /\ Depth(p, m + 1) = d
      BY <2>6, <3>1, DepthTurn DEF d
    <3>3. x = f[<<m + 1, d>>]
      BY <2>0, <2>1, <2>6 DEF BlockTurn
    <3>4. m + 1 \in P /\ m + 1 \in m + 1 .. Len(src) + 1 /\ (m + 1) - 1 = m
      BY <1>0, <2>0, <2>6
    <3>5. Depth(p, m + 1) > 0
      BY <3>2 DEF d
    <3>6. Result(m + 1, x)
      BY <1>2, <3>2, <3>3, <3>4, <3>5
    <3>7. \A l \in m .. m + 1 - 1 : Depth(p, l) > 0
      <4>1. \A l \in m .. m + 1 - 1 : l = m
        BY <2>0
      <4> QED
        BY <4>1
    <3>8. m + 1 <= Len(src) + 1
      BY <2>0, <3>4
    <3> HIDE DEF Result
    <3>9. Result(m, x)
      BY <2>2, <3>6, <3>7, <3>8
    <3> QED
      BY <3>9 DEF x, d
  <2>7. m > Len(src) \/ m <= Len(src)
    BY <1>0, <2>0
  <2> QED
    BY <2>3, <2>4, <2>5, <2>6, <2>7
<1>3. \A m \in P : m \in Good
  <2> HIDE DEF Good
  <2> QED
    BY <1>0, <1>2, Downward
<1>4. p + 2 \in P /\ p + 2 - 1 \notin Delims(p) /\ Depth(p, p + 2) = 1
  <2>1. Delims(p) \subseteq p + 2 .. Len(src) - 1
    BY DelimsAre
  <2>2. p + 2 - 1 \notin p + 2 .. Len(src) - 1 /\ p + 2 \in P
    BY <1>0
  <2>3. Depth(p, p + 2) = 1
    BY <1>0, DepthStep
  <2> QED
    BY <2>1, <2>2, <2>3
<1>5. Result(p + 2, f[<<p + 2, 1>>])
  BY <1>3, <1>4
<1> QED
  BY <1>1, <1>5

\* A block comment is what the loop reads as one.
LEMMA BlockRead ==
  ASSUME src \in Text, NEW p \in 1 .. Len(src), Pair(src, p, "/", "*")
  PROVE  /\ p + 1 <= Len(src)
         /\ BlockEnd(src, p + 2) # 0 => BlockComment(p, BlockEnd(src, p + 2))
         /\ BlockEnd(src, p + 2) = 0 => \A e \in p + 2 .. Len(src) + 1 : ~BlockComment(p, e)
<1>1. p + 1 <= Len(src) /\ Bytes(p, p + 2) = <<"/", "*">>
  BY MarkIs
<1>2. p + 2 <= Len(src) + 1
  BY <1>1, TextLen
<1>3. IF BlockEnd(src, p + 2) = 0 THEN NeverCloses(p, p + 2)
      ELSE ClosesAt(p, p + 2, BlockEnd(src, p + 2))
  BY <1>2, BlockRuns
<1>4. ASSUME BlockEnd(src, p + 2) # 0 PROVE BlockComment(p, BlockEnd(src, p + 2))
  BY <1>1, <1>3, <1>4, BlockCommentIs DEF ClosesAt
<1>5. ASSUME NEW e \in p + 2 .. Len(src) + 1, BlockEnd(src, p + 2) = 0 PROVE ~BlockComment(p, e)
  <2>1. Depth(p, e) > 0
    BY <1>3, <1>5 DEF NeverCloses
  <2>2. Depth(p, e) # 0
    BY <2>1
  <2> QED
    BY <2>2, BlockCommentIs
<1> QED
  BY <1>1, <1>4, <1>5
-----------------------------------------------------------------------------
(***************************************************************************)
(* Trivia is a chain of spaces and comments.                               *)
(***************************************************************************)
\* p .. m-1 is a space or a comment.
Piece(p, m) ==
  \/ m = p + 1 /\ src[p] \in Space
  \/ m >= p + 2 /\ (BlockComment(p, m) \/ LineComment(p, m))

Pieces == {e \in Nat \X Nat : Piece(e[1], e[2])}

\* Trivia is a chain of pieces.
LEMMA TriviaIs ==
  ASSUME NEW a \in Nat \ {0}, NEW b \in a .. Len(src) + 1, src \in Text
  PROVE  \E g : OnlyTrivia(a, b) = g[b] /\ IsPath(g, a, b, Pieces)
<1> DEFINE Of(g, m) == \/ m = a
                       \/ m > a /\ g[m - 1] /\ src[m - 1] \in Space
                       \/ \E p \in a .. m - 2 : g[p] /\ (BlockComment(p, m) \/ LineComment(p, m))
           On(g, m) == m = a \/ \E p \in a .. m - 1 : g[p] /\ <<p, m>> \in Pieces
           F == CHOOSE g : g = [m \in a .. b |-> Of(g, m)]
<1>0. a \in Int /\ b \in Int
  BY TextLen
<1>1. OnlyTrivia(a, b) = F[b]
  BY DEF OnlyTrivia
<1>2. ASSUME NEW g, NEW m \in a .. b PROVE Of(g, m) = On(g, m)
  <2>0. m \in Int
    BY <1>0
  <2>1. \A p \in a .. m - 1 : <<p, m>> \in Pieces <=> Piece(p, m)
    <3>1. \A p \in a .. m - 1 : p \in Nat /\ m \in Nat
      BY <1>0
    <3> QED
      BY <3>1 DEF Pieces
  <2>2. ASSUME m > a, g[m - 1], src[m - 1] \in Space
        PROVE  \E p \in a .. m - 1 : g[p] /\ <<p, m>> \in Pieces
    <3>1. m - 1 \in a .. m - 1 /\ m = (m - 1) + 1
      BY <1>0, <2>0, <2>2
    <3>2. Piece(m - 1, m)
      BY <2>2, <3>1 DEF Piece
    <3> QED
      BY <2>1, <2>2, <3>1, <3>2
  <2>3. ASSUME NEW p \in a .. m - 2, g[p], BlockComment(p, m) \/ LineComment(p, m)
        PROVE  \E q \in a .. m - 1 : g[q] /\ <<q, m>> \in Pieces
    <3>1. p \in a .. m - 1 /\ m >= p + 2
      BY <1>0, <2>0
    <3>2. Piece(p, m)
      BY <2>3, <3>1 DEF Piece
    <3> QED
      BY <2>1, <2>3, <3>1, <3>2
  <2>4. ASSUME NEW p \in a .. m - 1, g[p], <<p, m>> \in Pieces PROVE Of(g, m)
    <3>1. CASE m = p + 1 /\ src[p] \in Space
      <4>1. p = m - 1 /\ m > a
        BY <1>0, <2>0, <3>1
      <4> QED
        BY <2>4, <3>1, <4>1
    <3>2. CASE m >= p + 2 /\ (BlockComment(p, m) \/ LineComment(p, m))
      <4>1. p \in a .. m - 2
        BY <1>0, <2>0, <3>2
      <4> QED
        BY <2>4, <3>2, <4>1
    <3> QED
      BY <2>1, <2>4, <3>1, <3>2 DEF Piece
  <2> QED
    BY <2>2, <2>3, <2>4
<1>3. PICK g : IsPath(g, a, b, Pieces)
  BY <1>0, PathExists
<1>4. F = [m \in a .. b |-> Of(F, m)]
  <2> HIDE DEF Of
  <2>1. g = [m \in a .. b |-> Of(g, m)]
    BY <1>2, <1>3 DEF IsPath
  <2> QED
    BY <2>1
<1>5. IsPath(F, a, b, Pieces)
  <2> HIDE DEF F, Of
  <2> QED
    BY <1>2, <1>4 DEF IsPath
<1> QED
  BY <1>1, <1>5

\* How far the chain is followed does not matter.
LEMMA PathsAgree ==
  ASSUME NEW a \in Int, NEW b \in Int, NEW c \in Int, NEW E, b <= c,
         NEW g, IsPath(g, a, b, E), NEW h, IsPath(h, a, c, E)
  PROVE  \A m \in a .. b : g[m] = h[m]
<1> DEFINE Same == {m \in a .. b : g[m] = h[m]}
<1>1. ASSUME NEW m \in a .. b, \A l \in a .. m - 1 : l \in Same PROVE m \in Same
  <2>1. g[m] = (m = a \/ \E p \in a .. m - 1 : g[p] /\ <<p, m>> \in E)
    BY DEF IsPath
  <2>2. m \in a .. c
    OBVIOUS
  <2>3. h[m] = (m = a \/ \E p \in a .. m - 1 : h[p] /\ <<p, m>> \in E)
    BY <2>2 DEF IsPath
  <2>4. \A p \in a .. m - 1 : g[p] = h[p]
    BY <1>1
  <2> QED
    BY <2>1, <2>3, <2>4
<1> HIDE DEF Same
<1>2. \A m \in a .. b : m \in Same
  BY <1>1, Upward
<1> QED
  BY <1>2 DEF Same

LEMMA NoTrivia ==
  ASSUME NEW a \in Nat \ {0}, a <= Len(src) + 1, src \in Text
  PROVE  OnlyTrivia(a, a)
<1>1. a \in a .. Len(src) + 1
  BY TextLen
<1>2. PICK g : OnlyTrivia(a, a) = g[a] /\ IsPath(g, a, a, Pieces)
  BY <1>1, TriviaIs
<1>3. a \in a .. a
  OBVIOUS
<1> QED
  BY <1>2, <1>3 DEF IsPath

\* One more piece.
LEMMA MoreTrivia ==
  ASSUME NEW a \in Nat \ {0}, NEW m \in a .. Len(src) + 1, NEW e \in m + 1 .. Len(src) + 1,
         src \in Text, OnlyTrivia(a, m), Piece(m, e)
  PROVE  OnlyTrivia(a, e)
<1>0. Len(src) \in Nat /\ a \in Int /\ m \in Int /\ e \in Int /\ m <= e
      /\ e \in a .. Len(src) + 1 /\ m \in a .. e - 1 /\ m \in a .. m /\ e \in a .. e
      /\ m \in Nat /\ e \in Nat
  BY TextLen
<1>1. PICK g : OnlyTrivia(a, m) = g[m] /\ IsPath(g, a, m, Pieces)
  BY TriviaIs
<1>2. PICK h : OnlyTrivia(a, e) = h[e] /\ IsPath(h, a, e, Pieces)
  BY <1>0, TriviaIs
<1>3. h[m]
  <2>1. \A l \in a .. m : g[l] = h[l]
    BY <1>0, <1>1, <1>2, PathsAgree
  <2>2. g[m] = h[m]
    BY <1>0, <2>1
  <2> QED
    BY <1>1, <2>2
<1>4. <<m, e>> \in Pieces
  BY <1>0 DEF Pieces
<1>5. h[e] = (e = a \/ \E p \in a .. e - 1 : h[p] /\ <<p, e>> \in Pieces)
  BY <1>0, <1>2 DEF IsPath
<1> QED
  BY <1>0, <1>2, <1>3, <1>4, <1>5

\* A line comment ends where the run of other bytes than newlines does.
LEMMA LineRead ==
  ASSUME src \in Text, NEW p \in 1 .. Len(src), Pair(src, p, "/", "/")
  PROVE  LineComment(p, RunEnd(src, p + 2, {src[b] : b \in DOMAIN src} \ {"\n"}))
<1> DEFINE C == {src[b] : b \in DOMAIN src} \ {"\n"}
           e == RunEnd(src, p + 2, C)
<1>0. Len(src) \in Nat /\ p \in Int /\ p > 0 /\ DOMAIN src = 1 .. Len(src)
  BY TextLen
<1>1. p + 1 <= Len(src) /\ p + 2 \in 1 .. Len(src) + 1 /\ src[p] = "/" /\ src[p + 1] = "/"
  BY <1>0, PairIn
<1>2. Bytes(p, p + 2) = <<"/", "/">>
  BY <1>1, BytesAre
<1>3. /\ e \in p + 2 .. Len(src) + 1
      /\ e = Len(src) + 1 \/ src[e] \notin C
      /\ \A m \in p + 2 .. e - 1 : src[m] \in C
  <2> HIDE DEF C
  <2> QED
    BY <1>1, RunEnds
<1>4. e = Len(src) + 1 \/ src[e] = "\n"
  <2> HIDE DEF e
  <2>1. CASE e # Len(src) + 1
    <3>1. e \in DOMAIN src
      BY <1>0, <1>3, <2>1
    <3> QED
      BY <1>3, <2>1, <3>1
  <2> QED
    BY <2>1
<1>5. ASSUME NEW m \in p .. e - 1 PROVE src[m] # "\n"
  <2> HIDE DEF e
  <2>1. m = p \/ m = p + 1 \/ m \in p + 2 .. e - 1
    BY <1>0, <1>3
  <2>2. "/" # "\n"
    OBVIOUS
  <2> QED
    BY <1>1, <1>3, <2>1, <2>2
<1> QED
  BY <1>2, <1>4, <1>5 DEF LineComment

\* What is skipped is trivia, up to a comment that does not end.
OpenAt(a, p) ==
  /\ p \in a .. Len(src) - 1
  /\ OnlyTrivia(a, p)
  /\ Bytes(p, p + 2) = <<"/", "*">>
  /\ \A e \in p + 2 .. Len(src) + 1 : ~BlockComment(p, e)

Skipped(a, at, ds) ==
  \/ ds = <<>> /\ OnlyTrivia(a, at)
  \/ /\ at = Len(src) + 1
     /\ \E p \in a .. Len(src) - 1 : OpenAt(a, p) /\ ds = Diag("lex-unterminated-comment", p)

LEMMA SkipReads ==
  ASSUME src \in Text, NEW a \in 1 .. Len(src) + 1
  PROVE  Skipped(a, SkipTrivia(src, a).at, SkipTrivia(src, a).diags)
<1>0. Len(src) \in Nat /\ a \in Int /\ a \in Nat \ {0} /\ a <= Len(src) + 1 /\ Len(src) + 1 \in Int
  BY TextLen
<1>1. PICK f : /\ SkipTrivia(src, a) = f[a]
               /\ \A m \in a .. Len(src) + 1 : f[m] = SkipTurn(src, f, m)
  BY SkipLoop
<1> DEFINE Good == {m \in a .. Len(src) + 1 : OnlyTrivia(a, m) => Skipped(a, f[m].at, f[m].diags)}
<1>2. ASSUME NEW m \in a .. Len(src) + 1, \A l \in m + 1 .. Len(src) + 1 : l \in Good
      PROVE  m \in Good
  <2> SUFFICES ASSUME OnlyTrivia(a, m) PROVE Skipped(a, f[m].at, f[m].diags)
    OBVIOUS
  <2>0. m \in Int /\ m > 0 /\ m \in 1 .. Len(src) + 1 /\ f[m] = SkipTurn(src, f, m)
    BY <1>0, <1>1
  <2>1. ASSUME NEW e \in m + 1 .. Len(src) + 1, Piece(m, e), f[m] = f[e]
        PROVE  Skipped(a, f[m].at, f[m].diags)
    <3>1. OnlyTrivia(a, e)
      BY <1>0, <2>1, MoreTrivia
    <3> QED
      BY <1>2, <2>1, <3>1
  <2>2. CASE Peek(src, m) \in Space
    <3>1. m + 1 \in m + 1 .. Len(src) + 1
      BY <2>0, <2>2, PieceEnds
    <3>2. f[m] = f[m + 1]
      BY <2>0, <2>2, SkipCases
    <3>3. Piece(m, m + 1)
      <4>1. Peek(src, m) = src[m]
        <5>1. m \in 1 .. Len(src)
          BY <1>0, <2>0, <3>1
        <5> QED
          BY <5>1, PeekIn
      <4> QED
        BY <2>2, <4>1 DEF Piece
    <3> QED
      BY <2>1, <3>1, <3>2, <3>3
  <2>3. CASE Pair(src, m, "/", "/")
    <3> DEFINE e == RunEnd(src, m + 2, {src[b] : b \in DOMAIN src} \ {"\n"})
    <3>1. e \in m + 2 .. Len(src) + 1 /\ f[m] = f[e]
      BY <2>0, <2>3, PieceEnds, SkipCases
    <3>2. LineComment(m, e)
      <4>1. m \in 1 .. Len(src)
        <5>1. m + 1 <= Len(src)
          BY <2>0, <2>3, PairIn
        <5> QED
          BY <1>0, <2>0, <5>1
      <4> QED
        BY <2>3, <4>1, LineRead
    <3> HIDE DEF e
    <3>3. e \in m + 1 .. Len(src) + 1 /\ e >= m + 2
      BY <1>0, <2>0, <3>1
    <3>4. Piece(m, e)
      BY <3>2, <3>3 DEF Piece
    <3> QED
      BY <2>1, <3>1, <3>3, <3>4
  <2>4. CASE Pair(src, m, "/", "*")
    <3>1. m \in 1 .. Len(src)
      <4>1. m + 1 <= Len(src)
        BY <2>0, <2>4, PairIn
      <4> QED
        BY <1>0, <2>0, <4>1
    <3>2. CASE BlockEnd(src, m + 2) # 0
      <4> DEFINE e == BlockEnd(src, m + 2)
      <4>1. e \in m + 2 .. Len(src) + 1 /\ f[m] = f[e]
        BY <2>0, <2>4, <3>2, PieceEnds, SkipCases
      <4>2. BlockComment(m, e)
        BY <2>4, <3>1, <3>2, BlockRead
      <4> HIDE DEF e
      <4>3. e \in m + 1 .. Len(src) + 1 /\ e >= m + 2
        BY <1>0, <2>0, <4>1
      <4>4. Piece(m, e)
        BY <4>2, <4>3 DEF Piece
      <4> QED
        BY <2>1, <4>1, <4>3, <4>4
    <3>3. CASE BlockEnd(src, m + 2) = 0
      <4>1. f[m] = [at |-> Len(src) + 1, diags |-> Diag("lex-unterminated-comment", m)]
        BY <2>0, <2>4, <3>3, SkipCases
      <4>2. m + 1 <= Len(src) /\ \A e \in m + 2 .. Len(src) + 1 : ~BlockComment(m, e)
        BY <2>4, <3>1, <3>3, BlockRead
      <4>3. Bytes(m, m + 2) = <<"/", "*">>
        BY <2>4, <3>1, MarkIs
      <4>4. m \in a .. Len(src) - 1
        BY <1>0, <2>0, <4>2
      <4>5. OpenAt(a, m)
        BY <4>2, <4>3, <4>4 DEF OpenAt
      <4> QED
        BY <4>1, <4>4, <4>5 DEF Skipped
    <3> QED
      BY <3>2, <3>3
  <2>5. CASE Peek(src, m) \notin Space /\ ~Pair(src, m, "/", "/") /\ ~Pair(src, m, "/", "*")
    <3>1. f[m] = [at |-> m, diags |-> <<>>]
      BY <2>0, <2>5, SkipCases
    <3> QED
      BY <3>1 DEF Skipped
  <2> QED
    BY <2>2, <2>3, <2>4, <2>5
<1>3. \A m \in a .. Len(src) + 1 : m \in Good
  <2> HIDE DEF Good
  <2> QED
    BY <1>0, <1>2, Downward
<1>4. a \in a .. Len(src) + 1 /\ OnlyTrivia(a, a)
  BY <1>0, NoTrivia
<1> QED
  BY <1>1, <1>3, <1>4
-----------------------------------------------------------------------------
(***************************************************************************)
(* Tiling.                                                                 *)
(***************************************************************************)
\* What lies between a and the end of token t, when ds was reported.
From(k) == IF k = 1 THEN 1 ELSE toks[k - 1].end
Unterminated(p) == [rule |-> "lex-unterminated-comment", at |-> p]

Tiled(a, t, ds) ==
  IF t.kind = "Eof"
  THEN /\ t.start = Len(src) + 1
       /\ \/ OnlyTrivia(a, t.start)
          \/ \E p \in a .. Len(src) - 1 : OpenAt(a, p) /\ Has(ds, Unterminated(p))
  ELSE t.end > t.start /\ OnlyTrivia(a, t.start)

AllTiled == \A k \in DOMAIN toks : Tiled(From(k), toks[k], diags)

LEMMA TriviaSame ==
  ASSUME src' = src
  PROVE  /\ \A a, b : OnlyTrivia(a, b)' = OnlyTrivia(a, b)
         /\ \A a, p : OpenAt(a, p)' = OpenAt(a, p)
<1>1. ASSUME NEW a, NEW b PROVE OnlyTrivia(a, b)' = OnlyTrivia(a, b)
  BY DEF OnlyTrivia, BlockComment, LineComment, Delims, Bytes
<1>2. ASSUME NEW a, NEW b PROVE BlockComment(a, b)' = BlockComment(a, b)
  BY DEF BlockComment, Delims, Bytes
<1>3. ASSUME NEW a, NEW p PROVE OpenAt(a, p)' = OpenAt(a, p)
  BY <1>1, <1>2 DEF OpenAt, Bytes
<1> QED
  BY <1>1, <1>3

LEMMA AllTiledNext ==
  ASSUME src' = src, \A k \in DOMAIN toks' : Tiled(From(k)', toks'[k], diags')
  PROVE  AllTiled'
<1>1. /\ \A a, b : OnlyTrivia(a, b)' = OnlyTrivia(a, b)
      /\ \A a, p : OpenAt(a, p)' = OpenAt(a, p)
  BY TriviaSame
<1> QED
  BY <1>1 DEF AllTiled, Tiled, From

LEMMA TiledStep ==
  ASSUME ScannerInv, NEW at, NEW ds, NEW r, Reads(at, ds, r), AllTiled
  PROVE  AllTiled'
<1>1. src' = src /\ SkipTrivia(src, i) = [at |-> at, diags |-> ds] /\ at \in i .. Len(src) + 1
  BY DEF Reads
<1>2. /\ src \in Text /\ Len(src) \in Nat /\ at \in Nat
      /\ r.kind = "Eof" <=> at = Len(src) + 1
      /\ at <= Len(src) => at < r.end
      /\ Token(at, r) \in [kind : Kinds, start : Nat, end : Nat]
  BY Added
<1>3. toks \in Tokens /\ toks' = Append(toks, Token(at, r)) /\ i \in 1 .. Len(src) + 1
  BY DEF ScannerInv, Reads
<1>4. /\ Len(toks) \in Nat /\ DOMAIN toks = 1 .. Len(toks)
      /\ \A k \in 1 .. Len(toks) : toks'[k] = toks[k]
  BY <1>2, <1>3, TokensAre
<1>5. \A p : Has(diags, Unterminated(p)) => Has(diags', Unterminated(p))
  BY ReportedAfter
<1> SUFFICES ASSUME NEW k \in DOMAIN toks' PROVE Tiled(From(k)', toks'[k], diags')
  BY <1>1, AllTiledNext
<1>6. CASE k \in DOMAIN toks /\ toks'[k] = toks[k]
  <2>1. From(k)' = From(k)
    <3>1. k # 1 => k - 1 \in 1 .. Len(toks)
      BY <1>4, <1>6
    <3> QED
      BY <1>4, <3>1 DEF From
  <2>2. Tiled(From(k), toks[k], diags)
    BY <1>6 DEF AllTiled
  <2> QED
    BY <1>5, <1>6, <2>1, <2>2 DEF Tiled
<1>7. CASE k = Len(toks) + 1 /\ toks'[k] = Token(at, r)
  <2>1. From(k)' = i
    <3>1. CASE toks = <<>>
      <4>1. k = 1 /\ i = 1
        BY <1>7, <3>1 DEF ScannerInv
      <4> QED
        BY <4>1 DEF From
    <3>2. CASE toks # <<>>
      <4>1. Len(toks) # 0
        BY <1>3, <3>2 DEF Tokens
      <4>2. k # 1 /\ k - 1 = Len(toks) /\ Len(toks) \in 1 .. Len(toks)
        BY <1>4, <1>7, <4>1
      <4>3. toks[Len(toks)].end = i
        BY <1>4, <4>2 DEF ScannerInv
      <4>4. toks'[k - 1] = toks[Len(toks)]
        BY <1>4, <4>2
      <4> QED
        BY <4>2, <4>3, <4>4 DEF From
    <3> QED
      BY <3>1, <3>2
  <2>2. toks'[k].kind = r.kind /\ toks'[k].start = at /\ toks'[k].end = r.end
    BY <1>7 DEF Token
  <2>3. Skipped(i, at, ds)
    <3>1. Skipped(i, SkipTrivia(src, i).at, SkipTrivia(src, i).diags)
      BY <1>2, <1>3, SkipReads
    <3> QED
      BY <1>1, <3>1
  <2>4. CASE r.kind = "Eof"
    <3>1. at = Len(src) + 1
      BY <1>2, <2>4
    <3>2. ASSUME NEW p, ds = Diag("lex-unterminated-comment", p)
          PROVE  Has(diags', Unterminated(p))
      <4>1. Has(ds, Unterminated(p))
        BY <3>2 DEF Has, Diag, Unterminated
      <4> QED
        BY <4>1, ReportedAfter
    <3> QED
      BY <2>1, <2>2, <2>3, <2>4, <3>1, <3>2 DEF Tiled, Skipped
  <2>5. CASE r.kind # "Eof"
    <3>1. at # Len(src) + 1 /\ at < r.end
      BY <1>1, <1>2, <1>3, <2>5
    <3>2. r.end > at
      BY <1>2, <3>1 DEF Token
    <3>3. OnlyTrivia(i, at)
      BY <2>3, <3>1 DEF Skipped
    <3> QED
      BY <2>1, <2>2, <2>5, <3>2, <3>3 DEF Tiled
  <2> QED
    BY <2>4, <2>5
<1> QED
  BY <1>6, <1>7, TokensAfter

\* The tokens and the trivia between them tile the source, whatever it is: no
\* byte is read twice and none is skipped that is not a space or in a comment;
\* comments nest (scanner.rs:88-127).
THEOREM TokensTileTheSource == Spec => []SourceIsTiled
<1> DEFINE Inv == ScannerInv /\ AllTiled
<1>1. Init => Inv
  BY InvInit DEF Init, AllTiled
<1>2. Inv /\ [Next]_vars => Inv'
  <2>1. CASE Inv /\ Next
    BY <2>1, StepReads, InvStep, TiledStep
  <2>2. CASE Inv /\ UNCHANGED vars
    <3>1. src' = src /\ i' = i /\ toks' = toks /\ diags' = diags
      BY <2>2 DEF vars
    <3>2. \A k \in DOMAIN toks' : Tiled(From(k)', toks'[k], diags')
      BY <2>2, <3>1 DEF AllTiled, From
    <3>3. AllTiled'
      BY <3>1, <3>2, AllTiledNext
    <3> QED
      BY <2>2, <3>1, <3>3 DEF ScannerInv
  <2> QED
    BY <2>1, <2>2
<1>3. Inv => SourceIsTiled
  <2> SUFFICES ASSUME Inv, NEW k \in DOMAIN toks
               PROVE  IF toks[k].kind = "Eof"
                      THEN toks[k].start = Len(src) + 1
                             /\ (OnlyTrivia(From(k), toks[k].start) \/ OpenComment(From(k)))
                      ELSE toks[k].end > toks[k].start /\ OnlyTrivia(From(k), toks[k].start)
    BY DEF SourceIsTiled, From
  <2>1. \A p \in From(k) .. Len(src) - 1 :
          OpenAt(From(k), p) /\ Has(diags, Unterminated(p)) => OpenComment(From(k))
    BY DEF OpenComment, OpenAt, Has, Unterminated
  <2> QED
    BY <2>1 DEF AllTiled, Tiled
<1> QED
  BY <1>1, <1>2, <1>3, PTL DEF Spec
=============================================================================
