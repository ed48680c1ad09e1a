----------------------------- MODULE HolyccProps -----------------------------
(***************************************************************************)
(* What holycc lint promises, told without its recursive descent: of the   *)
(* tree, against the tokens it was read from, and of the diagnostics,      *)
(* against the tree and the tokens.                                        *)
(***************************************************************************)
EXTENDS HolyCStmt, HolyccNames

ItemMade == phase = "parse" /\ Len(items') = Len(items) + 1
LastItem == items[Len(items)]
-----------------------------------------------------------------------------
(* The words of a tree: its tokens in order, but for the separators.        *)

Separators == {";", ",", "(", ")", "{", "}", "[", "]", ":", "..", "...", "#",
               "class", "union"}
Words(toks) == SelectSeq(toks, LAMBDA t : t \notin Separators)

Joined(Of(_), parts) == FlattenSeq([n \in DOMAIN parts |-> Of(parts[n])])
Stars(n) == [m \in 1 .. n |-> "*"]

RECURSIVE ExprWords(_), TypedWords(_, _), InitWords(_), StmtWords(_), ParamWords(_)

OptWords(e) == IF e = None THEN <<>> ELSE ExprWords(e)

\* The name, "" for none, stands inside the type of a function pointer.
TypedWords(ty, name) ==
  LET own == IF name = "" THEN <<>> ELSE <<name>>
  IN  IF ty[1] = "ty" THEN <<ty[2]>> \o Stars(ty[3]) \o own
      ELSE TypedWords(ty[2], "") \o Stars(ty[4]) \o own \o Joined(ParamWords, ty[3])

ExprWords(e) ==
  LET tag == e[1]
  IN  CASE tag \in {"lit", "id"} -> <<e[3]>>
        [] tag = "pre"     -> <<e[3]>> \o ExprWords(e[4])
        [] tag = "post"    -> ExprWords(e[4]) \o <<e[3]>>
        [] tag = "bin"     -> ExprWords(e[4]) \o <<e[3]>> \o ExprWords(e[5])
        [] tag = "member"  -> ExprWords(e[4]) \o <<e[3], e[5]>>
        [] tag = "cast"    -> ExprWords(e[3]) \o TypedWords(e[4], "")
        [] tag = "sizeof" /\ e[3] = "type" -> <<"sizeof">> \o TypedWords(e[4], "")
        [] tag = "sizeof" /\ e[3] = "expr" -> <<"sizeof">> \o ExprWords(e[4])
        [] tag = "defined" -> <<"defined", e[3]>>
        [] tag = "offset"  ->
             <<"offset", e[3][1]>> \o Joined(LAMBDA name : <<".", name>>, Tail(e[3]))
        [] OTHER           -> Joined(ExprWords, Sub(e))

InitWords(init) ==
  CASE init = None -> <<>>
    [] init # None -> IF init[1] = "single" THEN ExprWords(init[2]) ELSE Joined(InitWords, init[2])

\* Dimensions and initializer.
RestWords(v) ==
  Joined(ExprWords, DimExprs(v)) \o (IF v.init = None THEN <<>> ELSE <<"=">>) \o InitWords(v.init)

ParamWords(q) ==
  IF q.variadic THEN <<>>
  ELSE TypedWords(q.ty, q.name)
         \o (IF q.default = None THEN <<>> ELSE <<"=">> \o ExprWords(q.default))

\* A later declarator has its own stars, and shares the base.
ListWords(ds) ==
  TypedWords(ds[1].ty, ds[1].name) \o RestWords(ds[1])
    \o Joined(LAMBDA v : Tail(TypedWords(v.ty, v.name)) \o RestWords(v), Tail(ds))

PpWords(pp) ==
  CASE pp[2] = "define" -> <<"define", pp[3]>> \o Words(pp[4])
    [] pp[2] = "assert" -> <<"assert">> \o ExprWords(pp[3])
    [] OTHER            -> Tail(pp)

StmtWords(s) ==
  LET tag == s[1]
  IN  CASE tag = "expr"   -> ExprWords(s[2])
        [] tag = "decl"   -> ListWords(s[2])
        [] tag = "if"     -> <<"if">> \o ExprWords(s[2]) \o StmtWords(s[3])
                               \o (IF s[4] = None THEN <<>> ELSE <<"else">> \o StmtWords(s[4]))
        [] tag = "do"     -> <<"do">> \o StmtWords(s[3]) \o <<"while">> \o ExprWords(s[2])
        [] tag = "try"    -> <<"try">> \o Joined(StmtWords, s[2])
                               \o <<"catch">> \o Joined(StmtWords, s[3])
        [] tag \in {"goto", "label"} -> Words(<<IF tag = "goto" THEN tag ELSE ";", s[2]>>)
        [] tag = "substart" -> <<"start">>
        [] tag = "subend"   -> <<"end">>
        [] tag = "stmtpp"   -> PpWords(s[2])
        [] tag \in {"block", "empty"} -> Joined(StmtWords, Inner(s))
        [] OTHER            -> <<tag>> \o Joined(StmtWords, Inner(s))

\* A member that starts a declaration brings its base.
MemberWords(v) ==
  LET ws == TypedWords(v.ty, v.name)
  IN  (IF p.toks[v.at - 1] = "," THEN Tail(ws) ELSE ws) \o RestWords(v)

ItemWords(item) ==
  CASE item[1] = "fn"    -> TypedWords(item[2].ret, item[2].name)
                              \o Joined(ParamWords, item[2].params)
                              \o Joined(StmtWords, FnStmts(item[3]))
    [] item[1] = "var"   -> ListWords(item[2])
    [] item[1] = "class" -> <<item[2]>> \o Words(<<IF item[3] = "" THEN ";" ELSE item[3]>>)
                              \o Joined(MemberWords, item[4])
    [] item[1] = "stmt"  -> StmtWords(item[2])
    [] item[1] = "pp"    -> PpWords(item)
    [] OTHER             -> <<>>

\* What the tree leaves out: modifiers, assembly, the text of #exe and of
\* directives nobody knows, the functions of a class and the stars after its
\* last comma, and the name inside the type of a local function pointer
\* (stmt.rs:251-263 does not look at it).
Directives == {"define", "include", "help_index", "help_file", "ifdef", "ifndef",
               "ifaot", "ifjit", "else", "endif", "assert"}
LeavesOut(taken) ==
  \E n \in DOMAIN taken :
     \/ taken[n] \in ModifierWords \cup {"lock", "reg", "noreg", "asm"}
     \/ taken[n] = "#" /\ n < Len(taken) /\ taken[n + 1] \notin Directives
     \/ /\ taken[1] \in {"class", "union"} /\ n < Len(taken)
        /\ \/ IsIdent(taken[n]) /\ taken[n + 1] = "("
           \/ taken[n] = "*" /\ taken[n + 1] \in {";", "}"}
     \/ /\ taken[1] \notin {"class", "union"} /\ n + 2 <= Len(taken)
        /\ \E m \in 1 .. n : taken[m] = "{"
        /\ taken[n] \in PrimTypes \cup {"*"} /\ taken[n + 1] = "(" /\ taken[n + 2] = "*"

\* The parser loses nothing silently: a step that reports nothing makes an item
\* of all the tokens it took, in their order (decl.rs:20-129 and all below it),
\* unless the text ended in the middle of the item, where the productions that
\* miss their last part report nothing.
SourceIsKept ==
  [][(/\ phase = "parse" /\ p'.toks = p.toks /\ p'.cur > p.cur
      /\ p'.diags = p.diags
      /\ ~AtEof(p') \/ p.toks[p'.cur - 1] \in {";", "}"})
     => LET taken == SubSeq(p.toks, p.cur, p'.cur - 1)
        IN  \/ LeavesOut(taken)
            \/ ItemMade /\ ItemWords(items'[Len(items')]) = Words(taken)]_vars
\* No loop of the parser runs in place: an item has taken a token, and so has a
\* statement, wherever in the item one is looked for (the loops of mod.rs:34-43
\* and stmt.rs:93-101 go on from where it ended, without a look).
ProductionsAdvance ==
  phase = "parse" /\ ~AtEof(p) =>
    \A item \in {TopItem(p)} :
      /\ item.r # None => item.p.cur > p.cur
      /\ \A c \in p.cur .. item.p.cur - 1 :
           \A stmt \in {Statement([p EXCEPT !.cur = c], FALSE)} :
             stmt.r # None => stmt.p.cur > c
-----------------------------------------------------------------------------
(* What an item contains: its expressions, and its declarations but those of *)
(* the file level.                                                           *)

RECURSIVE Held(_), Nodes(_), InitExprs(_)

\* The expressions of an initializer.
InitExprs(init) ==
  CASE init = None -> <<>>
    [] init # None -> IF init[1] = "single" THEN <<init[2]>>
                      ELSE FlattenSeq([n \in DOMAIN init[2] |-> InitExprs(init[2][n])])

Expr(e) == [kind |-> "expr", e |-> e]
Decl(v) == [kind |-> "decl", name |-> v.name, at |-> v.at]

VarExprs(v) == Joined(LAMBDA e : <<Expr(e)>>, DimExprs(v) \o InitExprs(v.init))

\* What a statement holds.
Held(s) ==
  CASE s[1] = "expr" -> <<Expr(s[2])>>
    [] s[1] = "decl" -> Joined(LAMBDA v : VarExprs(v) \o <<Decl(v)>>, s[2])
    [] OTHER -> Joined(Held, Inner(s))

Events(item) ==
  CASE item[1] = "fn"   -> Joined(Held, FnStmts(item[3]))
    [] item[1] = "var"  -> Joined(VarExprs, item[2])
    [] item[1] = "stmt" -> Held(item[2])
    [] OTHER -> <<>>

\* e and every expression in it.
Nodes(e) == {e} \cup UNION {Nodes(x) : x \in Range(Sub(e))}

Parsed(f) == \A d \in diags : d.file = f => d.phase # "parse"
-----------------------------------------------------------------------------
(* The tree. *)

Tag(e) == e[1]

\* The table of holyc-parser/docs/parse-spec.md:100-118, tightest first.
Level(e) ==
  CASE e[3] = "BT" -> 1
    [] e[3] \in {"*", "/", "%", "<<", ">>"} -> 2
    [] e[3] = "&" -> 3
    [] e[3] = "^" -> 4
    [] e[3] = "|" -> 5
    [] e[3] \in {"+", "-"} -> 6
    [] e[3] \in {"<", "<=", ">", ">="} -> 7
    [] e[3] \in {"==", "!="} -> 8
    [] e[3] = "&&" -> 9
    [] e[3] = "^^" -> 10
    [] e[3] = "||" -> 11
    [] OTHER -> 12

\* The power and the assignments group from the right.
FromRight(e) == Level(e) \in {1, 12}

\* An operand on the given side of an operator of level lvl: anything that is
\* not an operator, or one that binds tighter, or as tight on its own side.
FitsUnder(e, lvl, mayEqual) ==
  Tag(e) = "bin" => (Level(e) < lvl \/ (Level(e) = lvl /\ mayEqual))

\* Every operator has operands that bind tighter, on one side as tight: the
\* left one, but for the power and the assignments, where it is the right one
\* (expr.rs:152-205). Nothing but a power stands bare under a sign, and only
\* under the minus (expr.rs:265-290); no operator stands bare under a postfix.
WellNested(e) ==
  /\ Tag(e) = "bin" =>
       /\ FitsUnder(e[4], Level(e), ~FromRight(e))
       /\ FitsUnder(e[5], Level(e), FromRight(e))
  /\ Tag(e) = "pre" => (Tag(e[4]) = "bin" => e[3] = "-" /\ e[4][3] = "BT")
  /\ Tag(e) \in {"post", "member"} => Tag(e[4]) # "bin"
  /\ Tag(e) \in {"index", "call", "cast"} => Tag(e[3]) # "bin"

ExprsOf(item) == {ev.e : ev \in {x \in Range(Events(item)) : x.kind = "expr"}}

\* No bare minus is the base of a power: -a`b is -(a`b) (expr.rs:265-290).
SignIsOutside(e) ==
  Tag(e) = "bin" /\ e[3] = "BT" => ~(Tag(e[4]) = "pre" /\ e[4][3] = "-")

\* Signs and binary operators group as the precedence of HolyC says: with the words
\* in their order (SourceIsKept), a chain of them between two parentheses has one
\* tree, the sign of a power included when the file had no error so far. It does not
\* settle which of a prefix and a postfix operator is inside the other: *a++ may be
\* (*a)++ here (PostfixBindsTighter is about that). And what the parser makes is a
\* tree, whatever the errors: it ends, and what the productions put into it are
\* lists and names.
OperatorsNest ==
  phase = "parse" /\ items # <<>> =>
    /\ IsBuilt(LastItem)
    /\ \A root \in ExprsOf(LastItem) : \A e \in Nodes(root) :
         WellNested(e) /\ (p.diags = <<>> => SignIsOutside(e))

\* The postfix operators bind tighter than the prefix ones (parse-spec.md:104-105):
\* what stands under a postfix is no bare prefix expression, so *p++ is *(p++)
\* and !f(x) is !(f(x)).
PostfixBindsTighter ==
  phase = "parse" /\ items # <<>> =>
    \A root \in ExprsOf(LastItem) : \A e \in Nodes(root) :
       /\ Tag(e) \in {"post", "member"} => Tag(e[4]) # "pre"
       /\ Tag(e) \in {"index", "call"}  => Tag(e[3]) # "pre"

\* s and the statements in it, those inside a switch excepted.
RECURSIVE OutOfSwitch(_), InSwitches(_)
OutOfSwitch(s) ==
  {s} \cup (IF s[1] = "switch" THEN {} ELSE UNION {OutOfSwitch(x) : x \in Range(Inner(s))})

InSwitches(s) ==
  IF s[1] = "switch" THEN Range(Inner(s)) \cup UNION {InSwitches(x) : x \in Range(Inner(s))}
  ELSE UNION {InSwitches(x) : x \in Range(Inner(s))}

StmtsOf(item) ==
  CASE item[1] = "fn"   -> Range(FnStmts(item[3]))
    [] item[1] = "stmt" -> {item[2]}
    [] OTHER            -> {}

\* start: and end: mark a sub-switch inside a switch, and are labels outside of
\* any, however the parser left the switches before (switch_depth, stmt.rs:44-58
\* and 433-444): the depth is back to none between items, after errors too.
MarkersInSwitch ==
  phase = "parse" =>
    /\ p.depth = 0
    /\ items # <<>> =>
         \A s \in StmtsOf(LastItem) :
            /\ \A x \in OutOfSwitch(s) : x[1] \notin {"substart", "subend"}
            /\ \A x \in InSwitches(s) : x \notin {<<"label", "start">>, <<"label", "end">>}
-----------------------------------------------------------------------------
(* Braces. *)

\* The groups of braces around token n, as the places of their openings.
Around(toks, n) ==
  {m \in 1 .. n - 1 :
     /\ toks[m] = "{"
     /\ \A l \in m .. n - 1 : Cardinality({x \in m .. l : toks[x] = "{"})
                                > Cardinality({x \in m .. l : toks[x] = "}"})}

\* The group right around token n, 0 when there is none.
GroupOf(toks, n) == LET gs == Around(toks, n) IN IF gs = {} THEN 0 ELSE Max(gs)

\* A switch opens its braces behind a parenthesis that closes the one after it.
IsSwitchBrace(toks, g) ==
  \E m \in 1 .. g - 1 :
     /\ toks[m] = "switch" /\ m + 1 < g
     /\ \A l \in m + 1 .. g - 1 : toks[l] \notin {"{", "}", ";"}

\* A declaration that is a statement of its group, not the body of an if, a
\* loop or a lock without braces, nor the first clause of a for.
OwnStatement(toks, at) ==
  LET before == {n \in 1 .. at : toks[n] \in {";", "{", "}"}}
  IN  \A n \in Max(before \cup {1}) .. at : toks[n] \notin {"(", ")", "else", "do", "lock"}

LocalsOf(item, toks) ==
  {ev \in Range(Events(item)) : ev.kind = "decl" /\ OwnStatement(toks, ev.at)}

\* All locals of a function share one frame, and a name twice in it is one
\* variable: a declaration is reported when the same name was declared in
\* another pair of braces beside its own, be they of a block, a branch, a loop,
\* or a try and its catch (lint/mod.rs:740-811). The braces of a switch are for
\* the next property.
SiblingBlocksAreCompared ==
  phase = "report" =>
    \A f \in {g \in DOMAIN files : Parsed(g)} : \A item \in ItemsOf(f) :
       LET toks == Tokens(files[f]) IN
       \A d, e \in LocalsOf(item, toks) :
          LET g == GroupOf(toks, d.at)
              h == GroupOf(toks, e.at)
          IN  /\ d.name = e.name /\ d.at < e.at /\ g < h
              /\ GroupOf(toks, g) = GroupOf(toks, h) /\ GroupOf(toks, g) # 0
              /\ \A b \in {g, h, GroupOf(toks, g)} : ~IsSwitchBrace(toks, b)
              => e.at \in Reported("lint", "block-shared-scope", f)

\* Nor do the arms of a switch have variables of their own: a name declared
\* twice right inside the braces of a switch is reported the second time
\* (lint/mod.rs:652-701).
SwitchArmsAreCompared ==
  phase = "report" =>
    \A f \in {g \in DOMAIN files : Parsed(g)} : \A item \in ItemsOf(f) :
       LET toks == Tokens(files[f]) IN
       \A d, e \in LocalsOf(item, toks) :
          LET g == GroupOf(toks, d.at)
          IN  /\ d.name = e.name /\ d.at < e.at
              /\ g = GroupOf(toks, e.at) /\ g # 0 /\ IsSwitchBrace(toks, g)
              => e.at \in Reported("lint", "switch-case-shared-scope", f)
=============================================================================
