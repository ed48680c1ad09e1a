------------------------------ MODULE HolyCStmt ------------------------------
(***************************************************************************)
(* Statements, declarations and the items of a file: src/parse/stmt.rs and *)
(* src/parse/decl.rs.                                                      *)
(*                                                                         *)
(* A statement is <<kind, ...>>, an item of a file likewise.  Modifiers    *)
(* are consumed and not kept: nothing but the tree's own reader looks at   *)
(* them.  An absent part is None, and so is an absent initializer.         *)
(***************************************************************************)
EXTENDS HolyCExpr

RECURSIVE Parse(_, _, _), Body(_, _), CommaList(_, _), CaseValues(_, _), InitItems(_, _),
          LocalDecls(_, _, _), MoreDecls(_, _, _, _),
          ClassBody(_, _)

\* What is parsed inside something else is called through Parse, at the end.
ParseExpr(p)      == Parse("expression", p, None)
ParseType(p)      == Parse("type", p, None)
ParseParams(p)    == Parse("parameters", p, None)
ParseDims(p)      == Parse("dimensions", p, None)
Modifiers(p)      == Parse("modifiers", p, None)
Initializer(p)    == Parse("initializer", p, None)
Statement(p, top) == Parse("statement", p, top)
TopItem(p)        == Parse("item", p, None)

IntZero(p) == <<"lit", p.cur, "0">>
-----------------------------------------------------------------------------
(* Declarators. *)

\* Modifiers, with the name, string or number some of them take along.
ModifiersRule(p) ==
  LET t     == Peek(p)
      takes == CASE t \in {"extern", "_import"} -> PeekAt(p, 1) \in StrLits
                 [] t = "_extern" -> IsIdent(PeekAt(p, 1))
                 [] t = "intern"  -> PeekAt(p, 1) \in IntLits
                 [] t = "reg"     -> IsName(PeekAt(p, 1)) /\ PeekAt(p, 1) \notin {"reg", "noreg"}
                 [] OTHER -> FALSE
  IN  IF t \in ModifierWords \cup {"lock", "reg", "noreg"}
      THEN Modifiers(Skip(p, IF takes THEN 2 ELSE 1)) ELSE p

\* reg and noreg are modifiers only when a declaration follows.
LooksLikeDeclAfterReg(p) ==
  LET from == IF Peek(p) = "reg" /\ IsName(PeekAt(p, 1)) /\ PeekAt(p, 1) \notin {"reg", "noreg"}
              THEN 2 ELSE 1
      IsModifier(n) == PeekAt(p, n) \in ModifierWords \cup {"lock", "reg", "noreg"}
      n    == CHOOSE k \in from .. from + Len(p.toks) :
                ~IsModifier(k) /\ \A m \in from .. k - 1 : IsModifier(m)
  IN  \/ PeekAt(p, n) \in PrimTypes \cup {"class", "union"}
      \/ IsName(PeekAt(p, n)) /\ (PeekAt(p, n + 1) = "*" \/ IsIdent(PeekAt(p, n + 1)))

\* IDENT *... IDENT: a declaration whose type is a class.
LooksLikeNamedTypeDecl(p) == IsName(PeekAt(p, 1 + StarsAhead(p, 1)))

InitItems(p, items) ==
  LET i   == Initializer(p)
      all == Append(items, i.r)
  IN  CASE Peek(i.p) # "," -> Ret(i.p, all)
        [] Peek(i.p) = "," /\ PeekAt(i.p, 1) = "}" -> Ret(Bump(i.p), all)
        [] OTHER -> InitItems(Bump(i.p), all)

InitializerRule(p) ==
  LET q     == Bump(p)
      items == IF Peek(q) = "}" THEN Ret(q, <<>>) ELSE InitItems(q, <<>>)
      e     == ParseExpr(p)
  IN  IF Peek(p) = "{" THEN Ret(Expect(items.p, "}", "missing-rbrace"), <<"agg", items.r>>)
      ELSE Ret(e.p, <<"single", IF e.r = None THEN IntZero(e.p) ELSE e.r>>)

InitializerOpt(p) == IF Peek(p) = "=" THEN Initializer(Bump(p)) ELSE Ret(p, None)

\* Mutant of WithStars: the stars of the first declarator are those of all.
WithFirstStars(ty, n) == ty

\* The first declarator's stars are in the type; a later one starts from the
\* type without them.
WithStars(ty, n) == [ty EXCEPT ![Len(ty)] = n]

\* The rest of a declarator whose name has been read.
Declarator(p, ty, name, start) ==
  LET dims == ParseDims(p)
      init == InitializerOpt(dims.p)
  IN  Ret(init.p, [ty |-> ty, name |-> name, dims |-> dims.r, init |-> init.r, at |-> start])

\* After a first declarator, the ones behind commas. A name that is missing
\* ends the list, and is reported unless rule is "".
MoreDecls(p, ty, decls, rule) ==
  LET stars == StarsAhead(p, 1)
      q     == Skip(p, 1 + stars)
      d     == Declarator(Bump(q), WithStars(ty, CapStars(stars)), Peek(q), p.cur + 1)
      named == IF rule = "" THEN IsIdent(Peek(q)) ELSE IsName(Peek(q))
  IN  CASE Peek(p) # "," -> Ret(p, decls)
        [] Peek(p) = "," /\ ~named -> Ret(IF rule = "" THEN q ELSE Error(q, rule), decls)
        [] OTHER -> MoreDecls(d.p, ty, Append(decls, d.r), rule)
-----------------------------------------------------------------------------
(* Local declarations. *)

LocalDecls(p, ty, decls) ==
  LET first   == decls = <<>>
      stars   == IF first THEN 0 ELSE StarsAhead(p, 0)
      q       == Skip(p, stars)
      name    == Peek(q)
      flagged == IF name \in Reserved THEN ErrorAt(q, p.cur, "reserved-name-collision") ELSE q
      d       == Declarator(Bump(flagged), IF first THEN ty ELSE WithStars(ty, CapStars(stars)),
                            name, p.cur)
      all     == Append(decls, d.r)
  IN  CASE name \in Keywords -> Ret(ErrorAt(q, p.cur, "keyword-as-name"), None)
        [] ~IsIdent(name) -> Ret(Error(q, "expecting-ident"), None)
        [] OTHER -> IF Peek(d.p) = "," THEN LocalDecls(Bump(d.p), ty, all)
                    ELSE Ret(Eat(d.p, ";"), <<"decl", all>>)

\* A name inside the type, as a function pointer has, is not looked at.
LocalDecl(p) ==
  LET typed == ParseType(Modifiers(p))
  IN  IF typed.r = None THEN typed ELSE LocalDecls(typed.p, TypeOf(typed.r), <<>>)
-----------------------------------------------------------------------------
(* Statements. *)

\* Statements up to, and not past, a `}`. One that fails costs a token.
Body(p, stmts) ==
  LET s == Statement(p, FALSE)
  IN  CASE Peek(p) \in {"}", Eof} -> Ret(p, stmts)
        [] Peek(p) \notin {"}", Eof} /\ s.r = None -> Body(Bump(s.p), stmts)
        [] OTHER -> Body(s.p, Append(stmts, s.r))

Block(p) ==
  LET body == Body(Bump(p), <<>>)
  IN  Ret(Expect(body.p, "}", "expecting-rbrace"), <<"block", body.r>>)

ExprStmt(p) ==
  LET e == ParseExpr(p)
      q == Eat(e.p, ";")
  IN  IF e.r = None THEN Ret(q, None) ELSE Ret(q, <<"expr", e.r>>)

\* Expressions behind commas; one that fails ends the list.
CommaList(p, items) ==
  LET e == ParseExpr(Bump(p))
  IN  CASE Peek(p) # "," -> Ret(p, items)
        [] Peek(p) = "," /\ e.r = None -> Ret(e.p, items)
        [] OTHER -> CommaList(e.p, Append(items, e.r))

ImplicitPrint(p) ==
  LET head  == <<"lit", p.cur, Peek(p)>>
      items == CommaList(Bump(p), <<head>>)
  IN  Ret(Eat(items.p, ";"),
          <<"expr", IF Len(items.r) = 1 THEN head ELSE <<"comma", p.cur, items.r>>>>)

\* The condition of if, while and do, with the parenthesis it may lack.
ParenCond(p) ==
  LET e == ParseExpr(Expect(p, "(", "expecting-lparen")) IN Ret(Eat(e.p, ")"), e.r)

If(p) ==
  LET cond == ParenCond(Bump(p))
      yes  == Statement(cond.p, FALSE)
      no   == IF Peek(yes.p) = "else" THEN Statement(Bump(yes.p), FALSE) ELSE Ret(yes.p, None)
  IN  CASE yes.r = None -> yes
        [] yes.r # None /\ Peek(yes.p) = "else" /\ no.r = None -> no
        [] OTHER -> Ret(no.p, IF cond.r = None THEN None ELSE <<"if", cond.r, yes.r, no.r>>)

While(p) ==
  LET cond == ParenCond(Bump(p))
      body == Statement(cond.p, FALSE)
  IN  IF cond.r = None \/ body.r = None THEN Ret(body.p, None)
      ELSE Ret(body.p, <<"while", cond.r, body.r>>)

DoWhile(p) ==
  LET body == Statement(Bump(p), FALSE)
      cond == ParenCond(Expect(body.p, "while", "missing-while"))
  IN  IF body.r = None THEN body
      ELSE Ret(Expect(cond.p, ";", "missing-semi"),
               IF cond.r = None THEN None ELSE <<"do", cond.r, body.r>>)

\* A clause of a for: one expression, or a list of them.
ForClause(p) ==
  LET e     == ParseExpr(p)
      items == CommaList(e.p, <<e.r>>)
  IN  IF e.r = None \/ Peek(e.p) # "," THEN e ELSE Ret(items.p, <<"comma", p.cur, items.r>>)

For(p, top) ==
  LET q     == Expect(Bump(p), "(", "expecting-lparen")
      clause == ForClause(q)
      init  == CASE Peek(q) = ";" -> Ret(Bump(q), None)
                 [] Peek(q) \in PrimTypes ->
                      Statement(IF top THEN Error(q, "for-decl-top-level") ELSE q, FALSE)
                 [] OTHER -> Ret(Eat(clause.p, ";"),
                                 IF clause.r = None THEN None ELSE <<"expr", clause.r>>)
      test  == ParseExpr(init.p)
      cond  == IF Peek(init.p) = ";" THEN Ret(Bump(init.p), None) ELSE Ret(Eat(test.p, ";"), test.r)
      upd   == IF Peek(cond.p) = ")" THEN Ret(cond.p, None) ELSE ForClause(cond.p)
      body  == Statement(Expect(upd.p, ")", "missing-rparen"), FALSE)
  IN  IF body.r = None THEN body
      ELSE Ret(body.p, <<"for", init.r, cond.r, upd.r, body.r>>)

\* Mutant of SwitchBody: the depth is not given back.
SwitchBodyDeeper(p) == Body([p EXCEPT !.depth = @ + 1], <<>>)

\* Inside a switch, start: and end: are not labels.
SwitchBody(p) ==
  LET body == Body([p EXCEPT !.depth = @ + 1], <<>>)
  IN  Ret([body.p EXCEPT !.depth = @ - 1], body.r)

Switch(p) ==
  LET square == PeekAt(p, 1) = "["
      open   == IF square THEN Skip(p, 2) ELSE Expect(Bump(p), "(", "expecting-lparen")
      e      == ParseExpr(open)
      close  == Expect(e.p, IF square THEN "]" ELSE ")", "missing-rparen")
      body   == SwitchBody(Expect(close, "{", "expecting-lbrace"))
  IN  Ret(Expect(body.p, "}", "expecting-rbrace"),
          <<"switch", IF e.r = None THEN IntZero(p) ELSE e.r, body.r>>)

CaseValues(p, values) ==
  LET lo  == ParseExpr(p)
      hi  == ParseExpr(Bump(lo.p))
      one == Append(values, <<"one", lo.r>>)
      isRange == Peek(lo.p) \in {"...", ".."}
      q   == IF isRange THEN hi.p ELSE lo.p
      all == IF isRange THEN Append(values, <<"range", lo.r, hi.r>>) ELSE one
  IN  CASE lo.r = None -> Ret(lo.p, values)
        [] lo.r # None /\ isRange /\ hi.r = None -> Ret(hi.p, one)
        [] OTHER -> IF Peek(q) = "," THEN CaseValues(Bump(q), all) ELSE Ret(q, all)

Case(p) ==
  LET values == CaseValues(Bump(p), <<>>)
  IN  IF PeekAt(p, 1) = ":" THEN Ret(Skip(p, 2), <<"case", <<<<"auto">>>>>>)
      ELSE Ret(Expect(values.p, ":", "expecting-colon"), <<"case", values.r>>)

Return(p, top) ==
  LET q == Bump(p)
      e == IF Peek(q) = ";" THEN Ret(q, None) ELSE ParseExpr(q)
  IN  IF top THEN Ret(RecoverToSemicolon(ErrorAt(q, p.cur, "return-at-file-scope")), None)
      ELSE Ret(Eat(e.p, ";"), <<"return", e.r>>)

Goto(p) ==
  IF IsIdent(PeekAt(p, 1)) THEN Ret(Eat(Skip(p, 2), ";"), <<"goto", PeekAt(p, 1)>>)
  ELSE Ret(Error(Bump(p), "expecting-ident"), None)

Try(p) ==
  LET body    == Body(Expect(Bump(p), "{", "expecting-lbrace"), <<>>)
      catch   == Expect(Eat(body.p, "}"), "catch", "missing-catch")
      handler == Body(Expect(catch, "{", "expecting-lbrace"), <<>>)
  IN  Ret(Eat(handler.p, "}"), <<"try", body.r, handler.r>>)

\* Mutant of Asm: an asm without braces is left where it stands.
AsmInPlace(p) ==
  Ret(IF PeekAt(p, 1) = "{" THEN SkipBraces(Skip(p, 2)) ELSE p, <<"asm">>)

\* Balanced braces, or one instruction up to its `;`.
Asm(p) ==
  Ret(IF PeekAt(p, 1) = "{" THEN SkipBraces(Skip(p, 2)) ELSE RecoverToSemicolon(Bump(p)),
      <<"asm">>)

Lock(p) ==
  LET s == Statement(Bump(p), FALSE) IN IF s.r = None THEN s ELSE Ret(s.p, <<"lock", s.r>>)

Label(p, top) ==
  IF top THEN Ret(ErrorAt(Skip(p, 2), p.cur, "no-global-labels"), None)
  ELSE Ret(Skip(p, 2), <<"label", Peek(p)>>)

KeywordStmt(p, top) ==
  LET t == Peek(p)
  IN  CASE t \in PrimTypes \cup {"static"} -> LocalDecl(p)
        [] t = "if"      -> If(p)
        [] t = "while"   -> While(p)
        [] t = "do"      -> DoWhile(p)
        [] t = "for"     -> For(p, top)
        [] t = "switch"  -> Switch(p)
        [] t = "break"   -> Ret(Eat(Bump(p), ";"), <<"break">>)
        [] t = "return"  -> Return(p, top)
        [] t = "goto"    -> Goto(p)
        [] t = "try"     -> Try(p)
        [] t = "lock"    -> Lock(p)
        [] t = "asm"     -> Asm(p)
        [] t = "case"    -> Case(p)
        [] t = "default" -> Ret(Expect(Bump(p), ":", "expecting-colon"), <<"default">>)
        [] OTHER         -> ExprStmt(p)
-----------------------------------------------------------------------------
(* Preprocessor directives: kept where they stand, both branches of #ifdef. *)

\* The name or the string a directive takes; "" when it is not there.
Takes(p, there, rule) == IF there THEN Ret(Bump(p), Peek(p)) ELSE Ret(Error(p, rule), "")

\* The body of #define: to the end of the line of its name, a `;` or a `#`.
Define(p) ==
  LET name == Takes(p, IsIdent(Peek(p)), "expecting-ident")
      q    == name.p
      IsBody(n) == /\ PeekAt(q, n) \notin {"#", ";", Eof}
                   /\ p.line[q.cur + n] = p.line[p.cur]
      n    == CHOOSE k \in 0 .. Len(q.toks) : ~IsBody(k) /\ \A m \in 0 .. k - 1 : IsBody(m)
  IN  Ret(Skip(q, n), <<"pp", "define", name.r, SubSeq(q.toks, q.cur, q.cur + n - 1)>>)

Preprocessor(p) ==
  LET d    == PeekAt(p, 1)
      q    == Skip(p, 2)
      text == Takes(q, Peek(q) \in StrLits, "expecting-string")
      name == Takes(q, IsIdent(Peek(q)), "expecting-ident")
      e    == ParseExpr(q)
  IN  CASE ~IsIdent(d) -> Ret(Error(Bump(p), "expecting-ident"), None)
        [] d = "define" -> Define(q)
        [] d \in {"include", "help_index", "help_file"} -> Ret(text.p, <<"pp", d, text.r>>)
        [] d \in {"ifdef", "ifndef"} -> Ret(name.p, <<"pp", d, name.r>>)
        [] d \in {"ifaot", "ifjit", "else", "endif"} -> Ret(q, <<"pp", d>>)
        [] d = "assert" -> Ret(e.p, <<"pp", d, IF e.r = None THEN IntZero(e.p) ELSE e.r>>)
        [] OTHER -> Ret(IF Peek(q) = "{" THEN SkipBraces(Bump(q)) ELSE q, <<"pp", d>>)

\* One statement; None when nothing could be made of it.
StatementRule(p, top) ==
  LET t     == Peek(p)
      pp    == Preprocessor(p)
      isSub == t \in {"start", "end"} /\ p.depth > 0 /\ PeekAt(p, 1) = ":"
      isReg == t \in {"reg", "noreg"} /\ LooksLikeDeclAfterReg(p)
  IN  CASE t = Eof -> Ret(p, None)
        [] t = ";" -> Ret(Bump(p), <<"empty">>)
        [] t = "#" -> Ret(pp.p, IF pp.r = None THEN None ELSE <<"stmtpp", pp.r>>)
        [] t = "{" -> Block(p)
        [] isSub   -> Ret(Skip(p, 2), <<IF t = "start" THEN "substart" ELSE "subend">>)
        [] isReg   -> LocalDecl(p)
        [] t \in Keywords -> KeywordStmt(p, top)
        [] IsName(t) /\ ~isSub /\ ~isReg ->
             CASE PeekAt(p, 1) = ":" -> Label(p, top)
               [] PeekAt(p, 1) # ":" /\ LooksLikeNamedTypeDecl(p) -> LocalDecl(p)
               [] OTHER -> ExprStmt(p)
        [] t \in StrLits \cup CharLits -> ImplicitPrint(p)
        [] OTHER -> ExprStmt(p)
-----------------------------------------------------------------------------
(* Functions and classes. *)

\* The closing brace may be missing.
FnBody(p) == LET body == Body(Bump(p), <<>>) IN Ret(Eat(body.p, "}"), body.r)

\* From the `(` of a declaration. A prototype's body is None; `{` `}` make <<"body", <<>>>>.
Function(p, ty, name) ==
  LET params == ParseParams(Bump(p))
      close  == Expect(params.p, ")", "missing-rparen")
      body   == FnBody(close)
      fn     == [name |-> name, ret |-> ty, params |-> params.r]
  IN  IF Peek(close) = "{" THEN Ret(body.p, <<"fn", fn, <<"body", body.r>>>>)
      ELSE Ret(Eat(close, ";"), <<"fn", fn, None>>)

\* Members; the functions among them are parsed and not kept.
ClassBody(p, members) ==
  LET typed  == ParseType(Modifiers(p))
      q      == typed.p
      ty     == TypeOf(typed.r)
      inner  == Declarator(q, ty, NameIn(typed.r), p.cur)
      first  == Declarator(Bump(q), ty, Peek(q), p.cur)
      more   == MoreDecls(first.p, ty, Append(members, first.r), "")
      fn     == Eat(ParseParams(Skip(q, 2)).p, ")")
  IN  CASE Peek(p) \in {"}", Eof} -> Ret(p, members)
        [] Peek(p) \notin {"}", Eof} /\ typed.r = None ->
             ClassBody(RecoverToSemicolon(q), members)
        [] OTHER ->
             CASE NameIn(typed.r) # "" -> ClassBody(Eat(inner.p, ";"), Append(members, inner.r))
               [] NameIn(typed.r) = "" /\ ~IsIdent(Peek(q)) ->
                    ClassBody(RecoverToSemicolon(Error(q, "expecting-ident")), members)
               [] NameIn(typed.r) = "" /\ IsIdent(Peek(q)) /\ PeekAt(q, 1) = "(" ->
                    ClassBody(IF Peek(fn) = "{" THEN FnBody(fn).p ELSE Eat(fn, ";"), members)
               [] OTHER -> ClassBody(Eat(more.p, ";"), more.r)

ClassOrUnion(p) ==
  LET name == PeekAt(p, 1)
      q    == Skip(p, 2)
      base == IF Peek(q) = ":" THEN Takes(Bump(q), IsIdent(PeekAt(q, 1)), "expecting-ident")
              ELSE Ret(q, "")
      body == ClassBody(Bump(base.p), <<>>)
      Class(members) == <<"class", name, base.r, members>>
  IN  CASE ~IsName(name) -> Ret(Error(Bump(p), "expecting-ident"), None)
        [] IsName(name) /\ Peek(base.p) = ";" -> Ret(Bump(base.p), Class(<<>>))
        [] IsName(name) /\ Peek(base.p) = "{" ->
             Ret(Eat(Expect(body.p, "}", "missing-rbrace"), ";"), Class(body.r))
        [] OTHER -> Ret(Error(base.p, "expecting-lbrace"), None)

\* A variable, a list of them, a function, or a class behind modifiers.
GlobalDecl(p) ==
  LET mods  == Modifiers(p)
      typed == ParseType(mods)
      q     == typed.p
      ty    == TypeOf(typed.r)
      name  == Peek(q)
      init  == InitializerOpt(q)
      inner == [ty |-> ty, name |-> NameIn(typed.r), dims |-> DimsIn(typed.r),
                init |-> init.r, at |-> p.cur]
      first == Declarator(Bump(q), ty, name, p.cur)
      more  == MoreDecls(first.p, ty, <<first.r>>, "expecting-ident")
  IN  CASE Peek(mods) \in {"class", "union"} -> ClassOrUnion(mods)
        [] Peek(mods) \notin {"class", "union"} /\ typed.r = None -> Ret(Bump(q), None)
        [] OTHER ->
             CASE NameIn(typed.r) # "" -> Ret(Eat(init.p, ";"), <<"var", <<inner>>>>)
               [] NameIn(typed.r) = "" /\ ~IsName(name) ->
                    Ret(Error(q, IF IsIdent(name) THEN "keyword-as-name" ELSE "expecting-ident"), None)
               [] NameIn(typed.r) = "" /\ IsName(name) /\ PeekAt(q, 1) = "(" ->
                    Function(Bump(q), ty, name)
               [] OTHER -> Ret(Eat(more.p, ";"), <<"var", more.r>>)

\* One item of a file; None when nothing could be made of it.
TopItemRule(p) ==
  LET t      == Peek(p)
      pp     == Preprocessor(p)
      s      == Statement(p, TRUE)
      isDecl == \/ t \in PrimTypes \cup ModifierWords
                \/ t \in {"reg", "noreg"} /\ LooksLikeDeclAfterReg(p)
                \/ IsName(t) /\ PeekAt(p, 1) # ":" /\ LooksLikeNamedTypeDecl(p)
      isLabel == IsName(t) /\ PeekAt(p, 1) = ":"
  IN  CASE t = ";" -> Ret(Bump(p), <<"empty">>)
        [] t = "#" -> pp
        [] t \in {"class", "union"} -> ClassOrUnion(p)
        [] isDecl  -> GlobalDecl(p)
        [] isLabel /\ ~isDecl -> Ret(ErrorAt(Skip(p, 2), p.cur, "no-global-labels"), <<"empty">>)
        [] OTHER   -> Ret(s.p, CASE s.r = None        -> None
                                 [] s.r = <<"asm">>   -> s.r
                                 [] OTHER             -> <<"stmt", s.r>>)

Parse(rule, p, x) ==
  CASE rule = "expression" -> Expression(p)
    [] rule = "type"       -> Type(p)
    [] rule = "parameters" -> ParamList(p)
    [] rule = "dimensions" -> Dims(p, <<>>, "missing-rbracket")
    [] rule = "modifiers"  -> ModifiersRule(p)
    [] rule = "initializer" -> InitializerRule(p)
    [] rule = "statement"  -> StatementRule(p, x)
    [] rule = "item"       -> TopItemRule(p)
=============================================================================
