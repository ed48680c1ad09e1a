------------------------------ MODULE HolyCExpr ------------------------------
(***************************************************************************)
(* Expressions and types: src/parse/expr.rs and src/parse/type_.rs.        *)
(*                                                                         *)
(* An expression is <<kind, at, ...>>, at the index of its first token.    *)
(* A type is <<"ty", base, stars>> or <<"fn", returned, params, stars>>.   *)
(***************************************************************************)
EXTENDS ParserCursor

\* The operators, tightest first: the order of the PREC_ constants.
Ladder ==
  << {"BT"},
     {"*", "/", "%", "<<", ">>"},
     {"&"}, {"^"}, {"|"},
     {"+", "-"},
     {"<", "<=", ">", ">="}, {"==", "!="},
     {"&&"}, {"^^"}, {"||"},
     {"=", "+=", "-=", "*=", "/=", "%=", "&=", "|=", "^=", "<<=", ">>="} >>

PREC_EXP    == 1
PREC_ASSIGN == 12
BinaryOps   == UNION {Ladder[n] : n \in DOMAIN Ladder}
Prec(op)    == CHOOSE n \in DOMAIN Ladder : op \in Ladder[n]

\* Mutant of RightAssoc: an assignment groups from the left.
RightAssocPower == Ladder[PREC_EXP]
RightAssoc == Ladder[PREC_EXP] \cup Ladder[PREC_ASSIGN]

PrefixOps  == {"+", "!", "~", "*", "&", "++", "--"}   \* the minus is apart
At(e)      == e[2]

PTR_STARS_NUM == 4
CapStars(n)   == IF n > PTR_STARS_NUM THEN PTR_STARS_NUM ELSE n

Reserved == {"eps", "pi", "inf", "nan", "tS", "ms"}

RECURSIVE Rule(_, _, _), ClimbFrom(_, _, _), Power(_, _), Args(_, _), Dims(_, _, _)

\* The rules that contain each other do so through Rule, at the end.
Type(p)               == Rule("type", p, None)
ParamsFrom(p, params) == Rule("params", p, params)
Unary(p)              == Rule("unary", p, None)
Postfix(p, lhs)       == Rule("postfix", p, lhs)
Climb(p, min)         == Rule("climb", p, min)
Expression(p)         == Climb(p, PREC_ASSIGN + 1)
-----------------------------------------------------------------------------
(* Types. *)

\* The number of `*` from the n-th token ahead on.
StarsAhead(p, n) ==
  CHOOSE k \in 0 .. Len(p.toks) :
     /\ PeekAt(p, n + k) # "*"
     /\ \A m \in 0 .. k - 1 : PeekAt(p, n + m) = "*"

Skip(p, n) == [p EXCEPT !.cur = @ + n]

\* Each star past the fourth is reported, and not counted.
ConsumeStars(p) ==
  LET n    == StarsAhead(p, 0)
      over == [k \in 1 .. n - CapStars(n) |->
                 [rule |-> "too-many-stars", at |-> p.cur + PTR_STARS_NUM + k - 1]]
  IN  Ret([Skip(p, n) EXCEPT !.diags = @ \o over], CapStars(n))

\* Each [] or [e], however many.
Dims(p, dims, rule) ==
  LET e == Expression(Bump(p))
  IN  CASE Peek(p) # "[" -> Ret(p, dims)
        [] Peek(p) = "[" /\ PeekAt(p, 1) = "]" -> Dims(Skip(p, 2), Append(dims, None), rule)
        [] OTHER -> Dims(Expect(e.p, "]", rule), Append(dims, e.r), rule)

\* A type with the name and the dimensions found inside it, "" for no name.
Typed(ty, name, dims) == <<"type", ty, name, dims>>
TypeOf(typed) == typed[2]
NameIn(typed) == typed[3]
DimsIn(typed) == typed[4]

Variadic == [ty |-> <<"ty", "U0", 0>>, name |-> "", default |-> None, variadic |-> TRUE]

\* Parameters up to, and not past, the `)`. Both separators are the same.
ParamsRule(p, params) ==
  LET typed   == Type(p)
      inner   == NameIn(typed.r)
      named   == inner = "" /\ IsName(Peek(typed.p))
      name    == IF named THEN Peek(typed.p) ELSE inner
      flagged == IF named /\ name \in Reserved THEN Error(typed.p, "reserved-name-collision")
                 ELSE typed.p
      after   == IF named THEN Bump(flagged) ELSE flagged
      default == IF Peek(after) = "=" THEN Expression(Bump(after)) ELSE Ret(after, None)
      all     == Append(params, [ty |-> TypeOf(typed.r), name |-> name,
                                 default |-> default.r, variadic |-> FALSE])
  IN  CASE Peek(p) = "..." -> Ret(Bump(p), Append(params, Variadic))
        [] Peek(p) # "..." /\ typed.r = None -> Ret(typed.p, params)
        [] OTHER -> IF Peek(default.p) \in {",", ";"} THEN ParamsFrom(Bump(default.p), all)
                    ELSE Ret(default.p, all)

ParamList(p) == IF Peek(p) = ")" THEN Ret(p, <<>>) ELSE ParamsFrom(p, <<>>)

\* From the `(` after a type: `(*name[N])(params)`. Without the star the
\* parenthesis is left alone; past it nothing is given back, and the name found
\* so far is the type's.
FunctionPointer(p, base) ==
  LET stars  == ConsumeStars(Bump(p))
      named  == IsName(Peek(stars.p))
      name   == IF named THEN Peek(stars.p) ELSE ""
      dims   == Dims(IF named THEN Bump(stars.p) ELSE stars.p, <<>>, "expecting-rbracket")
      params == ParamList(Skip(dims.p, 2))
  IN  CASE PeekAt(p, 1) # "*" -> Ret(p, Typed(base, "", <<>>))
        [] PeekAt(p, 1) = "*" /\ Peek(dims.p) # ")" ->
             Ret(Error(dims.p, "expecting-rparen"), Typed(base, name, dims.r))
        [] PeekAt(p, 1) = "*" /\ Peek(dims.p) = ")" /\ PeekAt(dims.p, 1) # "(" ->
             Ret(Error(Bump(dims.p), "expecting-lparen"), Typed(base, name, dims.r))
        [] OTHER -> Ret(Expect(params.p, ")", "expecting-rparen"),
                        Typed(<<"fn", base, params.r, stars.r>>, name, dims.r))

TypeRule(p) ==
  LET t     == Peek(p)
      first == Bump(IF t = "F32" THEN Error(p, "f32-reference") ELSE p)
      stars == ConsumeStars(first)
      base  == <<"ty", t, stars.r>>
  IN  CASE ~(t \in PrimTypes \/ IsName(t)) -> Ret(Error(p, "expecting-type"), None)
        [] (t \in PrimTypes \/ IsName(t)) /\ Peek(stars.p) = "(" -> FunctionPointer(stars.p, base)
        [] OTHER -> Ret(stars.p, Typed(base, "", <<>>))

\* Without a symbol table a capitalised name before `*` or `)` passes for a type.
LooksLikeType(p) ==
  \/ Peek(p) \in PrimTypes
  \/ /\ IsName(Peek(p)) /\ Peek(p) \in CapNames
     /\ PeekAt(p, 1) \in {"*", ")"}
-----------------------------------------------------------------------------
(* Terms. *)

\* sizeof, offset and defined may have a parenthesis, and then close it.
Operand(p)       == Eat(Bump(p), "(")
Closed(p, start) == IF PeekAt(start, 1) = "(" THEN Expect(p, ")", "expr-missing-rparen") ELSE p

Sizeof(p) ==
  LET q     == Operand(p)
      typed == Type(q)
      e     == Expression(q)
  IN  CASE LooksLikeType(q) ->
             Ret(Closed(typed.p, p), <<"sizeof", p.cur, "type", TypeOf(typed.r)>>)
        [] ~LooksLikeType(q) /\ e.r # None ->
             Ret(Closed(e.p, p), <<"sizeof", p.cur, "expr", e.r>>)
        [] OTHER -> Ret(e.p, None)

\* offset(Class.member.member): as far as names and dots alternate.
OffsetOf(p) ==
  LET q    == Operand(p)
      n    == CHOOSE k \in 0 .. Len(q.toks) :
                /\ \A m \in 1 .. k : PeekAt(q, 2 * m - 1) = "." /\ IsIdent(PeekAt(q, 2 * m))
                /\ ~(PeekAt(q, 2 * k + 1) = "." /\ IsIdent(PeekAt(q, 2 * k + 2)))
      last == Skip(q, 2 * n + 1)
      end  == IF Peek(last) = "." THEN Error(Bump(last), "expr-offset-member") ELSE last
  IN  IF ~IsIdent(Peek(q)) THEN Ret(Error(q, "expr-offset-class"), None)
      ELSE Ret(Closed(end, p), <<"offset", p.cur, [k \in 1 .. n + 1 |-> PeekAt(q, 2 * k - 2)]>>)

Defined(p) ==
  LET q == Operand(p)
  IN  IF ~IsIdent(Peek(q)) THEN Ret(Error(q, "expr-defined-arg"), None)
      ELSE Ret(Closed(Bump(q), p), <<"defined", p.cur, Peek(q)>>)

\* A prefix cast is reported, and its operand parsed as if it were not there.
ParenOrCCast(p) ==
  LET q      == Bump(p)
      typed  == Type(q)
      isCast == LooksLikeType(q) /\ Peek(typed.p) = ")"
      again  == IF LooksLikeType(q) THEN Restore(typed.p, q) ELSE q
      e      == Expression(again)
  IN  CASE isCast -> Unary(Bump(ErrorAt(typed.p, p.cur, "compiler-c-style-cast")))
        [] ~isCast /\ e.r = None -> e
        [] OTHER -> Ret(Expect(e.p, ")", "expr-missing-rparen"), <<"paren", p.cur, e.r>>)

\* After the operand of a prefix minus: a power binds tighter than the sign.
Power(p, base) ==
  LET e == Climb(Bump(p), PREC_EXP + 1)
  IN  CASE Peek(p) # "BT" -> Ret(p, base)
        [] Peek(p) = "BT" /\ e.r = None -> Ret(e.p, base)
        [] OTHER -> Power(e.p, <<"bin", At(base), "BT", base, e.r>>)

Negation(p) ==
  LET operand == Unary(Bump(p))
      term    == Postfix(operand.p, operand.r)
      power   == Power(term.p, term.r)
  IN  CASE operand.r = None -> operand
        [] operand.r # None /\ term.r = None -> term
        [] OTHER -> Ret(power.p, <<"pre", p.cur, "-", power.r>>)

Prefixed(p) ==
  LET e == Unary(Bump(p))
  IN  IF e.r = None THEN e ELSE Ret(e.p, <<"pre", p.cur, Peek(p), e.r>>)

\* A keyword that starts no construct of its own is a name here.
UnaryRule(p) ==
  LET t == Peek(p)
  IN  CASE t = "sizeof"  -> Sizeof(p)
        [] t = "offset" /\ PeekAt(p, 1) = "(" -> OffsetOf(p)
        [] t = "defined" -> Defined(p)
        [] t \in PrefixOps -> Prefixed(p)
        [] t = "-" -> Negation(p)
        [] t \in Literals -> Ret(Bump(p), <<"lit", p.cur, t>>)
        [] t = "(" -> ParenOrCCast(p)
        [] IsIdent(t) /\ t \notin {"sizeof", "defined"} /\ ~(t = "offset" /\ PeekAt(p, 1) = "(") ->
             Ret(Bump(p), <<"id", p.cur, t>>)
        [] OTHER -> Ret(Bump(Error(p, IF t = "?" THEN "expr-no-ternary"
                                      ELSE "expr-unexpected-token")), None)
-----------------------------------------------------------------------------
(* What follows a term. *)

\* An argument may be left out: the slot stands for its default.
Args(p, args) ==
  LET arg == IF Peek(p) \in {",", ")"} THEN Ret(p, <<"slot", p.cur>>) ELSE Expression(p)
      all == Append(args, arg.r)
  IN  CASE arg.r = None -> Ret(arg.p, None)
        [] arg.r # None /\ Peek(arg.p) = "," -> Args(Bump(arg.p), all)
        [] OTHER -> Ret(arg.p, <<"args", all>>)

\* A `(` after a term: a type and `)` make a cast, anything else a call.
CastOrCall(p, lhs) ==
  LET q     == Bump(p)
      typed == Type(q)
      again == IF LooksLikeType(q) THEN Restore(typed.p, q) ELSE q
      args  == IF Peek(again) = ")" THEN Ret(again, <<"args", <<>>>>) ELSE Args(again, <<>>)
  IN  CASE LooksLikeType(q) /\ Peek(typed.p) = ")" ->
             Postfix(Bump(typed.p), <<"cast", At(lhs), lhs, TypeOf(typed.r)>>)
        [] ~(LooksLikeType(q) /\ Peek(typed.p) = ")") /\ args.r = None -> args
        [] OTHER -> Postfix(Expect(args.p, ")", "expr-missing-rparen"),
                            <<"call", At(lhs), lhs, args.r[2]>>)

Index(p, lhs) ==
  LET e == Expression(Bump(p))
  IN  IF e.r = None THEN e
      ELSE Postfix(Expect(e.p, "]", "expr-missing-rbracket"), <<"index", At(lhs), lhs, e.r>>)

Member(p, lhs) ==
  IF IsIdent(PeekAt(p, 1))
  THEN Postfix(Skip(p, 2), <<"member", At(lhs), Peek(p), lhs, PeekAt(p, 1)>>)
  ELSE Ret(Error(Bump(p), "expr-expected-member"), lhs)

PostfixRule(p, lhs) ==
  CASE Peek(p) \in {"++", "--"} -> Postfix(Bump(p), <<"post", At(lhs), Peek(p), lhs>>)
    [] Peek(p) = "["            -> Index(p, lhs)
    [] Peek(p) \in {".", "->"}  -> Member(p, lhs)
    [] Peek(p) = "("            -> CastOrCall(p, lhs)
    [] OTHER                    -> Ret(p, lhs)

\* The climb: the operators of levels below min. A `?` ends it.
ClimbFrom(p, lhs, min) ==
  LET op      == Peek(p)
      rhs     == Climb(Bump(p), IF op \in RightAssoc THEN Prec(op) + 1 ELSE Prec(op))
      yes     == Expression(Bump(Error(p, "expr-no-ternary")))
      ternary == IF Peek(yes.p) = ":" THEN Expression(Bump(yes.p)) ELSE yes
      isOp    == IF op \in BinaryOps THEN Prec(op) < min ELSE FALSE
  IN  CASE op = "?"                -> Ret(ternary.p, lhs)
        [] op # "?" /\ ~isOp       -> Ret(p, lhs)
        [] isOp /\ rhs.r = None    -> Ret(rhs.p, lhs)
        [] OTHER -> ClimbFrom(rhs.p, <<"bin", At(lhs), op, lhs, rhs.r>>, min)

ClimbRule(p, min) ==
  LET term == Unary(p)
      lhs  == Postfix(term.p, term.r)
  IN  CASE term.r = None -> term
        [] term.r # None /\ lhs.r = None -> lhs
        [] OTHER -> ClimbFrom(lhs.p, lhs.r, min)

Rule(rule, p, x) ==
  CASE rule = "type"    -> TypeRule(p)
    [] rule = "unary"   -> UnaryRule(p)
    [] rule = "postfix" -> PostfixRule(p, x)
    [] rule = "climb"   -> ClimbRule(p, x)
    [] rule = "params"  -> ParamsRule(p, x)
=============================================================================
