------------------------------ MODULE HolyCTree ------------------------------
(***************************************************************************)
(* The tree of src/parse/ast.rs as its readers walk it: what an expression *)
(* and a statement contain, in the order both passes visit it.             *)
(***************************************************************************)
EXTENDS ParserCursor

CONSTANTS
  MaxDepth   \* how deep a tree may be

ASSUME DepthAssumption == MaxDepth \in Nat

Opt(x)     == IF x = None THEN <<>> ELSE <<x>>
OptExpr(e) == IF e = None THEN <<>> ELSE <<<<"expr", e>>>>

\* The expressions right inside e.
Sub(e) ==
  LET tag == e[1]
  IN  CASE tag \in {"pre", "post", "member"} -> <<e[4]>>
        [] tag \in {"paren", "cast"} -> <<e[3]>>
        [] tag = "bin"   -> <<e[4], e[5]>>
        [] tag = "index" -> <<e[3], e[4]>>
        [] tag = "call"  -> <<e[3]>> \o e[4]
        [] tag = "comma" -> e[3]
        [] tag = "sizeof" /\ e[3] = "expr" -> <<e[4]>>
        [] OTHER -> <<>>

\* The expressions of a case label.
CaseExprs(values) ==
  FlattenSeq([n \in DOMAIN values |-> [m \in 1 .. Len(values[n]) - 1 |-> values[n][m + 1]]])

\* The statements right inside s; an expression counts as one, and each body
\* of a try as a block. A declaration is for the readers to take apart.
Inner(s) ==
  LET tag == s[1]
  IN  CASE tag \in {"while", "do"} -> <<<<"expr", s[2]>>, s[3]>>
        [] tag = "if"     -> <<<<"expr", s[2]>>, s[3]>> \o Opt(s[4])
        [] tag = "for"    -> Opt(s[2]) \o OptExpr(s[3]) \o OptExpr(s[4]) \o <<s[5]>>
        [] tag = "switch" -> <<<<"expr", s[2]>>>> \o s[3]
        [] tag = "block"  -> s[2]
        [] tag = "try"    -> <<<<"block", s[2]>>, <<"block", s[3]>>>>
        [] tag = "lock"   -> <<s[2]>>
        [] tag = "return" -> OptExpr(s[2])
        [] tag = "case"   -> LET es == CaseExprs(s[2]) IN [n \in DOMAIN es |-> <<"expr", es[n]>>]
        [] OTHER -> <<>>

\* The sized dimensions of a declarator.
DimExprs(v) == SelectSeq(v.dims, LAMBDA d : d # None)

\* The statements of a function, as a sequence; of a prototype, none.
FnStmts(body) == IF body = None THEN <<>> ELSE body[2]
-----------------------------------------------------------------------------
(* A tree by its places: the root stands at the empty place, and part n of  *)
(* the node at a place at that place with n behind it.                      *)

\* What is right inside a node, be it a function, a statement, a declarator, an
\* initializer or an expression.
Parts(x) ==
  LET tag == x[1]
  IN  CASE tag \in {"expr", "single"} -> <<x[2]>>
        [] tag = "agg"  -> x[2]
        [] tag = "decl" -> [n \in DOMAIN x[2] |-> <<"declarator", x[2][n]>>]
        [] tag = "declarator" -> DimExprs(x[2]) \o Opt(x[2].init)
        [] tag = "fn"   -> [n \in DOMAIN x[2].params |-> <<"param", x[2].params[n]>>] \o FnStmts(x[3])
        [] tag = "param" -> <<>>
        [] OTHER -> Sub(x) \o Inner(x)

Root(x)    == [place |-> <<>>, node |-> x]
Part(t, n) == [place |-> Append(t.place, n), node |-> Parts(t.node)[n]]

Levels(tree, bottom) == [tree |-> tree, bottom |-> bottom]

\* All of a tree, level by level.
Tree(root) ==
  LET Grown[d \in 0 .. MaxDepth] ==
        IF d = 0 THEN Levels({Root(root)}, {Root(root)})
        ELSE LET above  == Grown[d - 1]
                 bottom == UNION {{Part(t, n) : n \in DOMAIN Parts(t.node)} : t \in above.bottom}
             IN  Levels(above.tree \cup bottom, bottom)
  IN  Grown[MaxDepth].tree

\* t stands at s, or inside of it.
Within(t, s) ==
  /\ Len(s.place) <= Len(t.place)
  /\ \A n \in 1 .. Len(s.place) : s.place[n] = t.place[n]

\* s ends before t begins.
Before(s, t) ==
  \E n \in DOMAIN s.place \cap DOMAIN t.place :
     s.place[n] < t.place[n] /\ \A m \in 1 .. n - 1 : s.place[m] = t.place[m]

\* The trees in an item: a function, each variable of a list, a statement.
Roots(item) ==
  CASE item[1] = "fn"   -> {item}
    [] item[1] = "var"  -> {<<"declarator", item[2][n]>> : n \in DOMAIN item[2]}
    [] item[1] = "stmt" -> {item[2]}
    [] OTHER -> {}

\* A tree that ends within MaxDepth, with lists for its parts.
IsTree(root) ==
  LET tree == Tree(root)
  IN  \A t \in tree :
        /\ Len(Parts(t.node)) \in Nat
        /\ DOMAIN Parts(t.node) = 1 .. Len(Parts(t.node))
        /\ \A n \in DOMAIN Parts(t.node) : Part(t, n) \in tree
=============================================================================
