-------------------------------- MODULE Lint --------------------------------
(***************************************************************************)
(* The lint rules: src/lint/mod.rs.  The context ctx holds the types and   *)
(* the signatures of the globals of every module.  What a rule looks at    *)
(* inside a node it finds by the places of the tree.                       *)
(***************************************************************************)
EXTENDS HolyCScopes

Warn(rule, t) == {[rule |-> rule, at |-> t]}

\* Tables of names: of none, of one, and one whose entries replace another's.
NoNames      == [n \in {} |-> None]
Gives(n, x)  == [name \in {n} |-> x]
Over(f, g)   == [name \in DOMAIN f \cup DOMAIN g |-> IF name \in DOMAIN f THEN f[name] ELSE g[name]]
-----------------------------------------------------------------------------
(* The context. *)

\* #define of an integer, signed or not.
DefinesInt(body) ==
  \/ Len(body) = 1 /\ body[1] \in IntLits
  \/ Len(body) = 2 /\ body[1] \in {"-", "+"} /\ body[2] \in IntLits

\* What items register, one after the other: the later one wins.
Registered(tables) ==
  LET Upto[n \in 0 .. Len(tables)] == IF n = 0 THEN NoNames ELSE Over(tables[n], Upto[n - 1])
  IN  Upto[Len(tables)]

\* The type each item gives to names.
ItemTypes(item) ==
  CASE item[1] = "fn"  -> Gives(item[2].name, item[2].ret)
    [] item[1] = "var" -> Registered([n \in DOMAIN item[2] |-> Gives(item[2][n].name, item[2][n].ty)])
    [] item[1] = "pp" /\ item[2] = "define" ->
         IF DefinesInt(item[4]) THEN Gives(item[3], <<"ty", "I64", 0>>) ELSE NoNames
    [] OTHER -> NoNames

Signature(params, counted) ==
  [numParams |-> Cardinality(counted),
   variadic  |-> \E n \in DOMAIN params : params[n].variadic]

\* Mutant of ItemFunctions: the ... counts as a parameter.
ItemFunctionsAll(item) ==
  IF item[1] # "fn" THEN NoNames
  ELSE Gives(item[2].name, Signature(item[2].params, DOMAIN item[2].params))

ItemFunctions(item) ==
  IF item[1] # "fn" THEN NoNames
  ELSE LET params == item[2].params
       IN  Gives(item[2].name, Signature(params, {n \in DOMAIN params : ~params[n].variadic}))

TypeContext(modules) ==
  LET items == FlattenSeq(modules)
  IN  [types     |-> Registered([n \in DOMAIN items |-> ItemTypes(items[n])]),
       functions |-> Registered([n \in DOMAIN items |-> ItemFunctions(items[n])])]

\* Mutant of DeclaredType: a global hides the local of its name.
DeclaredTypeGlobal(name, scope, ctx) ==
  LET local == {d \in scope : NameOf(d) = name}
  IN  CASE name \in DOMAIN ctx.types -> ctx.types[name]
        [] name \notin DOMAIN ctx.types /\ local # {} ->
             (CHOOSE d \in local : \A e \in local : ~Before(d, e)).node[2].ty
        [] OTHER -> None

\* The type of the last declaration of a name in scope, or of the global; or None.
DeclaredType(name, scope, ctx) ==
  LET local == {d \in scope : NameOf(d) = name}
  IN  CASE local # {} -> (CHOOSE d \in local : \A e \in local : ~Before(d, e)).node[2].ty
        [] local = {} /\ name \in DOMAIN ctx.types -> ctx.types[name]
        [] OTHER -> None

IsIntegerType(ty) ==
  IF ty = None \/ ty[1] = "fn" THEN FALSE ELSE ty[2] \in PrimTypes \ {"F64"}
IsFloatType(ty) == ty = <<"ty", "F64", 0>>
-----------------------------------------------------------------------------
(* The rules.  Each gives the diagnostics of the node t of a tree. *)

\* What stands in t behind nothing but nodes of the given kind.
Through(t, kind, tree) ==
  {s \in tree : /\ Within(s, t) /\ s # t
                /\ \A r \in tree \ (kind \cup {s, t}) : ~(Within(r, t) /\ Within(s, r))}

Parens(tree) == {t \in tree : t.node[1] = "paren"}
Signs(tree)  == {t \in tree : t.node[1] = "pre" /\ t.node[3] \in {"+", "-"}}

\* The type of a name, a direct call of one or an element of one; else None.
NamedType(e, scope, ctx) ==
  CASE e[1] = "id" -> DeclaredType(e[3], scope, ctx)
    [] e[1] \in {"call", "index"} ->
         IF e[3][1] = "id" THEN DeclaredType(e[3][3], scope, ctx) ELSE None
    [] OTHER -> None

\* An operand, and what is behind the parentheses and signs before it.
Bare(t, kind, tree) == {t} \cup (IF t \in kind THEN Through(t, kind, tree) ELSE {})

KnownFloat(t, scope, tree, ctx) ==
  \E s \in Bare(t, Parens(tree) \cup Signs(tree), tree) :
     LET e == s.node
     IN  \/ e[1] = "lit" /\ e[3] \in FloatLits
         \/ e[1] = "cast" /\ IsFloatType(e[4])
         \/ IsFloatType(NamedType(e, scope, ctx))

LooksInteger(t, scope, tree, ctx) ==
  LET IsInt(x) == x[1] = "lit" /\ x[3] \in IntLits \cup CharLits
  IN  \E s \in Bare(t, Parens(tree), tree) :
        LET e == s.node
        IN  \/ IsInt(e)
            \/ e[1] = "cast" /\ IsIntegerType(e[4])
            \/ e[1] = "pre" /\ (e[3] = "~" \/ (e[3] \in {"+", "-"} /\ IsInt(e[4])))
            \/ e[1] = "bin" /\ e[3] \in {"&", "|", "^", "<<", ">>"}
            \/ IsIntegerType(NamedType(e, scope, ctx))

F64Bitwise(t, scope, tree, ctx) ==
  LET sides == {Part(t, 1), Part(t, 2)}
  IN  IF \/ \E s \in sides : KnownFloat(s, scope, tree, ctx)
         \/ \A s \in sides : ~LooksInteger(s, scope, tree, ctx)
      THEN Warn("f64-bitwise", t.node[2]) ELSE {}

\* Only a direct call of a global function that no local hides is counted.
Arity(t, scope, ctx) ==
  LET callee == t.node[3]
      args   == Len(t.node[4])
      sig    == ctx.functions[callee[3]]
  IN  IF /\ callee[1] = "id"
         /\ callee[3] \in DOMAIN ctx.functions \ {NameOf(d) : d \in scope}
         /\ IF sig.variadic THEN args < sig.numParams ELSE args # sig.numParams
      THEN Warn("arity-mismatch", t.node[2]) ELSE {}

\* The declarations of a body, those of the blocks in it included.
CollectDecls(t, tree) ==
  {d \in Through(t, {s \in tree : s.node[1] \in {"decl", "block"}}, tree) : d.node[1] = "declarator"}

\* Mutant of SwitchSharedScope: off by one, a neighbour is not compared.
SwitchSharedScopeApart(t, tree) ==
  LET decls == CollectDecls(t, tree)
      again == {d \in decls : \E e, f \in decls : NameOf(e) = NameOf(d) /\ Before(e, f) /\ Before(f, d)}
  IN  UNION {Warn("switch-case-shared-scope", d.node[2].at) : d \in again}

\* Every declaration of a switch but the first of its name: a name twice in
\* one arm is reported like a name in two.
SwitchSharedScope(t, tree) ==
  LET decls == CollectDecls(t, tree)
      again == {d \in decls : \E e \in decls : NameOf(e) = NameOf(d) /\ Before(e, d)}
  IN  UNION {Warn("switch-case-shared-scope", d.node[2].at) : d \in again}

Bodies(tree) == {s \in tree : s.node[1] \in {"if", "while", "do", "for", "lock", "try"}}

\* Mutant of SiblingBlocks: the branch of an else is forgotten.
SiblingBlocksButElse(t, tree) ==
  {b \in Through(t, Bodies(tree), tree) :
     b.node[1] = "block" /\ \A s \in Bodies(tree) : s.node[1] = "if" /\ s.node[4] # None => ~Within(b, Part(s, 3))}

\* The bodies in braces at the level of t.
SiblingBlocks(t, tree) == {b \in Through(t, Bodies(tree), tree) : b.node[1] = "block"}

\* A declaration in a block is compared with the first of its name in the
\* blocks beside it.
BlockSharedScope(t, tree) ==
  LET found == UNION {{[block |-> b, decl |-> d] : d \in CollectDecls(b, tree)} : b \in SiblingBlocks(t, tree)}
      First(x) == CHOOSE y \in found : /\ NameOf(y.decl) = NameOf(x.decl)
                                       /\ \A z \in found : NameOf(z.decl) = NameOf(x.decl) => ~Before(z.decl, y.decl)
  IN  UNION {Warn("block-shared-scope", x.decl.node[2].at) : x \in {y \in found : First(y).block # y.block}}
-----------------------------------------------------------------------------
(* The walk. *)

\* Dimensions, and what sizeof is applied to, are left out.
Skipped(tree) ==
  LET Parents == {s \in tree : s.node[1] \in {"sizeof", "declarator"}}
      Out(s)  == {n \in DOMAIN Parts(s.node) : s.node[1] = "sizeof" \/ n <= Len(DimExprs(s.node[2]))}
  IN  {t \in tree : \E s \in Parents : \E n \in Out(s) : Within(t, Part(s, n))}

LintNode(t, scope, tree, ctx) ==
  LET x == t.node
  IN  CASE x[1] = "bin" /\ x[3] \in {"&", "|", "^"} -> F64Bitwise(t, scope, tree, ctx)
        [] x[1] = "call"            -> Arity(t, scope, ctx)
        [] x[1] = "switch"          -> SwitchSharedScope(t, tree)
        [] x[1] \in {"fn", "block"} -> BlockSharedScope(t, tree)
        [] OTHER                    -> {}

LintTree(root, ctx) ==
  LET tree    == Tree(root)
      skipped == Skipped(tree)
  IN  UNION {LintNode(v.at, v.scope, tree, ctx) : v \in {x \in Visited(root) : x.at \notin skipped}}

\* A function, the initializers of a variable, a statement.
LintTopItem(item, ctx) == UNION {LintTree(root, ctx) : root \in Roots(item)}

\* A module, against the context of all of them.
LintModule(items, modules) ==
  UNION {LintTopItem(items[n], TypeContext(modules)) : n \in DOMAIN items}
=============================================================================
