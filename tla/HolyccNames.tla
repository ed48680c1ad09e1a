------------------------------ MODULE HolyccNames -----------------------------
(***************************************************************************)
(* What the resolver and the linter promise of a name, told by the places  *)
(* of a tree and without a walk: src/symbol/resolver.rs and                *)
(* src/lint/mod.rs keep chains of scopes, and nothing here does.           *)
(***************************************************************************)
EXTENDS Holycc

ItemsOf(f) == Range(modules[f])
Reported(ph, rule, f) == {d.at : d \in {x \in diags : x.phase = ph /\ x.rule = rule /\ x.file = f}}

\* A name of the file level of one of the first f files.
IsGlobal(name, f) ==
  \E g \in 1 .. f : \E item \in ItemsOf(g) :
     \/ item[1] = "fn" /\ item[2].name = name
     \/ item[1] = "var" /\ \E n \in DOMAIN item[2] : item[2][n].name = name
     \/ item[1] = "class" /\ item[2] = name
     \/ item[1] = "pp" /\ item[2] = "define" /\ item[3] = name
-----------------------------------------------------------------------------
(* Nodes of a tree, each with its place. *)

Uses(tree)     == {t \in tree : t.node[1] = "id"}
ScopesIn(tree) == {t \in tree : t.node[1] \in {"block", "for"}}

\* The declaration d is over before u, and every scope around it is around u.
Reaches(d, u, tree) ==
  Before(d, u) /\ \A s \in ScopesIn(tree) : Within(d, s) => Within(u, s)

\* The names of a tree that nothing in it declares for them.
Loose(tree) ==
  {u \in Uses(tree) : \A d \in Decls(tree) : Reaches(d, u, tree) => NameOf(d) # u.node[3]}

\* The places of the names of an item that nothing declares: no variable or
\* parameter in scope, no global of its file or of one before it, nothing of the
\* kernel's.
Undeclared(item, f) ==
  {u.node[2] : u \in {x \in UNION {Loose(Tree(root)) : root \in Roots(item)} :
     x.node[3] \notin Builtins /\ ~IsGlobal(x.node[3], f)}}

\* What the parser made of the files are trees that end.
TreesAreBuilt == \A f \in DOMAIN modules : \A item \in ItemsOf(f) : IsBuilt(item)

\* Every such name is reported, and no other (resolver.rs:7-8 and 126-338),
\* through blocks that close, declarations without a block that stay, and
\* files that see the ones before them only.
UndeclaredIsReported ==
  phase = "report" =>
    \A f \in DOMAIN files :
       Reported("resolve", "unresolved-identifier", f) =
         UNION {Undeclared(item, f) : item \in ItemsOf(f)}
-----------------------------------------------------------------------------
(* Calls. *)

Callee(c) == c.node[3][3]

\* A node outside of every sizeof and of every dimension.
Entered(t, tree) ==
  \A s \in tree \ {t} : Within(t, s) =>
    /\ s.node[1] # "sizeof"
    /\ s.node[1] = "declarator" => ~(t.place[Len(s.place) + 1] <= Len(DimExprs(s.node[2])))

\* The calls of functions by name.
NamedCalls(tree) ==
  {c \in tree : c.node[1] = "call" /\ c.node[3][1] = "id" /\ Entered(c, tree)}

IsFunction(item, name) == item[1] = "fn" /\ item[2].name = name

\* fn is the last function that any file declares under a name, in the order of
\* the command line.
IsLast(fn, name) ==
  LET all == FlattenSeq(modules)
  IN  \E n \in DOMAIN all :
        /\ fn = all[n] /\ IsFunction(fn, name)
        /\ \A m \in DOMAIN all : m > n => ~IsFunction(all[m], name)

\* As many arguments as parameters. A ... takes as many as there are, and none.
FitsCall(fn, args) ==
  LET params == fn[2].params
      given  == Cardinality({n \in DOMAIN params : ~params[n].variadic})
  IN  IF \E n \in DOMAIN params : params[n].variadic THEN ~(args < given) ELSE args = given

\* Fewer arguments than parameters, and every parameter left without has a default.
DefaultsFill(fn, args) ==
  LET given == {n \in DOMAIN fn[2].params : ~fn[2].params[n].variadic}
  IN  /\ args < Cardinality(given)
      /\ \A n \in given : args < n => fn[2].params[n].default # None

\* The calls of a tree that nothing in it hides the function of.
OpenCalls(tree) ==
  {c \in NamedCalls(tree) : \A d \in Decls(tree) : Reaches(d, c, tree) => NameOf(d) # Callee(c)}

\* The calls that do not fit the function of their name, and those of them that its
\* defaults make up for.
Miscalls(item) ==
  {c.node[2] : c \in {x \in UNION {OpenCalls(Tree(root)) : root \in Roots(item)} :
     \E fn \in Range(FlattenSeq(modules)) : IsLast(fn, Callee(x)) /\ ~FitsCall(fn, Len(x.node[4]))}}
Shortened(item) ==
  {c.node[2] : c \in {x \in UNION {OpenCalls(Tree(root)) : root \in Roots(item)} :
     \E fn \in Range(FlattenSeq(modules)) : IsLast(fn, Callee(x)) /\ DefaultsFill(fn, Len(x.node[4]))}}

\* A call with more arguments than parameters, or without one that has no default, is
\* reported, the slots left empty counted as arguments; one with as many arguments as
\* parameters is not: whichever file declares the function and wherever the call
\* stands, unless a local of that name hides it (lint/mod.rs:449-499). It leaves open
\* the calls that defaults make up for, which are legal HolyC (parse-spec.md:450-452,
\* 885-891): the linter counts a parameter with a default like any other (95-113,
\* 483) and reports them too.
CallsAreCounted ==
  phase = "report" =>
    \A f \in DOMAIN files :
      LET reported == Reported("lint", "arity-mismatch", f)
          misfits  == UNION {Miscalls(item) : item \in ItemsOf(f)}
          excused  == UNION {Shortened(item) : item \in ItemsOf(f)}
      IN  misfits \ excused \subseteq reported /\ reported \subseteq misfits
-----------------------------------------------------------------------------
(* Types. *)

\* The type an item gives to a name, in a set; of a list of variables, the last.
TypesIn(item, name) ==
  CASE item[1] = "fn" /\ item[2].name = name -> {item[2].ret}
    [] item[1] = "var" ->
         LET named == {n \in DOMAIN item[2] : item[2][n].name = name}
         IN  {item[2][n].ty : n \in {m \in named : \A l \in named : ~(l > m)}}
    [] item[1] = "pp" /\ item[2] = "define" /\ item[3] = name /\ DefinesInt(item[4]) -> {<<"ty", "I64", 0>>}
    [] OTHER -> {}

\* The type of a global name, in a set: of all files, the last to give it one.
GlobalTypes(name) ==
  LET all == FlattenSeq(modules)
  IN  UNION {TypesIn(all[n], name) :
               n \in {i \in DOMAIN all : \A m \in DOMAIN all : m > i => TypesIn(all[m], name) = {}}}

\* The type of a name at a node, in a set: of the declarations that reach the
\* node the last one's, of a name without any the global one's.
TypesAt(t, name, tree) ==
  LET local == {d \in Decls(tree) : NameOf(d) = name /\ Reaches(d, t, tree)}
  IN  IF local = {} THEN GlobalTypes(name)
      ELSE {d.node[2].ty : d \in {e \in local : \A other \in local \ {e} : Before(other, e)}}

BitOps(tree) ==
  {t \in tree : t.node[1] = "bin" /\ t.node[3] \in {"&", "|", "^"} /\ Entered(t, tree)}

\* A bit operation on two names, one of which is an F64, or neither of which is
\* known to be an integer.
OnNames(t) == t.node[4][1] = "id" /\ t.node[5][1] = "id"
MasksFloat(t, tree) ==
  LET types == TypesAt(t, t.node[4][3], tree) \cup TypesAt(t, t.node[5][3], tree)
  IN  \/ \E ty \in types : IsFloatType(ty)
      \/ \A ty \in types : ~IsIntegerType(ty)

\* The bit operations of a file, each with its tree.
BitOpsOf(f) ==
  UNION {{[root |-> root, op |-> t] : t \in BitOps(Tree(root))} :
           root \in UNION {Roots(item) : item \in ItemsOf(f)}}

\* Bit operations on two names are reported when one of them is an F64, or when
\* neither is known to be an integer; through shadowing, scopes that closed, and
\* files that give a name another type (lint/mod.rs:192-217 and 363-440). One
\* that is not alone at its place shares its report.
FloatsAreNotMasked ==
  phase = "report" =>
    \A f \in DOMAIN files : \A x \in BitOpsOf(f) :
       OnNames(x.op) /\ (\A y \in BitOpsOf(f) : y.op.node[2] = x.op.node[2] => y = x) =>
         (MasksFloat(x.op, Tree(x.root)) <=> x.op.node[2] \in Reported("lint", "f64-bitwise", f))
-----------------------------------------------------------------------------
(* Names that share a frame. *)

\* e is declared in a switch after another of its name.
SharesSwitch(e, tree) ==
  \E t \in tree :
    /\ t.node[1] = "switch" /\ Entered(t, tree)
    /\ e \in CollectDecls(t, tree)
    /\ \E d \in CollectDecls(t, tree) : NameOf(d) = NameOf(e) /\ Before(d, e)

\* e is declared in a block after another of its name in a block beside it.
SharesBlocks(e, tree) ==
  \E t \in tree :
    /\ t.node[1] \in {"fn", "block"} /\ Entered(t, tree)
    /\ \E b, c \in SiblingBlocks(t, tree) :
         /\ b # c /\ e \in CollectDecls(c, tree)
         /\ \E d \in CollectDecls(b, tree) : NameOf(d) = NameOf(e) /\ Before(d, e)

\* The declarations of a file, each with its tree.
DeclsOf(f) ==
  UNION {{[root |-> root, decl |-> d] : d \in Decls(Tree(root))} :
           root \in UNION {Roots(item) : item \in ItemsOf(f)}}

\* Reported are the declarations whose name was declared before them in their
\* switch, or in a block beside their own, and no other: no table of the first
\* one of each name is needed to tell them (lint/mod.rs:652-701 and 740-811).
SharedNamesAreReported ==
  phase = "report" =>
    \A f \in DOMAIN files :
      /\ Reported("lint", "switch-case-shared-scope", f)
           = {x.decl.node[2].at : x \in {y \in DeclsOf(f) : SharesSwitch(y.decl, Tree(y.root))}}
      /\ Reported("lint", "block-shared-scope", f)
           = {x.decl.node[2].at : x \in {y \in DeclsOf(f) : SharesBlocks(y.decl, Tree(y.root))}}
=============================================================================
