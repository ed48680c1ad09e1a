----------------------------- MODULE HolyCScopes -----------------------------
(***************************************************************************)
(* The walk over a tree that the resolver (src/symbol/resolver.rs) and the *)
(* linter (src/lint/mod.rs) both make, each with a stack of scopes of its  *)
(* own that they fill, open and close at the same nodes: what is declared  *)
(* where each node is met.  A scope is the set of the declarations so far  *)
(* in it and in those around it.                                           *)
(***************************************************************************)
EXTENDS HolyCTree

\* The variables and the named parameters.
Declares(x) ==
  \/ x[1] = "declarator"
  \/ x[1] = "param" /\ ~x[2].variadic /\ x[2].name # ""

Decls(tree) == {t \in tree : Declares(t.node)}
NameOf(d)   == d.node[2].name

Walked(scope, visits) == [scope |-> scope, visits |-> visits]

\* The parts of node t in their order, each in the scope the one before it
\* leaves.  visit is the walk over every node of the tree.
WalkParts(t, scope, visit) ==
  LET After[n \in 0 .. Len(Parts(t.node))] ==
        IF n = 0 THEN Walked(scope, {})
        ELSE LET last == After[n - 1]
                 part == visit[Part(t, n)][last.scope]
             IN  Walked(part.scope, last.visits \cup part.visits)
  IN  After[Len(Parts(t.node))]

\* Mutant of OpensScope: the variable of a for outlives it.
OpensScopeBlock(x) == x[1] = "block"

\* The other statements declare into the scope around them.
OpensScope(x) == x[1] \in {"block", "for"}

\* A node, and what is in it.  A name is in scope after its own initializer.
WalkNode(t, scope, visit) ==
  LET inner  == WalkParts(t, scope, visit)
      visits == {[at |-> t, scope |-> scope]} \cup inner.visits
  IN  CASE Declares(t.node)   -> Walked(inner.scope \cup {t}, visits)
        [] OpensScope(t.node) -> Walked(scope, visits)
        [] OTHER              -> Walked(inner.scope, visits)

\* Each node of a tree with the scope it is met in; nothing is in scope at first.
Visited(root) ==
  LET tree == Tree(root)
      Visit[t \in tree] == [scope \in SUBSET tree |-> WalkNode(t, scope, Visit)]
  IN  Visit[Root(root)][{}].visits
-----------------------------------------------------------------------------
\* No declaration of a tree is inside another.
DeclaresApart(tree) == \A d, e \in Decls(tree) : Within(d, e) => d = e

\* What the parser makes of an item: trees that end, and lists of variables.
IsBuilt(item) ==
  /\ \A root \in Roots(item) : IsTree(root) /\ DeclaresApart(Tree(root))
  /\ item[1] = "var" => Len(item[2]) \in Nat /\ DOMAIN item[2] = 1 .. Len(item[2])
=============================================================================
