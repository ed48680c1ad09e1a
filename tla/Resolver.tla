------------------------------ MODULE Resolver ------------------------------
(***************************************************************************)
(* The symbol resolver: src/symbol/resolver.rs.  Diagnostics are a set: no *)
(* reader of them tells their order apart.                                 *)
(***************************************************************************)
EXTENDS HolyCScopes

CONSTANTS
  Builtins   \* the names of the kernel's manifest (src/symbol/builtins.rs)

\* The names a module installs.
Declared(items) ==
  LET Names(item) ==
        CASE item[1] = "fn"    -> {item[2].name}
          [] item[1] = "var"   -> {item[2][n].name : n \in DOMAIN item[2]}
          [] item[1] = "class" -> {item[2]}
          [] item[1] = "pp" /\ item[2] = "define" -> {item[3]}
          [] OTHER -> {}
  IN  UNION {Names(items[n]) : n \in DOMAIN items}

\* A name is known in its scope, as a global or to the kernel.
IsKnown(name, scope, globals) ==
  name \in {NameOf(d) : d \in scope} \cup globals \cup Builtins

CheckTree(root, globals) ==
  {[rule |-> "unresolved-identifier", at |-> v.at.node[2]] :
     v \in {x \in Visited(root) : x.at.node[1] = "id" /\ ~IsKnown(x.at.node[3], x.scope, globals)}}

\* A function's parameters are in scope all over it.  Each variable of a file,
\* and each statement, has a scope to itself.
CheckTopItem(item, globals) == UNION {CheckTree(root, globals) : root \in Roots(item)}

CheckModule(items, globals) == UNION {CheckTopItem(items[n], globals) : n \in DOMAIN items}
=============================================================================
