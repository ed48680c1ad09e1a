------------------------------ MODULE MCPostfix ------------------------------
(***************************************************************************)
(* Statements of prefix operators, a name, parentheses and a ++, for the   *)
(* run about which of them binds tighter.                                  *)
(***************************************************************************)
EXTENDS HolyccProps

PrefixCorpora ==
  {{<<<<t \o <<";">>>>>> : t \in UNION {[1 .. l -> {"!", "*", "a", "(", ")", "++"}] : l \in 1 .. 4}}}
=============================================================================
