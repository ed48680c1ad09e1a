------------------------------- MODULE MCDevLoop -------------------------------
(* Two source files and one test, each saved in any order up to MaxSaves. *)
EXTENDS DevLoop
CONSTANTS s1, s2, t1

Src == {s1, s2}
Tests == {t1}
=============================================================================
