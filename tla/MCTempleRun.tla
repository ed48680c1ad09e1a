---------------------------- MODULE MCTempleRun ----------------------------
(* The small batteries on which TempleRun is checked. *)
EXTENDS TempleRun

OneSrc == <<"A">>
TwoSrc == <<"A", "B">>
OneTest == <<"T_A">>
TwoTests == <<"T_A", "T_B">>
AssertFile == "Assert"
AnyUserFile == {"A", "B", "T_A", "T_B"}
OneBreaks == {"A", "T_A"}
Every == AllModes
Serving == {"keep", "battery"}
Resets == {"keep", "reset"}
=============================================================================
