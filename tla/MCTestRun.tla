------------------------------ MODULE MCTestRun ------------------------------
(* Two runs, so that what the first one leaves behind meets the second. *)
EXTENDS TestRun
=============================================================================
