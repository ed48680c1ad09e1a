-------------------------------- MODULE MCZctl --------------------------------
(* No data to instantiate: the bounds are in the configurations. *)
EXTENDS Zctl
=============================================================================
