-------------------------------- MODULE MCSetup --------------------------------
(***************************************************************************)
(* Two values of -Env, that of the example and another: a rerun with the   *)
(* same and one with another.  Nothing else has a size: four files, one    *)
(* script, one Agent.                                                      *)
(***************************************************************************)
EXTENDS Setup

=============================================================================
