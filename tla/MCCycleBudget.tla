---------------------------- MODULE MCCycleBudget ----------------------------
(***************************************************************************)
(* The seconds of the code: forwarder_timeout_sec = 5, TCP 3, resolution   *)
(* 5 + 5, timeout = 55.  With 4 seconds for everything else (README.md     *)
(* shows a cycle of 4417 ms) five forwarders just fit, and six do not.     *)
(***************************************************************************)
EXTENDS CycleBudget

=============================================================================
