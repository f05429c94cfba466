----------------------------- MODULE MCResolution -----------------------------
(***************************************************************************)
(* A deadline of three ticks above thresholds of one and two: a reply can  *)
(* be OK, WARNING, CRITICAL and too late.                                  *)
(***************************************************************************)
EXTENDS Resolution

=============================================================================
