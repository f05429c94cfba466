---------------------------- MODULE MCEventWindow ----------------------------
(***************************************************************************)
(* Six minutes, a window of two and a cap of two events: a window can hold *)
(* three events, and cycles can come too late for their windows to meet.   *)
(***************************************************************************)
EXTENDS EventWindow

=============================================================================
