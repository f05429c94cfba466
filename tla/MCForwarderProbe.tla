--------------------------- MODULE MCForwarderProbe ---------------------------
(***************************************************************************)
(* Two forwarders, the first of them twice in the list, so that a late     *)
(* answer can meet a later probe of the same forwarder and of another one. *)
(***************************************************************************)
EXTENDS ForwarderProbe

CONSTANTS f1, f2

MCList == <<f1, f2, f1>>

=============================================================================
