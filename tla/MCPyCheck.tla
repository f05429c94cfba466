------------------------------ MODULE MCPyCheck ------------------------------
(***************************************************************************)
(* Up to two counters, forwarders, domains, zones and calls: none, one and *)
(* several of each.                                                        *)
(***************************************************************************)
EXTENDS PyCheck

=============================================================================
