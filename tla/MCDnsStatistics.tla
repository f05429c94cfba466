--------------------------- MODULE MCDnsStatistics ---------------------------
(***************************************************************************)
(* Up to four queries: enough for several to come in between two groups.   *)
(***************************************************************************)
EXTENDS DnsStatistics

=============================================================================
