-------------------------- MODULE MCCounterPipeline --------------------------
(***************************************************************************)
(* Three counters, the watched one in the middle, totals up to 2, and a    *)
(* monitor that looks back on two cycles.                                  *)
(***************************************************************************)
EXTENDS CounterPipeline

=============================================================================
