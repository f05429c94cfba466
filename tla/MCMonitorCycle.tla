---------------------------- MODULE MCMonitorCycle ----------------------------
(***************************************************************************)
(* Two check calls; each collector returns no line, a short one, or a      *)
(* short and a long one, and two or three lines share a packet.            *)
(***************************************************************************)
EXTENDS MonitorCycle

MCOutputs == {<<>>, <<2>>, <<1, 4>>}

=============================================================================
