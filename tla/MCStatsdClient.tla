--------------------------- MODULE MCStatsdClient ---------------------------
(***************************************************************************)
(* Flush over every batch of up to five lines whose lengths hit each       *)
(* boundary of a 5-byte packet: empty, two that fit exactly (2 + 1 + 2),   *)
(* a line that fills a packet, and one that is too long by itself.         *)
(***************************************************************************)
EXTENDS StatsdClient, SequencesExt

MCLengths == {0, 1, 2, 5, 7}
MCBatches == BoundedSeq(MCLengths, 5)

Stream == INSTANCE DatagramStream

(***************************************************************************)
(* Flush implements the datagram stream: each datagram is exactly the      *)
(* next lines, with the length of the joined text, and every line that is  *)
(* not empty leaves in the end.                                            *)
(***************************************************************************)
ImplementsStream == Stream!Spec

=============================================================================
