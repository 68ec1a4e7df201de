---------------------------- MODULE MCMemifRing -----------------------------
(* Packets for the model runs of MemifRing, with buffers of two cells. *)
EXTENDS MemifRing

\* A packet that half fills a buffer, one that fills it, and one that takes a
\* chain of two.  The chain's buffers hold the same cells: WritePacket copies
\* the start of the packet to each of them (see WritesOnePacket).
MCPackets == { <<"a">>, <<"b", "c">>, <<"d", "d", "d", "d">> }

\* The same without the full buffer, for larger rings.
MCFewPackets == { <<"a">>, <<"d", "d", "d", "d">> }

\* A chain whose buffers differ.
MCChained == { <<"a", "b", "c", "d">> }

MCCells == {"a", "b", "c", "d", "z"}
=============================================================================
