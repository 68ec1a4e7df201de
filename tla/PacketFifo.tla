----------------------------- MODULE PacketFifo -----------------------------
(***************************************************************************)
(* What one memif ring promises to the two programs that share it: the     *)
(* packets given to WritePacket come out of ReadPacket whole, once, and in *)
(* order, and at most Capacity of them are under way.                      *)
(***************************************************************************)
EXTENDS Naturals, Sequences

CONSTANTS
  Packets,   \* what may be written
  Capacity   \* how many packets may be in the ring, at least one

VARIABLES
  queue,     \* packets written and not yet read
  out        \* the packet the last successful read returned

vars == <<queue, out>>

Init ==
  /\ queue = <<>>
  /\ out = <<>>

\* A successful WritePacket.
Put(p) ==
  /\ Len(queue) < Capacity
  /\ queue' = Append(queue, p)
  /\ UNCHANGED out

\* A successful ReadPacket.
Take ==
  /\ queue # <<>>
  /\ out' = Head(queue)
  /\ queue' = Tail(queue)

Next ==
  \/ \E p \in Packets : Put(p)
  \/ Take

Spec == Init /\ [][Next]_vars

\* The reader polls: a packet in the ring is eventually read.
FairSpec == Spec /\ WF_vars(Take)
=============================================================================
