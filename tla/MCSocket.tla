------------------------------ MODULE MCSocket ------------------------------
(* A master and a slave interface with the same id, a loopback, on one       *)
(* socket.                                                                   *)
EXTENDS Socket

CONSTANTS m1, s1

MCIds == [i \in Ifaces |-> 0]
=============================================================================
