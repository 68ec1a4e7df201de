-------------------------- MODULE MCControlChannel --------------------------
(* Interface configurations for the model runs of ControlChannel. *)
EXTENDS ControlChannel

CONSTANTS mst, s1, s2, zero

\* One queue pair each; or two, except for a slave that wants three.
MCOnePair == [p \in Procs |-> 1]
MCPairs   == [p \in Procs |-> IF p = s2 THEN 3 ELSE 2]

\* Nobody has a secret.
MCNoSecret == [p \in Procs |-> zero]
=============================================================================
