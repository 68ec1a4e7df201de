---------------------------- MODULE MCQueuePair -----------------------------
(* One packet of each side for the model run of QueuePair. *)
EXTENDS QueuePair

MCSlavePackets  == { <<"a", "b">> }
MCMasterPackets == { <<"c", "d">> }
MCCells         == {"a", "b", "c", "d", "z"}
=============================================================================
