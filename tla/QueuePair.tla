----------------------------- MODULE QueuePair ------------------------------
(***************************************************************************)
(* Queue pair 0 of a link carrying traffic in both directions: the S2M     *)
(* ring of the slave's tx queue and the M2S ring of its rx queue.  Each is *)
(* a MemifRing with its own indices and descriptors.  The packet buffers   *)
(* are the same: initializeQueues gives slot j of either ring the buffer   *)
(* at packetBufferOffset + j * PacketBufferSize.                           *)
(***************************************************************************)
EXTENDS Integers, Sequences

CONSTANTS Size, IdxMod, BufSize, ReadCap, Cells, Zero,
          SlavePackets,    \* what the slave may send
          MasterPackets    \* what the master may send

VARIABLES
  buf,   \* shared: the packet buffers, one for slot j of both rings
  thead, ttail, tdesc, twpc, twpkt, twslot, twfree, twdesc, twn, trpc,
  tlast, trslot, travail, trpkt, troff, tfhead, tfill, tgot,   \* S2M ring
  rhead, rtail, rdesc, rwpc, rwpkt, rwslot, rwfree, rwdesc, rwn, rrpc,
  rlast, rrslot, rravail, rrpkt, rroff, rfhead, rfill, rgot    \* M2S ring

\* The slave's tx queue and the master's rx queue.
S2M ==
  INSTANCE MemifRing WITH
    WriterIsMaster <- FALSE, Packets <- SlavePackets,
    head <- thead, tail <- ttail, desc <- tdesc, wpc <- twpc, wpkt <- twpkt,
    wslot <- twslot, wfree <- twfree, wdesc <- twdesc, wn <- twn,
    rpc <- trpc, last <- tlast, rslot <- trslot, ravail <- travail,
    rpkt <- trpkt, roff <- troff, fhead <- tfhead, fill <- tfill, got <- tgot

\* The master's tx queue and the slave's rx queue.
M2S ==
  INSTANCE MemifRing WITH
    WriterIsMaster <- TRUE, Packets <- MasterPackets,
    head <- rhead, tail <- rtail, desc <- rdesc, wpc <- rwpc, wpkt <- rwpkt,
    wslot <- rwslot, wfree <- rwfree, wdesc <- rwdesc, wn <- rwn,
    rpc <- rrpc, last <- rlast, rslot <- rrslot, ravail <- rravail,
    rpkt <- rrpkt, roff <- rroff, fhead <- rfhead, fill <- rfill, got <- rgot

tVars ==
  <<thead, ttail, tdesc, twpc, twpkt, twslot, twfree, twdesc, twn, trpc,
    tlast, trslot, travail, trpkt, troff, tfhead, tfill, tgot>>

rVars ==
  <<rhead, rtail, rdesc, rwpc, rwpkt, rwslot, rwfree, rwdesc, rwn, rrpc,
    rlast, rrslot, rravail, rrpkt, rroff, rfhead, rfill, rgot>>

vars == <<buf, tVars, rVars>>

Init == S2M!Init /\ M2S!Init

Next ==
  \/ S2M!Next /\ UNCHANGED rVars
  \/ M2S!Next /\ UNCHANGED tVars

Spec == Init /\ [][Next]_vars

\* Calls of WritePacket run to their end and both readers poll, as in MemifRing.
FairSpec ==
  /\ Spec
  /\ WF_vars((S2M!WriterStep \/ S2M!Reader) /\ UNCHANGED rVars)
  /\ WF_vars((M2S!WriterStep \/ M2S!Reader) /\ UNCHANGED tVars)

-----------------------------------------------------------------------------
\* "ReadPacket reads one packet form the shared memory" (packet_reader.go):
\* what it reads is what WritePacket put there.  No step, of either direction,
\* changes a packet that is published and not yet read.
PacketsIntact == S2M!UnreadStays /\ M2S!UnreadStays
=============================================================================
