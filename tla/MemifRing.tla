----------------------------- MODULE MemifRing ------------------------------
(***************************************************************************)
(* One descriptor ring of a connected memif link, in the memory region the *)
(* two interfaces share.  A program on one side calls WritePacket on its   *)
(* tx queue while a program on the other side calls ReadPacket on its rx   *)
(* queue; nothing but the two 16-bit ring indices orders the accesses.     *)
(*                                                                         *)
(* Both directions are this module:                                        *)
(*   WriterIsMaster = FALSE   an S2M ring: the slave writes and moves      *)
(*                            head, the master reads and moves tail        *)
(*   WriterIsMaster = TRUE    an M2S ring: the slave offers empty buffers  *)
(*                            by moving head, the master fills them and    *)
(*                            moves tail, the slave reads and refills      *)
(*                                                                         *)
(* A step makes at most one access to shared memory that the other side    *)
(* could conflict with.  Indices are positions modulo IdxMod (2^16 in the  *)
(* code), slots are positions modulo Size.  A packet is a sequence of      *)
(* cells; a packet buffer holds BufSize cells.                             *)
(***************************************************************************)
EXTENDS Integers, Sequences

CONSTANTS
  Size,            \* q.ring.size
  IdxMod,          \* number of values of a ring index, 2^16
  WriterIsMaster,  \* which side calls WritePacket on this ring
  BufSize,         \* PacketBufferSize
  ReadCap,         \* len(pkt) of the buffer the reader passes
  Cells,           \* contents of one cell of a packet
  Zero,            \* contents of fresh shared memory
  Packets          \* the packets the writer may send

ASSUME RingAssumption ==
  /\ Size \in Nat \ {0}
  /\ IdxMod \in Nat \ {0}
  /\ Size < IdxMod
  /\ IdxMod % Size = 0
  /\ WriterIsMaster \in BOOLEAN
  /\ BufSize \in Nat \ {0}
  /\ ReadCap \in Nat \ {0}
  /\ Zero \in Cells
  /\ Packets \subseteq Seq(Cells) \ {<<>>}

VARIABLES
  head, tail,      \* shared: the ring indices
  desc,            \* shared: descriptor of each slot, length and NEXT flag
  buf,             \* shared: the packet buffer of each slot
  wpc,             \* writer: where it is in WritePacket
  wpkt,            \* writer: pkt
  wslot,           \* writer: slot
  wfree,           \* writer: nFree
  wdesc,           \* writer: desc, its copy of the descriptor
  wn,              \* writer: n
  rpc,             \* reader: where it is in ReadPacket
  last,            \* reader: q.lastHead (master) or q.lastTail (slave)
  rslot,           \* reader: slot
  ravail,          \* reader: nSlots
  rpkt,            \* reader: the cells it copied into pkt
  roff,            \* reader: pktOffset
  fhead, fill,     \* slave reader: head and nSlots of the refill loop
  got              \* the packet the last successful ReadPacket returned

shared == <<head, tail, desc, buf>>
wvars  == <<wpc, wpkt, wslot, wfree, wdesc, wn>>
rvars  == <<rpc, last, rslot, ravail, rpkt, roff, fhead, fill, got>>
vars   == <<shared, wvars, rvars>>

-----------------------------------------------------------------------------
(* Indices, slots and copies. *)

\* Mutant of U16: the index is kept in an int.
IntIndex(x) == x

U16(x)  == x % IdxMod     \* uint16(x)
Slot(x) == x % Size       \* x & mask

Slots == 0 .. Size - 1
Descs == [length : 0 .. BufSize, next : BOOLEAN]

MinOf(a, b) == IF a < b THEN a ELSE b

\* copy(dst[0:n], src[:]) takes the first cells of src.
Prefix(src, n) == SubSeq(src, 1, MinOf(n, Len(src)))

\* The buffer after src was copied to its start.
Overwrite(dst, src) ==
  [k \in 1 .. BufSize |-> IF k <= Len(src) THEN src[k] ELSE dst[k]]

\* data[offset : offset+length] of the buffer of slot s.
Contents(s) == [k \in 1 .. desc[s].length |-> buf[s][k]]

\* Mutant of Available: the ring may fill up one slot too far.
AvailableOneMore ==
  IF WriterIsMaster THEN U16(head - tail + 1) ELSE U16(Size - head + tail + 1)

\* nFree as WritePacket computes it from the two indices.
Available ==
  IF WriterIsMaster THEN U16(head - tail) ELSE U16(Size - head + tail)

\* The index the writer publishes with, and what the reader has not passed.
Produced == IF WriterIsMaster THEN tail ELSE head
Unread   == U16(Produced - last)

\* Mutant of Released: all that was published when the call began.
ReleasedAllSeen == U16(rslot + ravail)

\* Mutant of Released: the master never gives a slot back.
ReleasedNothing == IF WriterIsMaster THEN U16(rslot) ELSE tail

\* Where ReadPacket is when it releases the slots before: writeTail(slot) of
\* the master, q.lastTail in the slave's refill loop.
Released == U16(rslot)

-----------------------------------------------------------------------------
(* The queues as initializeQueues and connect leave them. *)

Init ==
  /\ head = 0 /\ tail = 0
  /\ desc = [s \in Slots |-> [length |-> BufSize, next |-> FALSE]]
  /\ buf  = [s \in Slots |-> [k \in 1 .. BufSize |-> Zero]]
  /\ wpc = "idle" /\ wpkt = <<>> /\ wslot = 0 /\ wfree = 0 /\ wn = 0
  /\ wdesc = [length |-> 0, next |-> FALSE]
  /\ rpc = "idle" /\ last = 0 /\ rslot = 0 /\ ravail = 0
  /\ rpkt = <<>> /\ roff = 0 /\ fhead = 0 /\ fill = 0
  /\ got = <<>>

-----------------------------------------------------------------------------
(* WritePacket.  A call that finds no free slot returns 0 and changes      *)
(* nothing: it is not a step.                                              *)

WriterReturns ==
  /\ wpc' = "idle" /\ wpkt' = <<>> /\ wslot' = 0 /\ wfree' = 0 /\ wn' = 0
  /\ wdesc' = [length |-> 0, next |-> FALSE]

WriteBegin(p) ==
  /\ wpc = "idle"
  /\ Available # 0
  /\ wpc' = "fill"
  /\ wpkt' = p
  /\ wslot' = Produced
  /\ wfree' = Available
  /\ wn' = 0
  /\ UNCHANGED <<shared, rvars, wdesc>>

\* Mutant of WriteFill: the flags of the descriptor are not reset.
WriteFillStaleFlags ==
  /\ wpc = "fill"
  /\ LET s     == Slot(wslot)
         room  == IF WriterIsMaster THEN desc[s].length ELSE BufSize
         chunk == Prefix(wpkt, room)
     IN  /\ buf' = [buf EXCEPT ![s] = Overwrite(@, chunk)]
         /\ wdesc' = [length |-> Len(chunk), next |-> desc[s].next]
         /\ wn' = wn + Len(chunk)
         /\ wpc' = IF wn + Len(chunk) < Len(wpkt) THEN "chain" ELSE "last"
  /\ UNCHANGED <<head, tail, desc, wpkt, wslot, wfree, rvars>>

\* The descriptor is copied from shared memory and the packet is copied to
\* its buffer, always from the start of pkt.
WriteFill ==
  /\ wpc = "fill"
  /\ LET s     == Slot(wslot)
         room  == IF WriterIsMaster THEN desc[s].length ELSE BufSize
         chunk == Prefix(wpkt, room)
     IN  /\ buf' = [buf EXCEPT ![s] = Overwrite(@, chunk)]
         /\ wdesc' = [length |-> Len(chunk), next |-> FALSE]
         /\ wn' = wn + Len(chunk)
         /\ wpc' = IF wn + Len(chunk) < Len(wpkt) THEN "chain" ELSE "last"
  /\ UNCHANGED <<head, tail, desc, wpkt, wslot, wfree, rvars>>

\* More to write and another slot to write it to: the descriptor is chained.
WriteChain ==
  /\ wpc = "chain"
  /\ wfree - 1 # 0
  /\ desc' = [desc EXCEPT ![Slot(wslot)] = [wdesc EXCEPT !.next = TRUE]]
  /\ wslot' = wslot + 1
  /\ wfree' = wfree - 1
  /\ wpc' = "fill"
  /\ UNCHANGED <<head, tail, buf, wpkt, wdesc, wn, rvars>>

\* Mutant of WriteAbort: the part that found room is published.
WriteAbortPublishing ==
  /\ wpc = "chain"
  /\ wfree - 1 = 0
  /\ desc' = [desc EXCEPT ![Slot(wslot)] = [wdesc EXCEPT !.next = TRUE]]
  /\ wslot' = wslot + 1
  /\ wpc' = "publish"
  /\ UNCHANGED <<head, tail, buf, wpkt, wfree, wdesc, wn, rvars>>

\* More to write and no slot left: return 0; what was written stays
\* unpublished.
WriteAbort ==
  /\ wpc = "chain"
  /\ wfree - 1 = 0
  /\ WriterReturns
  /\ UNCHANGED <<shared, rvars>>

WriteLast ==
  /\ wpc = "last"
  /\ desc' = [desc EXCEPT ![Slot(wslot)] = wdesc]
  /\ wslot' = wslot + 1
  /\ wpc' = "publish"
  /\ UNCHANGED <<head, tail, buf, wpkt, wfree, wdesc, wn, rvars>>

\* writeTail (master) or writeHead (slave); the call returns n.
WritePublish ==
  /\ wpc = "publish"
  /\ IF WriterIsMaster
       THEN tail' = U16(wslot) /\ UNCHANGED head
       ELSE head' = U16(wslot) /\ UNCHANGED tail
  /\ WriterReturns
  /\ UNCHANGED <<desc, buf, rvars>>

-----------------------------------------------------------------------------
(* ReadPacket. *)

ReaderReturns ==
  /\ rpc' = "idle" /\ rslot' = 0 /\ ravail' = 0 /\ rpkt' = <<>> /\ roff' = 0

\* Mutant of ReadBegin: return at once when there is nothing to read.
ReadBeginNoRefill ==
  /\ rpc \in {"idle", "incomplete"}
  /\ Unread # 0
  /\ rslot' = last
  /\ ravail' = Unread
  /\ rpkt' = <<>>
  /\ roff' = 0
  /\ rpc' = "copy"
  /\ UNCHANGED <<shared, wvars, last, fhead, fill, got>>

\* Nothing to read goes straight to the refill label.
ReadBegin ==
  /\ rpc \in {"idle", "incomplete"}
  /\ rslot' = last
  /\ ravail' = Unread
  /\ rpkt' = <<>>
  /\ roff' = 0
  /\ rpc' = IF Unread = 0 THEN "release" ELSE "copy"
  /\ UNCHANGED <<shared, wvars, last, fhead, fill, got>>

\* One descriptor and its buffer are copied to pkt[pktOffset:]; what does
\* not fit into pkt is dropped, pktOffset counts it all the same, and past
\* the end of pkt the slice expression panics.  A chain that ends with the
\* published slots makes the call return the "Incomplete chained buffer"
\* error with last as it was: the next call starts over.
ReadCopy ==
  /\ rpc = "copy"
  /\ LET s == Slot(rslot)
     IN  /\ rpkt' = Prefix(rpkt \o Contents(s), ReadCap)
         /\ roff' = roff + desc[s].length
         /\ rslot' = rslot + 1
         /\ ravail' = ravail - 1
         /\ rpc' = CASE ~desc[s].next -> "release"
                     [] desc[s].next /\ ravail - 1 = 0 -> "incomplete"
                     [] desc[s].next /\ ravail - 1 # 0 ->
                          IF roff + desc[s].length > ReadCap THEN "panic"
                                                             ELSE "copy"
  /\ UNCHANGED <<shared, wvars, last, fhead, fill, got>>

Deliver == got' = IF roff = 0 THEN got ELSE rpkt

\* The master moves tail past what it read and returns.
ReadReleaseMaster ==
  /\ ~WriterIsMaster
  /\ rpc = "release"
  /\ last' = U16(rslot)
  /\ tail' = Released
  /\ Deliver
  /\ ReaderReturns
  /\ UNCHANGED <<head, desc, buf, wvars, fhead, fill>>

\* The slave turns to the refill loop.
ReadReleaseSlave ==
  /\ WriterIsMaster
  /\ rpc = "release"
  /\ last' = U16(rslot)
  /\ fhead' = head
  /\ fill' = U16(Size - head + Released)
  /\ rpc' = "refill"
  /\ Deliver
  /\ UNCHANGED <<shared, wvars, rslot, ravail, rpkt, roff>>

\* Mutant of Refill: the slot is counted before its length is set.
RefillNextSlot ==
  /\ rpc = "refill"
  /\ fill > 0
  /\ desc' = [desc EXCEPT ![Slot(fhead + 1)].length = BufSize]
  /\ fhead' = fhead + 1
  /\ fill' = fill - 1
  /\ UNCHANGED <<head, tail, buf, wvars, rpc, last, rslot, ravail, rpkt, roff, got>>

\* setDescLength: a free descriptor gets its full length back.
Refill ==
  /\ rpc = "refill"
  /\ fill > 0
  /\ desc' = [desc EXCEPT ![Slot(fhead)].length = BufSize]
  /\ fhead' = fhead + 1
  /\ fill' = fill - 1
  /\ UNCHANGED <<head, tail, buf, wvars, rpc, last, rslot, ravail, rpkt, roff, got>>

RefillPublish ==
  /\ rpc = "refill"
  /\ fill = 0
  /\ head' = U16(fhead)
  /\ fhead' = 0
  /\ ReaderReturns
  /\ UNCHANGED <<tail, desc, buf, wvars, last, fill, got>>

-----------------------------------------------------------------------------
\* The rest of a call of WritePacket, which never waits.
WriterStep == WriteFill \/ WriteChain \/ WriteAbort \/ WriteLast \/ WritePublish

Writer == (\E p \in Packets : WriteBegin(p)) \/ WriterStep

Reader ==
  \/ ReadBegin \/ ReadCopy
  \/ ReadReleaseMaster \/ ReadReleaseSlave \/ Refill \/ RefillPublish

Next == Writer \/ Reader

Spec == Init /\ [][Next]_vars

\* A started WritePacket runs to its end, and the reader polls its queue (the
\* loop of the example programs); nothing makes the writer call again.
FairSpec == Spec /\ WF_vars(WriterStep) /\ WF_vars(Reader)

-----------------------------------------------------------------------------
(* Properties. *)

\* Every variable keeps to the values its Go counterpart can hold; in
\* particular the 16-bit indices and the descriptor lengths stay in range.
TypeOK ==
  /\ head \in 0 .. IdxMod - 1 /\ tail \in 0 .. IdxMod - 1
  /\ desc \in [Slots -> Descs]
  /\ buf \in [Slots -> [1 .. BufSize -> Cells]]
  /\ wpc \in {"idle", "fill", "chain", "last", "publish"}
  /\ wpkt \in Seq(Cells)
  /\ wslot \in 0 .. IdxMod + Size /\ wfree \in 0 .. Size /\ wn \in Nat
  /\ wdesc \in Descs
  /\ rpc \in {"idle", "copy", "release", "refill", "incomplete", "panic"}
  /\ last \in 0 .. IdxMod - 1
  /\ rslot \in 0 .. IdxMod + Size /\ ravail \in 0 .. Size
  /\ rpkt \in Seq(Cells) /\ roff \in Nat
  /\ fhead \in 0 .. IdxMod + Size /\ fill \in 0 .. Size
  /\ got \in Seq(Cells)

\* WritePacket never believes in more free slots than the reader has left it
\* (nFree in packet_writer.go), across every wrap of the 16-bit indices.
RingNeverOverrun == Unread + Available <= Size

\* The slot WritePacket is filling holds no packet still to be read, and the
\* slot the slave refills is not among those the master may be filling.
SlotOwnership ==
  /\ wpc \in {"fill", "chain", "last"} =>
       \A k \in 0 .. Unread - 1 : Slot(last + k) # Slot(wslot)
  /\ rpc = "refill" /\ fill > 0 =>
       /\ \A k \in 0 .. Unread - 1 : Slot(last + k) # Slot(fhead)
       /\ \A k \in 0 .. Available - 1 : Slot(tail + k) # Slot(fhead)

\* No step of either side changes the descriptor or the buffer of a packet
\* that is published and not yet released.
UnreadStays ==
  [][\A k \in 0 .. Unread - 1 :
       LET s == Slot(last + k)
       IN  desc'[s] = desc[s] /\ buf'[s] = buf[s]]_vars

\* WritePacket publishes a chain as a whole, so the "Incomplete chained
\* buffer" error of ReadPacket never happens between two of these programs.
NoIncompleteChain == rpc # "incomplete"

\* A slot offered to the master has its full buffer length again, whatever
\* the master stored in it last time: setDescLength in the refill loop.
OfferedBuffersAreFull ==
  WriterIsMaster =>
    \A k \in 0 .. Available - 1 :
      \/ desc[Slot(tail + k)].length = BufSize
      \/ wpc = "publish" /\ U16(wslot) = U16(tail + k + 1)

\* The packets a sequence of slots holds, chain by chain, and the packets in
\* the ring.
AddSlot(acc, s) ==
  IF desc[s].next
    THEN [acc EXCEPT !.open = @ \o Contents(s)]
    ELSE [done |-> Append(acc.done, acc.open \o Contents(s)), open |-> <<>>]

Decode(slots) ==
  LET prefix[n \in 0 .. Len(slots)] ==
        IF n = 0 THEN [done |-> <<>>, open |-> <<>>]
                 ELSE AddSlot(prefix[n - 1], slots[n])
  IN  prefix[Len(slots)].done

QueueContents == Decode([k \in 1 .. Unread |-> Slot(last + k - 1)])

\* The ring is a fair FIFO queue of packets for the two programs.
Fifo == INSTANCE PacketFifo WITH Capacity <- Size, queue <- QueueContents, out <- got
FifoSpec == Fifo!FairSpec

\* A writer that found the ring full finds room again: the reader releases
\* slots, and the slave offers its buffers even before the first packet.
WriterUnblocked == (Available = 0) ~> (Available # 0)

\* "WritePacket writes one packet to the shared memory and returns the
\* number of bytes written" (packet_writer.go): the slots about to be
\* published hold pkt, and n is its length.
WritesOnePacket ==
  wpc = "publish" =>
    /\ Decode([k \in 1 .. wslot - Produced |-> Slot(Produced + k - 1)]) = <<wpkt>>
    /\ wn = Len(wpkt)

=============================================================================
