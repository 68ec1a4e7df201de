---------------------------- MODULE RegionLayout ----------------------------
(***************************************************************************)
(* How a slave interface lays out its shared memory region when Hello has  *)
(* come: addRegion reserves room for the rings and the packet buffers, and *)
(* initializeQueues writes the header and the descriptors of one ring      *)
(* after the other, S2M rings first.                                       *)
(*                                                                         *)
(* Addresses count cells of descSize bytes.  Only the part of the region   *)
(* the rings take is modelled; a descriptor written past it lands in       *)
(* packet buffers, where the first packet replaces it.                     *)
(***************************************************************************)
EXTENDS Integers

CONSTANTS
  Configs,      \* the memory configurations: pairs, slots of a ring, buffer
  HeaderCells,  \* ringSize / descSize, 8
  Wrap          \* 2^16 / descSize: addRegion computes in uint16

ASSUME LayoutAssumption ==
  /\ Configs \subseteq
       [pairs : Nat \ {0}, slots : Nat \ {0}, buffer : Nat \ {0}]
  /\ HeaderCells \in Nat \ {0}
  /\ Wrap \in Nat \ {0}

VARIABLES
  run,   \* Interface.run, as parseHello left it
  data,  \* what the cells of the rings hold
  done   \* rings initialised so far

vars == <<run, data, done>>

-----------------------------------------------------------------------------
\* rSize: a ring's header and its descriptors.
Span == HeaderCells + run.slots

\* Rings are numbered by their place in the region: S2M rings, then M2S rings.
NumRings  == run.pairs + run.pairs
Offset(n) == n * Span
Qid(n)    == IF n < run.pairs THEN n ELSE n - run.pairs
RingsEnd  == Offset(NumRings)

\* Mutant of PacketBufferOffset: room for the rings of one direction.
OffsetAfterHalf == Offset(run.pairs) % Wrap

\* packetBufferOffset, and the buffer initializeQueues gives to a slot.
PacketBufferOffset == RingsEnd % Wrap
BufferOf(slot) == PacketBufferOffset + slot * run.buffer

RegionEnd == PacketBufferOffset + run.buffer * run.slots * NumRings

\* putDescBuf: where the descriptor of a slot of ring n is.
DescAt(n, slot) == Offset(n) + HeaderCells + slot

\* Mutant of RingToInit: the rx queues come first.
RxFirst == NumRings - 1 - done

\* Mutant of MoreRings: the last loop runs once too often.
OneRingMore == done <= NumRings

MoreRings == done < NumRings

\* The tx loop of initializeQueues comes before its rx loop.
RingToInit == done

Header(n)  == [is |-> "header", of |-> n]
Desc(b)    == [is |-> "desc", of |-> b]
ZeroCell   == [is |-> "zero", of |-> 0]

\* addRegion has mapped fresh memory.
Init ==
  /\ run \in Configs
  /\ data = [a \in 0 .. RingsEnd - 1 |-> ZeroCell]
  /\ done = 0

\* One turn of either loop: the header, then the descriptors, whose slots are
\* numbered through all rings of the direction.
InitializeQueue ==
  /\ MoreRings
  /\ LET n     == RingToInit
         first == Qid(n) * run.slots
     IN  data' = [a \in 0 .. RingsEnd - 1 |->
           IF DescAt(n, first) <= a /\ a < DescAt(n, first + run.slots)
             THEN Desc(BufferOf(a - DescAt(n, 0)))
           ELSE IF Offset(n) <= a /\ a < Offset(n) + HeaderCells
             THEN Header(n)
             ELSE data[a]]
  /\ done' = done + 1
  /\ UNCHANGED run

Next == InitializeQueue

Spec == Init /\ [][Next]_vars

-----------------------------------------------------------------------------
(* Properties. *)

\* Cells keep to what initializeQueues may write into them.
TypeOK ==
  /\ run \in Configs /\ done \in 0 .. NumRings
  /\ data \in [0 .. RingsEnd - 1 ->
       [is : {"header", "desc", "zero"}, of : Nat]]

\* In the end every ring has its header, the cookie that connect looks for and
\* both indices 0: the descriptors of later rings, which initializeQueues writes
\* out of place, never hit the header of an earlier one.
HeadersIntact ==
  done = NumRings =>
    \A n \in 0 .. NumRings - 1, k \in 0 .. HeaderCells - 1 : data[Offset(n) + k] = Header(n)

\* The offset of the buffers fits the 16 bits it is computed in.
OffsetFits == RingsEnd < Wrap

\* The slots of the two rings of queue pair 0, once these are initialised and
\* whatever is initialised after them, have packet buffers inside the region and
\* behind all rings, and the buffers of slots with different numbers, of one ring
\* or of both, do not overlap.  (Slots with the same number of the two rings have
\* the same buffer: what comes of that is the subject of QueuePair.)
FirstPairUsable ==
  OffsetFits =>
    \A m, n \in {0, run.pairs} : done > m /\ done > n =>
      \A j \in 0 .. run.slots - 1 :
        LET d == data[DescAt(n, j)] IN
        /\ d.is = "desc"
        /\ RingsEnd <= d.of /\ d.of + run.buffer <= RegionEnd
        /\ \A k \in 0 .. j - 1 : data[DescAt(m, k)].of + run.buffer <= d.of

\* "initializeQueues initializes interfaces queues" (interface.go): when it has
\* returned, every slot of every ring has a descriptor.
AllQueuesInitialized ==
  done = NumRings =>
    \A n \in 0 .. NumRings - 1, j \in 0 .. run.slots - 1 :
      data[DescAt(n, j)].is = "desc"
=============================================================================
