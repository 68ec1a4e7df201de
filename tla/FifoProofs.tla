----------------------------- MODULE FifoProofs -----------------------------
(***************************************************************************)
(* What a ring delivers, for every size of it, both directions and every   *)
(* set of packets that are not too long for the reader.  WritePacket       *)
(* copies the start of the packet to every buffer of a chain (see          *)
(* WritesOnePacket): Stored says what that makes of a packet.  A ring is a *)
(* FIFO queue of what was stored, and the queue PacketFifo promises when   *)
(* that is the packet, which is so whenever it fits one buffer.            *)
(***************************************************************************)
EXTENDS MemifRingProofs, WellFoundedInduction

\* d, m times over.
Repeat(d, m) == [k \in 1 .. m * Len(d) |-> d[((k - 1) % Len(d)) + 1]]

\* What each buffer of a packet gets, how many buffers it takes, and what they
\* hold together.
Chunk(p)  == Prefix(p, BufSize)
Chunks(p) == (Len(p) + BufSize - 1) \div BufSize
Stored(p) == Repeat(Chunk(p), Chunks(p))

\* What is stored of a packet fits the buffer the reader passes.
StoredFits == \A p \in Packets : Len(Stored(p)) <= ReadCap

\* What is stored of a packet is the packet.
StoredWhole == \A p \in Packets : Stored(p) = p

\* The queue of what was stored.
FifoStored ==
  INSTANCE PacketFifo WITH Packets  <- {Stored(p) : p \in Packets},
                           Capacity <- Size, queue <- QueueContents, out <- got

-----------------------------------------------------------------------------
(* The invariant. *)

\* Slot s holds a chunk of p, with or without the NEXT flag.
HoldsChunk(s, p, more) == desc[s].next = more /\ Contents(s) = Chunk(p)

\* The unread slots from the one k past last on begin with the chain of p.
ChainAt(k, p) ==
  /\ k + Chunks(p) <= Unread
  /\ \A i \in 0 .. Chunks(p) - 1 :
       HoldsChunk(Slot(last + (k + i)), p, i < Chunks(p) - 1)

\* A chain begins where the one before it ends.
UnreadInv ==
  \A k \in 0 .. Unread - 1 :
    (k > 0 => ~desc[Slot(last + (k - 1))].next) => \E p \in Packets : ChainAt(k, p)

\* How many slots the writer has filled and chained.
Filled == wslot - Produced

\* The slots the writer has left are the chain of its packet so far; before
\* it is published, all of it.
WritingInv ==
  /\ wpc # "idle" => wpkt \in Packets
  /\ wpc \in {"fill", "chain", "last"} =>
       /\ Filled * Len(Chunk(wpkt)) < Len(wpkt)
       /\ \A i \in 0 .. Filled - 1 : HoldsChunk(Slot(Produced + i), wpkt, TRUE)
  /\ wpc = "fill" => wn = Filled * Len(Chunk(wpkt))
  /\ wpc \in {"chain", "last"} =>
       /\ wn = (Filled + 1) * Len(Chunk(wpkt))
       /\ wdesc = [length |-> Len(Chunk(wpkt)), next |-> FALSE]
       /\ \A k \in 1 .. Len(Chunk(wpkt)) : buf[Slot(wslot)][k] = Chunk(wpkt)[k]
  /\ wpc = "chain" => wn < Len(wpkt)
  /\ wpc = "last" => wn >= Len(wpkt)
  /\ wpc = "publish" =>
       /\ Filled = Chunks(wpkt) /\ wn = Len(Stored(wpkt))
       /\ \A i \in 0 .. Filled - 1 :
            HoldsChunk(Slot(Produced + i), wpkt, i < Filled - 1)

\* How many slots the reader has copied, and the packet it is copying.
Copied == rslot - last

Copying(p) ==
  /\ ChainAt(0, p) /\ Copied <= Chunks(p)
  /\ rpkt = Repeat(Chunk(p), Copied) /\ roff = Copied * Len(Chunk(p))

ReadingInv ==
  /\ rpc # "panic"
  /\ rpc = "copy" => \E p \in Packets : Copying(p) /\ Copied < Chunks(p)
  /\ rpc = "release" =>
       \/ Copied = 0 /\ roff = 0
       \/ \E p \in Packets : Copying(p) /\ Copied = Chunks(p)

\* The writer's side needs nothing of the rest.
WriteInv == IInv /\ FullInv /\ WritingInv

RingInv == WriteInv /\ ChainInv /\ UnreadInv /\ ReadingInv

-----------------------------------------------------------------------------
(* Chunks. *)

LEMMA ChunkType ==
  ASSUME NEW p \in Packets
  PROVE  /\ p \in Seq(Cells) /\ Len(p) \in Nat \ {0}
         /\ Chunk(p) \in Seq(Cells) /\ Len(Chunk(p)) \in 1 .. BufSize
         /\ Len(Chunk(p)) = MinOf(BufSize, Len(p)) /\ Len(Chunk(p)) <= Len(p)
<1>1. p \in Seq(Cells) /\ p # <<>> /\ BufSize \in Nat \ {0}  BY RingAssumption
<1>2. Len(p) \in Nat \ {0}  BY <1>1
<1>3. /\ Chunk(p) \in Seq(Cells) /\ Len(Chunk(p)) = MinOf(BufSize, Len(p))
  BY <1>1, PrefixType DEF Chunk
<1>4. MinOf(BufSize, Len(p)) \in 1 .. BufSize /\ MinOf(BufSize, Len(p)) <= Len(p)
  BY <1>1, <1>2 DEF MinOf
<1>5. QED  BY <1>1, <1>2, <1>3, <1>4

\* A packet takes the number of chunks that reaches its length.
LEMMA ChunksCount ==
  ASSUME NEW p \in Packets, NEW m \in Nat,
         m * Len(Chunk(p)) < Len(p), Len(p) <= (m + 1) * Len(Chunk(p))
  PROVE  Chunks(p) = m + 1
<1> DEFINE L == Len(p)
           B == BufSize
           x == L + B - 1
<1>1. L \in Nat \ {0} /\ B \in Nat \ {0} /\ Len(Chunk(p)) = MinOf(B, L)
  BY ChunkType, RingAssumption
<1> HIDE DEF L, B
<1>2. CASE L <= B
  <2>1. Len(Chunk(p)) = L  BY <1>1, <1>2 DEF MinOf
  <2>2. m = 0
    <3>1. m * L < L  BY <2>1 DEF L
    <3>2. m >= 1 => m * L >= L  BY <1>1
    <3>3. QED  BY <3>1, <3>2, <1>1
  <2>3. x = B * 1 + (L - 1) /\ L - 1 \in 0 .. B - 1  BY <1>1, <1>2
  <2>4. x \div B = 1  BY <2>3, <1>1
  <2>5. QED  BY <2>2, <2>4 DEF Chunks, L, B
<1>3. CASE L > B
  <2>1. Len(Chunk(p)) = B  BY <1>1, <1>3 DEF MinOf
  <2>2. m * B < L /\ L <= (m + 1) * B  BY <2>1 DEF L
  <2>3. (m + 1) * B = m * B + B /\ m * B \in Nat  BY <1>1
  <2>4. /\ x = B * (m + 1) + (L - 1 - m * B)
        /\ L - 1 - m * B \in 0 .. B - 1
    BY <2>2, <2>3, <1>1
  <2>5. x \div B = m + 1  BY <2>4, <1>1
  <2>6. QED  BY <2>5 DEF Chunks, L, B
<1>4. QED  BY <1>1, <1>2, <1>3

LEMMA ChunksType ==
  ASSUME NEW p \in Packets
  PROVE  Chunks(p) \in Nat \ {0}
<1> DEFINE x == Len(p) + BufSize - 1
<1>1. x \in Nat /\ x >= BufSize /\ BufSize \in Nat \ {0}
  BY ChunkType, RingAssumption
<1> HIDE DEF x
<1>2. x \div BufSize \in Nat \ {0}  BY <1>1
<1>3. QED  BY <1>2 DEF Chunks, x

LEMMA RepeatType ==
  ASSUME NEW d \in Seq(Cells), Len(d) # 0, NEW m \in Nat
  PROVE  /\ m * Len(d) \in Nat
         /\ Repeat(d, m) \in Seq(Cells) /\ Len(Repeat(d, m)) = m * Len(d)
<1>1. Len(d) \in Nat \ {0}  OBVIOUS
<1>2. m * Len(d) \in Nat  BY <1>1
<1>3. ASSUME NEW k \in 1 .. m * Len(d) PROVE d[((k - 1) % Len(d)) + 1] \in Cells
  <2>1. (k - 1) % Len(d) \in 0 .. Len(d) - 1
    <3>1. k - 1 \in Int  BY <1>2
    <3>2. QED  BY <3>1, <1>1, DivMod
  <2>2. ((k - 1) % Len(d)) + 1 \in 1 .. Len(d)  BY <1>1, <2>1
  <2>3. QED  BY <2>2
<1>4. QED  BY <1>2, <1>3 DEF Repeat

\* One chunk more.
LEMMA RepeatMore ==
  ASSUME NEW d \in Seq(Cells), Len(d) # 0, NEW m \in Nat
  PROVE  Repeat(d, m) \o d = Repeat(d, m + 1)
<1> DEFINE L == Len(d)
           r == Repeat(d, m)
           s == Repeat(d, m + 1)
<1>1. L \in Nat \ {0} /\ d \in Seq(Cells)  OBVIOUS
<1>2. /\ r \in Seq(Cells) /\ Len(r) = m * L /\ m * L \in Nat
      /\ s \in Seq(Cells) /\ Len(s) = (m + 1) * L
  <2>1. m + 1 \in Nat  OBVIOUS
  <2>2. QED  BY <2>1, RepeatType
<1>3. (m + 1) * L = m * L + L  BY <1>1
<1>4. \A k \in 1 .. m * L : r[k] = d[((k - 1) % L) + 1]  BY DEF Repeat
<1>5. \A k \in 1 .. m * L + L : s[k] = d[((k - 1) % L) + 1]
  BY <1>3 DEF Repeat
<1> HIDE DEF r, s
<1>6. ASSUME NEW k \in 1 .. m * L + L PROVE (r \o d)[k] = s[k]
  <2>1. CASE k <= m * L
    <3>1. k \in 1 .. Len(r)  BY <1>2, <2>1
    <3>2. (r \o d)[k] = r[k]  BY <3>1, <1>1, <1>2
    <3>3. QED  BY <3>1, <3>2, <1>2, <1>4, <1>5
  <2>2. CASE k > m * L
    <3> DEFINE i == k - m * L
    <3>1. i \in 1 .. L /\ k = m * L + i  BY <1>1, <1>2, <2>2
    <3>2. (r \o d)[k] = d[i]  BY <3>1, <1>1, <1>2
    <3>3. k - 1 = L * m + (i - 1) /\ i - 1 \in 0 .. L - 1  BY <3>1, <1>1
    <3>4. (k - 1) % L = i - 1  BY <3>3, <1>1, ModOfSum
    <3>5. QED  BY <3>1, <3>2, <3>4, <1>5
  <2>3. QED  BY <2>1, <2>2, <1>2
<1>7. r \o d \in Seq(Cells) /\ Len(r \o d) = m * L + L  BY <1>1, <1>2
<1>8. r \o d = s
  BY <1>2, <1>3, <1>6, <1>7
<1>9. QED  BY <1>8 DEF r, s

LEMMA RepeatNone ==
  ASSUME NEW d \in Seq(Cells), Len(d) # 0
  PROVE  Repeat(d, 0) = <<>>
<1>1. Repeat(d, 0) \in Seq(Cells) /\ Len(Repeat(d, 0)) = 0 * Len(d)
  BY RepeatType
<1>2. 0 * Len(d) = 0  OBVIOUS
<1>3. QED  BY <1>1, <1>2

\* What is stored is a packet, and its chunks in a row.
LEMMA StoredType ==
  ASSUME NEW p \in Packets
  PROVE  /\ Stored(p) \in Seq(Cells)
         /\ Len(Stored(p)) = Chunks(p) * Len(Chunk(p)) /\ Len(Stored(p)) \in Nat \ {0}
<1>1. /\ Chunk(p) \in Seq(Cells) /\ Len(Chunk(p)) \in Nat \ {0}
      /\ Chunks(p) \in Nat \ {0}
  BY ChunkType, ChunksType, RingAssumption
<1>2. Stored(p) \in Seq(Cells) /\ Len(Stored(p)) = Chunks(p) * Len(Chunk(p))
  BY <1>1, RepeatType DEF Stored
<1>3. Chunks(p) * Len(Chunk(p)) \in Nat \ {0}  BY <1>1
<1>4. QED  BY <1>2, <1>3

\* A packet that fits one buffer is stored as it is.
LEMMA OneChunk ==
  ASSUME NEW p \in Packets, Len(p) <= BufSize
  PROVE  Stored(p) = p
<1>1. /\ p \in Seq(Cells) /\ Len(p) \in Nat \ {0}
      /\ Len(Chunk(p)) = MinOf(BufSize, Len(p)) /\ BufSize \in Nat \ {0}
  BY ChunkType, RingAssumption
<1>2. MinOf(BufSize, Len(p)) = Len(p)  BY <1>1 DEF MinOf
<1>3. SubSeq(p, 1, Len(p)) = p  BY <1>1
<1>4. Chunk(p) = p  BY <1>2, <1>3 DEF Chunk, Prefix
<1>5. Chunks(p) = 0 + 1
  <2> DEFINE m == 0
  <2>1. m \in Nat /\ m * Len(Chunk(p)) = 0 /\ (m + 1) * Len(Chunk(p)) = Len(p)
    BY <1>1, <1>4
  <2> HIDE DEF m
  <2>2. Chunks(p) = m + 1  BY <2>1, <1>1, ChunksCount
  <2>3. QED  BY <2>2 DEF m
<1>6. Repeat(p, 0) \o p = Repeat(p, 0 + 1) /\ Repeat(p, 0) = <<>>
  BY <1>1, RepeatMore, RepeatNone
<1>7. <<>> \o p = p  BY <1>1
<1>8. QED  BY <1>4, <1>5, <1>6, <1>7 DEF Stored

-----------------------------------------------------------------------------
(* Decode, slot by slot. *)

Acc   == [done : Seq(Seq(Cells)), open : Seq(Cells)]
Empty == [done |-> <<>>, open |-> <<>>]

\* F is what the fold of Decode has after each of the slots.
Decoding(F, slots) ==
  /\ F \in [0 .. Len(slots) -> Acc]
  /\ F[0] = Empty
  /\ \A n \in 1 .. Len(slots) : F[n] = AddSlot(F[n - 1], slots[n])

\* A set of naturals that is not empty has a least element.
LEMMA LeastNatural ==
  ASSUME NEW T, T \subseteq Nat, T # {}
  PROVE  \E x \in T : \A y \in T : x <= y
<1> DEFINE R == {ss \in Nat \X Nat : ss[1] < ss[2]}
<1>1. \A x, y \in Nat : y < x => <<y, x>> \in R  OBVIOUS
<1>2. IsWellFoundedOn(R, Nat)  BY NatLessThanWellFounded DEF OpToRel
<1> HIDE DEF R
<1>3. \E x \in T : \A y \in T : <<y, x>> \notin R  BY <1>2, WFMin
<1>4. PICK x \in T : \A y \in T : <<y, x>> \notin R  BY <1>3
<1>5. \A y \in T : ~(y < x)  BY <1>1, <1>4
<1>6. \A y \in T : x <= y  BY <1>5
<1>7. QED  BY <1>6

\* One slot more ends at most one packet more.
LEMMA AddSlotType ==
  ASSUME TypeOK, NEW acc \in Acc, NEW s \in Slots
  PROVE  /\ AddSlot(acc, s) \in Acc
         /\ Len(AddSlot(acc, s).done) <= Len(acc.done) + 1
<1>1. Contents(s) \in Seq(Cells)  BY ContentsType
<1>2. /\ acc = [done |-> acc.done, open |-> acc.open]
      /\ acc.done \in Seq(Seq(Cells)) /\ acc.open \in Seq(Cells)
  BY DEF Acc
<1>3. acc.open \o Contents(s) \in Seq(Cells)  BY <1>1, <1>2
<1>4. CASE desc[s].next
  <2>1. AddSlot(acc, s) = [acc EXCEPT !.open = acc.open \o Contents(s)]
    BY <1>4 DEF AddSlot
  <2>2. AddSlot(acc, s) = [done |-> acc.done, open |-> acc.open \o Contents(s)]
    BY <2>1, <1>2
  <2>3. QED  BY <2>2, <1>2, <1>3 DEF Acc
<1>5. CASE ~desc[s].next
  <2>1. AddSlot(acc, s)
          = [done |-> Append(acc.done, acc.open \o Contents(s)), open |-> <<>>]
    BY <1>5 DEF AddSlot
  <2>2. /\ Append(acc.done, acc.open \o Contents(s)) \in Seq(Seq(Cells))
        /\ Len(Append(acc.done, acc.open \o Contents(s))) = Len(acc.done) + 1
    BY <1>2, <1>3
  <2>3. QED  BY <2>1, <2>2 DEF Acc
<1>6. QED  BY <1>4, <1>5

\* Slots have a decoding, with no more packets than slots.
LEMMA DecodingExists ==
  ASSUME TypeOK, NEW slots \in Seq(Slots)
  PROVE  \E F : Decoding(F, slots) /\ Len(F[Len(slots)].done) <= Len(slots)
<1> DEFINE N       == Len(slots)
           Upto(f, n) ==
             /\ f \in [0 .. n -> Acc] /\ f[0] = Empty
             /\ \A i \in 1 .. n : f[i] = AddSlot(f[i - 1], slots[i])
             /\ Len(f[n].done) <= n
           Bad     == {n \in 0 .. N : ~ \E f : Upto(f, n)}
<1>1. N \in Nat /\ \A n \in 1 .. N : slots[n] \in Slots  OBVIOUS
<1>2. SUFFICES ASSUME Bad # {} PROVE FALSE
  <2>1. ASSUME Bad = {} PROVE \E f : Upto(f, N)  BY <2>1, <1>1
  <2>2. ASSUME NEW f, Upto(f, N) PROVE Decoding(f, slots) /\ Len(f[N].done) <= N
    BY <2>2 DEF Decoding
  <2> HIDE DEF Upto, Bad
  <2>3. QED  BY <2>1, <2>2
<1>3. PICK n \in Bad : \A m \in Bad : n <= m
  <2>1. Bad \subseteq Nat  BY <1>1
  <2> HIDE DEF Bad
  <2>2. QED  BY <1>2, <2>1, LeastNatural
<1>4. n \in 0 .. N /\ ~ \E f : Upto(f, n)  BY <1>3
<1>5. n # 0
  <2> DEFINE f == [i \in 0 .. 0 |-> Empty]
  <2>1. Empty \in Acc /\ Len(Empty.done) = 0  BY DEF Empty, Acc
  <2>2. f \in [0 .. 0 -> Acc] /\ f[0] = Empty  BY <2>1
  <2> HIDE DEF f
  <2>3. Upto(f, 0)  BY <2>1, <2>2
  <2>4. QED  BY <2>3, <1>4
<1>6. PICK f : Upto(f, n - 1)
  <2>1. n - 1 \in 0 .. N /\ ~(n <= n - 1)  BY <1>1, <1>4, <1>5
  <2>2. n - 1 \notin Bad
    <3> HIDE DEF Bad
    <3>1. QED  BY <2>1, <1>3
  <2>3. QED  BY <2>1, <2>2
<1> DEFINE a == AddSlot(f[n - 1], slots[n])
           g == [i \in 0 .. n |-> IF i = n THEN a ELSE f[i]]
<1>7. a \in Acc /\ Len(a.done) <= n
  <2>1. n \in 1 .. N /\ n - 1 \in 0 .. n - 1  BY <1>1, <1>4, <1>5
  <2>2. f[n - 1] \in Acc /\ Len(f[n - 1].done) <= n - 1  BY <2>1, <1>6
  <2>3. a \in Acc /\ Len(a.done) <= Len(f[n - 1].done) + 1
    BY <2>1, <2>2, <1>1, AddSlotType
  <2>4. Len(f[n - 1].done) \in Nat /\ Len(a.done) \in Nat
    BY <2>2, <2>3 DEF Acc
  <2>5. QED  BY <2>1, <2>2, <2>3, <2>4
<1>8. Upto(g, n)
  <2>1. n \in Nat /\ n # 0  BY <1>1, <1>4, <1>5
  <2>2. \A i \in 0 .. n - 1 : f[i] \in Acc  BY <1>6
  <2>3. \A i \in 0 .. n : i # n => i \in 0 .. n - 1  BY <2>1
  <2>4. \A i \in 0 .. n : g[i] \in Acc  BY <2>2, <2>3, <1>7
  <2>5. g \in [0 .. n -> Acc]  BY <2>4
  <2>6. g[0] = Empty /\ g[n] = a  BY <2>1, <1>6
  <2>7. ASSUME NEW i \in 1 .. n PROVE g[i] = AddSlot(g[i - 1], slots[i])
    <3>1. i - 1 \in 0 .. n /\ i - 1 # n /\ i \in 0 .. n  BY <2>1
    <3>2. g[i - 1] = f[i - 1]  BY <3>1
    <3>3. CASE i = n  BY <3>2, <3>3, <2>6
    <3>4. CASE i # n
      <4>1. i \in 1 .. n - 1  BY <3>4, <2>1
      <4>2. f[i] = AddSlot(f[i - 1], slots[i])  BY <4>1, <1>6
      <4>3. QED  BY <3>1, <3>2, <3>4, <4>2
    <3>5. QED  BY <3>3, <3>4
  <2> HIDE DEF g, a
  <2>8. QED  BY <2>5, <2>6, <2>7, <1>7
<1>9. QED
  <2> HIDE DEF Upto
  <2>1. QED  BY <1>4, <1>8

\* Whatever satisfies the recursion gives what Decode returns.
LEMMA DecodeIs ==
  ASSUME NEW slots \in Seq(Slots), NEW F, Decoding(F, slots)
  PROVE  Decode(slots) = F[Len(slots)].done
<1> DEFINE N      == Len(slots)
           Rec(f) == [n \in 0 .. N |->
                        IF n = 0 THEN Empty ELSE AddSlot(f[n - 1], slots[n])]
           prefix == CHOOSE f : f = Rec(f)
<1>1. N \in Nat  OBVIOUS
<1>2. Decode(slots) = prefix[N].done  BY DEF Decode, Empty
<1>3. F = Rec(F)
  <2>1. \A n \in 0 .. N :
          F[n] = IF n = 0 THEN Empty ELSE AddSlot(F[n - 1], slots[n])
    BY <1>1 DEF Decoding
  <2>2. QED  BY <2>1 DEF Decoding
<1>4. prefix = Rec(prefix)
  <2> HIDE DEF Rec
  <2>1. QED  BY <1>3
<1> HIDE DEF prefix
<1>5. \A n \in 0 .. N :
        prefix[n] = IF n = 0 THEN Empty ELSE AddSlot(prefix[n - 1], slots[n])
  BY <1>4
<1>6. \A n \in 0 .. N :
        F[n] = IF n = 0 THEN Empty ELSE AddSlot(F[n - 1], slots[n])
  BY <1>3
<1> HIDE DEF N
<1>7. \A n \in 0 .. N : prefix[n] = F[n]
  <2> DEFINE Bad == {n \in 0 .. N : prefix[n] # F[n]}
  <2>1. SUFFICES ASSUME Bad # {} PROVE FALSE  OBVIOUS
  <2>2. PICK n \in Bad : \A m \in Bad : n <= m
    <3>1. Bad \subseteq Nat  BY <1>1
    <3> HIDE DEF Bad
    <3>2. QED  BY <2>1, <3>1, LeastNatural
  <2>3. n # 0  BY <1>1, <1>5, <1>6
  <2>4. n - 1 \in 0 .. N /\ n - 1 \notin Bad  BY <1>1, <2>2, <2>3
  <2>5. prefix[n] = F[n]  BY <1>1, <1>5, <1>6, <2>3, <2>4
  <2>6. QED  BY <2>5
<1>8. QED  BY <1>1, <1>2, <1>7 DEF N

\* A slot without the NEXT flag leaves no chain open.
LEMMA ChainEnds ==
  ASSUME NEW slots \in Seq(Slots), NEW F, Decoding(F, slots),
         Len(slots) > 0 => ~desc[slots[Len(slots)]].next
  PROVE  F[Len(slots)].open = <<>>
<1>1. CASE Len(slots) = 0  BY <1>1 DEF Decoding, Empty
<1>2. CASE Len(slots) # 0
  <2>1. Len(slots) \in 1 .. Len(slots) /\ Len(slots) > 0  BY <1>2
  <2>2. F[Len(slots)] = AddSlot(F[Len(slots) - 1], slots[Len(slots)])
    BY <2>1 DEF Decoding
  <2>3. QED  BY <2>1, <2>2 DEF AddSlot
<1>3. QED  BY <1>1, <1>2

\* A chunk more makes the open chain longer, and the last one ends it.
LEMMA ChunkAdded ==
  ASSUME TypeOK, NEW p \in Packets, NEW s \in Slots, NEW more \in BOOLEAN,
         HoldsChunk(s, p, more), NEW i \in Nat, NEW done \in Seq(Seq(Cells))
  PROVE  LET acc == [done |-> done, open |-> Repeat(Chunk(p), i)]
         IN  AddSlot(acc, s) = IF more
               THEN [done |-> done, open |-> Repeat(Chunk(p), i + 1)]
               ELSE [done |-> Append(done, Repeat(Chunk(p), i + 1)), open |-> <<>>]
<1> DEFINE acc == [done |-> done, open |-> Repeat(Chunk(p), i)]
<1>1. Contents(s) = Chunk(p) /\ desc[s].next = more  BY DEF HoldsChunk
<1>2. acc.open \o Contents(s) = Repeat(Chunk(p), i + 1)
  <2>1. Chunk(p) \in Seq(Cells) /\ Len(Chunk(p)) # 0
    BY ChunkType, RingAssumption
  <2>2. Repeat(Chunk(p), i) \o Chunk(p) = Repeat(Chunk(p), i + 1)
    BY <2>1, RepeatMore
  <2>3. QED  BY <2>2, <1>1
<1>3. CASE more
  <2>1. AddSlot(acc, s) = [acc EXCEPT !.open = acc.open \o Contents(s)]
    BY <1>1, <1>3 DEF AddSlot
  <2>2. QED  BY <2>1, <1>2, <1>3
<1>4. CASE ~more
  <2>1. AddSlot(acc, s)
          = [done |-> Append(acc.done, acc.open \o Contents(s)), open |-> <<>>]
    BY <1>1, <1>4 DEF AddSlot
  <2>2. QED  BY <2>1, <1>2, <1>4
<1>5. QED  BY <1>3, <1>4

\* The chain of p after other slots is one packet more.
LEMMA AppendChain ==
  ASSUME TypeOK, NEW p \in Packets, NEW s1 \in Seq(Slots), NEW s2 \in Seq(Slots),
         NEW F, Decoding(F, s1), F[Len(s1)].open = <<>>,
         Len(s2) = Len(s1) + Chunks(p),
         \A n \in 1 .. Len(s1) : s2[n] = s1[n],
         \A i \in 1 .. Chunks(p) : HoldsChunk(s2[Len(s1) + i], p, i < Chunks(p))
  PROVE  Decode(s2) = Append(F[Len(s1)].done, Stored(p))
<1> DEFINE N     == Len(s1)
           m     == Chunks(p)
           D     == F[N].done
           R(i)  == Repeat(Chunk(p), i)
           Open(i) == [done |-> D, open |-> R(i)]
           Done  == [done |-> Append(D, Stored(p)), open |-> <<>>]
           G     == [n \in 0 .. N + m |->
                       IF n <= N THEN F[n] ELSE IF n < N + m THEN Open(n - N) ELSE Done]
<1>1. N \in Nat /\ m \in Nat \ {0} /\ Len(s2) = N + m  BY ChunksType
<1>2. \A n \in 1 .. N + m : s2[n] \in Slots  BY <1>1
<1>3. D \in Seq(Seq(Cells)) /\ F[N] = [done |-> D, open |-> <<>>]
  BY <1>1 DEF Decoding, Acc
<1>4. \A i \in Nat : R(i) \in Seq(Cells)
  BY ChunkType, RepeatType, RingAssumption
<1>5. R(0) = <<>> /\ R(m) = Stored(p)
  BY ChunkType, RepeatNone, RingAssumption DEF Stored
<1>6. \A i \in Nat : Open(i) \in Acc  BY <1>3, <1>4 DEF Acc
<1>7. Done \in Acc
  <2>1. Stored(p) \in Seq(Cells)  BY StoredType
  <2>2. Append(D, Stored(p)) \in Seq(Seq(Cells))  BY <2>1, <1>3
  <2>3. QED  BY <2>2 DEF Acc
<1>8. \A i \in 1 .. m :
        AddSlot(Open(i - 1), s2[N + i]) = IF i < m THEN Open(i) ELSE Done
  <2> SUFFICES ASSUME NEW i \in 1 .. m
               PROVE  AddSlot(Open(i - 1), s2[N + i]) = IF i < m THEN Open(i) ELSE Done
    OBVIOUS
  <2>1. s2[N + i] \in Slots /\ i - 1 \in Nat /\ (i - 1) + 1 = i /\ (i < m) \in BOOLEAN
    BY <1>1, <1>2
  <2>2. HoldsChunk(s2[N + i], p, i < m)  OBVIOUS
  <2> HIDE DEF N, m, D
  <2>3. AddSlot(Open(i - 1), s2[N + i])
          = IF i < m THEN [done |-> D, open |-> R(i)]
                     ELSE [done |-> Append(D, R(i)), open |-> <<>>]
    <3> DEFINE j    == i - 1
               s    == s2[N + i]
               more == i < m
    <3>1. j \in Nat /\ s \in Slots /\ more \in BOOLEAN /\ HoldsChunk(s, p, more)
          /\ j + 1 = i
      BY <2>1, <2>2
    <3> HIDE DEF j, s, more
    <3>2. AddSlot([done |-> D, open |-> Repeat(Chunk(p), j)], s)
            = IF more THEN [done |-> D, open |-> Repeat(Chunk(p), j + 1)]
                      ELSE [done |-> Append(D, Repeat(Chunk(p), j + 1)), open |-> <<>>]
      BY <3>1, <1>3, ChunkAdded
    <3>3. QED  BY <3>1, <3>2 DEF j, s, more
  <2>4. CASE i < m  BY <2>3, <2>4
  <2>5. CASE ~(i < m)
    <3>1. i = m  BY <2>5, <1>1
    <3>2. QED  BY <3>1, <2>3, <2>5, <1>5
  <2>6. QED  BY <2>4, <2>5
<1>9. F \in [0 .. N -> Acc] /\ F[0] = Empty
      /\ \A n \in 1 .. N : F[n] = AddSlot(F[n - 1], s2[n])
  BY <1>1 DEF Decoding
<1>10. F[N] = Open(0)  BY <1>3, <1>5
<1> HIDE DEF N, m, D, Open, Done
<1>11. Decoding(G, s2)
  <2>1. \A n \in 0 .. N + m : G[n] \in Acc
    <3> SUFFICES ASSUME NEW n \in 0 .. N + m PROVE G[n] \in Acc  OBVIOUS
    <3>1. CASE n <= N  BY <3>1, <1>1, <1>9
    <3>2. CASE n > N /\ n < N + m
      <4>1. n - N \in Nat /\ ~(n <= N)  BY <3>2, <1>1
      <4>2. QED  BY <3>2, <4>1, <1>6
    <3>3. CASE n >= N + m
      <4>1. ~(n <= N) /\ ~(n < N + m)  BY <3>3, <1>1
      <4>2. QED  BY <4>1, <1>7
    <3>4. QED  BY <3>1, <3>2, <3>3, <1>1
  <2>2. G[0] = Empty  BY <1>1, <1>9
  <2>3. ASSUME NEW n \in 1 .. N + m PROVE G[n] = AddSlot(G[n - 1], s2[n])
    <3>1. n \in 0 .. N + m /\ n - 1 \in 0 .. N + m  BY <1>1
    <3>2. CASE n <= N
      <4>1. n - 1 <= N /\ n \in 1 .. N  BY <3>2, <1>1
      <4>2. G[n] = F[n] /\ G[n - 1] = F[n - 1]  BY <3>1, <3>2, <4>1
      <4>3. QED  BY <4>1, <4>2, <1>9
    <3>3. CASE n > N
      <4> DEFINE i == n - N
      <4>1. i \in 1 .. m /\ n = N + i  BY <3>3, <1>1
      <4>2. G[n - 1] = Open(i - 1)
        <5>1. CASE i = 1
          <6>1. n - 1 = N /\ N <= N /\ i - 1 = 0  BY <5>1, <4>1, <1>1
          <6>2. QED  BY <6>1, <3>1, <1>10
        <5>2. CASE i # 1
          <6>1. ~(n - 1 <= N) /\ n - 1 < N + m /\ (n - 1) - N = i - 1
            BY <5>2, <4>1, <1>1
          <6>2. QED  BY <6>1, <3>1
        <5>3. QED  BY <5>1, <5>2
      <4>3. G[n] = IF i < m THEN Open(i) ELSE Done
        <5>1. ~(n <= N) /\ (n < N + m <=> i < m)  BY <4>1, <1>1
        <5>2. QED  BY <5>1, <3>1
      <4>4. AddSlot(Open(i - 1), s2[N + i]) = IF i < m THEN Open(i) ELSE Done
        BY <4>1, <1>8
      <4>5. QED  BY <4>1, <4>2, <4>3, <4>4
    <3>4. QED  BY <3>2, <3>3, <1>1
  <2> HIDE DEF G
  <2>4. G \in [0 .. N + m -> Acc]  BY <2>1 DEF G
  <2>5. QED  BY <2>2, <2>3, <2>4, <1>1 DEF Decoding
<1>12. G[N + m] = Done
  <2>1. N + m \in 0 .. N + m /\ ~(N + m <= N) /\ ~(N + m < N + m)  BY <1>1
  <2>2. QED  BY <2>1
<1> HIDE DEF G
<1>13. Decode(s2) = G[N + m].done  BY <1>1, <1>11, DecodeIs
<1>14. QED  BY <1>12, <1>13 DEF Done, D, N

\* The chain of p before other slots is one packet before theirs.
LEMMA RemoveChain ==
  ASSUME TypeOK, NEW p \in Packets, NEW s1 \in Seq(Slots), NEW s2 \in Seq(Slots),
         NEW G, Decoding(G, s2),
         Len(s1) = Chunks(p) + Len(s2),
         \A n \in 1 .. Len(s2) : s1[Chunks(p) + n] = s2[n],
         \A i \in 1 .. Chunks(p) : HoldsChunk(s1[i], p, i < Chunks(p))
  PROVE  Decode(s1) = <<Stored(p)>> \o G[Len(s2)].done
<1> DEFINE N       == Len(s2)
           m       == Chunks(p)
           R(i)    == Repeat(Chunk(p), i)
           Open(i) == [done |-> <<>>, open |-> R(i)]
           With(a) == [done |-> <<Stored(p)>> \o a.done, open |-> a.open]
           F       == [n \in 0 .. m + N |-> IF n < m THEN Open(n) ELSE With(G[n - m])]
<1>1. N \in Nat /\ m \in Nat \ {0} /\ Len(s1) = m + N  BY ChunksType
<1>2. \A n \in 1 .. m + N : s1[n] \in Slots  BY <1>1
<1>3. \A i \in Nat : R(i) \in Seq(Cells)
  BY ChunkType, RepeatType, RingAssumption
<1>4. R(0) = <<>> /\ R(m) = Stored(p) /\ Stored(p) \in Seq(Cells)
  BY ChunkType, RepeatNone, StoredType, RingAssumption DEF Stored
<1>5. \A i \in Nat : Open(i) \in Acc  BY <1>3 DEF Acc
<1>6. ASSUME NEW a \in Acc
      PROVE  With(a) \in Acc
  <2>1. <<Stored(p)>> \o a.done \in Seq(Seq(Cells))  BY <1>4 DEF Acc
  <2>2. QED  BY <2>1 DEF Acc
<1>7. ASSUME NEW a \in Acc, NEW s \in Slots
      PROVE  AddSlot(With(a), s) = With(AddSlot(a, s))
  <2> DEFINE q == Stored(p)
             c == Contents(s)
             d == a.done
             o == a.open
  <2>1. c \in Seq(Cells)  BY ContentsType DEF IInv
  <2>2. a = [done |-> d, open |-> o] /\ d \in Seq(Seq(Cells)) /\ o \in Seq(Cells)
    BY DEF Acc
  <2>3. CASE desc[s].next
    <3>1. AddSlot(With(a), s) = [With(a) EXCEPT !.open = o \o c]
      BY <2>3 DEF AddSlot
    <3>2. AddSlot(With(a), s) = [done |-> <<q>> \o d, open |-> o \o c]  BY <3>1
    <3>3. AddSlot(a, s) = [a EXCEPT !.open = o \o c]  BY <2>3 DEF AddSlot
    <3>4. AddSlot(a, s) = [done |-> d, open |-> o \o c]  BY <2>2, <3>3
    <3>5. QED  BY <3>2, <3>4
  <2>4. CASE ~desc[s].next
    <3>1. AddSlot(With(a), s) = [done |-> Append(<<q>> \o d, o \o c), open |-> <<>>]
      BY <2>4 DEF AddSlot
    <3>2. AddSlot(a, s) = [done |-> Append(d, o \o c), open |-> <<>>]
      BY <2>4 DEF AddSlot
    <3>3. Append(<<q>> \o d, o \o c) = <<q>> \o Append(d, o \o c)
      <4> DEFINE e == o \o c
      <4>1. e \in Seq(Cells) /\ q \in Seq(Cells)  BY <2>1, <2>2, <1>4
      <4> HIDE DEF e, q, d
      <4>2. Append(<<q>> \o d, e) = <<q>> \o Append(d, e)
        BY <4>1, <2>2
      <4>3. QED  BY <4>2 DEF e
    <3> DEFINE x == Append(d, o \o c)
               y == Append(<<q>> \o d, o \o c)
               b == AddSlot(a, s)
    <3> HIDE DEF x, y, b
    <3>4. b = [done |-> x, open |-> <<>>]  BY <3>2 DEF x, b
    <3>5. With(b) = [done |-> <<q>> \o x, open |-> <<>>]  BY <3>4
    <3>6. AddSlot(With(a), s) = [done |-> y, open |-> <<>>]  BY <3>1 DEF y
    <3>7. y = <<q>> \o x  BY <3>3 DEF x, y
    <3> HIDE DEF With
    <3>8. QED  BY <3>5, <3>6, <3>7 DEF b
  <2>5. QED  BY <2>3, <2>4
<1>8. \A i \in 1 .. m :
        AddSlot(Open(i - 1), s1[i]) = IF i < m THEN Open(i) ELSE With(Empty)
  <2> SUFFICES ASSUME NEW i \in 1 .. m
               PROVE  AddSlot(Open(i - 1), s1[i]) = IF i < m THEN Open(i) ELSE With(Empty)
    OBVIOUS
  <2> DEFINE j    == i - 1
             s    == s1[i]
             more == i < m
             none == <<>>
  <2>1. j \in Nat /\ s \in Slots /\ more \in BOOLEAN /\ HoldsChunk(s, p, more)
        /\ j + 1 = i /\ none \in Seq(Seq(Cells))
    BY <1>1, <1>2
  <2>2. With(Empty) = [done |-> <<Stored(p)>>, open |-> <<>>]
    <3>1. <<Stored(p)>> \o <<>> = <<Stored(p)>>  BY <1>4
    <3>2. QED  BY <3>1 DEF Empty
  <2>3. Append(none, Stored(p)) = <<Stored(p)>>  OBVIOUS
  <2> HIDE DEF j, s, more, none
  <2>4. AddSlot([done |-> none, open |-> Repeat(Chunk(p), j)], s)
          = IF more THEN [done |-> none, open |-> Repeat(Chunk(p), j + 1)]
                    ELSE [done |-> Append(none, Repeat(Chunk(p), j + 1)), open |-> <<>>]
    BY <2>1, ChunkAdded
  <2> HIDE DEF m, With
  <2>5. AddSlot(Open(i - 1), s1[i])
          = IF i < m THEN [done |-> none, open |-> R(i)]
                     ELSE [done |-> Append(none, R(i)), open |-> <<>>]
    BY <2>1, <2>4 DEF j, s, more, none
  <2>6. CASE i < m  BY <2>5, <2>6 DEF none
  <2>7. CASE ~(i < m)
    <3>1. i = m  BY <2>7, <1>1
    <3>2. QED  BY <3>1, <2>2, <2>3, <2>5, <2>7, <1>4
  <2>8. QED  BY <2>6, <2>7
<1>9. G \in [0 .. N -> Acc] /\ G[0] = Empty
      /\ \A n \in 1 .. N : G[n] = AddSlot(G[n - 1], s1[m + n])
  BY <1>1 DEF Decoding
<1>10. Open(0) = Empty  BY <1>4 DEF Empty
<1> HIDE DEF N, m, Open, With
<1>11. Decoding(F, s1)
  <2>1. \A n \in 0 .. m + N : F[n] \in Acc
    <3> SUFFICES ASSUME NEW n \in 0 .. m + N PROVE F[n] \in Acc  OBVIOUS
    <3>1. CASE n < m
      <4>1. n \in Nat  BY <1>1
      <4>2. QED  BY <3>1, <4>1, <1>5
    <3>2. CASE ~(n < m)
      <4>1. n - m \in 0 .. N  BY <3>2, <1>1
      <4>2. QED  BY <3>2, <4>1, <1>6, <1>9
    <3>3. QED  BY <3>1, <3>2
  <2>2. F[0] = Empty  BY <1>1, <1>10
  <2>3. ASSUME NEW n \in 1 .. m + N PROVE F[n] = AddSlot(F[n - 1], s1[n])
    <3>1. n \in 0 .. m + N /\ n - 1 \in 0 .. m + N  BY <1>1
    <3>2. CASE n <= m
      <4>1. n - 1 < m /\ n \in 1 .. m  BY <3>2, <1>1
      <4>2. F[n - 1] = Open(n - 1)  BY <4>1, <3>1
      <4>3. F[n] = IF n < m THEN Open(n) ELSE With(Empty)
        <5>1. CASE n < m  BY <5>1, <3>1
        <5>2. CASE ~(n < m)
          <6>1. n - m = 0  BY <5>2, <4>1, <1>1
          <6>2. QED  BY <5>2, <6>1, <3>1, <1>9
        <5>3. QED  BY <5>1, <5>2
      <4>4. QED  BY <4>1, <4>2, <4>3, <1>8
    <3>3. CASE n > m
      <4> DEFINE k == n - m
      <4>1. k \in 1 .. N /\ n = m + k /\ ~(n < m) /\ ~(n - 1 < m)
            /\ (n - 1) - m = k - 1 /\ k - 1 \in 0 .. N
        BY <3>3, <1>1
      <4>2. F[n] = With(G[k]) /\ F[n - 1] = With(G[k - 1])
        BY <4>1, <3>1
      <4>3. G[k] = AddSlot(G[k - 1], s1[n]) /\ G[k - 1] \in Acc /\ s1[n] \in Slots
        BY <4>1, <1>2, <1>9
      <4>4. QED  BY <4>2, <4>3, <1>7
    <3>4. QED  BY <3>2, <3>3, <1>1
  <2> HIDE DEF F
  <2>4. F \in [0 .. m + N -> Acc]  BY <2>1 DEF F
  <2>5. QED  BY <2>2, <2>3, <2>4, <1>1 DEF Decoding
<1>12. F[m + N] = With(G[N])
  <2>1. m + N \in 0 .. m + N /\ ~(m + N < m) /\ (m + N) - m = N  BY <1>1
  <2>2. QED  BY <2>1
<1> HIDE DEF F
<1>13. Decode(s1) = F[m + N].done  BY <1>1, <1>11, DecodeIs
<1>14. QED  BY <1>12, <1>13 DEF With, N

-----------------------------------------------------------------------------
(* The writer's side of the invariant. *)

\* The slots the writer has filled are behind the one it is at.
LEMMA WriterPlace ==
  ASSUME IInv, wpc # "idle"
  PROVE  /\ Produced \in Idx /\ Filled \in Nat /\ wslot = Produced + Filled
         /\ Filled <= Available
         /\ wpc # "publish" => Filled < Available
         /\ Slot(wslot) \in Slots
         /\ \A i \in Nat : Slot(Produced + i) \in Slots
         /\ \A i \in 0 .. Filled - 1 :
              Filled < Available => Slot(Produced + i) # Slot(wslot)
<1>1. /\ Produced \in Idx /\ Unread \in 0 .. Size /\ Available \in 0 .. Size
      /\ Size \in Nat \ {0}
  BY Distances, RingAssumption
<1>2. /\ Filled \in Nat /\ wslot = Produced + Filled
      /\ Filled <= Available /\ (wpc # "publish" => Filled < Available)
  BY <1>1 DEF IInv, TypeOK, IndexInv, WriterInv, Filled, Idx
<1>3. Slot(wslot) \in Slots /\ \A i \in Nat : Slot(Produced + i) \in Slots
  BY <1>1, <1>2, SlotType DEF Idx
<1>4. ASSUME NEW i \in 0 .. Filled - 1, Filled < Available
      PROVE  Slot(Produced + i) # Slot(wslot)
  <2>1. /\ Produced + i \in Int /\ wslot \in Int
        /\ Produced + i < wslot /\ wslot - (Produced + i) < Size
    BY <1>1, <1>2, <1>4 DEF Idx
  <2>2. QED  BY <2>1, SlotsDiffer
<1>5. QED  BY <1>1, <1>2, <1>3, <1>4

LEMMA WriteBeginWriting ==
  ASSUME WriteInv, NEW p \in Packets, WriteBegin(p)
  PROVE  WritingInv'
<1>1. Produced' = Produced /\ Produced \in Int
  BY SameDistances, Distances DEF WriteBegin, shared, rvars, WriteInv, Idx
<1>2. Filled' = 0  BY <1>1 DEF Filled, WriteBegin
<1>3. Len(Chunk(p)) \in Nat /\ 0 * Len(Chunk(p)) = 0 /\ Len(p) > 0
  BY ChunkType, RingAssumption
<1>4. /\ wpc' = "fill" /\ wpkt' = p /\ wn' = 0  BY DEF WriteBegin
<1>5. Filled' * Len(Chunk(wpkt')) = 0  BY <1>2, <1>3, <1>4
<1>6. Filled' * Len(Chunk(wpkt')) < Len(wpkt')  BY <1>3, <1>4, <1>5
<1>7. (Chunk(wpkt))' = Chunk(wpkt')  BY DEF Chunk, Prefix
<1>8. QED  BY <1>2, <1>4, <1>5, <1>6, <1>7 DEF WritingInv

\* A slot of the writer's has room for a chunk: an offered one is full.
LEMMA WriteFillWriting ==
  ASSUME WriteInv, WriteFill
  PROVE  WritingInv'
<1> DEFINE s     == Slot(wslot)
           room  == IF WriterIsMaster THEN desc[s].length ELSE BufSize
           chunk == Prefix(wpkt, room)
<1>1. Produced' = Produced  BY SameDistances DEF WriteFill, rvars
<1>2. /\ wpkt \in Packets /\ wn = Filled * Len(Chunk(wpkt))
      /\ Filled * Len(Chunk(wpkt)) < Len(wpkt)
      /\ \A i \in 0 .. Filled - 1 : HoldsChunk(Slot(Produced + i), wpkt, TRUE)
  BY DEF WriteInv, WritingInv, WriteFill
<1>3. /\ Filled \in Nat /\ Filled < Available /\ s \in Slots
      /\ \A i \in 0 .. Filled - 1 : Slot(Produced + i) # s /\ Slot(Produced + i) \in Slots
  BY WriterPlace DEF WriteInv, WriteFill
<1>4. /\ Chunk(wpkt) \in Seq(Cells) /\ Len(Chunk(wpkt)) \in 1 .. BufSize
      /\ BufSize \in Nat /\ Len(wpkt) \in Nat
  BY <1>2, ChunkType, RingAssumption
<1>5. room = BufSize
  <2> SUFFICES ASSUME WriterIsMaster PROVE desc[s].length = BufSize  OBVIOUS
  <2>1. wslot - tail \in 0 .. Available - 1
    BY WriterOffer DEF WriteInv, WriteFill
  <2>2. wslot \in Int /\ tail \in Int
    BY DEF WriteInv, IInv, TypeOK
  <2>3. tail + (wslot - tail) = wslot  BY <2>2
  <2>4. Full(tail + (wslot - tail))
    BY <2>1 DEF WriteInv, FullInv, OfferInv, WriteFill
  <2>5. QED  BY <2>3, <2>4 DEF Full
<1> HIDE DEF room
<1>6. chunk = Chunk(wpkt)  BY <1>5 DEF Chunk
<1>7. /\ buf' = [buf EXCEPT ![s] = Overwrite(buf[s], chunk)]
      /\ wdesc' = [length |-> Len(chunk), next |-> FALSE]
      /\ wn' = wn + Len(chunk)
      /\ wpc' = IF wn + Len(chunk) < Len(wpkt) THEN "chain" ELSE "last"
      /\ UNCHANGED <<desc, wpkt, wslot>>
  BY DEF WriteFill, room
<1> HIDE DEF chunk, s
<1>8. Filled' = Filled  BY <1>1, <1>7 DEF Filled
<1>9. Chunk(wpkt)' = Chunk(wpkt)  BY <1>7 DEF Chunk, Prefix
<1>10. wn' = (Filled + 1) * Len(Chunk(wpkt)) /\ wn' \in Nat
  <2>1. (Filled + 1) * Len(Chunk(wpkt)) = Filled * Len(Chunk(wpkt)) + Len(Chunk(wpkt))
        /\ Filled * Len(Chunk(wpkt)) \in Nat
    BY <1>3, <1>4
  <2>2. QED  BY <2>1, <1>2, <1>4, <1>6, <1>7
<1>11. \A k \in 1 .. Len(Chunk(wpkt)) : buf'[s][k] = Chunk(wpkt)[k]
  <2>1. buf'[s] = Overwrite(buf[s], chunk)
    BY <1>3, <1>7 DEF WriteInv, IInv, TypeOK
  <2>2. QED  BY <2>1, <1>4, <1>6 DEF Overwrite
<1>12. \A i \in 0 .. Filled - 1 : HoldsChunk(Slot(Produced + i), wpkt, TRUE)'
  <2>1. ASSUME NEW i \in 0 .. Filled - 1
        PROVE  HoldsChunk(Slot(Produced + i), wpkt, TRUE)'
    <3>1. buf'[Slot(Produced + i)] = buf[Slot(Produced + i)]
      BY <1>3, <1>7 DEF WriteInv, IInv, TypeOK
    <3>2. QED  BY <3>1, <1>1, <1>2, <1>7, <1>9 DEF HoldsChunk, Contents
  <2>2. QED  BY <2>1
<1>13. /\ wpc' \in {"chain", "last"}
       /\ wpc' = "chain" => wn' < Len(wpkt')
       /\ wpc' = "last" => wn' >= Len(wpkt')
  BY <1>2, <1>4, <1>6, <1>7, <1>10
<1>14. /\ wpkt' = wpkt /\ wslot' = wslot
       /\ wdesc' = [length |-> Len(Chunk(wpkt)), next |-> FALSE]
  BY <1>6, <1>7
<1>15. QED
  BY <1>1, <1>2, <1>8, <1>9, <1>10, <1>11, <1>12, <1>13, <1>14 DEF WritingInv, s

\* The descriptor makes what was copied the contents of the slot.
LEMMA SlotStored ==
  ASSUME WriteInv, wpc \in {"chain", "last"}, NEW more \in BOOLEAN, UNCHANGED buf,
         desc' = [desc EXCEPT ![Slot(wslot)] =
                    [length |-> Len(Chunk(wpkt)), next |-> more]]
  PROVE  /\ \A i \in 0 .. Filled - 1 :
              /\ desc'[Slot(Produced + i)].next
              /\ [k \in 1 .. desc'[Slot(Produced + i)].length |-> buf'[Slot(Produced + i)][k]]
                   = Chunk(wpkt)
         /\ desc'[Slot(Produced + Filled)].next = more
         /\ [k \in 1 .. desc'[Slot(Produced + Filled)].length
               |-> buf'[Slot(Produced + Filled)][k]] = Chunk(wpkt)
<1> DEFINE c == Chunk(wpkt)
<1>1. /\ wpkt \in Packets
      /\ \A i \in 0 .. Filled - 1 : HoldsChunk(Slot(Produced + i), wpkt, TRUE)
      /\ \A k \in 1 .. Len(c) : buf[Slot(wslot)][k] = c[k]
  BY DEF WriteInv, WritingInv
<1>2. /\ wslot = Produced + Filled /\ Slot(wslot) \in Slots
      /\ \A i \in 0 .. Filled - 1 : Slot(Produced + i) # Slot(wslot)
                                    /\ Slot(Produced + i) \in Slots
  BY WriterPlace DEF WriteInv
<1>3. desc \in [Slots -> Descs]  BY DEF WriteInv, IInv, TypeOK
<1>4. ASSUME NEW i \in 0 .. Filled - 1
      PROVE  /\ desc'[Slot(Produced + i)].next
             /\ [k \in 1 .. desc'[Slot(Produced + i)].length
                   |-> buf'[Slot(Produced + i)][k]] = c
  <2>1. desc'[Slot(Produced + i)] = desc[Slot(Produced + i)]
    BY <1>2, <1>3
  <2>2. QED  BY <2>1, <1>1 DEF HoldsChunk, Contents
<1>5. desc'[Slot(wslot)] = [length |-> Len(c), next |-> more]  BY <1>2, <1>3
<1>6. [k \in 1 .. Len(c) |-> buf'[Slot(wslot)][k]] = c
  <2>1. c \in Seq(Cells)  BY <1>1, ChunkType
  <2>2. c = [k \in 1 .. Len(c) |-> c[k]]  BY <2>1
  <2> HIDE DEF c
  <2>3. QED  BY <2>2, <1>1
<1>7. QED  BY <1>2, <1>4, <1>5, <1>6

LEMMA WriteChainWriting ==
  ASSUME WriteInv, WriteChain
  PROVE  WritingInv'
<1>1. Produced' = Produced  BY SameDistances DEF WriteChain, rvars
<1>2. /\ wpkt \in Packets /\ wn = (Filled + 1) * Len(Chunk(wpkt)) /\ wn < Len(wpkt)
      /\ wdesc = [length |-> Len(Chunk(wpkt)), next |-> FALSE]
  BY DEF WriteInv, WritingInv, WriteChain
<1>3. Filled \in Nat /\ wslot = Produced + Filled /\ Produced \in Int
  BY WriterPlace DEF WriteInv, WriteChain, Idx
<1>4. [wdesc EXCEPT !.next = TRUE] = [length |-> Len(Chunk(wpkt)), next |-> TRUE]
  <2> DEFINE d == [wdesc EXCEPT !.next = TRUE]
  <2>1. wdesc \in Descs  BY DEF WriteInv, IInv, TypeOK
  <2>2. d \in Descs /\ d.length = wdesc.length /\ d.next = TRUE  BY <2>1 DEF Descs
  <2>3. wdesc.length = Len(Chunk(wpkt))  BY <1>2
  <2> HIDE DEF d
  <2>4. d = [length |-> d.length, next |-> d.next]  BY <2>2 DEF Descs
  <2>5. QED  BY <2>2, <2>3, <2>4 DEF d
<1>5. /\ desc' = [desc EXCEPT ![Slot(wslot)] =
                    [length |-> Len(Chunk(wpkt)), next |-> TRUE]]
      /\ UNCHANGED <<buf, wpkt, wn>> /\ wslot' = wslot + 1 /\ wpc' = "fill"
  BY <1>4 DEF WriteChain
<1>6. Filled' = Filled + 1  BY <1>1, <1>3, <1>5 DEF Filled
<1>7. Chunk(wpkt)' = Chunk(wpkt)  BY <1>5 DEF Chunk, Prefix
<1>8. ASSUME NEW i \in 0 .. Filled
      PROVE  HoldsChunk(Slot(Produced + i), wpkt, TRUE)'
  <2>1. WriteInv /\ wpc \in {"chain", "last"} /\ TRUE \in BOOLEAN
    BY DEF WriteChain
  <2>2. /\ desc'[Slot(Produced + i)].next = TRUE
        /\ [k \in 1 .. desc'[Slot(Produced + i)].length
              |-> buf'[Slot(Produced + i)][k]] = Chunk(wpkt)
    <3>1. CASE i = Filled  BY <3>1, <2>1, <1>5, SlotStored
    <3>2. CASE i # Filled
      <4>1. i \in 0 .. Filled - 1  BY <3>2, <1>3
      <4>2. QED
        <5>1. desc'[Slot(Produced + i)].next \in BOOLEAN
          <6>1. desc' \in [Slots -> Descs]
            BY NextIInv, RingAssumption DEF WriteInv, IInv, TypeOK, Next, Writer, WriterStep
          <6>2. Slot(Produced + i) \in Slots
            BY <1>3, SlotType
          <6>3. QED  BY <6>1, <6>2 DEF Descs
        <5>2. QED  BY <5>1, <4>1, <2>1, <1>5, SlotStored
    <3>3. QED  BY <3>1, <3>2
  <2>3. QED  BY <2>2, <1>1, <1>7 DEF HoldsChunk, Contents
<1>9. 0 .. Filled' - 1 = 0 .. Filled  BY <1>3, <1>6
<1>10. \A i \in 0 .. Filled' - 1 : HoldsChunk(Slot(Produced + i), wpkt, TRUE)'
  BY <1>8, <1>9
<1>11. QED
  BY <1>2, <1>5, <1>6, <1>7, <1>10 DEF WritingInv

\* The last chunk makes the packet complete.
LEMMA WriteLastWriting ==
  ASSUME WriteInv, WriteLast
  PROVE  WritingInv'
<1>1. Produced' = Produced  BY SameDistances DEF WriteLast, rvars
<1>2. /\ wpkt \in Packets /\ wn = (Filled + 1) * Len(Chunk(wpkt)) /\ wn >= Len(wpkt)
      /\ Filled * Len(Chunk(wpkt)) < Len(wpkt)
      /\ wdesc = [length |-> Len(Chunk(wpkt)), next |-> FALSE]
  BY DEF WriteInv, WritingInv, WriteLast
<1>3. Filled \in Nat /\ wslot = Produced + Filled /\ Produced \in Int
  BY WriterPlace DEF WriteInv, WriteLast, Idx
<1>4. /\ desc' = [desc EXCEPT ![Slot(wslot)] =
                    [length |-> Len(Chunk(wpkt)), next |-> FALSE]]
      /\ UNCHANGED <<buf, wpkt, wn>> /\ wslot' = wslot + 1 /\ wpc' = "publish"
  BY <1>2 DEF WriteLast
<1>5. Filled' = Filled + 1  BY <1>1, <1>3, <1>4 DEF Filled
<1>6. Chunk(wpkt)' = Chunk(wpkt) /\ Chunks(wpkt)' = Chunks(wpkt)
      /\ Stored(wpkt)' = Stored(wpkt)
  BY <1>4 DEF Chunk, Prefix, Chunks, Stored, Repeat
<1>7. Chunks(wpkt) = Filled + 1
  <2>1. Len(wpkt) <= (Filled + 1) * Len(Chunk(wpkt))
    <3>1. Len(wpkt) \in Nat /\ (Filled + 1) * Len(Chunk(wpkt)) \in Nat
      BY <1>2, <1>3, ChunkType, RingAssumption
    <3>2. QED  BY <3>1, <1>2
  <2>2. QED  BY <2>1, <1>2, <1>3, ChunksCount
<1>8. wn = Len(Stored(wpkt))  BY <1>2, <1>7, StoredType
<1>9. ASSUME NEW i \in 0 .. Filled
      PROVE  /\ desc'[Slot(Produced + i)].next = (i < Filled)
             /\ [k \in 1 .. desc'[Slot(Produced + i)].length
                   |-> buf'[Slot(Produced + i)][k]] = Chunk(wpkt)
  <2>1. WriteInv /\ wpc \in {"chain", "last"} /\ FALSE \in BOOLEAN
    BY DEF WriteLast
  <2>2. desc'[Slot(Produced + i)].next \in BOOLEAN
    <3>1. desc' \in [Slots -> Descs]
      BY NextIInv DEF WriteInv, IInv, TypeOK, Next, Writer, WriterStep
    <3>2. Slot(Produced + i) \in Slots
      BY <1>3, SlotType
    <3>3. QED  BY <3>1, <3>2 DEF Descs
  <2>3. CASE i = Filled
    <3>1. (i < Filled) = FALSE  BY <2>3, <1>3
    <3>2. QED  BY <2>3, <3>1, <2>1, <1>4, SlotStored
  <2>4. CASE i # Filled
    <3>1. i \in 0 .. Filled - 1 /\ (i < Filled) = TRUE  BY <2>4, <1>3
    <3>2. QED  BY <3>1, <2>1, <2>2, <1>4, SlotStored
  <2>5. QED  BY <2>3, <2>4
<1>10. 0 .. Filled' - 1 = 0 .. Filled /\ Filled' - 1 = Filled  BY <1>3, <1>5
<1>11. \A i \in 0 .. Filled' - 1 :
         HoldsChunk(Slot(Produced + i), wpkt, i < Filled - 1)'
  <2>1. ASSUME NEW i \in 0 .. Filled
        PROVE  HoldsChunk(Slot(Produced + i), wpkt, i < Filled - 1)'
    <3>1. (i < Filled) = (i < Filled' - 1)  BY <1>10
    <3>2. QED  BY <3>1, <1>1, <1>6, <1>9 DEF HoldsChunk, Contents
  <2>2. QED  BY <2>1, <1>10
<1>12. QED
  BY <1>2, <1>4, <1>5, <1>6, <1>7, <1>8, <1>11 DEF WritingInv

\* The reader changes no buffer, and no descriptor of a slot offered to the
\* writer.
LEMMA ReaderStepWriting ==
  ASSUME WriteInv, Reader \/ UNCHANGED vars
  PROVE  WritingInv'
<1>1. Produced' = Produced /\ UNCHANGED <<wvars, buf>>
  <2>1. rpc = "refill" => WriterIsMaster
    BY RingAssumption DEF WriteInv, IInv, IndexInv, ReaderInv
  <2>2. QED
    BY <2>1 DEF Reader, ReadBegin, ReadCopy, ReadReleaseMaster, ReadReleaseSlave,
        Refill, RefillPublish, Produced, shared, vars
<1>2. UNCHANGED <<wpc, wpkt, wslot, wfree, wdesc, wn>>  BY <1>1 DEF wvars
<1>3. Filled' = Filled /\ Chunk(wpkt)' = Chunk(wpkt) /\ Chunks(wpkt)' = Chunks(wpkt)
      /\ Stored(wpkt)' = Stored(wpkt)
  BY <1>1, <1>2 DEF Filled, Chunk, Prefix, Chunks, Stored, Repeat
<1>4. ASSUME wpc # "idle", NEW i \in 0 .. Filled - 1
      PROVE  desc'[Slot(Produced + i)] = desc[Slot(Produced + i)]
  <2>1. CASE Refill
    <3>1. WriterIsMaster /\ rpc = "refill" /\ fill > 0
      BY <2>1, RingAssumption DEF WriteInv, IInv, IndexInv, ReaderInv, Refill
    <3>2. Produced = tail  BY <3>1 DEF Produced
    <3>3. /\ Filled \in Nat /\ Filled <= Available /\ Available \in Nat
          /\ Slot(Produced + i) \in Slots
      BY <1>4, WriterPlace, Distances DEF WriteInv
    <3>4. i \in 0 .. Available - 1  BY <3>3
    <3>5. Slot(tail + i) # Slot(fhead)  BY <3>1, <3>4, RefillSlot DEF WriteInv
    <3>6. QED  BY <2>1, <3>2, <3>3, <3>5 DEF Refill, WriteInv, IInv, TypeOK
  <2>2. CASE UNCHANGED desc  BY <2>2
  <2>3. QED
    BY <2>1, <2>2
    DEF Reader, ReadBegin, ReadCopy, ReadReleaseMaster, ReadReleaseSlave,
        RefillPublish, shared, vars
<1>5. ASSUME wpc # "idle", NEW i \in 0 .. Filled - 1, NEW more,
             HoldsChunk(Slot(Produced + i), wpkt, more)
      PROVE  /\ desc'[Slot(Produced + i)].next = more
             /\ [k \in 1 .. desc'[Slot(Produced + i)].length
                   |-> buf'[Slot(Produced + i)][k]] = Chunk(wpkt)
  <2>1. desc'[Slot(Produced + i)] = desc[Slot(Produced + i)]  BY <1>4, <1>5
  <2>2. QED  BY <2>1, <1>1, <1>5 DEF HoldsChunk, Contents
<1>6. WritingInv  BY DEF WriteInv
<1>7. wpc \in {"fill", "chain", "last"} =>
        \A i \in 0 .. Filled - 1 : HoldsChunk(Slot(Produced + i), wpkt, TRUE)'
  BY <1>1, <1>2, <1>3, <1>5, <1>6 DEF WritingInv, HoldsChunk, Contents
<1>8. wpc = "publish" =>
        \A i \in 0 .. Filled - 1 :
          HoldsChunk(Slot(Produced + i), wpkt, i < Filled - 1)'
  BY <1>1, <1>2, <1>3, <1>5, <1>6 DEF WritingInv, HoldsChunk, Contents
<1>9. \A k : buf'[Slot(wslot)][k] = buf[Slot(wslot)][k]  BY <1>1
<1>10. QED
  BY <1>2, <1>3, <1>6, <1>7, <1>8, <1>9 DEF WritingInv

LEMMA NextWriting ==
  ASSUME WriteInv, [Next]_vars
  PROVE  WritingInv'
<1>1. ASSUME NEW p \in Packets, WriteBegin(p) PROVE WritingInv'
  BY <1>1, WriteBeginWriting
<1>2. CASE WriteFill   BY <1>2, WriteFillWriting
<1>3. CASE WriteChain  BY <1>3, WriteChainWriting
<1>4. CASE WriteLast   BY <1>4, WriteLastWriting
<1>5. CASE WriteAbort \/ WritePublish
  BY <1>5 DEF WriteAbort, WritePublish, WriterReturns, WritingInv
<1>6. CASE Reader \/ UNCHANGED vars  BY <1>6, ReaderStepWriting
<1>7. QED
  BY <1>1, <1>2, <1>3, <1>4, <1>5, <1>6 DEF Next, Writer, WriterStep

LEMMA InitWrite == Init => WriteInv
BY InitIInv, InitFull DEF Init, WriteInv, WritingInv

LEMMA WriteInvariant == Spec => []WriteInv
<1>1. WriteInv /\ [Next]_vars => WriteInv'
  BY NextIInv, NextFull, NextWriting DEF WriteInv
<1>2. QED  BY <1>1, InitWrite, PTL DEF Spec

\* For packets that are stored as they are, the comment of WritePacket is
\* true: the slots about to be published hold the packet, and the call returns
\* its length.
THEOREM WritesWholePackets ==
  ASSUME StoredWhole PROVE Spec => []WritesOnePacket
<1>1. WriteInv => WritesOnePacket
  <2> SUFFICES ASSUME WriteInv, wpc = "publish"
               PROVE  /\ Decode([k \in 1 .. wslot - Produced |-> Slot(Produced + k - 1)])
                           = <<wpkt>>
                      /\ wn = Len(wpkt)
    BY DEF WritesOnePacket
  <2>1. /\ wpkt \in Packets /\ Filled = Chunks(wpkt) /\ wn = Len(Stored(wpkt))
        /\ \A i \in 0 .. Filled - 1 :
             HoldsChunk(Slot(Produced + i), wpkt, i < Filled - 1)
    BY DEF WriteInv, WritingInv
  <2>2. /\ Produced \in Int /\ Filled \in Nat \ {0} /\ Stored(wpkt) = wpkt /\ TypeOK
        /\ \A i \in Nat : Slot(Produced + i) \in Slots
    BY <2>1, WriterPlace, ChunksType DEF WriteInv, IInv, StoredWhole, Idx
  <2> DEFINE none  == <<>>
             slots == [k \in 1 .. wslot - Produced |-> Slot(Produced + k - 1)]
             F     == [n \in 0 .. 0 |-> Empty]
  <2>3. \A k \in 1 .. Filled :
          Produced + k - 1 = Produced + (k - 1) /\ k - 1 \in Nat /\ k - 1 \in 0 .. Filled - 1
    BY <2>2
  <2>4. slots \in Seq(Slots) /\ Len(slots) = Filled
        /\ \A k \in 1 .. Filled : slots[k] = Slot(Produced + (k - 1))
    <3>1. slots = [k \in 1 .. Filled |-> Slot(Produced + k - 1)]  BY DEF Filled
    <3>2. \A k \in 1 .. Filled : Slot(Produced + k - 1) = Slot(Produced + (k - 1))
                                 /\ Slot(Produced + k - 1) \in Slots
      BY <2>2, <2>3
    <3> HIDE DEF slots
    <3>3. slots \in Seq(Slots) /\ Len(slots) = Filled  BY <3>1, <3>2, <2>2
    <3>4. QED  BY <3>1, <3>2, <3>3
  <2>5. none \in Seq(Slots) /\ Len(none) = 0  OBVIOUS
  <2>6. Decoding(F, none) /\ F[0] = Empty
    <3>1. Empty \in Acc  BY DEF Empty, Acc
    <3>2. QED  BY <3>1 DEF Decoding
  <2>7. \A i \in 1 .. Chunks(wpkt) : HoldsChunk(slots[0 + i], wpkt, i < Chunks(wpkt))
    <3>1. ASSUME NEW i \in 1 .. Filled
          PROVE  HoldsChunk(slots[0 + i], wpkt, i < Filled)
      <4>1. /\ i - 1 \in 0 .. Filled - 1 /\ 0 + i = i
            /\ (i - 1 < Filled - 1) = (i < Filled)
        BY <2>2
      <4>2. HoldsChunk(Slot(Produced + (i - 1)), wpkt, i - 1 < Filled - 1)
        BY <4>1, <2>1
      <4>3. QED  BY <4>1, <4>2, <2>4
    <3>2. QED  BY <3>1, <2>1
  <2> HIDE DEF slots, F, none
  <2>8. Decode(slots) = Append(F[Len(none)].done, Stored(wpkt))
    <3>1. Len(slots) = Len(none) + Chunks(wpkt)  BY <2>1, <2>2, <2>4, <2>5
    <3>2. \A n \in 1 .. Len(none) : slots[n] = none[n]  BY <2>5
    <3>3. F[Len(none)].open = <<>>  BY <2>5, <2>6 DEF Empty
    <3>4. QED
      BY <3>1, <3>2, <3>3, <2>1, <2>2, <2>4, <2>5, <2>6, <2>7, AppendChain
  <2>9. Decode(slots) = <<wpkt>>
    <3>1. F[Len(none)].done = <<>>  BY <2>5, <2>6 DEF Empty
    <3>2. Append(<<>>, wpkt) = <<wpkt>>  OBVIOUS
    <3>3. QED  BY <3>1, <3>2, <2>2, <2>8
  <2>10. QED  BY <2>1, <2>2, <2>9 DEF slots
<1>2. QED  BY <1>1, WriteInvariant, PTL

-----------------------------------------------------------------------------
(* The chains in the unread slots. *)

\* A chain of unread slots stays one while the reader keeps its place.
LEMMA ChainKept ==
  ASSUME IInv, [Next]_vars, UNCHANGED last, Unread' >= Unread,
         NEW p \in Packets, NEW k \in Nat, ChainAt(k, p)
  PROVE  ChainAt(k, p)'
<1>1. Unread \in 0 .. Size /\ last \in Int  BY Distances DEF Idx
<1>2. Chunks(p) \in Nat  BY ChunksType
<1>3. ASSUME NEW i \in 0 .. Chunks(p) - 1
      PROVE  HoldsChunk(Slot(last + (k + i)), p, i < Chunks(p) - 1)'
  <2>1. k + i \in 0 .. Unread - 1  BY <1>1, <1>2 DEF ChainAt
  <2>2. /\ desc'[Slot(last + (k + i))] = desc[Slot(last + (k + i))]
        /\ buf'[Slot(last + (k + i))] = buf[Slot(last + (k + i))]
    BY <2>1, UnreadStep
  <2>3. HoldsChunk(Slot(last + (k + i)), p, i < Chunks(p) - 1)  BY DEF ChainAt
  <2>4. QED  BY <2>2, <2>3 DEF HoldsChunk, Contents
<1>4. k + Chunks(p) <= Unread'
  <2>1. Unread' \in Int
    <3>1. Produced' \in Idx /\ last' \in Idx
      BY NextIInv DEF IInv, TypeOK, Produced, Idx
    <3>2. QED  BY <3>1, U16Value DEF Unread, Idx
  <2>2. QED  BY <2>1, <1>1, <1>2 DEF ChainAt
<1>5. QED  BY <1>3, <1>4 DEF ChainAt

LEMMA SameChains ==
  ASSUME IInv, UnreadInv, [Next]_vars, UNCHANGED last, Unread' = Unread
  PROVE  UnreadInv'
<1>1. Unread \in 0 .. Size /\ last \in Int  BY Distances DEF Idx
<1>2. ASSUME NEW k \in 0 .. Unread - 1,
             k > 0 => ~desc'[Slot(last + (k - 1))].next
      PROVE  \E p \in Packets : ChainAt(k, p)'
  <2>1. k > 0 => ~desc[Slot(last + (k - 1))].next
    <3>1. k > 0 => k - 1 \in 0 .. Unread - 1  BY <1>1
    <3>2. QED  BY <3>1, <1>2, UnreadStep
  <2>2. PICK p \in Packets : ChainAt(k, p)  BY <2>1 DEF UnreadInv
  <2>3. k \in Nat /\ Unread' >= Unread  BY <1>1
  <2>4. ChainAt(k, p)'  BY <2>2, <2>3, ChainKept
  <2>5. QED  BY <2>4
<1>3. QED  BY <1>2 DEF UnreadInv

\* What a publication does to the indices and the slots.
LEMMA Published ==
  ASSUME WriteInv, WritePublish
  PROVE  /\ wpkt \in Packets /\ Chunks(wpkt) \in Nat \ {0}
         /\ Unread \in Nat /\ Unread' = Unread + Chunks(wpkt) /\ Unread' <= Size
         /\ UNCHANGED <<last, desc, buf, got, rvars>>
         /\ \A i \in 0 .. Chunks(wpkt) - 1 :
              HoldsChunk(Slot(last + (Unread + i)), wpkt, i < Chunks(wpkt) - 1)
<1> DEFINE m == Chunks(wpkt)
<1>1. /\ Produced \in Idx /\ last \in Idx /\ Unread \in 0 .. Size
      /\ Available \in 0 .. Size /\ Unread + Available <= Size
      /\ Size \in Nat /\ IdxMod \in Nat /\ Size < IdxMod
  BY Distances, RingAssumption DEF WriteInv, IInv, IndexInv, RingNeverOverrun
<1>2. /\ wpkt \in Packets /\ Filled = m
      /\ \A i \in 0 .. m - 1 : HoldsChunk(Slot(Produced + i), wpkt, i < m - 1)
  BY DEF WriteInv, WritingInv, WritePublish
<1>3. m \in Nat \ {0} /\ m <= Available /\ wslot = Produced + m
  BY <1>2, WriterPlace, ChunksType DEF WriteInv, WritePublish
<1> HIDE DEF m
<1>4. /\ Produced' = U16(Produced + m) /\ UNCHANGED <<last, desc, buf, got, rvars>>
  BY <1>3 DEF WritePublish, WriterReturns, Produced, rvars
<1>5. Unread' = Unread + m
  <2>1. U16(Produced - last) + m < IdxMod  BY <1>1, <1>3 DEF Unread
  <2>2. U16(U16(Produced + m) - last) = U16(Produced - last) + m
    BY <1>1, <1>3, <2>1, Advance
  <2>3. QED  BY <1>4, <2>2 DEF Unread
<1>6. ASSUME NEW i \in 0 .. m - 1
      PROVE  HoldsChunk(Slot(last + (Unread + i)), wpkt, i < m - 1)
  <2>1. i \in Int  BY <1>3
  <2>2. Slot(Produced + i) = Slot(last + Unread + i)
    BY <2>1, <1>1, SlotShift DEF Unread
  <2>3. last + Unread + i = last + (Unread + i)  BY <2>1, <1>1 DEF Idx
  <2>4. QED  BY <2>2, <2>3, <1>2
<1>7. QED  BY <1>1, <1>2, <1>3, <1>4, <1>5, <1>6 DEF m

\* The new chain begins where the last of the others ended.
LEMMA PublishChains ==
  ASSUME WriteInv, UnreadInv, WritePublish
  PROVE  UnreadInv'
<1> DEFINE m == Chunks(wpkt)
<1>1. /\ wpkt \in Packets /\ m \in Nat \ {0}
      /\ Unread \in Nat /\ Unread' = Unread + m
      /\ UNCHANGED <<last, desc, buf>>
      /\ \A i \in 0 .. m - 1 : HoldsChunk(Slot(last + (Unread + i)), wpkt, i < m - 1)
  BY Published
<1> HIDE DEF m
<1>2. ASSUME NEW k \in 0 .. Unread' - 1,
             k > 0 => ~desc[Slot(last + (k - 1))].next
      PROVE  \E p \in Packets :
               /\ k + Chunks(p) <= Unread'
               /\ \A i \in 0 .. Chunks(p) - 1 :
                    HoldsChunk(Slot(last + (k + i)), p, i < Chunks(p) - 1)
  <2>1. CASE k < Unread
    <3>1. k \in 0 .. Unread - 1  BY <2>1, <1>1
    <3>2. PICK p \in Packets : ChainAt(k, p)  BY <3>1, <1>2 DEF UnreadInv
    <3>3. Chunks(p) \in Nat  BY ChunksType
    <3>4. k + Chunks(p) <= Unread'  BY <3>2, <3>3, <1>1 DEF ChainAt
    <3>5. QED  BY <3>2, <3>4 DEF ChainAt
  <2>2. CASE k = Unread  BY <2>2, <1>1 DEF m
  <2>3. CASE k > Unread
    <3> DEFINE i == k - 1 - Unread
    <3>1. i \in 0 .. m - 1 /\ i < m - 1 /\ Unread + i = k - 1 /\ k > 0
      BY <2>3, <1>1
    <3>2. HoldsChunk(Slot(last + (Unread + i)), wpkt, i < m - 1)  BY <3>1, <1>1
    <3>3. desc[Slot(last + (k - 1))].next  BY <3>1, <3>2 DEF HoldsChunk
    <3>4. QED  BY <3>1, <3>3, <1>2
  <2>4. QED  BY <2>1, <2>2, <2>3, <1>1
<1>3. QED  BY <1>1, <1>2 DEF UnreadInv, ChainAt, HoldsChunk, Contents

\* What a release does to the indices and the slots: nothing, or it passes the
\* first chain, whose packet is delivered.
LEMMA Passed ==
  ASSUME RingInv, ReadReleaseMaster \/ ReadReleaseSlave
  PROVE  /\ UNCHANGED <<desc, buf>>
         /\ \/ UNCHANGED <<last, got>> /\ Unread' = Unread
            \/ \E p \in Packets :
                 /\ ChainAt(0, p) /\ got' = Stored(p)
                 /\ Unread' = Unread - Chunks(p)
                 /\ \A k \in Int : Slot(last' + k) = Slot(last + (k + Chunks(p)))
<1>1. /\ Produced \in Idx /\ last \in Idx /\ Unread \in 0 .. Size
      /\ Size \in Nat /\ IdxMod \in Nat /\ Size < IdxMod
  BY Distances, RingAssumption DEF RingInv, WriteInv
<1>2. /\ last' = U16(rslot) /\ Produced' = Produced /\ UNCHANGED <<desc, buf>>
      /\ got' = IF roff = 0 THEN got ELSE rpkt
  BY DEF ReadReleaseMaster, ReadReleaseSlave, Produced, Deliver, shared
<1>3. rslot \in Int  BY RingAssumption DEF RingInv, WriteInv, IInv, TypeOK
<1>4. \/ Copied = 0 /\ roff = 0
      \/ \E p \in Packets : Copying(p) /\ Copied = Chunks(p)
  BY DEF RingInv, ReadingInv, ReadReleaseMaster, ReadReleaseSlave
<1>5. CASE Copied = 0 /\ roff = 0
  <2>1. rslot = last  BY <1>1, <1>3, <1>5 DEF Copied, Idx
  <2>2. last' = last  BY <2>1, <1>1, <1>2, U16Value DEF Idx
  <2>3. Unread' = Unread  BY <2>2, <1>2 DEF Unread
  <2>4. QED  BY <2>2, <2>3, <1>2, <1>5
<1>6. ASSUME NEW p \in Packets, Copying(p), Copied = Chunks(p)
      PROVE  /\ ChainAt(0, p) /\ got' = Stored(p)
             /\ Unread' = Unread - Chunks(p)
             /\ \A k \in Int : Slot(last' + k) = Slot(last + (k + Chunks(p)))
  <2> DEFINE m == Chunks(p)
  <2>1. /\ ChainAt(0, p) /\ rpkt = Stored(p) /\ roff = m * Len(Chunk(p))
    BY <1>6 DEF Copying, Stored
  <2>2. m \in Nat \ {0} /\ roff # 0
    <3>1. m \in Nat \ {0}  BY ChunksType
    <3>2. QED  BY <3>1, <2>1, StoredType
  <2> HIDE DEF m
  <2>3. rslot = last + m
    <3>1. rslot - last = m  BY <1>6 DEF Copied, m
    <3>2. QED  BY <3>1, <1>1, <1>3 DEF Idx
  <2>4. m <= Unread
    <3>1. 0 + m <= Unread  BY <2>1 DEF ChainAt, m
    <3>2. QED  BY <3>1, <2>2
  <2>5. last' \in Idx /\ Unread' = Unread - m
    <3>1. m <= U16(Produced - last)  BY <2>4 DEF Unread
    <3>2. /\ U16(last + m) \in Idx
          /\ U16(Produced - U16(last + m)) = U16(Produced - last) - m
      BY <3>1, <2>2, <1>1, Retreat
    <3>3. QED  BY <3>2, <2>3, <1>2 DEF Unread
  <2>6. U16(last' - last) = m
    <3>1. U16(last - last) = 0  BY <1>1, U16Value DEF Idx
    <3>2. U16(last - last) + m < IdxMod  BY <3>1, <2>2, <2>4, <1>1
    <3>3. U16(U16(last + m) - last) = U16(last - last) + m
      BY <3>2, <2>2, <1>1, Advance
    <3>4. QED  BY <3>1, <3>3, <2>2, <2>3, <1>2
  <2>7. ASSUME NEW k \in Int PROVE Slot(last' + k) = Slot(last + (k + m))
    <3>1. Slot(last' + k) = Slot(last + m + k)  BY <2>5, <2>6, <1>1, SlotShift
    <3>2. last + m + k = last + (k + m)  BY <2>2, <1>1 DEF Idx
    <3>3. QED  BY <3>1, <3>2
  <2>8. QED  BY <2>1, <2>2, <2>5, <2>7, <1>2 DEF m
<1>7. QED  BY <1>2, <1>4, <1>5, <1>6

\* The chain behind the one released comes first.
LEMMA ReleaseChains ==
  ASSUME RingInv, ReadReleaseMaster \/ ReadReleaseSlave
  PROVE  UnreadInv'
<1>1. [Next]_vars  BY DEF Next, Reader
<1>2. CASE UNCHANGED <<last, got>> /\ Unread' = Unread
  BY <1>1, <1>2, SameChains DEF RingInv, WriteInv
<1>3. ASSUME NEW p \in Packets, ChainAt(0, p), Unread' = Unread - Chunks(p),
             \A k \in Int : Slot(last' + k) = Slot(last + (k + Chunks(p)))
      PROVE  UnreadInv'
  <2> DEFINE m == Chunks(p)
  <2>1. m \in Nat \ {0} /\ Unread \in Nat  BY ChunksType, Distances DEF RingInv, WriteInv
  <2>2. UNCHANGED <<desc, buf>>  BY Passed
  <2>3. ~desc[Slot(last + (m - 1))].next
    <3> DEFINE i == m - 1
    <3>1. i \in 0 .. m - 1 /\ 0 + i = i /\ (i < m - 1) = FALSE  BY <2>1
    <3>2. HoldsChunk(Slot(last + (0 + i)), p, i < m - 1)
      <4> HIDE DEF i
      <4>1. QED  BY <3>1, <1>3 DEF ChainAt
    <3> HIDE DEF i, m
    <3>3. desc[Slot(last + i)].next = FALSE  BY <3>1, <3>2 DEF HoldsChunk
    <3>4. QED  BY <3>3 DEF i
  <2> HIDE DEF m
  <2>4. \A k \in Int : Slot(last' + k) = Slot(last + (k + m))  BY <1>3 DEF m
  <2>5. Unread' = Unread - m  BY <1>3 DEF m
  <2>6. ASSUME NEW k \in 0 .. Unread' - 1,
               k > 0 => ~desc[Slot(last' + (k - 1))].next
        PROVE  \E q \in Packets :
                 /\ k + Chunks(q) <= Unread'
                 /\ \A i \in 0 .. Chunks(q) - 1 :
                      HoldsChunk(Slot(last' + (k + i)), q, i < Chunks(q) - 1)
    <3>1. k + m \in 0 .. Unread - 1 /\ k \in Nat  BY <2>1, <2>5
    <3>2. ~desc[Slot(last + ((k + m) - 1))].next
      <4>1. CASE k = 0
        <5>1. (k + m) - 1 = m - 1  BY <4>1, <2>1
        <5>2. QED  BY <5>1, <2>3
      <4>2. CASE k > 0
        <5>1. k - 1 \in Int /\ (k - 1) + m = (k + m) - 1  BY <3>1, <2>1
        <5>2. Slot(last' + (k - 1)) = Slot(last + ((k + m) - 1))
          BY <5>1, <2>4
        <5>3. QED  BY <5>2, <4>2, <2>6
      <4>3. QED  BY <4>1, <4>2, <3>1
    <3>3. PICK q \in Packets : ChainAt(k + m, q)
      BY <3>1, <3>2 DEF RingInv, UnreadInv
    <3>4. Chunks(q) \in Nat  BY ChunksType
    <3>5. k + Chunks(q) <= Unread'
      <4>1. k + m + Chunks(q) <= Unread  BY <3>3 DEF ChainAt
      <4>2. QED  BY <4>1, <3>1, <3>4, <2>1, <2>5
    <3>6. ASSUME NEW i \in 0 .. Chunks(q) - 1
          PROVE  HoldsChunk(Slot(last' + (k + i)), q, i < Chunks(q) - 1)
      <4>1. k + i \in Int /\ (k + i) + m = (k + m) + i  BY <3>1, <3>4, <2>1
      <4>2. Slot(last' + (k + i)) = Slot(last + ((k + m) + i))  BY <4>1, <2>4
      <4>3. HoldsChunk(Slot(last + ((k + m) + i)), q, i < Chunks(q) - 1)
        BY <3>3 DEF ChainAt
      <4>4. QED  BY <4>2, <4>3
    <3>7. QED  BY <3>5, <3>6
  <2>7. QED  BY <2>2, <2>6 DEF UnreadInv, ChainAt, HoldsChunk, Contents
<1>4. QED  BY <1>2, <1>3, Passed

-----------------------------------------------------------------------------
(* The reader's side of the invariant. *)

\* A step that leaves the reader where it is leaves its chain where it is.
LEMMA SameReader ==
  ASSUME RingInv, [Next]_vars, UNCHANGED <<rpc, last, rslot, rpkt, roff>>,
         Unread' >= Unread
  PROVE  ReadingInv'
<1>1. ASSUME NEW p \in Packets, ChainAt(0, p) PROVE ChainAt(0, p)'
  BY <1>1, ChainKept DEF RingInv, WriteInv
<1>2. Copied' = Copied  BY DEF Copied
<1>3. ASSUME NEW p \in Packets, Copying(p) PROVE Copying(p)'
  <2>1. ChainAt(0, p)'  BY <1>1, <1>3 DEF Copying
  <2>2. /\ Copied <= Chunks(p) /\ rpkt = Repeat(Chunk(p), Copied)
        /\ roff = Copied * Len(Chunk(p))
    BY <1>3 DEF Copying
  <2>3. QED  BY <2>1, <2>2, <1>2 DEF Copying
<1>4. ReadingInv  BY DEF RingInv
<1>5. rpc = "copy" => \E p \in Packets : (Copying(p) /\ Copied < Chunks(p))'
  BY <1>2, <1>3, <1>4 DEF ReadingInv
<1>6. rpc = "release" =>
        \/ Copied' = 0 /\ roff' = 0
        \/ \E p \in Packets : (Copying(p) /\ Copied = Chunks(p))'
  BY <1>2, <1>3, <1>4 DEF ReadingInv
<1>7. QED  BY <1>4, <1>5, <1>6 DEF ReadingInv

\* The reader begins with the first chain, if there is one.
LEMMA ReadBeginReading ==
  ASSUME RingInv, ReadBegin
  PROVE  ReadingInv'
<1>1. Unread' = Unread /\ UNCHANGED <<last, desc, buf>> /\ [Next]_vars
  BY SameDistances DEF ReadBegin, shared, Next, Reader
<1>2. Unread \in 0 .. Size /\ last \in Int
  BY Distances DEF RingInv, WriteInv, Idx
<1>3. Copied' = 0 /\ rpkt' = <<>> /\ roff' = 0
      /\ rpc' = IF Unread = 0 THEN "release" ELSE "copy"
  BY <1>2 DEF ReadBegin, Copied
<1>4. CASE Unread = 0  BY <1>3, <1>4 DEF ReadingInv
<1>5. CASE Unread # 0
  <2>1. 0 \in 0 .. Unread - 1 /\ 0 \in Nat /\ Unread' >= Unread  BY <1>1, <1>2, <1>5
  <2>2. PICK p \in Packets : ChainAt(0, p)  BY <2>1 DEF RingInv, UnreadInv
  <2>3. ChainAt(0, p)'  BY <2>1, <2>2, <1>1, ChainKept DEF RingInv, WriteInv
  <2>4. /\ Chunk(p) \in Seq(Cells) /\ Len(Chunk(p)) \in Nat \ {0}
        /\ Chunks(p) \in Nat \ {0}
    BY ChunkType, ChunksType, RingAssumption
  <2>5. Repeat(Chunk(p), 0) = <<>> /\ 0 * Len(Chunk(p)) = 0  BY <2>4, RepeatNone
  <2>6. Copying(p)'  BY <2>3, <2>4, <2>5, <1>3 DEF Copying
  <2>7. (Copied < Chunks(p))'  BY <2>4, <1>3
  <2>8. QED  BY <2>6, <2>7, <1>3, <1>5 DEF ReadingInv
<1>6. QED  BY <1>4, <1>5

\* It copies one chunk more, which has room.
LEMMA ReadCopyReading ==
  ASSUME StoredFits, RingInv, ReadCopy
  PROVE  ReadingInv'
<1> DEFINE s == Slot(rslot)
           j == Copied
<1>1. /\ Unread' = Unread /\ UNCHANGED <<last, desc, buf>> /\ [Next]_vars
  BY SameDistances DEF ReadCopy, shared, Next, Reader
<1>2. PICK p \in Packets : Copying(p) /\ Copied < Chunks(p)
  BY DEF RingInv, ReadingInv, ReadCopy
<1> DEFINE m == Chunks(p)
           c == Chunk(p)
           L == Len(c)
<1>3. /\ c \in Seq(Cells) /\ L \in Nat \ {0} /\ m \in Nat \ {0} /\ ReadCap \in Nat
      /\ m * L <= ReadCap
  BY ChunkType, ChunksType, StoredType, RingAssumption DEF StoredFits
<1>4. /\ last \in Int /\ j \in 0 .. m - 1 /\ rslot = last + (0 + j)
      /\ Unread \in Nat /\ s \in Slots
  <2>1. last \in Int /\ Unread \in 0 .. Size
    BY Distances DEF RingInv, WriteInv, Idx
  <2>2. rslot \in Int /\ rslot >= last
    BY <2>1, RingAssumption
    DEF RingInv, WriteInv, IInv, TypeOK, IndexInv, ReaderInv, ReadCopy
  <2>3. QED  BY <2>1, <2>2, <1>2, <1>3, SlotType DEF Copied
<1>5. desc[s].next = (j < m - 1) /\ Contents(s) = c
  BY <1>2, <1>4 DEF Copying, ChainAt, HoldsChunk
<1>6. desc[s].length = L
  <2>1. desc[s].length \in Nat
    BY <1>4, RingAssumption DEF RingInv, WriteInv, IInv, TypeOK, Descs
  <2>2. Len(Contents(s)) = desc[s].length  BY <2>1 DEF Contents
  <2>3. QED  BY <2>2, <1>5
<1>7. rpkt = Repeat(c, j) /\ roff = j * L /\ ChainAt(0, p)  BY <1>2 DEF Copying
<1> HIDE DEF s, j, m, c, L
<1>8. (j + 1) * L = j * L + L /\ (j + 1) * L <= ReadCap /\ j * L \in Nat
  <2>1. (j + 1) * L <= m * L  BY <1>3, <1>4
  <2>2. (j + 1) * L = j * L + L /\ j * L \in Nat  BY <1>3, <1>4
  <2>3. m * L \in Nat  BY <1>3
  <2>4. QED  BY <2>1, <2>2, <2>3, <1>3
<1>9. Prefix(rpkt \o Contents(s), ReadCap) = Repeat(c, j + 1)
  <2> DEFINE r == Repeat(c, j + 1)
  <2>1. rpkt \o Contents(s) = r
    <3>1. j \in Nat /\ Len(c) # 0  BY <1>3, <1>4 DEF L
    <3>2. Repeat(c, j) \o c = r  BY <3>1, <1>3, RepeatMore
    <3>3. QED  BY <3>2, <1>5, <1>7
  <2>2. r \in Seq(Cells) /\ Len(r) = (j + 1) * L
    <3>1. j + 1 \in Nat  BY <1>4
    <3>2. QED  BY <3>1, <1>3, RepeatType DEF L
  <2> HIDE DEF r
  <2>3. MinOf(ReadCap, Len(r)) = Len(r)  BY <2>2, <1>3, <1>8 DEF MinOf
  <2>4. SubSeq(r, 1, Len(r)) = r  BY <2>2
  <2>5. QED  BY <2>1, <2>3, <2>4 DEF Prefix, r
<1>10. /\ rpkt' = Repeat(c, j + 1) /\ roff' = (j + 1) * L /\ Copied' = j + 1
  <2>1. /\ rpkt' = Prefix(rpkt \o Contents(s), ReadCap)
        /\ roff' = roff + desc[s].length /\ rslot' = rslot + 1
    BY DEF ReadCopy, s
  <2>2. Copied' = j + 1  BY <2>1, <1>1, <1>4 DEF Copied
  <2>3. QED  BY <2>1, <2>2, <1>6, <1>7, <1>8, <1>9
<1>11. ChainAt(0, p)'
  <2>1. 0 \in Nat /\ Unread' >= Unread  BY <1>1, <1>4
  <2>2. QED  BY <2>1, <1>1, <1>7, ChainKept DEF RingInv, WriteInv
<1>12. Copying(p)'
  <2>1. j + 1 <= m  BY <1>3, <1>4
  <2>2. QED  BY <2>1, <1>10, <1>11 DEF Copying, c, L, m
<1>13. CASE j = m - 1
  <2>1. ~desc[s].next
    <3>1. (j < m - 1) = FALSE  BY <1>3, <1>13
    <3>2. QED  BY <3>1, <1>5
  <2>2. rpc' = "release"  BY <2>1 DEF ReadCopy, s
  <2>3. Copied' = m  BY <1>3, <1>10, <1>13
  <2>4. (Copied = Chunks(p))'  BY <2>3 DEF m
  <2>5. QED  BY <2>2, <2>4, <1>12 DEF ReadingInv
<1>14. CASE j # m - 1
  <2>1. desc[s].next /\ j + 1 < m
    <3>1. (j < m - 1) = TRUE /\ j + 1 < m  BY <1>3, <1>4, <1>14
    <3>2. QED  BY <3>1, <1>5
  <2>2. rpc' # "incomplete"
    BY <1>1, NextChain DEF RingInv, WriteInv, ChainInv
  <2>3. ~(roff + desc[s].length > ReadCap)  BY <1>3, <1>6, <1>7, <1>8
  <2>4. rpc' = "copy"
    <3>1. rpc' = IF ravail - 1 = 0 THEN "incomplete" ELSE "copy"
      BY <2>1, <2>3 DEF ReadCopy, s
    <3>2. QED  BY <3>1, <2>2
  <2>5. (Copied < Chunks(p))'  BY <2>1, <1>10 DEF m
  <2>6. QED  BY <2>4, <2>5, <1>12 DEF ReadingInv
<1>15. QED  BY <1>13, <1>14

LEMMA NextReading ==
  ASSUME StoredFits, RingInv, [Next]_vars
  PROVE  ReadingInv'
<1>1. CASE ReadBegin  BY <1>1, ReadBeginReading
<1>2. CASE ReadCopy   BY <1>2, ReadCopyReading
<1>3. CASE ReadReleaseMaster \/ ReadReleaseSlave \/ Refill \/ RefillPublish
  BY <1>3
  DEF ReadReleaseMaster, ReadReleaseSlave, Refill, RefillPublish, ReaderReturns,
      ReadingInv, Copied, RingInv
<1>4. CASE WritePublish
  <2>1. UNCHANGED rvars /\ Unread' >= Unread
    <3>1. /\ UNCHANGED rvars /\ Unread \in Nat /\ Unread' = Unread + Chunks(wpkt)
          /\ Chunks(wpkt) \in Nat \ {0}
      BY <1>4, Published DEF RingInv
    <3>2. QED  BY <3>1
  <2>2. QED  BY <2>1, SameReader DEF rvars
<1>5. CASE UNCHANGED <<head, tail, last>> /\ UNCHANGED <<rpc, rslot, rpkt, roff>>
  <2>1. Unread' = Unread /\ Unread \in 0 .. Size
    BY <1>5, SameDistances, Distances DEF RingInv, WriteInv
  <2>2. Unread' >= Unread  BY <2>1
  <2>3. QED  BY <2>2, <1>5, SameReader
<1>6. CASE \/ \E p \in Packets : WriteBegin(p)
           \/ WriteFill \/ WriteChain \/ WriteAbort \/ WriteLast
           \/ UNCHANGED vars
  BY <1>5, <1>6
  DEF WriteBegin, WriteFill, WriteChain, WriteAbort, WriteLast, vars, shared, rvars
<1>7. QED
  BY <1>1, <1>2, <1>3, <1>4, <1>6 DEF Next, Writer, WriterStep, Reader

-----------------------------------------------------------------------------
(* The invariant of the ring. *)

LEMMA InitRing == Init => RingInv
<1> SUFFICES ASSUME Init PROVE RingInv  OBVIOUS
<1>1. WriteInv /\ ChainInv  BY InitWrite, InitChain
<1>2. Unread = 0
  <2>1. U16(0) = 0  BY RingAssumption, U16Value DEF Idx
  <2>2. QED  BY <2>1 DEF Init, Unread, Produced
<1>3. UnreadInv  BY <1>2 DEF UnreadInv
<1>4. ReadingInv  BY DEF Init, ReadingInv
<1>5. QED  BY <1>1, <1>3, <1>4 DEF RingInv

\* Only publishing and releasing change which slots are unread.
LEMMA RingStep ==
  ASSUME IInv, [Next]_vars
  PROVE  \/ WritePublish
         \/ ReadReleaseMaster \/ ReadReleaseSlave
         \/ UNCHANGED <<last, got>> /\ Unread' = Unread
<1>1. CASE RefillPublish
  <2>1. WriterIsMaster
    BY <1>1, RingAssumption DEF IInv, IndexInv, ReaderInv, RefillPublish
  <2>2. UNCHANGED <<last, got>> /\ Unread' = Unread
    BY <1>1, <2>1 DEF RefillPublish, Unread, Produced
  <2>3. QED  BY <2>2
<1>2. CASE UNCHANGED <<head, tail, last, got>>
  BY <1>2, SameDistances
<1>3. QED
  BY <1>1, <1>2
  DEF Next, Writer, WriterStep, Reader, WriteBegin, WriteFill, WriteChain,
      WriteAbort, WriteLast, ReadBegin, ReadCopy, Refill, vars, shared, rvars

LEMMA NextRing ==
  ASSUME StoredFits, RingInv, [Next]_vars
  PROVE  RingInv'
<1>1. IInv /\ WriteInv /\ ChainInv /\ UnreadInv  BY DEF RingInv, WriteInv
<1>2. WriteInv'  BY <1>1, NextIInv, NextFull, NextWriting DEF WriteInv
<1>3. ChainInv'  BY <1>1, NextChain
<1>4. UnreadInv'
  <2>1. CASE WritePublish  BY <1>1, <2>1, PublishChains
  <2>2. CASE ReadReleaseMaster \/ ReadReleaseSlave  BY <2>2, ReleaseChains
  <2>3. CASE UNCHANGED <<last, got>> /\ Unread' = Unread
    BY <1>1, <2>3, SameChains
  <2>4. QED  BY <1>1, <2>1, <2>2, <2>3, RingStep
<1>5. ReadingInv'  BY NextReading
<1>6. QED  BY <1>2, <1>3, <1>4, <1>5 DEF RingInv

\* The invariant holds of every ring that stores no more than the reader takes.
LEMMA RingInvariant ==
  ASSUME StoredFits PROVE Spec => []RingInv
<1>1. RingInv /\ [Next]_vars => RingInv'  BY NextRing
<1>2. QED  BY <1>1, InitRing, PTL DEF Spec

-----------------------------------------------------------------------------
(* The queue. *)

UnreadSlots == [k \in 1 .. Unread |-> Slot(last + k - 1)]

\* The queue is what any decoding of the unread slots ends with, and there is
\* one.
QueueFact ==
  /\ Unread \in Nat /\ last \in Int
  /\ UnreadSlots \in Seq(Slots) /\ Len(UnreadSlots) = Unread
  /\ \A k \in 1 .. Unread : UnreadSlots[k] = Slot(last + (k - 1))
  /\ \E F : Decoding(F, UnreadSlots) /\ Len(F[Unread].done) <= Unread
  /\ \A F : Decoding(F, UnreadSlots) => QueueContents = F[Unread].done

LEMMA QueueDecoded ==
  ASSUME RingInv
  PROVE  QueueFact
<1>1. Unread \in Nat /\ last \in Int /\ TypeOK
  BY Distances DEF RingInv, WriteInv, IInv, Idx
<1>2. \A k \in 1 .. Unread : last + k - 1 = last + (k - 1) /\ last + k - 1 \in Int
  BY <1>1
<1>3. \A k \in 1 .. Unread : Slot(last + k - 1) \in Slots  BY <1>2, SlotType
<1>4. UnreadSlots \in Seq(Slots) /\ Len(UnreadSlots) = Unread
      /\ \A k \in 1 .. Unread : UnreadSlots[k] = Slot(last + (k - 1))
  BY <1>1, <1>2, <1>3 DEF UnreadSlots
<1>5. QueueContents = Decode(UnreadSlots)  BY DEF QueueContents, UnreadSlots
<1>6. \E F : Decoding(F, UnreadSlots) /\ Len(F[Unread].done) <= Unread
  BY <1>1, <1>4, DecodingExists
<1>7. \A F : Decoding(F, UnreadSlots) => QueueContents = F[Unread].done
  BY <1>4, <1>5, DecodeIs
<1>8. QED  BY <1>1, <1>4, <1>6, <1>7 DEF QueueFact

\* Slots that stay as they are keep their decodings.
LEMMA SameDecoding ==
  ASSUME NEW slots, NEW F, Decoding(F, slots),
         \A n \in 1 .. Len(slots) :
           desc'[slots[n]] = desc[slots[n]] /\ buf'[slots[n]] = buf[slots[n]]
  PROVE  Decoding(F, slots)'
BY DEF Decoding, AddSlot, Contents

\* The queue after a step, from a decoding of the slots that are unread then.
LEMMA QueueAfter ==
  ASSUME QueueFact', NEW slots, slots = UnreadSlots', NEW F, Decoding(F, slots)'
  PROVE  QueueContents' = F[Len(slots)].done
<1>1. Len(slots) = Unread'  BY DEF QueueFact
<1>2. Decoding(F, UnreadSlots)'  BY DEF Decoding, AddSlot, Contents
<1>3. QED  BY <1>1, <1>2 DEF QueueFact

\* A packet published joins the others at the end.
LEMMA PublishAppends ==
  ASSUME RingInv, QueueFact, QueueFact', WritePublish
  PROVE  /\ wpkt \in Packets /\ Len(QueueContents) < Size
         /\ QueueContents' = Append(QueueContents, Stored(wpkt)) /\ UNCHANGED got
<1> DEFINE m == Chunks(wpkt)
<1>1. /\ wpkt \in Packets /\ m \in Nat \ {0}
      /\ Unread \in Nat /\ Unread' = Unread + m /\ Unread' <= Size
      /\ UNCHANGED <<last, desc, buf, got>>
      /\ \A i \in 0 .. m - 1 : HoldsChunk(Slot(last + (Unread + i)), wpkt, i < m - 1)
      /\ Size \in Nat /\ TypeOK
  BY Published, RingAssumption DEF RingInv, WriteInv, IInv
<1> HIDE DEF m
<1>2. PICK u : u = UnreadSlots  OBVIOUS
<1>3. PICK v : v = UnreadSlots'  OBVIOUS
<1>4. /\ u \in Seq(Slots) /\ Len(u) = Unread
      /\ \A k \in 1 .. Unread : u[k] = Slot(last + (k - 1))
  BY <1>2 DEF QueueFact
<1>5. /\ v \in Seq(Slots) /\ Len(v) = Unread + m
      /\ \A k \in 1 .. Unread + m : v[k] = Slot(last + (k - 1))
  BY <1>1, <1>3 DEF QueueFact
<1>6. PICK F : Decoding(F, u) /\ Len(F[Unread].done) <= Unread
  BY <1>2 DEF QueueFact
<1>7. QueueContents = F[Unread].done  BY <1>2, <1>6 DEF QueueFact
<1>8. F[Len(u)].open = <<>>
  <2>1. Len(u) > 0 => ~desc[u[Len(u)]].next
    <3> SUFFICES ASSUME Unread > 0 PROVE ~desc[u[Unread]].next  BY <1>4
    <3>1. ~desc[Slot(last + Unread - 1)].next  BY DEF RingInv, ChainInv
    <3>2. last + Unread - 1 = last + (Unread - 1) /\ Unread \in 1 .. Unread
      BY <1>1 DEF QueueFact
    <3>3. QED  BY <3>1, <3>2, <1>4
  <2>2. QED  BY <2>1, <1>4, <1>6, ChainEnds
<1>9. ASSUME NEW i \in 1 .. m
      PROVE  HoldsChunk(v[Len(u) + i], wpkt, i < m)
  <2>1. /\ Unread + i \in 1 .. Unread + m /\ (Unread + i) - 1 = Unread + (i - 1)
        /\ i - 1 \in 0 .. m - 1 /\ (i - 1 < m - 1) = (i < m)
    BY <1>1
  <2>2. v[Unread + i] = Slot(last + (Unread + (i - 1)))  BY <2>1, <1>5
  <2>3. HoldsChunk(Slot(last + (Unread + (i - 1))), wpkt, i - 1 < m - 1)
    BY <2>1, <1>1
  <2>4. QED  BY <2>1, <2>2, <2>3, <1>4
<1>10. Decode(v) = Append(F[Len(u)].done, Stored(wpkt))
  <2>1. \A n \in 1 .. Len(u) : v[n] = u[n]
    <3>1. \A n \in 1 .. Unread : n \in 1 .. Unread + m  BY <1>1
    <3>2. QED  BY <3>1, <1>4, <1>5
  <2>2. Len(v) = Len(u) + Chunks(wpkt)  BY <1>4, <1>5 DEF m
  <2>3. \A i \in 1 .. Chunks(wpkt) : HoldsChunk(v[Len(u) + i], wpkt, i < Chunks(wpkt))
    BY <1>9 DEF m
  <2>4. QED
    BY <2>1, <2>2, <2>3, <1>1, <1>4, <1>5, <1>6, <1>8, AppendChain
<1>11. PICK G : Decoding(G, v)  BY <1>1, <1>5, DecodingExists
<1>12. Decode(v) = G[Len(v)].done  BY <1>5, <1>11, DecodeIs
<1>13. Decoding(G, v)'  BY <1>1, <1>11, SameDecoding
<1>14. QueueContents' = G[Len(v)].done  BY <1>3, <1>13, QueueAfter
<1>15. Len(QueueContents) < Size
  <2>1. Len(QueueContents) \in Nat
    <3>1. F[Len(u)] \in Acc  BY <1>4, <1>6 DEF Decoding
    <3>2. QED  BY <3>1, <1>4, <1>7 DEF Acc
  <2>2. QED  BY <2>1, <1>1, <1>6, <1>7
<1>16. QED  BY <1>1, <1>4, <1>7, <1>10, <1>12, <1>14, <1>15

\* The packet of the first chain leaves when the chain is released.
LEMMA ReleaseRemoves ==
  ASSUME RingInv, QueueFact, QueueFact', UNCHANGED <<desc, buf>>,
         NEW p \in Packets, ChainAt(0, p),
         Unread' = Unread - Chunks(p),
         \A k \in Int : Slot(last' + k) = Slot(last + (k + Chunks(p)))
  PROVE  /\ QueueContents # <<>> /\ Head(QueueContents) = Stored(p)
         /\ QueueContents' = Tail(QueueContents)
<1> DEFINE m == Chunks(p)
<1>1. /\ m \in Nat \ {0} /\ Unread \in Nat /\ Unread' \in Nat /\ Unread = m + Unread'
      /\ \A k \in Int : Slot(last' + k) = Slot(last + (k + m))
      /\ \A i \in 0 .. m - 1 : HoldsChunk(Slot(last + (0 + i)), p, i < m - 1)
      /\ TypeOK
  BY ChunksType DEF QueueFact, ChainAt, RingInv, WriteInv, IInv
<1> HIDE DEF m
<1>2. PICK u : u = UnreadSlots  OBVIOUS
<1>3. PICK v : v = UnreadSlots'  OBVIOUS
<1>4. /\ u \in Seq(Slots) /\ Len(u) = Unread
      /\ \A k \in 1 .. Unread : u[k] = Slot(last + (k - 1))
  BY <1>2 DEF QueueFact
<1>5. /\ v \in Seq(Slots) /\ Len(v) = Unread'
      /\ \A k \in 1 .. Unread' : v[k] = Slot(last' + (k - 1))
  BY <1>3 DEF QueueFact
<1>6. PICK G : Decoding(G, v)  BY <1>1, <1>5, DecodingExists
<1>7. Decoding(G, v)'  BY <1>6, SameDecoding
<1>8. QueueContents' = G[Len(v)].done  BY <1>3, <1>7, QueueAfter
<1>9. QueueContents = Decode(u)
  BY <1>2 DEF QueueContents, UnreadSlots
<1>10. ASSUME NEW n \in 1 .. Len(v) PROVE u[m + n] = v[n]
  <2>1. /\ n \in 1 .. Unread' /\ m + n \in 1 .. Unread /\ n - 1 \in Int
        /\ (m + n) - 1 = (n - 1) + m
    <3>1. n \in 1 .. Unread'  BY <1>5
    <3>2. m \in Nat /\ Unread' \in Nat /\ Unread = m + Unread'  BY <1>1
    <3>3. QED  BY <3>1, <3>2
  <2>2. v[n] = Slot(last' + (n - 1)) /\ u[m + n] = Slot(last + ((m + n) - 1))
    BY <2>1, <1>4, <1>5
  <2>3. QED  BY <2>1, <2>2, <1>1
<1>11. ASSUME NEW i \in 1 .. m PROVE HoldsChunk(u[i], p, i < m)
  <2>1. /\ i \in 1 .. Unread /\ i - 1 \in 0 .. m - 1 /\ 0 + (i - 1) = i - 1
        /\ (i - 1 < m - 1) = (i < m)
    BY <1>1
  <2>2. HoldsChunk(Slot(last + (0 + (i - 1))), p, i - 1 < m - 1)  BY <2>1, <1>1
  <2>3. QED  BY <2>1, <2>2, <1>4
<1>12. Decode(u) = <<Stored(p)>> \o G[Len(v)].done
  <2>1. Len(u) = Chunks(p) + Len(v)  BY <1>1, <1>4, <1>5 DEF m
  <2>2. QED
    BY <2>1, <1>1, <1>4, <1>5, <1>6, <1>10, <1>11, RemoveChain DEF m
<1> DEFINE rest == G[Len(v)].done
<1>13. rest \in Seq(Seq(Cells)) /\ Stored(p) \in Seq(Cells)
  <2>1. G[Len(v)] \in Acc  BY <1>5, <1>6 DEF Decoding
  <2>2. QED  BY <2>1, StoredType DEF Acc
<1> HIDE DEF rest
<1>14. QueueContents = <<Stored(p)>> \o rest /\ QueueContents' = rest
  BY <1>8, <1>9, <1>12 DEF rest
<1>15. QED
  <2> DEFINE q == Stored(p)
             w == <<q>> \o rest
  <2>1. q \in Seq(Cells)  BY <1>13
  <2> HIDE DEF q
  <2>2. w # <<>> /\ Head(w) = q /\ Tail(w) = rest  BY <2>1, <1>13
  <2>3. QED  BY <2>2, <1>14 DEF q

\* Every other step leaves the queue alone.
LEMMA QueueStays ==
  ASSUME RingInv, QueueFact, QueueFact', [Next]_vars,
         UNCHANGED last, Unread' = Unread
  PROVE  UNCHANGED QueueContents
<1>1. PICK u : u = UnreadSlots  OBVIOUS
<1>2. /\ Len(u) = Unread /\ Unread \in Nat
      /\ \A k \in 1 .. Unread : u[k] = Slot(last + (k - 1))
  BY <1>1 DEF QueueFact
<1>3. u = UnreadSlots'  BY <1>1 DEF UnreadSlots, Slot
<1>4. PICK F : Decoding(F, u)  BY <1>1 DEF QueueFact
<1>5. ASSUME NEW n \in 1 .. Len(u)
      PROVE  desc'[u[n]] = desc[u[n]] /\ buf'[u[n]] = buf[u[n]]
  <2>1. n - 1 \in 0 .. Unread - 1 /\ u[n] = Slot(last + (n - 1))  BY <1>2
  <2>2. QED  BY <2>1, UnreadStep DEF RingInv, WriteInv
<1>6. Decoding(F, u)'  BY <1>4, <1>5, SameDecoding
<1>7. QueueContents' = F[Len(u)].done  BY <1>3, <1>6, QueueAfter
<1>8. QueueContents = F[Unread].done  BY <1>1, <1>4 DEF QueueFact
<1>9. QED  BY <1>2, <1>7, <1>8

-----------------------------------------------------------------------------
(* The theorems. *)

\* What WritePacket stored of a packet comes out of ReadPacket once and in the
\* order of the calls, and at most the ring's size of packets are under way.
THEOREM DeliversWhatIsStored ==
  ASSUME StoredFits PROVE Spec => FifoStored!Spec
<1>1. Init => FifoStored!Init
  <2> SUFFICES ASSUME Init PROVE QueueContents = <<>> /\ got = <<>>
    BY DEF FifoStored!Init
  <2>1. QueueFact  BY InitRing, QueueDecoded
  <2>2. Unread = 0
    <3>1. U16(0) = 0  BY RingAssumption, U16Value DEF Idx
    <3>2. QED  BY <3>1 DEF Init, Unread, Produced
  <2>3. PICK F : Decoding(F, UnreadSlots)  BY <2>1 DEF QueueFact
  <2>4. QueueContents = F[0].done  BY <2>1, <2>2, <2>3 DEF QueueFact
  <2>5. F[0] = Empty  BY <2>3 DEF Decoding
  <2>6. QED  BY <2>4, <2>5 DEF Empty, Init
<1>2. Spec => [](RingInv /\ QueueFact)
  <2>1. RingInv => QueueFact  BY QueueDecoded
  <2>2. QED  BY <2>1, RingInvariant, PTL
<1>3. RingInv /\ QueueFact /\ (RingInv /\ QueueFact)' /\ [Next]_vars
        => [FifoStored!Next]_FifoStored!vars
  <2> SUFFICES ASSUME RingInv, QueueFact, QueueFact', [Next]_vars
               PROVE  [FifoStored!Next]_FifoStored!vars
    OBVIOUS
  <2>1. CASE WritePublish
    <3>1. /\ wpkt \in Packets /\ Len(QueueContents) < Size
          /\ QueueContents' = Append(QueueContents, Stored(wpkt)) /\ UNCHANGED got
      BY <2>1, PublishAppends
    <3>2. Stored(wpkt) \in {Stored(p) : p \in Packets}  BY <3>1
    <3>3. QED  BY <3>1, <3>2 DEF FifoStored!Next, FifoStored!Put
  <2>2. CASE UNCHANGED <<last, got>> /\ Unread' = Unread
    <3>1. UNCHANGED QueueContents  BY <2>2, QueueStays
    <3>2. QED  BY <2>2, <3>1 DEF FifoStored!vars
  <2>3. CASE ReadReleaseMaster \/ ReadReleaseSlave
    <3>1. ASSUME NEW p \in Packets, ChainAt(0, p), got' = Stored(p),
                 Unread' = Unread - Chunks(p),
                 \A k \in Int : Slot(last' + k) = Slot(last + (k + Chunks(p)))
          PROVE  FifoStored!Take
      <4>1. /\ QueueContents # <<>> /\ Head(QueueContents) = Stored(p)
            /\ QueueContents' = Tail(QueueContents)
        BY <3>1, <2>3, Passed, ReleaseRemoves
      <4>2. QED  BY <4>1, <3>1 DEF FifoStored!Take
    <3>2. QED  BY <2>2, <2>3, <3>1, Passed DEF FifoStored!Next
  <2>4. IInv  BY DEF RingInv, WriteInv
  <2>5. QED  BY <2>1, <2>2, <2>3, <2>4, RingStep
<1>4. QED  BY <1>1, <1>2, <1>3, PTL DEF Spec, FifoStored!Spec

\* Packets that are stored as they are come out of ReadPacket whole, once and
\* in the order WritePacket was given them.
THEOREM DeliversInOrder ==
  ASSUME StoredFits, StoredWhole PROVE Spec => Fifo!Spec
<1>1. {Stored(p) : p \in Packets} = Packets  BY DEF StoredWhole
<1>2. FifoStored!Init => Fifo!Init  BY DEF FifoStored!Init, Fifo!Init
<1>3. [FifoStored!Next]_FifoStored!vars => [Fifo!Next]_Fifo!vars
  BY <1>1
  DEF FifoStored!Next, FifoStored!Put, FifoStored!Take, FifoStored!vars,
      Fifo!Next, Fifo!Put, Fifo!Take, Fifo!vars
<1>4. QED
  BY <1>2, <1>3, DeliversWhatIsStored, PTL DEF FifoStored!Spec, Fifo!Spec

\* ReadPacket never runs past the end of the buffer it was given.
THEOREM NeverPanics ==
  ASSUME StoredFits PROVE Spec => [](rpc # "panic")
<1>1. RingInv => rpc # "panic"  BY DEF RingInv, ReadingInv
<1>2. QED  BY <1>1, RingInvariant, PTL

\* Packets that fit one buffer, and the reader's, satisfy both hypotheses: of
\* these the ring is the queue it promises to be.
THEOREM ShortPacketsInOrder ==
  ASSUME \A p \in Packets : Len(p) <= BufSize /\ Len(p) <= ReadCap
  PROVE  Spec => Fifo!Spec /\ []WritesOnePacket /\ [](rpc # "panic")
<1>1. StoredWhole  BY OneChunk DEF StoredWhole
<1>2. StoredFits  BY <1>1 DEF StoredFits, StoredWhole
<1>3. QED  BY <1>1, <1>2, DeliversInOrder, WritesWholePackets, NeverPanics
=============================================================================
