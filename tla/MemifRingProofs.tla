--------------------------- MODULE MemifRingProofs ---------------------------
(***************************************************************************)
(* Proofs about MemifRing for every ring size, every index width that is a *)
(* multiple of it, both directions, every buffer size and packet set.      *)
(***************************************************************************)
EXTENDS MemifRing, TLAPS

-----------------------------------------------------------------------------
(* Arithmetic modulo IdxMod and modulo Size. *)

\* Division with remainder, in the form the later lemmas use it.
LEMMA DivMod ==
  ASSUME NEW x \in Int, NEW m \in Nat \ {0}
  PROVE  /\ x \div m \in Int
         /\ x % m \in 0 .. m - 1
         /\ x = m * (x \div m) + (x % m)
OBVIOUS

\* A multiple of m plus a remainder has that remainder.
LEMMA ModOfSum ==
  ASSUME NEW q \in Int, NEW m \in Nat \ {0}, NEW r \in 0 .. m - 1
  PROVE  (m * q + r) % m = r
OBVIOUS

\* The only multiple of m in 0 .. m - 1 is 0.
LEMMA SmallMultiple ==
  ASSUME NEW q \in Int, NEW m \in Nat \ {0}, 0 <= m * q, m * q < m
  PROVE  q = 0
OBVIOUS

Idx == 0 .. IdxMod - 1

\* uint16(x) for the arguments that arise: at most one modulus out of range.
LEMMA U16Value ==
  ASSUME NEW x \in Int
  PROVE  /\ U16(x) \in Idx
         /\ x \in Idx => U16(x) = x
         /\ 0 - IdxMod <= x /\ x < 0 => U16(x) = x + IdxMod
         /\ IdxMod <= x /\ x < IdxMod + IdxMod => U16(x) = x - IdxMod
BY RingAssumption DEF U16, Idx

\* Moving the leading index a forward by k lengthens the distance by k.
LEMMA Advance ==
  ASSUME NEW a \in Idx, NEW b \in Idx, NEW k \in Nat, U16(a - b) + k < IdxMod
  PROVE  /\ U16(a + k) \in Idx
         /\ U16(U16(a + k) - b) = U16(a - b) + k
<1>1. IdxMod \in Nat \ {0}  BY RingAssumption
<1>2. U16(a - b) = IF a >= b THEN a - b ELSE a - b + IdxMod
  BY <1>1, U16Value DEF Idx
<1>3. k < IdxMod  BY <1>1, <1>2 DEF Idx
<1>4. U16(a + k) = IF a + k < IdxMod THEN a + k ELSE a + k - IdxMod
  BY <1>1, <1>3, U16Value DEF Idx
<1>5. U16(a + k) \in Idx  BY U16Value DEF Idx
<1>6. U16(U16(a + k) - b) = IF U16(a + k) >= b THEN U16(a + k) - b
                                              ELSE U16(a + k) - b + IdxMod
  BY <1>1, <1>5, U16Value DEF Idx
<1>7. QED  BY <1>1, <1>2, <1>3, <1>4, <1>5, <1>6 DEF Idx

\* Moving the trailing index b forward by k, not past a, shortens it by k.
LEMMA Retreat ==
  ASSUME NEW a \in Idx, NEW b \in Idx, NEW k \in Nat, k <= U16(a - b)
  PROVE  /\ U16(b + k) \in Idx
         /\ U16(a - U16(b + k)) = U16(a - b) - k
<1>1. IdxMod \in Nat \ {0}  BY RingAssumption
<1>2. U16(a - b) = IF a >= b THEN a - b ELSE a - b + IdxMod
  BY <1>1, U16Value DEF Idx
<1>3. k < IdxMod  BY <1>1, <1>2 DEF Idx
<1>4. U16(b + k) = IF b + k < IdxMod THEN b + k ELSE b + k - IdxMod
  BY <1>1, <1>3, U16Value DEF Idx
<1>5. U16(b + k) \in Idx  BY U16Value DEF Idx
<1>6. U16(a - U16(b + k)) = IF a >= U16(b + k) THEN a - U16(b + k)
                                              ELSE a - U16(b + k) + IdxMod
  BY <1>1, <1>5, U16Value DEF Idx
<1>7. QED  BY <1>1, <1>2, <1>3, <1>4, <1>5, <1>6 DEF Idx

\* The distances from l to t and from t to h add up, if they fit.
LEMMA Chained ==
  ASSUME NEW h \in Idx, NEW t \in Idx, NEW l \in Idx,
         U16(t - l) + U16(h - t) < IdxMod
  PROVE  U16(h - l) = U16(t - l) + U16(h - t)
<1>1. IdxMod \in Nat \ {0}  BY RingAssumption
<1>2. U16(t - l) = IF t >= l THEN t - l ELSE t - l + IdxMod
  BY <1>1, U16Value DEF Idx
<1>3. U16(h - t) = IF h >= t THEN h - t ELSE h - t + IdxMod
  BY <1>1, U16Value DEF Idx
<1>4. U16(h - l) = IF h >= l THEN h - l ELSE h - l + IdxMod
  BY <1>1, U16Value DEF Idx
<1>5. QED  BY <1>1, <1>2, <1>3, <1>4 DEF Idx

\* The free slots a slave computes are those the distance leaves.
LEMMA FreeSlots ==
  ASSUME NEW a \in Idx, NEW b \in Idx, U16(a - b) <= Size
  PROVE  U16(Size - a + b) = Size - U16(a - b)
<1>1. IdxMod \in Nat \ {0} /\ Size \in Nat \ {0} /\ Size < IdxMod
  BY RingAssumption
<1>2. U16(a - b) = IF a >= b THEN a - b ELSE a - b + IdxMod
  BY <1>1, U16Value DEF Idx
<1>3. CASE a >= b
  <2>1. Size - a + b \in Idx  BY <1>1, <1>2, <1>3 DEF Idx
  <2>2. QED  BY <2>1, <1>1, <1>2, <1>3, U16Value DEF Idx
<1>4. CASE a < b
  <2>1. Size - a + b \in Int /\ IdxMod <= Size - a + b
        /\ Size - a + b < IdxMod + IdxMod
    BY <1>1, <1>2, <1>4 DEF Idx
  <2>2. QED  BY <2>1, <1>1, <1>2, <1>4, U16Value DEF Idx
<1>5. QED  BY <1>3, <1>4, <1>1 DEF Idx

\* Two positions less than Size apart have different slots.
LEMMA SlotsDiffer ==
  ASSUME NEW x \in Int, NEW y \in Int, x < y, y - x < Size
  PROVE  Slot(x) # Slot(y)
<1>1. Size \in Nat \ {0}  BY RingAssumption
<1>2. SUFFICES ASSUME x % Size = y % Size PROVE FALSE  BY DEF Slot
<1>3. /\ x = Size * (x \div Size) + (x % Size) /\ x \div Size \in Int
      /\ y = Size * (y \div Size) + (y % Size) /\ y \div Size \in Int
      /\ x % Size \in Int /\ y % Size \in Int
  BY <1>1, DivMod
<1>4. y - x = Size * ((y \div Size) - (x \div Size))  BY <1>1, <1>2, <1>3
<1>5. (y \div Size) - (x \div Size) = 0  BY <1>1, <1>3, <1>4, SmallMultiple
<1>6. QED  BY <1>1, <1>3, <1>4, <1>5

\* Shifting a position by a multiple of Size keeps its slot.
LEMMA SlotPeriod ==
  ASSUME NEW x \in Int, NEW q \in Int
  PROVE  Slot(x + Size * q) = Slot(x)
<1>1. Size \in Nat \ {0}  BY RingAssumption
<1>2. /\ x = Size * (x \div Size) + (x % Size) /\ x \div Size \in Int
      /\ x % Size \in 0 .. Size - 1
  BY <1>1, DivMod
<1> DEFINE p == (x \div Size) + q
<1>3. p \in Int  BY <1>2
<1>4. Size * p = Size * (x \div Size) + Size * q  BY <1>1, <1>2
<1>5. x + Size * q = Size * p + (x % Size)  BY <1>1, <1>2, <1>3, <1>4
<1>6. QED  BY <1>1, <1>2, <1>3, <1>5, ModOfSum DEF Slot

\* The slot j past a is the slot j + (the distance from b to a) past b: a
\* wrap of the index does not move the slots, as Size divides IdxMod.
LEMMA SlotShift ==
  ASSUME NEW a \in Idx, NEW b \in Idx, NEW j \in Int
  PROVE  Slot(a + j) = Slot(b + U16(a - b) + j)
<1>1. /\ Size \in Nat \ {0} /\ IdxMod \in Nat \ {0} /\ IdxMod % Size = 0
      /\ IdxMod \div Size \in Int /\ IdxMod = Size * (IdxMod \div Size)
  BY RingAssumption, DivMod
<1>2. U16(a - b) \in Int /\ a \in Int /\ b \in Int  BY <1>1, U16Value DEF Idx
<1>3. CASE a >= b
  <2>1. U16(a - b) = a - b  BY <1>1, <1>3, U16Value DEF Idx
  <2>2. b + U16(a - b) + j = a + j  BY <2>1, <1>2
  <2>3. QED  BY <2>2
<1>4. CASE a < b
  <2>1. U16(a - b) = a - b + IdxMod  BY <1>1, <1>4, U16Value DEF Idx
  <2>2. b + U16(a - b) + j = (a + j) + Size * (IdxMod \div Size)
    BY <2>1, <1>1, <1>2
  <2>3. a + j \in Int  BY <1>2
  <2>4. Slot((a + j) + Size * (IdxMod \div Size)) = Slot(a + j)
    BY <2>3, <1>1, SlotPeriod
  <2>5. QED  BY <2>2, <2>4
<1>5. QED  BY <1>3, <1>4, <1>2

\* uint16 of a position has the position's slot.
LEMMA SlotOfU16 ==
  ASSUME NEW x \in Int
  PROVE  Slot(U16(x)) = Slot(x)
<1>1. /\ Size \in Nat \ {0} /\ IdxMod \in Nat \ {0}
      /\ IdxMod \div Size \in Int /\ IdxMod = Size * (IdxMod \div Size)
  BY RingAssumption, DivMod
<1>2. /\ x = IdxMod * (x \div IdxMod) + (x % IdxMod)
      /\ x \div IdxMod \in Int /\ x % IdxMod \in Int
  BY <1>1, DivMod
<1> DEFINE q == (IdxMod \div Size) * (x \div IdxMod)
<1>3. q \in Int  BY <1>1, <1>2
<1>4. IdxMod * (x \div IdxMod) = Size * q  BY <1>1, <1>2
<1> HIDE DEF q
<1>5. x = (x % IdxMod) + Size * q  BY <1>1, <1>2, <1>3, <1>4
<1>6. QED  BY <1>2, <1>3, <1>5, SlotPeriod DEF U16

-----------------------------------------------------------------------------
(* Copies. *)

\* A prefix is a sequence of cells, no longer than asked for.
LEMMA PrefixType ==
  ASSUME NEW src \in Seq(Cells), NEW n \in Nat
  PROVE  /\ Prefix(src, n) \in Seq(Cells)
         /\ Len(Prefix(src, n)) = MinOf(n, Len(src))
         /\ MinOf(n, Len(src)) \in 0 .. n
<1>1. Len(src) \in Nat  OBVIOUS
<1>2. MinOf(n, Len(src)) \in 0 .. Len(src) /\ MinOf(n, Len(src)) \in 0 .. n
  BY <1>1 DEF MinOf
<1>3. SubSeq(src, 1, MinOf(n, Len(src))) \in Seq(Cells)
      /\ Len(SubSeq(src, 1, MinOf(n, Len(src)))) = MinOf(n, Len(src))
  BY <1>2
<1>4. QED  BY <1>2, <1>3 DEF Prefix

\* A buffer stays a buffer when cells are copied into it.
LEMMA OverwriteType ==
  ASSUME NEW dst \in [1 .. BufSize -> Cells], NEW src \in Seq(Cells)
  PROVE  Overwrite(dst, src) \in [1 .. BufSize -> Cells]
<1>1. ASSUME NEW k \in 1 .. BufSize
      PROVE  (IF k <= Len(src) THEN src[k] ELSE dst[k]) \in Cells
  <2>1. CASE k <= Len(src)
    <3>1. k \in 1 .. Len(src)  BY <2>1, RingAssumption
    <3>2. QED  BY <3>1, <2>1
  <2>2. CASE ~(k <= Len(src))  BY <2>2
  <2>3. QED  BY <2>1, <2>2
<1>2. QED  BY <1>1 DEF Overwrite

\* What a descriptor points at is a sequence of cells.
LEMMA ContentsType ==
  ASSUME TypeOK, NEW s \in Slots
  PROVE  Contents(s) \in Seq(Cells)
<1>1. desc[s].length \in 0 .. BufSize  BY DEF TypeOK, Descs
<1>2. buf[s] \in [1 .. BufSize -> Cells]  BY DEF TypeOK
<1>3. \A k \in 1 .. desc[s].length : buf[s][k] \in Cells
  BY <1>1, <1>2, RingAssumption
<1>4. QED  BY <1>1, <1>3 DEF Contents

\* A position has a slot.
LEMMA SlotType ==
  ASSUME NEW x \in Int
  PROVE  Slot(x) \in Slots
BY RingAssumption DEF Slot, Slots

-----------------------------------------------------------------------------
(* The inductive invariant: how far each side may be ahead of what it has  *)
(* published, in terms of the distances between the indices.               *)

WriterInv ==
  /\ wpc \in {"fill", "chain", "last"} =>
       /\ wslot >= Produced /\ wfree >= 1
       /\ (wslot - Produced) + wfree <= Available
  /\ wpc = "publish" => wslot > Produced /\ wslot - Produced <= Available

ReaderInv ==
  /\ ~WriterIsMaster => tail = last /\ rpc # "refill"
  /\ rpc = "copy" =>
       rslot >= last /\ ravail >= 1 /\ (rslot - last) + ravail <= Unread
  /\ rpc = "release" => rslot >= last /\ rslot - last <= Unread
  /\ rpc = "refill" =>
       fhead >= head /\ (fhead - head) + fill + Unread + Available <= Size

IndexInv == RingNeverOverrun /\ WriterInv /\ ReaderInv

IInv == TypeOK /\ IndexInv

\* The distances are distances, and on an S2M ring they share out the slots.
LEMMA Distances ==
  ASSUME IInv
  PROVE  /\ head \in Idx /\ tail \in Idx /\ last \in Idx /\ Produced \in Idx
         /\ Unread \in 0 .. Size /\ Available \in 0 .. Size
         /\ ~WriterIsMaster => Available = Size - Unread
         /\ WriterIsMaster => U16(head - last) = Unread + Available
<1>1. head \in Idx /\ tail \in Idx /\ last \in Idx  BY DEF IInv, TypeOK, Idx
<1>2. Size \in Nat \ {0} /\ IdxMod \in Nat \ {0} /\ Size < IdxMod
  BY RingAssumption
<1>3. Produced \in Idx  BY <1>1 DEF Produced
<1>4. Unread \in Idx /\ Available \in Idx
  BY <1>1, <1>2, <1>3, U16Value DEF Unread, Available, Idx
<1>5. Unread + Available <= Size  BY DEF IInv, IndexInv, RingNeverOverrun
<1>6. Unread \in 0 .. Size /\ Available \in 0 .. Size
  BY <1>2, <1>4, <1>5 DEF Idx
<1>7. ASSUME ~WriterIsMaster PROVE Available = Size - Unread
  <2>1. tail = last  BY <1>7 DEF IInv, IndexInv, ReaderInv
  <2>2. Unread = U16(head - tail)  BY <1>7, <2>1 DEF Unread, Produced
  <2>3. U16(head - tail) <= Size  BY <1>6, <2>2
  <2>4. U16(Size - head + tail) = Size - U16(head - tail)
    BY <1>1, <2>3, FreeSlots
  <2>5. QED  BY <1>7, <2>2, <2>4 DEF Available
<1>8. ASSUME WriterIsMaster PROVE U16(head - last) = Unread + Available
  <2>1. Unread = U16(tail - last) /\ Available = U16(head - tail)
    BY <1>8 DEF Unread, Available, Produced
  <2>2. U16(tail - last) + U16(head - tail) < IdxMod  BY <1>2, <1>4, <1>5, <2>1 DEF Idx
  <2>3. QED  BY <1>1, <2>1, <2>2, Chained
<1>9. QED  BY <1>1, <1>3, <1>6, <1>7, <1>8

\* The queues as initializeQueues leaves them.
LEMMA InitIInv == Init => IInv
<1> SUFFICES ASSUME Init PROVE IInv  OBVIOUS
<1>1. Size \in Nat \ {0} /\ IdxMod \in Nat \ {0} /\ Size < IdxMod
      /\ BufSize \in Nat \ {0} /\ Zero \in Cells /\ WriterIsMaster \in BOOLEAN
  BY RingAssumption
<1>2. TypeOK
  <2>1. desc \in [Slots -> Descs]  BY <1>1 DEF Init, Descs
  <2>2. buf \in [Slots -> [1 .. BufSize -> Cells]]  BY <1>1 DEF Init
  <2>3. wdesc \in Descs  BY <1>1 DEF Init, Descs
  <2>4. <<>> \in Seq(Cells)  OBVIOUS
  <2>5. wpkt \in Seq(Cells) /\ rpkt \in Seq(Cells) /\ got \in Seq(Cells)
    BY <2>4 DEF Init
  <2>6. head \in 0 .. IdxMod - 1 /\ tail \in 0 .. IdxMod - 1
        /\ last \in 0 .. IdxMod - 1
    BY <1>1 DEF Init
  <2>7. /\ wslot \in 0 .. IdxMod + Size /\ wfree \in 0 .. Size /\ wn \in Nat
        /\ rslot \in 0 .. IdxMod + Size /\ ravail \in 0 .. Size /\ roff \in Nat
        /\ fhead \in 0 .. IdxMod + Size /\ fill \in 0 .. Size
    BY <1>1 DEF Init
  <2>8. wpc \in {"fill", "idle", "chain", "last", "publish"} /\ rpc = "idle"
    BY DEF Init
  <2>9. QED  BY <2>1, <2>2, <2>3, <2>5, <2>6, <2>7, <2>8 DEF TypeOK
<1>3. U16(0) = 0 /\ U16(Size) = Size  BY <1>1, U16Value DEF Idx
<1>4. Unread = 0  BY <1>1, <1>3 DEF Init, Unread, Produced
<1>5. Available \in {0, Size}  BY <1>1, <1>3 DEF Init, Available
<1>6. RingNeverOverrun  BY <1>1, <1>4, <1>5 DEF RingNeverOverrun
<1>7. WriterInv /\ ReaderInv  BY DEF Init, WriterInv, ReaderInv
<1>8. QED  BY <1>2, <1>6, <1>7 DEF IInv, IndexInv

-----------------------------------------------------------------------------
(* Every step keeps the invariant. *)

\* Steps that move neither index nor last keep all three distances.
LEMMA SameDistances ==
  ASSUME UNCHANGED <<head, tail, last>>
  PROVE  Produced' = Produced /\ Unread' = Unread /\ Available' = Available
BY DEF Produced, Unread, Available

\* The writer's variables after a return are in range.
LEMMA ReturnTypes ==
  ASSUME WriterReturns
  PROVE  /\ wpc' = "idle" /\ wpkt' \in Seq(Cells) /\ wslot' \in 0 .. IdxMod + Size
         /\ wfree' \in 0 .. Size /\ wn' \in Nat /\ wdesc' \in Descs
<1>1. Size \in Nat \ {0} /\ IdxMod \in Nat \ {0} /\ BufSize \in Nat \ {0}
  BY RingAssumption
<1>2. <<>> \in Seq(Cells)  OBVIOUS
<1>3. wpkt' \in Seq(Cells)  BY <1>2 DEF WriterReturns
<1>4. wdesc' \in Descs  BY <1>1 DEF WriterReturns, Descs
<1>5. QED  BY <1>1, <1>3, <1>4 DEF WriterReturns

\* WriteBegin takes the free slots as its own.
LEMMA WriteBeginInv ==
  ASSUME IInv, NEW p \in Packets, WriteBegin(p)
  PROVE  IInv'
<1>1. Produced' = Produced /\ Unread' = Unread /\ Available' = Available
  BY SameDistances DEF WriteBegin, shared, rvars
<1>2. Available \in 0 .. Size /\ Produced \in Idx  BY Distances
<1>3. Size \in Nat \ {0} /\ IdxMod \in Nat \ {0}  BY RingAssumption
<1>4. p \in Seq(Cells)  BY RingAssumption
<1>5. TypeOK'
  BY <1>2, <1>3, <1>4 DEF IInv, TypeOK, WriteBegin, shared, rvars, Idx
<1>6. WriterInv'
  BY <1>1, <1>2 DEF WriterInv, WriteBegin, Idx
<1>7. ReaderInv'
  BY <1>1 DEF IInv, IndexInv, ReaderInv, WriteBegin, shared, rvars
<1>8. QED  BY <1>1, <1>5, <1>6, <1>7 DEF IInv, IndexInv, RingNeverOverrun

\* The buffer keeps its type, and the copy of the descriptor too.
LEMMA WriteFillInv ==
  ASSUME IInv, WriteFill
  PROVE  IInv'
<1>1. Produced' = Produced /\ Unread' = Unread /\ Available' = Available
  BY SameDistances DEF WriteFill, rvars
<1> DEFINE s     == Slot(wslot)
           room  == IF WriterIsMaster THEN desc[s].length ELSE BufSize
           chunk == Prefix(wpkt, room)
<1>2. BufSize \in Nat \ {0}  BY RingAssumption
<1>3. s \in Slots  BY SlotType DEF IInv, TypeOK
<1>4. room \in 0 .. BufSize  BY <1>2, <1>3 DEF IInv, TypeOK, Descs
<1>5. wpkt \in Seq(Cells) /\ wn \in Nat  BY DEF IInv, TypeOK
<1> HIDE DEF s, room
<1>6. chunk \in Seq(Cells) /\ Len(chunk) \in 0 .. BufSize
  <2>1. room \in Nat  BY <1>2, <1>4
  <2>2. /\ chunk \in Seq(Cells) /\ Len(chunk) = MinOf(room, Len(wpkt))
        /\ MinOf(room, Len(wpkt)) \in 0 .. room
    BY <2>1, <1>5, PrefixType
  <2>3. QED  BY <2>2, <1>2, <1>4
<1>7. /\ buf' = [buf EXCEPT ![s] = Overwrite(buf[s], chunk)]
      /\ wdesc' = [length |-> Len(chunk), next |-> FALSE]
      /\ wn' = wn + Len(chunk)
      /\ wpc' = "chain" \/ wpc' = "last"
  BY DEF WriteFill, s, room
<1> HIDE DEF chunk
<1>8. Overwrite(buf[s], chunk) \in [1 .. BufSize -> Cells]
  BY <1>3, <1>6, OverwriteType DEF IInv, TypeOK
<1>9. buf' \in [Slots -> [1 .. BufSize -> Cells]]
  BY <1>3, <1>7, <1>8 DEF IInv, TypeOK
<1>10. wdesc' \in Descs  BY <1>6, <1>7 DEF Descs
<1>11. wn' \in Nat  BY <1>5, <1>6, <1>7
<1>12. TypeOK'
  BY <1>7, <1>9, <1>10, <1>11 DEF IInv, TypeOK, WriteFill, rvars
<1>13. WriterInv'
  BY <1>1, <1>7 DEF IInv, IndexInv, WriterInv, WriteFill
<1>14. ReaderInv'
  BY <1>1 DEF IInv, IndexInv, ReaderInv, WriteFill, rvars
<1>15. QED  BY <1>1, <1>12, <1>13, <1>14 DEF IInv, IndexInv, RingNeverOverrun

\* The next slot of the chain is still one of the free ones.
LEMMA WriteChainInv ==
  ASSUME IInv, WriteChain
  PROVE  IInv'
<1>1. Produced' = Produced /\ Unread' = Unread /\ Available' = Available
  BY SameDistances DEF WriteChain, rvars
<1>2. Available \in 0 .. Size /\ Produced \in Idx  BY Distances
<1>3. Size \in Nat \ {0} /\ IdxMod \in Nat \ {0} /\ Size < IdxMod
  BY RingAssumption
<1>4. /\ wslot \in 0 .. IdxMod + Size /\ wfree \in 0 .. Size
      /\ wslot >= Produced /\ wfree >= 1 /\ wfree - 1 # 0
      /\ (wslot - Produced) + wfree <= Available
  BY DEF IInv, TypeOK, IndexInv, WriterInv, WriteChain
<1>5. [wdesc EXCEPT !.next = TRUE] \in Descs  BY DEF IInv, TypeOK, Descs
<1>6. desc' \in [Slots -> Descs]
  BY <1>4, <1>5, SlotType DEF IInv, TypeOK, WriteChain
<1>7. wslot' = wslot + 1 /\ wfree' = wfree - 1 /\ wpc' = "fill"
  BY DEF WriteChain
<1>8. wslot' \in 0 .. IdxMod + Size /\ wfree' \in 0 .. Size
  BY <1>2, <1>3, <1>4, <1>7 DEF Idx
<1>9. TypeOK'  BY <1>6, <1>7, <1>8 DEF IInv, TypeOK, WriteChain, rvars
<1>10. WriterInv'  BY <1>1, <1>2, <1>3, <1>4, <1>7 DEF WriterInv, Idx
<1>11. ReaderInv'
  BY <1>1 DEF IInv, IndexInv, ReaderInv, WriteChain, rvars
<1>12. QED  BY <1>1, <1>9, <1>10, <1>11 DEF IInv, IndexInv, RingNeverOverrun

\* A call that gives up publishes nothing.
LEMMA WriteAbortInv ==
  ASSUME IInv, WriteAbort
  PROVE  IInv'
<1>1. Produced' = Produced /\ Unread' = Unread /\ Available' = Available
  BY SameDistances DEF WriteAbort, shared, rvars
<1>2. TypeOK'
  BY ReturnTypes DEF IInv, TypeOK, WriteAbort, shared, rvars
<1>3. WriterInv'  BY DEF WriterInv, WriteAbort, WriterReturns
<1>4. ReaderInv'
  BY <1>1 DEF IInv, IndexInv, ReaderInv, WriteAbort, shared, rvars
<1>5. QED  BY <1>1, <1>2, <1>3, <1>4 DEF IInv, IndexInv, RingNeverOverrun

\* The last descriptor of the packet.
LEMMA WriteLastInv ==
  ASSUME IInv, WriteLast
  PROVE  IInv'
<1>1. Produced' = Produced /\ Unread' = Unread /\ Available' = Available
  BY SameDistances DEF WriteLast, rvars
<1>2. Available \in 0 .. Size /\ Produced \in Idx  BY Distances
<1>3. Size \in Nat \ {0} /\ IdxMod \in Nat \ {0} /\ Size < IdxMod
  BY RingAssumption
<1>4. /\ wslot \in 0 .. IdxMod + Size /\ wfree \in 0 .. Size
      /\ wslot >= Produced /\ wfree >= 1
      /\ (wslot - Produced) + wfree <= Available
  BY DEF IInv, TypeOK, IndexInv, WriterInv, WriteLast
<1>5. desc' \in [Slots -> Descs]
  BY <1>4, SlotType DEF IInv, TypeOK, WriteLast
<1>6. wslot' = wslot + 1 /\ wpc' = "publish"  BY DEF WriteLast
<1>7. wslot' \in 0 .. IdxMod + Size  BY <1>2, <1>3, <1>4, <1>6 DEF Idx
<1>8. TypeOK'  BY <1>5, <1>6, <1>7 DEF IInv, TypeOK, WriteLast, rvars
<1>9. WriterInv'  BY <1>1, <1>2, <1>3, <1>4, <1>6 DEF WriterInv, Idx
<1>10. ReaderInv'
  BY <1>1 DEF IInv, IndexInv, ReaderInv, WriteLast, rvars
<1>11. QED  BY <1>1, <1>8, <1>9, <1>10 DEF IInv, IndexInv, RingNeverOverrun

\* Publishing moves the producer's index over slots that were free.
LEMMA WritePublishInv ==
  ASSUME IInv, WritePublish
  PROVE  IInv'
<1> DEFINE k == wslot - Produced
<1>1. /\ head \in Idx /\ tail \in Idx /\ last \in Idx /\ Produced \in Idx
      /\ Unread \in 0 .. Size /\ Available \in 0 .. Size
      /\ ~WriterIsMaster => Available = Size - Unread
  BY Distances
<1>2. Size \in Nat \ {0} /\ IdxMod \in Nat \ {0} /\ Size < IdxMod
  BY RingAssumption
<1>3. wslot \in Int /\ wslot > Produced /\ wslot - Produced <= Available
  BY DEF IInv, TypeOK, IndexInv, WriterInv, WritePublish
<1>4. k \in Nat /\ wslot = Produced + k /\ k <= Available
  BY <1>1, <1>2, <1>3 DEF Idx
<1>5. Unread + Available <= Size  BY DEF IInv, IndexInv, RingNeverOverrun
<1> HIDE DEF k
<1>6. Produced' = U16(wslot) /\ last' = last
  BY DEF WritePublish, Produced, rvars
<1>7. Produced' \in Idx /\ Unread' = Unread + k
  <2>1. U16(Produced - last) + k < IdxMod
    BY <1>1, <1>2, <1>4, <1>5 DEF Unread
  <2>2. U16(Produced + k) \in Idx
        /\ U16(U16(Produced + k) - last) = U16(Produced - last) + k
    BY <2>1, <1>1, <1>4, Advance
  <2>3. QED  BY <2>2, <1>4, <1>6 DEF Unread
<1>8. Available' = Available - k
  <2>1. CASE WriterIsMaster
    <3>1. Produced = tail /\ head' = head /\ tail' = U16(tail + k)
      BY <2>1, <1>4 DEF Produced, WritePublish
    <3>2. k <= U16(head - tail)  BY <2>1, <1>4 DEF Available
    <3>3. U16(head - U16(tail + k)) = U16(head - tail) - k
      BY <3>2, <1>1, <1>4, Retreat
    <3>4. QED  BY <2>1, <3>1, <3>3 DEF Available
  <2>2. CASE ~WriterIsMaster
    <3>1. Produced = head /\ tail' = tail /\ tail = last /\ head' \in Idx
      BY <2>2, <1>6, <1>7
      DEF Produced, WritePublish, IInv, IndexInv, ReaderInv
    <3>2. U16(head' - tail) = Unread + k
      BY <2>2, <3>1, <1>6, <1>7 DEF Unread, Produced
    <3>3. Unread + k <= Size  BY <1>1, <1>2, <1>4, <1>5
    <3>4. U16(Size - head' + tail) = Size - (Unread + k)
      BY <3>1, <3>2, <3>3, <1>1, FreeSlots
    <3>5. Available' = Size - (Unread + k)
      BY <2>2, <3>1, <3>4 DEF Available
    <3>6. QED  BY <2>2, <3>5, <1>1, <1>2, <1>4
  <2>3. QED  BY <2>1, <2>2, RingAssumption
<1>9. TypeOK'
  <2>1. head' \in Idx /\ tail' \in Idx
    BY <1>1, <1>3, <1>7, U16Value DEF WritePublish, Idx
  <2>2. /\ wpc' = "idle" /\ wpkt' \in Seq(Cells) /\ wslot' \in 0 .. IdxMod + Size
        /\ wfree' \in 0 .. Size /\ wn' \in Nat /\ wdesc' \in Descs
    BY ReturnTypes DEF WritePublish
  <2>3. QED  BY <2>1, <2>2 DEF IInv, TypeOK, WritePublish, rvars, Idx
<1>10. WriterInv'  BY DEF WriterInv, WritePublish, WriterReturns
<1>11. Unread' + Available' = Unread + Available  BY <1>1, <1>4, <1>7, <1>8
<1>12. ReaderInv'
  <2>1. ~WriterIsMaster => tail' = last' /\ rpc' # "refill"
    BY DEF IInv, IndexInv, ReaderInv, WritePublish, rvars
  <2>2. rpc = "refill" => WriterIsMaster /\ head' = head
    BY RingAssumption DEF IInv, IndexInv, ReaderInv, WritePublish
  <2>3. /\ rslot \in Int /\ ravail \in Int /\ fhead \in Int /\ fill \in Int
        /\ rpc' = rpc /\ rslot' = rslot /\ ravail' = ravail /\ last' = last
        /\ fhead' = fhead /\ fill' = fill
    BY DEF IInv, TypeOK, WritePublish, rvars
  <2>4. /\ rpc = "copy" =>
             rslot >= last /\ ravail >= 1 /\ (rslot - last) + ravail <= Unread
        /\ rpc = "release" => rslot >= last /\ rslot - last <= Unread
        /\ rpc = "refill" =>
             fhead >= head /\ (fhead - head) + fill + Unread + Available <= Size
    BY DEF IInv, IndexInv, ReaderInv
  <2>5. Unread' >= Unread /\ Unread' \in Int  BY <1>1, <1>4, <1>7
  <2>6. rpc' = "copy" =>
          rslot' >= last' /\ ravail' >= 1 /\ (rslot' - last') + ravail' <= Unread'
    BY <2>3, <2>4, <2>5, <1>1 DEF Idx
  <2>7. rpc' = "release" => rslot' >= last' /\ rslot' - last' <= Unread'
    BY <2>3, <2>4, <2>5, <1>1 DEF Idx
  <2>8. rpc' = "refill" =>
          /\ fhead' >= head'
          /\ (fhead' - head') + fill' + Unread' + Available' <= Size
    BY <2>2, <2>3, <2>4, <1>1, <1>4, <1>7, <1>8 DEF Idx
  <2>9. QED  BY <2>1, <2>6, <2>7, <2>8 DEF ReaderInv
<1>13. QED
  BY <1>5, <1>9, <1>10, <1>11, <1>12 DEF IInv, IndexInv, RingNeverOverrun

\* ReadPacket starts with all the unread slots before it.
LEMMA ReadBeginInv ==
  ASSUME IInv, ReadBegin
  PROVE  IInv'
<1>1. Produced' = Produced /\ Unread' = Unread /\ Available' = Available
  BY SameDistances DEF ReadBegin, shared
<1>2. Unread \in 0 .. Size /\ Available \in 0 .. Size /\ last \in Idx
  BY Distances
<1>3. Size \in Nat \ {0} /\ IdxMod \in Nat \ {0} /\ Size < IdxMod
  BY RingAssumption
<1>4. /\ rslot' = last /\ ravail' = Unread /\ roff' = 0 /\ rpkt' = <<>>
      /\ rpc' = IF Unread = 0 THEN "release" ELSE "copy"
      /\ UNCHANGED <<shared, wvars, last, fhead, fill, got>>
  BY DEF ReadBegin
<1>5. rpkt' \in Seq(Cells)  BY <1>4
<1>6. TypeOK'
  <2>1. /\ rslot' \in 0 .. IdxMod + Size /\ ravail' \in 0 .. Size
        /\ roff' \in Nat /\ rpc' \in {"release", "copy"}
    BY <1>2, <1>3, <1>4 DEF Idx
  <2>2. QED  BY <2>1, <1>4, <1>5 DEF IInv, TypeOK, shared, wvars
<1>7. WriterInv'
  BY <1>1, <1>4 DEF IInv, IndexInv, WriterInv, wvars
<1>8. ReaderInv'
  <2>1. ~WriterIsMaster => tail' = last' /\ rpc' # "refill"
    BY <1>4 DEF IInv, IndexInv, ReaderInv, shared
  <2>2. rpc' = "copy" =>
          rslot' >= last' /\ ravail' >= 1 /\ (rslot' - last') + ravail' <= Unread'
    BY <1>1, <1>2, <1>4 DEF Idx
  <2>3. rpc' = "release" => rslot' >= last' /\ rslot' - last' <= Unread'
    BY <1>1, <1>2, <1>4 DEF Idx
  <2>4. QED  BY <2>1, <2>2, <2>3, <1>4 DEF ReaderInv
<1>9. QED  BY <1>1, <1>6, <1>7, <1>8 DEF IInv, IndexInv, RingNeverOverrun

\* Each slot it copies is one of those it started with.
LEMMA ReadCopyInv ==
  ASSUME IInv, ReadCopy
  PROVE  IInv'
<1> DEFINE s == Slot(rslot)
<1>1. Produced' = Produced /\ Unread' = Unread /\ Available' = Available
  BY SameDistances DEF ReadCopy, shared
<1>2. Unread \in 0 .. Size /\ Available \in 0 .. Size /\ last \in Idx
  BY Distances
<1>3. Size \in Nat \ {0} /\ IdxMod \in Nat \ {0} /\ Size < IdxMod
      /\ ReadCap \in Nat /\ BufSize \in Nat
  BY RingAssumption
<1>4. /\ rslot \in 0 .. IdxMod + Size /\ ravail \in 0 .. Size /\ roff \in Nat
      /\ rslot >= last /\ ravail >= 1 /\ (rslot - last) + ravail <= Unread
  BY DEF IInv, TypeOK, IndexInv, ReaderInv, ReadCopy
<1>5. s \in Slots  BY <1>4, SlotType
<1>6. desc[s].length \in Nat  BY <1>3, <1>5 DEF IInv, TypeOK, Descs
<1>7. rpkt \o Contents(s) \in Seq(Cells)
  BY <1>5, ContentsType DEF IInv, TypeOK
<1>8. Prefix(rpkt \o Contents(s), ReadCap) \in Seq(Cells)
  BY <1>3, <1>7, PrefixType
<1>9. /\ rpkt' = Prefix(rpkt \o Contents(s), ReadCap)
      /\ roff' = roff + desc[s].length
      /\ rslot' = rslot + 1
      /\ ravail' = ravail - 1
      /\ rpc' \in {"release", "incomplete", "panic", "copy"}
      /\ rpc' = "copy" => ravail - 1 # 0
      /\ UNCHANGED <<shared, wvars, last, fhead, fill, got>>
  BY DEF ReadCopy
<1> HIDE DEF s
<1>10. TypeOK'
  <2>1. rpkt' \in Seq(Cells)  BY <1>8, <1>9
  <2>2. /\ rslot' \in 0 .. IdxMod + Size /\ ravail' \in 0 .. Size
        /\ roff' \in Nat
    BY <1>2, <1>3, <1>4, <1>6, <1>9 DEF Idx
  <2>3. QED  BY <2>1, <2>2, <1>9 DEF IInv, TypeOK, shared, wvars
<1>11. WriterInv'
  BY <1>1, <1>9 DEF IInv, IndexInv, WriterInv, wvars
<1>12. ReaderInv'
  <2>1. ~WriterIsMaster => tail' = last' /\ rpc' # "refill"
    BY <1>9 DEF IInv, IndexInv, ReaderInv, shared
  <2>2. rpc' = "copy" =>
          rslot' >= last' /\ ravail' >= 1 /\ (rslot' - last') + ravail' <= Unread'
    BY <1>1, <1>2, <1>4, <1>9 DEF Idx
  <2>3. rpc' = "release" => rslot' >= last' /\ rslot' - last' <= Unread'
    BY <1>1, <1>2, <1>4, <1>9 DEF Idx
  <2>4. QED  BY <2>1, <2>2, <2>3, <1>9 DEF ReaderInv
<1>13. QED  BY <1>1, <1>10, <1>11, <1>12 DEF IInv, IndexInv, RingNeverOverrun

\* On an S2M ring what the reader releases becomes free for the writer.
LEMMA ReadReleaseMasterInv ==
  ASSUME IInv, ReadReleaseMaster
  PROVE  IInv'
<1> DEFINE k == rslot - last
<1>1. /\ head \in Idx /\ tail \in Idx /\ last \in Idx
      /\ Unread \in 0 .. Size /\ Available \in 0 .. Size
      /\ Available = Size - Unread
  BY Distances DEF ReadReleaseMaster, Released
<1>2. Size \in Nat \ {0} /\ IdxMod \in Nat \ {0} /\ Size < IdxMod
  BY RingAssumption
<1>3. ~WriterIsMaster /\ head' = head /\ tail' = U16(rslot) /\ last' = U16(rslot)
  BY DEF ReadReleaseMaster, Released
<1>4. k \in Nat /\ rslot = last + k /\ k <= Unread
  BY <1>1, <1>2
  DEF IInv, TypeOK, IndexInv, ReaderInv, ReadReleaseMaster, Released, Idx
<1> HIDE DEF k
<1>5. Unread = U16(head - last)  BY <1>3 DEF Unread, Produced
<1>6. last' \in Idx /\ U16(head - last') = Unread - k
  BY <1>1, <1>3, <1>4, <1>5, Retreat
<1>7. Produced' = Produced /\ Unread' = Unread - k
  BY <1>3, <1>6 DEF Unread, Produced
<1>8. Available' = Available + k
  <2>1. U16(head - last') <= Size  BY <1>1, <1>2, <1>4, <1>6
  <2>2. U16(Size - head + last') = Size - (Unread - k)
    BY <2>1, <1>1, <1>6, FreeSlots
  <2>3. Available' = U16(Size - head + last')  BY <1>3 DEF Available
  <2>4. QED  BY <2>2, <2>3, <1>1, <1>2, <1>4
<1>9. /\ rpc' = "idle" /\ rslot' = 0 /\ ravail' = 0 /\ rpkt' = <<>> /\ roff' = 0
      /\ got' = got \/ got' = rpkt
      /\ UNCHANGED <<desc, buf, wvars, fhead, fill>>
  BY DEF ReadReleaseMaster, Released, ReaderReturns, Deliver
<1>10. TypeOK'
  <2>1. rpkt' \in Seq(Cells)  BY <1>9
  <2>2. got' \in Seq(Cells)  BY <1>9 DEF IInv, TypeOK
  <2>3. tail' \in Idx /\ last' \in Idx  BY <1>3, <1>6
  <2>4. rslot' \in 0 .. IdxMod + Size /\ ravail' \in 0 .. Size /\ roff' \in Nat
    BY <1>2, <1>9
  <2>5. QED
    BY <2>1, <2>2, <2>3, <2>4, <1>3, <1>9 DEF IInv, TypeOK, wvars, Idx
<1>11. WriterInv'
  <2>1. /\ wpc' = wpc /\ wslot' = wslot /\ wfree' = wfree
        /\ wslot \in Int /\ wfree \in Int /\ Produced \in Int
    BY <1>9, Distances DEF IInv, TypeOK, wvars, Idx
  <2>2. WriterInv  BY DEF IInv, IndexInv
  <2>3. QED  BY <2>1, <2>2, <1>1, <1>4, <1>7, <1>8 DEF WriterInv
<1>12. ReaderInv'  BY <1>3, <1>9 DEF ReaderInv
<1>13. RingNeverOverrun'
  BY <1>1, <1>4, <1>7, <1>8 DEF IInv, IndexInv, RingNeverOverrun
<1>14. QED  BY <1>10, <1>11, <1>12, <1>13 DEF IInv, IndexInv

\* On an M2S ring it becomes the slave's to refill.
LEMMA ReadReleaseSlaveInv ==
  ASSUME IInv, ReadReleaseSlave
  PROVE  IInv'
<1> DEFINE k == rslot - last
<1>1. /\ head \in Idx /\ tail \in Idx /\ last \in Idx
      /\ Unread \in 0 .. Size /\ Available \in 0 .. Size
      /\ U16(head - last) = Unread + Available
  BY Distances DEF ReadReleaseSlave, Released
<1>2. Size \in Nat \ {0} /\ IdxMod \in Nat \ {0} /\ Size < IdxMod
  BY RingAssumption
<1>3. WriterIsMaster /\ head' = head /\ tail' = tail /\ last' = U16(rslot)
  BY DEF ReadReleaseSlave, Released, shared
<1>4. k \in Nat /\ rslot = last + k /\ k <= Unread
  BY <1>1, <1>2
  DEF IInv, TypeOK, IndexInv, ReaderInv, ReadReleaseSlave, Released, Idx
<1> HIDE DEF k
<1>5. Unread = U16(tail - last)  BY <1>3 DEF Unread, Produced
<1>6. last' \in Idx /\ U16(tail - last') = Unread - k
  BY <1>1, <1>3, <1>4, <1>5, Retreat
<1>7. Produced' = Produced /\ Unread' = Unread - k /\ Available' = Available
  BY <1>3, <1>6 DEF Unread, Produced, Available
<1>8. Unread + Available <= Size  BY DEF IInv, IndexInv, RingNeverOverrun
<1>9. U16(head - last') = Unread + Available - k
  <2>1. k <= U16(head - last)  BY <1>1, <1>2, <1>4
  <2>2. U16(head - last') = U16(head - last) - k
    BY <2>1, <1>1, <1>3, <1>4, Retreat
  <2>3. QED  BY <2>2, <1>1, <1>2, <1>4
<1>10. fill' = Size - (Unread + Available - k)
  <2>1. U16(head - last') <= Size  BY <1>1, <1>2, <1>4, <1>8, <1>9
  <2>2. U16(Size - head + last') = Size - (Unread + Available - k)
    BY <2>1, <1>1, <1>6, <1>9, FreeSlots
  <2>3. fill' = U16(Size - head + last')  BY <1>3 DEF ReadReleaseSlave, Released
  <2>4. QED  BY <2>2, <2>3
<1>11. /\ rpc' = "refill" /\ fhead' = head
       /\ got' = got \/ got' = rpkt
       /\ UNCHANGED <<shared, wvars, rslot, ravail, rpkt, roff>>
  BY DEF ReadReleaseSlave, Released, Deliver
<1>12. TypeOK'
  <2>1. got' \in Seq(Cells)  BY <1>11 DEF IInv, TypeOK
  <2>2. fhead' \in 0 .. IdxMod + Size /\ fill' \in 0 .. Size
    BY <1>1, <1>2, <1>4, <1>8, <1>10, <1>11 DEF Idx
  <2>3. QED  BY <2>1, <2>2, <1>6, <1>11 DEF IInv, TypeOK, shared, wvars, Idx
<1>13. WriterInv'
  BY <1>7, <1>11 DEF IInv, IndexInv, WriterInv, wvars
<1>14. ReaderInv'
  <2>1. fhead' - head' = 0 /\ fhead' >= head'  BY <1>1, <1>2, <1>3, <1>11 DEF Idx
  <2>2. (fhead' - head') + fill' + Unread' + Available' <= Size
    BY <2>1, <1>1, <1>2, <1>4, <1>7, <1>10
  <2>3. QED  BY <2>1, <2>2, <1>3, <1>11 DEF ReaderInv
<1>15. RingNeverOverrun'
  BY <1>1, <1>2, <1>4, <1>7, <1>8 DEF RingNeverOverrun
<1>16. QED  BY <1>12, <1>13, <1>14, <1>15 DEF IInv, IndexInv

\* The refill loop stays within the slots that are neither unread nor offered.
LEMMA RefillInv ==
  ASSUME IInv, Refill
  PROVE  IInv'
<1>1. Produced' = Produced /\ Unread' = Unread /\ Available' = Available
  BY SameDistances DEF Refill
<1>2. head \in Idx /\ Unread \in 0 .. Size /\ Available \in 0 .. Size
  BY Distances
<1>3. Size \in Nat \ {0} /\ IdxMod \in Nat \ {0} /\ BufSize \in Nat \ {0}
  BY RingAssumption
<1>4. /\ fhead \in 0 .. IdxMod + Size /\ fill \in 0 .. Size /\ fill > 0
      /\ fhead >= head /\ (fhead - head) + fill + Unread + Available <= Size
  BY DEF IInv, TypeOK, IndexInv, ReaderInv, Refill
<1>5. Slot(fhead) \in Slots  BY <1>4, SlotType
<1>6. [desc[Slot(fhead)] EXCEPT !.length = BufSize] \in Descs
  <2>1. desc[Slot(fhead)] \in Descs  BY <1>5 DEF IInv, TypeOK
  <2>2. \A d \in Descs : [d EXCEPT !.length = BufSize] \in Descs
    BY <1>3 DEF Descs
  <2>3. QED  BY <2>1, <2>2
<1>7. desc' \in [Slots -> Descs]
  BY <1>5, <1>6 DEF IInv, TypeOK, Refill
<1>8. fhead' = fhead + 1 /\ fill' = fill - 1 /\ rpc' = "refill" /\ head' = head
  BY DEF Refill
<1>9. fhead' \in 0 .. IdxMod + Size /\ fill' \in 0 .. Size
  BY <1>2, <1>3, <1>4, <1>8 DEF Idx
<1>10. TypeOK'  BY <1>7, <1>8, <1>9 DEF IInv, TypeOK, Refill, wvars
<1>11. WriterInv'
  BY <1>1 DEF IInv, IndexInv, WriterInv, Refill, wvars
<1>12. ReaderInv'
  <2>1. (fhead' - head') + fill' + Unread' + Available' <= Size /\ fhead' >= head'
    BY <1>1, <1>2, <1>4, <1>8 DEF Idx
  <2>2. WriterIsMaster
    BY RingAssumption DEF IInv, IndexInv, ReaderInv, Refill
  <2>3. QED  BY <2>1, <2>2, <1>8 DEF ReaderInv
<1>13. QED  BY <1>1, <1>10, <1>11, <1>12 DEF IInv, IndexInv, RingNeverOverrun

\* The refilled slots become free for the master.
LEMMA RefillPublishInv ==
  ASSUME IInv, RefillPublish
  PROVE  IInv'
<1> DEFINE k == fhead - head
<1>1. /\ head \in Idx /\ tail \in Idx /\ last \in Idx
      /\ Unread \in 0 .. Size /\ Available \in 0 .. Size
  BY Distances
<1>2. Size \in Nat \ {0} /\ IdxMod \in Nat \ {0} /\ Size < IdxMod
  BY RingAssumption
<1>3. /\ WriterIsMaster
      /\ fhead \in Int /\ fhead >= head
      /\ (fhead - head) + Unread + Available <= Size
  BY RingAssumption, <1>1, <1>2
  DEF IInv, TypeOK, IndexInv, ReaderInv, RefillPublish, Idx
<1>4. k \in Nat /\ fhead = head + k /\ k + Unread + Available <= Size
  BY <1>1, <1>3 DEF Idx
<1> HIDE DEF k
<1>5. /\ head' = U16(head + k) /\ tail' = tail /\ last' = last
      /\ rpc' = "idle" /\ rslot' = 0 /\ ravail' = 0 /\ rpkt' = <<>> /\ roff' = 0
      /\ fhead' = 0
      /\ UNCHANGED <<desc, buf, wvars, fill, got>>
  BY <1>4 DEF RefillPublish, ReaderReturns
<1>6. Produced' = Produced /\ Unread' = Unread
  BY <1>3, <1>5 DEF Unread, Produced
<1>7. head' \in Idx /\ Available' = Available + k
  <2>1. Available = U16(head - tail) /\ Available' = U16(head' - tail)
    BY <1>3, <1>5 DEF Available
  <2>2. U16(head - tail) + k < IdxMod  BY <2>1, <1>1, <1>2, <1>4
  <2>3. QED  BY <2>1, <2>2, <1>1, <1>4, <1>5, Advance
<1>8. TypeOK'
  <2>1. rpkt' \in Seq(Cells)  BY <1>5
  <2>2. /\ rslot' \in 0 .. IdxMod + Size /\ ravail' \in 0 .. Size /\ roff' \in Nat
        /\ fhead' \in 0 .. IdxMod + Size
    BY <1>2, <1>5
  <2>3. QED  BY <2>1, <2>2, <1>5, <1>7 DEF IInv, TypeOK, wvars, Idx
<1>9. WriterInv'
  <2>1. /\ wpc' = wpc /\ wslot' = wslot /\ wfree' = wfree
        /\ wslot \in Int /\ wfree \in Int /\ Produced \in Int
    BY <1>5, Distances DEF IInv, TypeOK, wvars, Idx
  <2>2. WriterInv  BY DEF IInv, IndexInv
  <2>3. QED  BY <2>1, <2>2, <1>1, <1>4, <1>6, <1>7 DEF WriterInv
<1>10. ReaderInv'  BY <1>3, <1>5 DEF ReaderInv
<1>11. RingNeverOverrun'
  BY <1>1, <1>4, <1>6, <1>7 DEF RingNeverOverrun
<1>12. QED  BY <1>8, <1>9, <1>10, <1>11 DEF IInv, IndexInv

\* A step that changes nothing.
LEMMA StutterInv ==
  ASSUME IInv, UNCHANGED vars
  PROVE  IInv'
BY DEF IInv, TypeOK, IndexInv, RingNeverOverrun, WriterInv, ReaderInv,
       Unread, Available, Produced, vars, shared, wvars, rvars

\* The invariant is inductive.
LEMMA NextIInv == IInv /\ [Next]_vars => IInv'
<1> SUFFICES ASSUME IInv, [Next]_vars PROVE IInv'  OBVIOUS
<1>1. ASSUME NEW p \in Packets, WriteBegin(p) PROVE IInv'  BY <1>1, WriteBeginInv
<1>2. CASE WriteFill           BY <1>2, WriteFillInv
<1>3. CASE WriteChain          BY <1>3, WriteChainInv
<1>4. CASE WriteAbort          BY <1>4, WriteAbortInv
<1>5. CASE WriteLast           BY <1>5, WriteLastInv
<1>6. CASE WritePublish        BY <1>6, WritePublishInv
<1>7. CASE ReadBegin           BY <1>7, ReadBeginInv
<1>8. CASE ReadCopy            BY <1>8, ReadCopyInv
<1>9. CASE ReadReleaseMaster   BY <1>9, ReadReleaseMasterInv
<1>10. CASE ReadReleaseSlave   BY <1>10, ReadReleaseSlaveInv
<1>11. CASE Refill             BY <1>11, RefillInv
<1>12. CASE RefillPublish      BY <1>12, RefillPublishInv
<1>13. CASE UNCHANGED vars     BY <1>13, StutterInv
<1>14. QED
  BY <1>1, <1>2, <1>3, <1>4, <1>5, <1>6, <1>7, <1>8, <1>9, <1>10, <1>11,
     <1>12, <1>13 DEF Next, Writer, WriterStep, Reader

\* Every reachable state has the invariant.
LEMMA Inductive == Spec => []IInv
BY InitIInv, NextIInv, PTL DEF Spec

-----------------------------------------------------------------------------
(* The theorems. *)

\* Every index, length and position stays in the range of its Go variable.
THEOREM TypeCorrect == Spec => []TypeOK
<1>1. IInv => TypeOK  BY DEF IInv
<1>2. QED  BY <1>1, Inductive, PTL

\* The free slots WritePacket counts and the slots not yet read never add up
\* to more than the ring has, whatever the interleaving and the index wraps.
THEOREM NeverOverrun == Spec => []RingNeverOverrun
<1>1. IInv => RingNeverOverrun  BY DEF IInv, IndexInv
<1>2. QED  BY <1>1, Inductive, PTL

\* A position the writer fills is among the free slots past the unread ones.
LEMMA WriterSlot ==
  ASSUME IInv, wpc \in {"fill", "chain", "last"}, NEW k \in 0 .. Unread - 1
  PROVE  Slot(last + k) # Slot(wslot)
<1> DEFINE j == wslot - Produced
<1>1. /\ last \in Idx /\ Produced \in Idx
      /\ Unread \in 0 .. Size /\ Available \in 0 .. Size
  BY Distances
<1>2. Size \in Nat \ {0} /\ IdxMod \in Nat \ {0}  BY RingAssumption
<1>3. j \in Nat /\ wslot = Produced + j /\ j < Available
  BY <1>1, <1>2 DEF IInv, TypeOK, IndexInv, WriterInv, Idx
<1>4. Unread + Available <= Size  BY DEF IInv, IndexInv, RingNeverOverrun
<1> HIDE DEF j
<1>5. Slot(wslot) = Slot(last + Unread + j)
  BY <1>1, <1>3, SlotShift DEF Unread
<1>6. /\ last + k \in Int /\ last + Unread + j \in Int
      /\ last + k < last + Unread + j
      /\ (last + Unread + j) - (last + k) < Size
  BY <1>1, <1>2, <1>3, <1>4 DEF Idx
<1>7. Slot(last + k) # Slot(last + Unread + j)  BY <1>6, SlotsDiffer
<1>8. QED  BY <1>5, <1>7

\* A position the slave refills is past the unread and the offered slots.
LEMMA RefillSlot ==
  ASSUME IInv, rpc = "refill", fill > 0
  PROVE  /\ \A k \in 0 .. Unread - 1 : Slot(last + k) # Slot(fhead)
         /\ \A k \in 0 .. Available - 1 : Slot(tail + k) # Slot(fhead)
<1> DEFINE j == fhead - head
<1>1. WriterIsMaster
  BY RingAssumption DEF IInv, IndexInv, ReaderInv
<1>2. /\ head \in Idx /\ tail \in Idx /\ last \in Idx
      /\ Unread \in 0 .. Size /\ Available \in 0 .. Size
      /\ U16(head - last) = Unread + Available
  BY <1>1, Distances
<1>3. Size \in Nat \ {0} /\ IdxMod \in Nat \ {0}  BY RingAssumption
<1>4. j \in Nat /\ fhead = head + j /\ j + Unread + Available < Size
  BY <1>2, <1>3 DEF IInv, TypeOK, IndexInv, ReaderInv, Idx
<1> HIDE DEF j
<1>5. Slot(fhead) = Slot(last + (Unread + Available) + j)
  BY <1>2, <1>4, SlotShift
<1>6. Slot(fhead) = Slot(tail + Available + j)
  <2>1. Available = U16(head - tail)  BY <1>1 DEF Available
  <2>2. QED  BY <2>1, <1>2, <1>4, SlotShift
<1>7. ASSUME NEW k \in 0 .. Unread - 1
      PROVE  Slot(last + k) # Slot(last + (Unread + Available) + j)
  <2>1. /\ last + k \in Int /\ last + (Unread + Available) + j \in Int
        /\ last + k < last + (Unread + Available) + j
        /\ (last + (Unread + Available) + j) - (last + k) < Size
    BY <1>2, <1>3, <1>4 DEF Idx
  <2>2. QED  BY <2>1, SlotsDiffer
<1>8. ASSUME NEW k \in 0 .. Available - 1
      PROVE  Slot(tail + k) # Slot(tail + Available + j)
  <2>1. /\ tail + k \in Int /\ tail + Available + j \in Int
        /\ tail + k < tail + Available + j
        /\ (tail + Available + j) - (tail + k) < Size
    BY <1>2, <1>3, <1>4 DEF Idx
  <2>2. QED  BY <2>1, SlotsDiffer
<1>9. QED  BY <1>5, <1>6, <1>7, <1>8

\* Neither side ever works on a slot that belongs to the other.
THEOREM SlotsOwned == Spec => []SlotOwnership
<1>1. IInv => SlotOwnership  BY WriterSlot, RefillSlot DEF SlotOwnership
<1>2. QED  BY <1>1, Inductive, PTL

-----------------------------------------------------------------------------
(* What the owners leave alone, and chains. *)

\* A step of either side leaves the slots that hold unread packets as they are.
LEMMA UnreadStep ==
  ASSUME IInv, [Next]_vars, NEW k \in 0 .. Unread - 1
  PROVE  /\ desc'[Slot(last + k)] = desc[Slot(last + k)]
         /\ buf'[Slot(last + k)] = buf[Slot(last + k)]
<1> DEFINE s == Slot(last + k)
<1>1. s \in Slots
  <2>1. last + k \in Int  BY Distances DEF Idx
  <2>2. QED  BY <2>1, SlotType
<1>2. /\ desc \in [Slots -> Descs] /\ buf \in [Slots -> [1 .. BufSize -> Cells]]
  BY DEF IInv, TypeOK
<1> HIDE DEF s
<1>3. CASE WriteFill
  <2>1. s # Slot(wslot)  BY <1>3, WriterSlot DEF s, WriteFill
  <2>2. desc' = desc  BY <1>3 DEF WriteFill
  <2>3. buf'[s] = buf[s]  BY <2>1, <1>1, <1>2, <1>3 DEF WriteFill
  <2>4. QED  BY <2>2, <2>3 DEF s
<1>4. CASE WriteChain
  <2>1. s # Slot(wslot)  BY <1>4, WriterSlot DEF s, WriteChain
  <2>2. QED  BY <2>1, <1>1, <1>2, <1>4 DEF s, WriteChain
<1>5. CASE WriteLast
  <2>1. s # Slot(wslot)  BY <1>5, WriterSlot DEF s, WriteLast
  <2>2. QED  BY <2>1, <1>1, <1>2, <1>5 DEF s, WriteLast
<1>6. CASE Refill
  <2>1. s # Slot(fhead)  BY <1>6, RefillSlot DEF s, Refill
  <2>2. QED  BY <2>1, <1>1, <1>2, <1>6 DEF s, Refill
<1>7. CASE UNCHANGED <<desc, buf>>  BY <1>7
<1>8. QED
  BY <1>3, <1>4, <1>5, <1>6, <1>7
  DEF Next, Writer, WriterStep, Reader, WriteBegin, WriteAbort, WritePublish,
      ReadBegin, ReadCopy, ReadReleaseMaster, ReadReleaseSlave, Released, RefillPublish,
      vars, shared

\* No packet changes between its publication and its release.
THEOREM UnreadUntouched == Spec => UnreadStays
<1>1. IInv /\ [Next]_vars =>
        [\A k \in 0 .. Unread - 1 :
           LET s == Slot(last + k)
           IN  desc'[s] = desc[s] /\ buf'[s] = buf[s]]_vars
  BY UnreadStep
<1>2. QED  BY <1>1, Inductive, PTL DEF Spec, UnreadStays

\* The published slots, the slots a reader has before it and a packet about
\* to be published all end with a descriptor without the NEXT flag.
ChainInv ==
  /\ Unread > 0 => ~desc[Slot(last + Unread - 1)].next
  /\ wpc = "last" => ~wdesc.next
  /\ wpc = "publish" => ~desc[Slot(wslot - 1)].next
  /\ rpc = "copy" => ~desc[Slot(rslot + ravail - 1)].next
  /\ rpc # "incomplete"

LEMMA InitChain == Init => ChainInv
<1> SUFFICES ASSUME Init PROVE ChainInv  OBVIOUS
<1>1. IdxMod \in Nat \ {0}  BY RingAssumption
<1>2. U16(0) = 0  BY <1>1, U16Value DEF Idx
<1>3. Unread = 0  BY <1>2 DEF Init, Unread, Produced
<1>4. QED  BY <1>3 DEF Init, ChainInv

\* Steps that touch no descriptor of the ends of chains.
LEMMA NextChain == IInv /\ ChainInv /\ [Next]_vars => ChainInv'
<1> SUFFICES ASSUME IInv, ChainInv, [Next]_vars PROVE ChainInv'  OBVIOUS
<1>1. /\ head \in Idx /\ tail \in Idx /\ last \in Idx /\ Produced \in Idx
      /\ Unread \in 0 .. Size /\ Available \in 0 .. Size
  BY Distances
<1>2. Size \in Nat \ {0} /\ IdxMod \in Nat \ {0} /\ Size < IdxMod
      /\ WriterIsMaster \in BOOLEAN
  BY RingAssumption
<1>3. /\ wslot \in Int /\ rslot \in Int /\ ravail \in Int /\ fhead \in Int
      /\ desc \in [Slots -> Descs]
  BY DEF IInv, TypeOK
<1>4. Unread > 0 => desc'[Slot(last + Unread - 1)] = desc[Slot(last + Unread - 1)]
  <2>1. Unread > 0 => Unread - 1 \in 0 .. Unread - 1  BY <1>1
  <2>2. Unread > 0 => last + Unread - 1 = last + (Unread - 1)  BY <1>1 DEF Idx
  <2>3. QED  BY <2>1, <2>2, UnreadStep
<1>5. rpc = "copy" =>
        desc'[Slot(rslot + ravail - 1)] = desc[Slot(rslot + ravail - 1)]
  <2> SUFFICES ASSUME rpc = "copy"
               PROVE  desc'[Slot(rslot + ravail - 1)] = desc[Slot(rslot + ravail - 1)]
    OBVIOUS
  <2> DEFINE i == (rslot - last) + ravail - 1
  <2>1. i \in 0 .. Unread - 1 /\ rslot + ravail - 1 = last + i
    BY <1>1, <1>3 DEF IInv, IndexInv, ReaderInv, Idx
  <2> HIDE DEF i
  <2>2. QED  BY <2>1, UnreadStep
<1>6. CASE UNCHANGED <<head, tail, last, desc, rvars>>
           /\ (wpc' = "last" => ~wdesc'.next) /\ wpc' # "publish"
  BY <1>6, SameDistances DEF ChainInv, rvars
<1>7. CASE WriteChain \/ WriteLast
  <2>1. UNCHANGED <<head, tail, last, rvars>>
    BY <1>7 DEF WriteChain, WriteLast, rvars
  <2>2. Unread' = Unread  BY <2>1, SameDistances
  <2>3. /\ Unread' > 0 => ~desc'[Slot(last' + Unread' - 1)].next
        /\ rpc' = "copy" => ~desc'[Slot(rslot' + ravail' - 1)].next
        /\ rpc' # "incomplete"
    BY <2>1, <2>2, <1>4, <1>5 DEF ChainInv, rvars
  <2>4. wpc' # "last"  BY <1>7 DEF WriteChain, WriteLast
  <2>5. wpc' = "publish" => ~desc'[Slot(wslot' - 1)].next
    <3> SUFFICES ASSUME wpc' = "publish" PROVE ~desc'[Slot(wslot' - 1)].next
      OBVIOUS
    <3>1. WriteLast  BY <1>7 DEF WriteChain
    <3>2. ~wdesc.next /\ wslot' - 1 = wslot
      BY <3>1, <1>3 DEF ChainInv, WriteLast
    <3>3. desc'[Slot(wslot)] = wdesc
      BY <3>1, <1>3, SlotType DEF WriteLast
    <3>4. QED  BY <3>2, <3>3
  <2>6. QED  BY <2>3, <2>4, <2>5 DEF ChainInv
<1>8. CASE WritePublish
  <2> DEFINE k == wslot - Produced
  <2>1. k \in Nat \ {0} /\ wslot = Produced + k /\ k <= Available
    BY <1>1, <1>3, <1>8 DEF IInv, IndexInv, WriterInv, WritePublish, Idx
  <2>2. Unread + Available <= Size  BY DEF IInv, IndexInv, RingNeverOverrun
  <2> HIDE DEF k
  <2>3. last' = last /\ desc' = desc /\ wpc' = "idle" /\ UNCHANGED rvars
        /\ Produced' = U16(Produced + k)
    BY <2>1, <1>8 DEF WritePublish, WriterReturns, Produced, rvars
  <2>4. Unread' = Unread + k
    <3>1. U16(Produced - last) + k < IdxMod
      BY <1>1, <1>2, <2>1, <2>2 DEF Unread
    <3>2. U16(U16(Produced + k) - last) = U16(Produced - last) + k
      BY <3>1, <1>1, <2>1, Advance
    <3>3. QED  BY <3>2, <2>3 DEF Unread
  <2>5. Slot(last' + Unread' - 1) = Slot(wslot - 1)
    <3>1. Slot(Produced + (k - 1)) = Slot(last + Unread + (k - 1))
      BY <1>1, <2>1, SlotShift DEF Unread
    <3>2. last' + Unread' - 1 = last + Unread + (k - 1)
          /\ wslot - 1 = Produced + (k - 1)
      BY <1>1, <2>1, <2>3, <2>4 DEF Idx
    <3>3. QED  BY <3>1, <3>2
  <2>6. ~desc[Slot(wslot - 1)].next  BY <1>8 DEF ChainInv, WritePublish
  <2>7. QED  BY <2>3, <2>5, <2>6 DEF ChainInv, rvars
<1>9. CASE ReadBegin
  <2>1. Unread' = Unread  BY <1>9, SameDistances DEF ReadBegin, shared
  <2>2. /\ UNCHANGED <<desc, last, wpc, wdesc, wslot>>
        /\ rslot' = last /\ ravail' = Unread /\ rpc' # "incomplete"
        /\ rpc' = "copy" => Unread # 0
    BY <1>9 DEF ReadBegin, shared, wvars
  <2>3. QED  BY <2>1, <2>2, <1>1 DEF ChainInv
<1>10. CASE ReadCopy
  <2>1. Unread' = Unread  BY <1>10, SameDistances DEF ReadCopy, shared
  <2>2. /\ UNCHANGED <<desc, last, wpc, wdesc, wslot>>
        /\ rslot' = rslot + 1 /\ ravail' = ravail - 1
    BY <1>10 DEF ReadCopy, shared, wvars
  <2>3. ~desc[Slot(rslot + ravail - 1)].next  BY <1>10 DEF ChainInv, ReadCopy
  <2>4. rslot' + ravail' - 1 = rslot + ravail - 1  BY <2>2, <1>3
  <2>5. rpc' # "incomplete"
    <3> SUFFICES ASSUME rpc' = "incomplete" PROVE FALSE  OBVIOUS
    <3>1. desc[Slot(rslot)].next /\ ravail - 1 = 0
      BY <1>10 DEF ReadCopy
    <3>2. rslot + ravail - 1 = rslot  BY <3>1, <1>3
    <3>3. QED  BY <3>1, <3>2, <2>3
  <2>6. QED  BY <2>1, <2>2, <2>3, <2>4, <2>5 DEF ChainInv
<1>11. CASE ReadReleaseMaster \/ ReadReleaseSlave
  <2> DEFINE k == rslot - last
  <2>1. k \in Nat /\ rslot = last + k /\ k <= Unread
    BY <1>1, <1>3, <1>11
    DEF IInv, IndexInv, ReaderInv, ReadReleaseMaster, ReadReleaseSlave, Released, Idx
  <2> HIDE DEF k
  <2>2. /\ last' = U16(last + k) /\ Produced' = Produced
        /\ UNCHANGED <<desc, wpc, wdesc, wslot>> /\ rpc' \in {"idle", "refill"}
    BY <2>1, <1>11
    DEF ReadReleaseMaster, ReadReleaseSlave, Released, ReaderReturns, Produced, shared, wvars
  <2>3. last' \in Idx /\ Unread' = Unread - k
    BY <2>1, <2>2, <1>1, Retreat DEF Unread
  <2>4. Unread' > 0 => Slot(last' + Unread' - 1) = Slot(last + Unread - 1)
    <3> SUFFICES ASSUME Unread' > 0
                 PROVE  Slot(last' + Unread' - 1) = Slot(last + Unread - 1)
      OBVIOUS
    <3>1. U16(last - last) = 0  BY <1>1, <1>2, U16Value DEF Idx
    <3>2. U16(last' - last) = k
      BY <3>1, <2>1, <2>2, <1>1, <1>2, Advance
    <3>3. Slot(last' + (Unread' - 1)) = Slot(last + k + (Unread' - 1))
      BY <3>2, <2>1, <2>3, <1>1, SlotShift
    <3>4. last' + (Unread' - 1) = last' + Unread' - 1
          /\ last + k + (Unread' - 1) = last + Unread - 1
      BY <2>1, <2>3, <1>1 DEF Idx
    <3>5. QED  BY <3>3, <3>4
  <2>5. Unread' > 0 => Unread > 0  BY <2>1, <2>3, <1>1
  <2>6. QED  BY <2>2, <2>4, <2>5 DEF ChainInv
<1>12. CASE Refill
  <2>1. Unread' = Unread  BY <1>12, SameDistances DEF Refill
  <2>2. \A s \in Slots : desc'[s].next = desc[s].next
    BY <1>3, <1>12 DEF Refill, Descs
  <2>3. UNCHANGED <<last, wpc, wdesc, wslot, rpc, rslot, ravail>>
    BY <1>12 DEF Refill, wvars
  <2>4. last + Unread - 1 \in Int /\ wslot - 1 \in Int
    BY <1>1, <1>3 DEF Idx
  <2>5. Slot(last + Unread - 1) \in Slots /\ Slot(wslot - 1) \in Slots
    BY <2>4, SlotType
  <2>6. rpc # "copy"  BY <1>12 DEF Refill
  <2>7. QED  BY <2>1, <2>2, <2>3, <2>5, <2>6 DEF ChainInv
<1>13. CASE RefillPublish
  <2>1. WriterIsMaster
    BY <1>2, <1>13 DEF IInv, IndexInv, ReaderInv, RefillPublish
  <2>2. /\ UNCHANGED <<tail, desc, last, wpc, wdesc, wslot>> /\ rpc' = "idle"
    BY <1>13 DEF RefillPublish, ReaderReturns, wvars
  <2>3. Unread' = Unread  BY <2>1, <2>2 DEF Unread, Produced
  <2>4. QED  BY <2>2, <2>3 DEF ChainInv
<1>14. ASSUME NEW p \in Packets, WriteBegin(p) PROVE ChainInv'
  BY <1>6, <1>14 DEF WriteBegin, shared, rvars
<1>15. CASE WriteFill  BY <1>6, <1>15 DEF WriteFill, rvars
<1>16. CASE WriteAbort
  BY <1>6, <1>16 DEF WriteAbort, WriterReturns, shared, rvars
<1>17. CASE UNCHANGED vars
  BY <1>17, SameDistances DEF ChainInv, vars, shared, wvars, rvars
<1>18. QED
  BY <1>7, <1>8, <1>9, <1>10, <1>11, <1>12, <1>13, <1>14, <1>15, <1>16, <1>17
  DEF Next, Writer, WriterStep, Reader

\* ReadPacket never meets a chain cut short by the end of the published slots.
THEOREM ChainsComplete == Spec => []NoIncompleteChain
<1>1. Spec => []ChainInv
  BY InitChain, NextChain, Inductive, PTL DEF Spec
<1>2. ChainInv => NoIncompleteChain  BY DEF ChainInv, NoIncompleteChain
<1>3. QED  BY <1>1, <1>2, PTL

-----------------------------------------------------------------------------
(* Buffers the slave offers. *)

Full(x) == desc[Slot(x)].length = BufSize

\* On an M2S ring the offered slots are full except the last one of a packet
\* about to be published, and so are the slots refilled so far; a writer that
\* goes on to another slot has filled the one it leaves.
OfferInv ==
  \A k \in 0 .. Available - 1 :
    Full(tail + k) \/ (wpc = "publish" /\ wslot = tail + k + 1)

RefilledInv ==
  rpc = "refill" => \A j \in 0 .. (fhead - head) - 1 : Full(head + j)

ChunkInv == wpc = "chain" => wdesc.length = BufSize

FullInv == WriterIsMaster => OfferInv /\ RefilledInv /\ ChunkInv

LEMMA InitFull == Init => FullInv
<1> SUFFICES ASSUME Init PROVE OfferInv /\ RefilledInv /\ ChunkInv
  BY DEF FullInv
<1>1. TypeOK /\ Available \in 0 .. Size  BY InitIInv, Distances DEF IInv
<1>2. tail \in Int  BY <1>1 DEF TypeOK
<1>3. \A k \in 0 .. Available - 1 : Slot(tail + k) \in Slots
  BY <1>1, <1>2, SlotType
<1>4. OfferInv  BY <1>3 DEF OfferInv, Full, Init
<1>5. RefilledInv /\ ChunkInv  BY DEF Init, RefilledInv, ChunkInv
<1>6. QED  BY <1>4, <1>5

\* The only step that shortens a descriptor is the last one of a packet, in
\* the slot the writer is at.
LEMMA StaysFull ==
  ASSUME IInv, FullInv, [Next]_vars, WriterIsMaster, NEW x \in Int, Full(x),
         WriteLast => Slot(x) # Slot(wslot)
  PROVE  desc'[Slot(x)].length = BufSize
<1>1. Slot(x) \in Slots /\ desc \in [Slots -> Descs] /\ wdesc \in Descs
  BY SlotType DEF IInv, TypeOK
<1>2. CASE WriteChain
  <2>1. wdesc.length = BufSize  BY <1>2 DEF FullInv, ChunkInv, WriteChain
  <2>2. [wdesc EXCEPT !.next = TRUE].length = BufSize  BY <2>1, <1>1 DEF Descs
  <2>3. QED  BY <2>2, <1>1, <1>2 DEF WriteChain, Full
<1>3. CASE WriteLast  BY <1>1, <1>3 DEF WriteLast, Full
<1>4. CASE Refill
  <2>1. \A d \in Descs : [d EXCEPT !.length = BufSize].length = BufSize
    BY DEF Descs
  <2>2. QED  BY <2>1, <1>1, <1>4 DEF Refill, Full
<1>5. CASE desc' = desc  BY <1>5 DEF Full
<1>6. QED
  BY <1>2, <1>3, <1>4, <1>5
  DEF Next, Writer, WriterStep, Reader, WriteBegin, WriteFill, WriteAbort,
      WritePublish, ReadBegin, ReadCopy, ReadReleaseMaster, ReadReleaseSlave,
      RefillPublish, vars, shared

\* The slot the writer is at is one of those it was offered, none of the
\* other offered slots and none of those being refilled.
LEMMA WriterOffer ==
  ASSUME IInv, WriterIsMaster, wpc \in {"fill", "chain", "last"}
  PROVE  /\ wslot - tail \in 0 .. Available - 1
         /\ \A k \in 0 .. Available - 1 :
              tail + k # wslot => Slot(tail + k) # Slot(wslot)
         /\ rpc = "refill" =>
              \A j \in 0 .. (fhead - head) - 1 : Slot(head + j) # Slot(wslot)
<1>1. /\ head \in Idx /\ tail \in Idx /\ Produced = tail
      /\ Unread \in 0 .. Size /\ Available \in 0 .. Size
  BY Distances DEF Produced
<1>2. Size \in Nat \ {0} /\ IdxMod \in Nat \ {0}  BY RingAssumption
<1>3. wslot \in Int /\ wslot - tail \in 0 .. Available - 1
  BY <1>1, <1>2 DEF IInv, TypeOK, IndexInv, WriterInv, Idx
<1>4. ASSUME NEW k \in 0 .. Available - 1, tail + k # wslot
      PROVE  Slot(tail + k) # Slot(wslot)
  <2>1. tail + k \in Int  BY <1>1 DEF Idx
  <2>2. CASE tail + k < wslot
    <3>1. wslot - (tail + k) < Size  BY <1>1, <1>2, <1>3 DEF Idx
    <3>2. QED  BY <2>1, <2>2, <3>1, <1>3, SlotsDiffer
  <2>3. CASE wslot < tail + k
    <3>1. (tail + k) - wslot < Size  BY <1>1, <1>2, <1>3 DEF Idx
    <3>2. QED  BY <2>1, <2>3, <3>1, <1>3, SlotsDiffer
  <2>4. QED  BY <2>1, <2>2, <2>3, <1>3, <1>4
<1>5. ASSUME rpc = "refill", NEW j \in 0 .. (fhead - head) - 1
      PROVE  Slot(head + j) # Slot(wslot)
  <2>1. Slot(head + j) = Slot(tail + Available + j)
    BY <1>1, SlotShift DEF Available
  <2>2. fhead \in Int /\ fill \in Nat
        /\ (fhead - head) + fill + Unread + Available <= Size
    BY <1>5 DEF IInv, TypeOK, IndexInv, ReaderInv
  <2>3. /\ tail + Available + j \in Int /\ wslot < tail + Available + j
        /\ (tail + Available + j) - wslot < Size
    BY <1>1, <1>2, <1>3, <2>2 DEF Idx
  <2>4. QED  BY <2>1, <2>3, <1>3, SlotsDiffer
<1>6. QED  BY <1>3, <1>4, <1>5

\* Steps that move no index and end no packet.
LEMMA QuietFull ==
  ASSUME IInv, FullInv, [Next]_vars, WriterIsMaster, ~WriteLast,
         UNCHANGED <<head, tail>>,
         wpc = "publish" => UNCHANGED <<wpc, wslot>>
  PROVE  OfferInv'
<1>1. Available' = Available /\ Available \in 0 .. Size /\ tail \in Int
  BY Distances DEF Idx, Available
<1>2. ASSUME NEW k \in 0 .. Available - 1
      PROVE  \/ desc'[Slot(tail + k)].length = BufSize
             \/ wpc' = "publish" /\ wslot' = tail + k + 1
  <2>1. tail + k \in Int  BY <1>1
  <2>2. CASE Full(tail + k)  BY <2>1, <2>2, StaysFull
  <2>3. CASE wpc = "publish" /\ wslot = tail + k + 1  BY <2>3
  <2>4. QED  BY <2>2, <2>3 DEF FullInv, OfferInv
<1>3. QED  BY <1>1, <1>2 DEF OfferInv, Full

\* The packet's last descriptor is the exception.
LEMMA WriteLastFull ==
  ASSUME IInv, FullInv, WriterIsMaster, WriteLast
  PROVE  OfferInv'
<1>1. /\ Available' = Available /\ tail' = tail /\ wpc' = "publish"
      /\ wslot' = wslot + 1 /\ wpc = "last"
  BY DEF Available, WriteLast
<1>2. Available \in 0 .. Size /\ tail \in Int /\ wslot \in Int
  BY Distances DEF Idx, IInv, TypeOK
<1>3. [Next]_vars  BY DEF Next, Writer, WriterStep
<1>4. ASSUME NEW k \in 0 .. Available - 1, tail + k # wslot
      PROVE  desc'[Slot(tail + k)].length = BufSize
  <2>1. tail + k \in Int /\ Full(tail + k)
    BY <1>1, <1>2 DEF FullInv, OfferInv
  <2>2. Slot(tail + k) # Slot(wslot)  BY <1>1, <1>4, WriterOffer
  <2>3. QED  BY <2>1, <2>2, <1>3, StaysFull
<1>5. \A k \in 0 .. Available - 1 : tail + k = wslot => wslot' = tail + k + 1
  BY <1>1, <1>2
<1>6. QED  BY <1>1, <1>4, <1>5 DEF OfferInv, Full

\* What remains offered lies behind the published slots.
LEMMA WritePublishFull ==
  ASSUME IInv, FullInv, WriterIsMaster, WritePublish
  PROVE  OfferInv'
<1> DEFINE n == wslot - tail
<1>1. /\ head \in Idx /\ tail \in Idx /\ Produced = tail
      /\ Available \in 0 .. Size /\ Available = U16(head - tail)
  BY Distances DEF Produced, Available
<1>2. Size \in Nat \ {0} /\ IdxMod \in Nat \ {0} /\ Size < IdxMod
  BY RingAssumption
<1>3. n \in Nat /\ wslot = tail + n /\ n <= Available /\ wslot \in Int
  BY <1>1, <1>2 DEF IInv, TypeOK, IndexInv, WriterInv, WritePublish, Idx
<1> HIDE DEF n
<1>4. /\ head' = head /\ tail' = U16(tail + n) /\ desc' = desc
      /\ wpc' = "idle" /\ wpc = "publish"
  BY <1>3 DEF WritePublish, WriterReturns
<1>5. tail' \in Idx /\ Available' = Available - n
  BY <1>1, <1>3, <1>4, Retreat DEF Available
<1>6. U16(tail' - tail) = n
  <2>1. U16(tail - tail) = 0  BY <1>1, <1>2, U16Value DEF Idx
  <2>2. QED  BY <2>1, <1>1, <1>2, <1>3, <1>4, Advance
<1>7. ASSUME NEW k \in 0 .. (Available - n) - 1
      PROVE  desc[Slot(tail' + k)].length = BufSize
  <2>1. Slot(tail' + k) = Slot(tail + n + k)
    BY <1>1, <1>5, <1>6, SlotShift
  <2>2. /\ n + k \in 0 .. Available - 1 /\ tail + n + k = tail + (n + k)
        /\ wslot # tail + (n + k) + 1
    BY <1>1, <1>3 DEF Idx
  <2>3. Full(tail + (n + k))  BY <2>2 DEF FullInv, OfferInv
  <2>4. QED  BY <2>1, <2>2, <2>3 DEF Full
<1>8. QED  BY <1>4, <1>5, <1>7 DEF OfferInv, Full

\* The slots added to those on offer are the ones refilled before.
LEMMA RefillPublishFull ==
  ASSUME IInv, FullInv, WriterIsMaster, RefillPublish
  PROVE  OfferInv'
<1> DEFINE n == fhead - head
<1>1. /\ head \in Idx /\ tail \in Idx /\ Unread \in 0 .. Size
      /\ Available \in 0 .. Size /\ Available = U16(head - tail)
  BY Distances DEF Available
<1>2. Size \in Nat \ {0} /\ IdxMod \in Nat \ {0} /\ Size < IdxMod
  BY RingAssumption
<1>3. n \in Nat /\ fhead = head + n /\ n + Available <= Size
  BY <1>1, <1>2 DEF IInv, TypeOK, IndexInv, ReaderInv, RefillPublish, Idx
<1> HIDE DEF n
<1>4. /\ head' = U16(head + n) /\ tail' = tail /\ desc' = desc
      /\ wpc' = wpc /\ wslot' = wslot /\ rpc = "refill"
  BY <1>3 DEF RefillPublish, wvars
<1>5. Available' = Available + n
  <2>1. U16(head - tail) + n < IdxMod  BY <1>1, <1>2, <1>3
  <2>2. U16(head' - tail) = Available + n
    BY <2>1, <1>1, <1>3, <1>4, Advance
  <2>3. QED  BY <2>2, <1>4 DEF Available
<1>6. ASSUME NEW k \in 0 .. (Available + n) - 1
      PROVE  Full(tail + k) \/ (wpc = "publish" /\ wslot = tail + k + 1)
  <2>1. CASE k < Available
    <3>1. k \in 0 .. Available - 1  BY <2>1, <1>1, <1>3
    <3>2. QED  BY <3>1 DEF FullInv, OfferInv
  <2>2. CASE k >= Available
    <3> DEFINE j == k - Available
    <3>1. j \in 0 .. n - 1 /\ k = Available + j /\ n = fhead - head
      BY <2>2, <1>1, <1>3 DEF Idx
    <3> HIDE DEF j
    <3>2. Full(head + j)  BY <3>1, <1>4 DEF FullInv, RefilledInv
    <3>3. Slot(head + j) = Slot(tail + Available + j)
      BY <3>1, <1>1, SlotShift
    <3>4. tail + k = tail + Available + j  BY <3>1, <1>1 DEF Idx
    <3>5. QED  BY <3>2, <3>3, <3>4 DEF Full
  <2>3. QED  BY <2>1, <2>2, <1>1
<1>7. QED  BY <1>4, <1>5, <1>6 DEF OfferInv, Full

\* A writer with more to write has used all the room of its slot.
LEMMA ChunkFull ==
  ASSUME IInv, FullInv, WriterIsMaster, [Next]_vars
  PROVE  ChunkInv'
<1>1. CASE WriteFill
  <2> DEFINE s     == Slot(wslot)
             chunk == Prefix(wpkt, desc[s].length)
  <2>0. wslot \in Int /\ tail \in Int  BY DEF IInv, TypeOK
  <2>1. wslot - tail \in 0 .. Available - 1 /\ wslot \in Int /\ tail \in Int
    BY <1>1, <2>0, WriterOffer DEF WriteFill
  <2>2. Full(tail + (wslot - tail)) /\ tail + (wslot - tail) = wslot
    BY <1>1, <2>1 DEF FullInv, OfferInv, WriteFill
  <2>3. desc[s].length = BufSize  BY <2>2 DEF Full
  <2>4. wpkt \in Seq(Cells) /\ wn \in Nat /\ BufSize \in Nat
    BY RingAssumption DEF IInv, TypeOK
  <2>5. Len(chunk) = MinOf(BufSize, Len(wpkt))  BY <2>3, <2>4, PrefixType
  <2>6. wdesc'.length = Len(chunk)
        /\ (wpc' = "chain" => wn + Len(chunk) < Len(wpkt))
    BY <1>1 DEF WriteFill
  <2> HIDE DEF chunk
  <2>7. Len(wpkt) \in Nat  BY <2>4
  <2>8. wpc' = "chain" => wdesc'.length = BufSize
    BY <2>4, <2>5, <2>6, <2>7 DEF MinOf
  <2>9. QED  BY <2>8 DEF ChunkInv
<1>2. CASE wpc' # "chain"  BY <1>2 DEF ChunkInv
<1>3. CASE UNCHANGED <<wpc, wdesc>>  BY <1>3 DEF FullInv, ChunkInv
<1>4. QED
  BY <1>1, <1>2, <1>3
  DEF Next, Writer, WriterStep, Reader, WriteBegin, WriteChain, WriteAbort, WriteLast,
      WritePublish, WriterReturns, ReadBegin, ReadCopy, ReadReleaseMaster,
      ReadReleaseSlave, Refill, RefillPublish, vars, wvars

\* The refill loop passes a slot when it has its full length.
LEMMA RefilledFull ==
  ASSUME IInv, FullInv, WriterIsMaster, [Next]_vars
  PROVE  RefilledInv'
<1>1. head \in Int /\ fhead \in Int  BY DEF IInv, TypeOK
<1>2. ASSUME rpc = "refill", NEW j \in 0 .. (fhead - head) - 1
      PROVE  desc'[Slot(head + j)].length = BufSize
  <2>1. head + j \in Int /\ Full(head + j)
    BY <1>1, <1>2 DEF FullInv, RefilledInv
  <2>2. WriteLast => Slot(head + j) # Slot(wslot)
    BY <1>2, WriterOffer DEF WriteLast
  <2>3. QED  BY <2>1, <2>2, StaysFull
<1>3. CASE Refill
  <2>1. rpc = "refill" /\ head' = head /\ fhead' = fhead + 1 /\ fhead >= head
    BY <1>3 DEF Refill, IInv, IndexInv, ReaderInv
  <2>2. desc'[Slot(fhead)].length = BufSize
    <3>1. Slot(fhead) \in Slots /\ desc \in [Slots -> Descs]
      BY <1>1, SlotType DEF IInv, TypeOK
    <3>2. \A d \in Descs : [d EXCEPT !.length = BufSize].length = BufSize
      BY DEF Descs
    <3>3. QED  BY <3>1, <3>2, <1>3 DEF Refill
  <2>3. ASSUME NEW j \in 0 .. (fhead' - head') - 1
        PROVE  desc'[Slot(head + j)].length = BufSize
    <3>1. CASE j \in 0 .. (fhead - head) - 1  BY <3>1, <2>1, <1>2
    <3>2. CASE j \notin 0 .. (fhead - head) - 1
      <4>1. head + j = fhead  BY <3>2, <2>1, <1>1
      <4>2. QED  BY <4>1, <2>2
    <3>3. QED  BY <3>1, <3>2
  <2>4. QED  BY <2>1, <2>3 DEF RefilledInv, Full
<1>4. CASE UNCHANGED <<head, fhead, rpc>>  BY <1>4, <1>2 DEF RefilledInv, Full
<1>5. CASE ReadReleaseSlave
  <2>1. fhead' = head /\ head' = head
    BY <1>5 DEF ReadReleaseSlave, shared
  <2>2. head - head = 0  BY <1>1
  <2>3. fhead' - head' = 0  BY <2>1, <2>2
  <2>4. QED  BY <2>3 DEF RefilledInv
<1>6. CASE rpc' # "refill"  BY <1>6 DEF RefilledInv
<1>7. QED
  BY <1>3, <1>4, <1>5, <1>6
  DEF Next, Writer, WriterStep, Reader, WriteBegin, WriteFill, WriteChain, WriteAbort,
      WriteLast, WritePublish, ReadBegin, ReadCopy, ReadReleaseMaster,
      RefillPublish, ReaderReturns, vars, shared, rvars

LEMMA NextFull == IInv /\ FullInv /\ [Next]_vars => FullInv'
<1> SUFFICES ASSUME IInv, FullInv, [Next]_vars, WriterIsMaster
             PROVE  OfferInv' /\ RefilledInv' /\ ChunkInv'
  BY DEF FullInv
<1>1. CASE WriteLast      BY <1>1, WriteLastFull, RefilledFull, ChunkFull
<1>2. CASE WritePublish   BY <1>2, WritePublishFull, RefilledFull, ChunkFull
<1>3. CASE RefillPublish  BY <1>3, RefillPublishFull, RefilledFull, ChunkFull
<1>4. CASE ~WriteLast /\ UNCHANGED <<head, tail>>
           /\ (wpc = "publish" => UNCHANGED <<wpc, wslot>>)
  BY <1>4, QuietFull, RefilledFull, ChunkFull
<1>5. CASE ~WriteLast /\ ~WritePublish /\ ~RefillPublish
  <2>1. UNCHANGED <<head, tail>>
        /\ (wpc = "publish" => UNCHANGED <<wpc, wslot>>)
    BY <1>5
    DEF Next, Writer, WriterStep, Reader, WriteBegin, WriteFill, WriteChain, WriteAbort,
        ReadBegin, ReadCopy, ReadReleaseMaster, ReadReleaseSlave, Refill,
        vars, shared, wvars
  <2>2. QED  BY <2>1, <1>4, <1>5
<1>6. QED  BY <1>1, <1>2, <1>3, <1>5

\* Whatever the master stored in a buffer, it has its full length when the
\* slave offers it again.
THEOREM OffersFull == Spec => []OfferedBuffersAreFull
<1>1. Spec => []FullInv  BY InitFull, NextFull, Inductive, PTL DEF Spec
<1>2. FullInv => OfferedBuffersAreFull
  BY DEF FullInv, OfferInv, OfferedBuffersAreFull, Full
<1>3. QED  BY <1>1, <1>2, PTL
=============================================================================
