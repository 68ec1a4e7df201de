------------------------- MODULE RegionLayoutProofs -------------------------
(* Proofs about RegionLayout for every memory configuration. *)
EXTENDS RegionLayout, TLAPS

\* Rings with larger numbers lie behind.
LEMMA OffsetsGrow ==
  ASSUME NEW s \in Nat, NEW m \in Int, NEW n \in Int, m < n
  PROVE  (m * s) + s <= n * s
<1>1. (m + 1) * s = (m * s) + s  OBVIOUS
<1>2. PICK d \in Nat : n = (m + 1) + d  BY n - (m + 1) \in Nat
<1>3. n * s = ((m + 1) * s) + (d * s)  BY <1>2
<1>4. d * s \in Nat  OBVIOUS
<1>5. QED  BY <1>1, <1>3, <1>4

\* The headers of the rings initialised so far are in place.
DoneInv ==
  \A n \in 0 .. done - 1 :
    \A k \in 0 .. HeaderCells - 1 : data[Offset(n) + k] = Header(n)

\* The descriptors of both rings with queue id 0 are in place as well.
FirstInv ==
  \A n \in {0, run.pairs} : n < done =>
    \A j \in 0 .. run.slots - 1 : data[DescAt(n, j)] = Desc(BufferOf(j))

Inv == TypeOK /\ DoneInv /\ FirstInv

\* What the constants and the configuration amount to.
LEMMA Shape ==
  ASSUME TypeOK
  PROVE  /\ run.pairs \in Nat \ {0} /\ run.slots \in Nat \ {0}
         /\ run.buffer \in Nat \ {0}
         /\ Span \in Nat \ {0} /\ NumRings \in Nat /\ RingsEnd \in Nat
         /\ PacketBufferOffset \in Nat
         /\ \A n \in Nat : Offset(n) \in Nat
         /\ \A n \in 0 .. NumRings - 1 : Offset(n) + Span <= RingsEnd
<1>1. /\ run.pairs \in Nat \ {0} /\ run.slots \in Nat \ {0}
      /\ run.buffer \in Nat \ {0}
  BY LayoutAssumption DEF TypeOK
<1>2. Span \in Nat \ {0} /\ NumRings \in Nat
  BY <1>1, LayoutAssumption DEF Span, NumRings
<1>3. \A n \in Nat : Offset(n) \in Nat
  BY <1>2 DEF Offset
<1>4. RingsEnd \in Nat
  BY <1>2, <1>3 DEF RingsEnd
<1>5. PacketBufferOffset \in Nat
  BY <1>4, LayoutAssumption DEF PacketBufferOffset
<1>6. ASSUME NEW n \in 0 .. NumRings - 1  PROVE Offset(n) + Span <= RingsEnd
  BY <1>2, OffsetsGrow DEF Offset, RingsEnd
<1>7. QED  BY <1>1, <1>2, <1>3, <1>4, <1>5, <1>6

LEMMA InitInv == Init => Inv
<1> SUFFICES ASSUME Init PROVE Inv
  OBVIOUS
<1>1. run.pairs \in Nat \ {0}
  BY LayoutAssumption DEF Init
<1>2. done \in 0 .. NumRings
  BY <1>1 DEF Init, NumRings
<1>3. TypeOK
  BY <1>2 DEF Init, TypeOK, ZeroCell
<1>4. DoneInv
  BY DEF Init, DoneInv
<1>5. FirstInv
  BY <1>1 DEF Init, FirstInv
<1>6. QED  BY <1>3, <1>4, <1>5 DEF Inv

LEMMA StepInv == Inv /\ [Next]_vars => Inv'
<1> SUFFICES ASSUME Inv, [Next]_vars PROVE Inv'
  OBVIOUS
<1>1. CASE UNCHANGED vars
  BY <1>1 DEF Inv, TypeOK, DoneInv, FirstInv, vars, NumRings, RingsEnd, Offset,
              Span, Header, Desc, DescAt, BufferOf, PacketBufferOffset
<1>2. CASE InitializeQueue
  <2> DEFINE first == Qid(done) * run.slots
  <2>1. /\ run' = run /\ done' = done + 1 /\ done < NumRings
    BY <1>2 DEF InitializeQueue, MoreRings
  <2>2. data' = [a \in 0 .. RingsEnd - 1 |->
           IF DescAt(done, first) <= a /\ a < DescAt(done, first + run.slots)
             THEN Desc(BufferOf(a - DescAt(done, 0)))
           ELSE IF Offset(done) <= a /\ a < Offset(done) + HeaderCells
             THEN Header(done)
             ELSE data[a]]
    BY <1>2 DEF InitializeQueue, RingToInit
  <2>3. /\ Span' = Span /\ NumRings' = NumRings /\ RingsEnd' = RingsEnd
        /\ \A n : Offset(n)' = Offset(n)
    BY <2>1 DEF Span, NumRings, RingsEnd, Offset
  <2>4. TypeOK  BY DEF Inv
  <2>5. done \in Nat /\ NumRings \in Nat /\ Offset(done) \in Nat
    BY <2>4, Shape DEF TypeOK
  <2>6. Qid(done) \in Nat
    BY <2>4, <2>5, Shape DEF Qid
  <2>7. first \in Nat
    BY <2>4, <2>6, Shape
  <2>8. /\ DescAt(done, first) \in Nat /\ DescAt(done, 0) \in Nat
        /\ DescAt(done, 0) <= DescAt(done, first)
        /\ DescAt(done, 0) = Offset(done) + HeaderCells
    BY <2>5, <2>7, LayoutAssumption DEF DescAt
  <2>9. TypeOK'
    <3>1. ASSUME NEW a \in 0 .. RingsEnd - 1
          PROVE  data'[a] \in [is : {"header", "desc", "zero"}, of : Nat]
      <4>1. CASE DescAt(done, first) <= a /\ a < DescAt(done, first + run.slots)
        <5>1. a - DescAt(done, 0) \in Nat
          BY <4>1, <2>4, <2>8, Shape
        <5>2. BufferOf(a - DescAt(done, 0)) \in Nat
          BY <5>1, <2>4, Shape DEF BufferOf
        <5>3. data'[a] = Desc(BufferOf(a - DescAt(done, 0)))
          BY <4>1, <2>2
        <5>4. QED  BY <5>2, <5>3 DEF Desc
      <4>2. CASE ~(DescAt(done, first) <= a /\ a < DescAt(done, first + run.slots))
        <5>1. data'[a] = Header(done) \/ data'[a] = data[a]
          BY <4>2, <2>2
        <5>2. QED  BY <5>1, <2>4, <2>5 DEF TypeOK, Header
      <4>3. QED  BY <4>1, <4>2
    <3>2. data' \in [0 .. RingsEnd - 1 ->
                      [is : {"header", "desc", "zero"}, of : Nat]]
      BY <2>2, <3>1
    <3>3. QED  BY <3>2, <2>1, <2>3, <2>4, <2>5 DEF TypeOK
  <2>10. DoneInv'
    <3> SUFFICES \A n \in 0 .. done : \A k \in 0 .. HeaderCells - 1 :
                   data'[Offset(n) + k] = Header(n)
      <4>1. done' - 1 = done  BY <2>1, <2>5
      <4>2. QED  BY <4>1, <2>3 DEF DoneInv, Header, Offset
    <3> SUFFICES ASSUME NEW n \in 0 .. done, NEW k \in 0 .. HeaderCells - 1
                 PROVE  data'[Offset(n) + k] = Header(n)
      OBVIOUS
    <3>1. /\ Offset(n) \in Nat /\ Offset(n) + k \in 0 .. RingsEnd - 1
      BY <2>1, <2>4, <2>5, Shape, LayoutAssumption DEF Span
    <3>2. CASE n = done
      BY <3>1, <3>2, <2>2, <2>5, <2>8, LayoutAssumption
    <3>3. CASE n < done
      <4>1. Offset(n) + Span <= Offset(done)
        BY <3>3, <2>4, <2>5, OffsetsGrow, Shape DEF Offset
      <4>2. Offset(n) + k < Offset(done)
        BY <4>1, <3>1, <2>4, <2>5, Shape, LayoutAssumption DEF Span
      <4>3. data'[Offset(n) + k] = data[Offset(n) + k]
        BY <4>2, <3>1, <2>2, <2>5, <2>8, LayoutAssumption
      <4>4. QED  BY <4>3, <3>3, <2>5 DEF Inv, DoneInv
    <3>4. QED  BY <3>2, <3>3, <2>5
  <2>11. FirstInv'
    <3> SUFFICES \A n \in {0, run.pairs} : n < done + 1 =>
                   \A j \in 0 .. run.slots - 1 :
                     data'[DescAt(n, j)] = Desc(BufferOf(j))
      BY <2>1, <2>3 DEF FirstInv, Desc, DescAt, BufferOf, PacketBufferOffset,
                        RingsEnd, Offset, Span, NumRings
    <3> SUFFICES ASSUME NEW n \in {0, run.pairs}, n < done + 1,
                        NEW j \in 0 .. run.slots - 1
                 PROVE  data'[DescAt(n, j)] = Desc(BufferOf(j))
      OBVIOUS
    <3>1. n \in Nat /\ n \in 0 .. NumRings - 1 /\ Offset(n) \in Nat
      BY <2>4, Shape DEF NumRings
    <3>2. /\ DescAt(n, j) = Offset(n) + HeaderCells + j
          /\ DescAt(n, j) \in 0 .. RingsEnd - 1
          /\ DescAt(n, j) < Offset(n) + Span
      BY <3>1, <2>4, Shape, LayoutAssumption DEF DescAt, Span
    <3>3. CASE n = done
      <4>1. Qid(done) = 0
        BY <3>3, <2>4, Shape DEF Qid
      <4>2. first = 0
        BY <4>1, <2>4, Shape
      <4>3. /\ DescAt(done, first) <= DescAt(n, j)
            /\ DescAt(n, j) < DescAt(done, first + run.slots)
            /\ DescAt(n, j) - DescAt(done, 0) = j
        BY <4>2, <3>2, <3>3, <2>4, <2>5, Shape, LayoutAssumption DEF DescAt
      <4>4. QED  BY <4>3, <3>2, <2>2
    <3>4. CASE n < done
      <4>1. Offset(n) + Span <= Offset(done)
        <5>1. Span \in Nat /\ n \in Int /\ done \in Int
          BY <3>1, <2>4, <2>5, Shape
        <5>2. QED  BY <5>1, <3>4, OffsetsGrow DEF Offset
      <4>2. DescAt(n, j) < Offset(done)
        BY <4>1, <3>1, <3>2, <2>4, <2>5, Shape
      <4>3. data'[DescAt(n, j)] = data[DescAt(n, j)]
        BY <4>2, <3>2, <2>2, <2>5, <2>8, LayoutAssumption
      <4>4. QED  BY <4>3, <3>4 DEF Inv, FirstInv
    <3>5. QED  BY <3>1, <3>3, <3>4, <2>5
  <2>12. QED  BY <2>9, <2>10, <2>11 DEF Inv
<1>3. QED  BY <1>1, <1>2 DEF Next

LEMMA InvAlways == Spec => []Inv
BY InitInv, StepInv, PTL DEF Spec

\* Cells only ever hold headers, descriptors of buffers, or zeros, and no ring
\* is initialised twice.
THEOREM LayoutTypeCorrect == Spec => []TypeOK
<1>1. Inv => TypeOK  BY DEF Inv
<1>2. QED  BY <1>1, InvAlways, PTL

\* For every number of queue pairs and every ring size, initializeQueues leaves
\* all ring headers in place, although for queue ids above 0 it writes the
\* descriptors outside their ring.
THEOREM HeadersSurvive == Spec => []HeadersIntact
<1>1. Inv => HeadersIntact  BY DEF Inv, DoneInv, HeadersIntact
<1>2. QED  BY <1>1, InvAlways, PTL

\* Products of factors that are not negative grow with the factor.
LEMMA ProductsGrow ==
  ASSUME NEW a \in Nat, NEW b \in Nat, NEW c \in Nat, a <= b
  PROVE  a * c <= b * c
<1>1. PICK d \in Nat : b = a + d  BY b - a \in Nat
<1>2. b * c = (a * c) + (d * c)  BY <1>1
<1>3. d * c \in Nat  OBVIOUS
<1>4. QED  BY <1>2, <1>3

\* While the offset of the buffers fits 16 bits, the buffers of queue pair 0 are
\* inside the region and behind all rings, and those of slots with different
\* numbers do not overlap, whether the slots are of one of its rings or of both
\* and whatever the number of pairs.
THEOREM FirstPair == Spec => []FirstPairUsable
<1>1. ASSUME Inv, OffsetFits,
             NEW m \in {0, run.pairs}, NEW n \in {0, run.pairs}, done > m, done > n,
             NEW j \in 0 .. run.slots - 1
      PROVE  LET d == data[DescAt(n, j)] IN
             /\ d.is = "desc"
             /\ RingsEnd <= d.of /\ d.of + run.buffer <= RegionEnd
             /\ \A k \in 0 .. j - 1 : data[DescAt(m, k)].of + run.buffer <= d.of
  <2>1. TypeOK  BY <1>1 DEF Inv
  <2>2. /\ run.pairs \in Nat \ {0} /\ run.slots \in Nat \ {0}
        /\ run.buffer \in Nat \ {0} /\ RingsEnd \in Nat /\ NumRings \in Nat \ {0}
    BY <2>1, Shape DEF NumRings
  <2>3. done \in Nat /\ m \in Nat /\ n \in Nat  BY <2>1, <2>2 DEF TypeOK
  <2>4. PacketBufferOffset = RingsEnd
    BY <1>1, <2>2, LayoutAssumption DEF OffsetFits, PacketBufferOffset
  <2>5. \A r \in {m, n} : \A i \in 0 .. run.slots - 1 :
          data[DescAt(r, i)] = Desc(RingsEnd + (i * run.buffer))
    BY <1>1, <2>3, <2>4 DEF Inv, FirstInv, BufferOf
  <2>6. (j * run.buffer) \in Nat  BY <2>2
  <2>7. (j * run.buffer) + run.buffer <= run.slots * run.buffer
    BY <2>2, OffsetsGrow
  <2>8. run.slots * run.buffer <= (run.buffer * run.slots) * NumRings
    <3>1. (run.buffer * run.slots) \in Nat /\ run.slots * run.buffer = run.buffer * run.slots
      BY <2>2
    <3>2. 1 * (run.buffer * run.slots) <= NumRings * (run.buffer * run.slots)
      BY <3>1, <2>2, ProductsGrow
    <3>3. QED  BY <3>1, <3>2, <2>2
  <2>9. ASSUME NEW k \in 0 .. j - 1
        PROVE  (k * run.buffer) + run.buffer <= j * run.buffer
    BY <2>2, OffsetsGrow
  <2>10. ASSUME NEW k \in 0 .. j - 1
         PROVE  data[DescAt(m, k)].of = RingsEnd + (k * run.buffer) /\ k * run.buffer \in Nat
    <3>1. k \in 0 .. run.slots - 1 /\ k * run.buffer \in Nat  BY <2>2
    <3>2. data[DescAt(m, k)] = Desc(RingsEnd + (k * run.buffer))  BY <3>1, <2>5
    <3>3. QED  BY <3>1, <3>2 DEF Desc
  <2>11. data[DescAt(n, j)].is = "desc" /\ data[DescAt(n, j)].of = RingsEnd + (j * run.buffer)
    <3>1. data[DescAt(n, j)] = Desc(RingsEnd + (j * run.buffer))  BY <2>5
    <3>2. QED  BY <3>1 DEF Desc
  <2>12. RegionEnd = RingsEnd + (run.buffer * run.slots) * NumRings
    BY <2>4 DEF RegionEnd
  <2>13. ((run.buffer * run.slots) * NumRings) \in Nat /\ (run.slots * run.buffer) \in Nat
    BY <2>2
  <2>14. QED
    BY <2>2, <2>6, <2>7, <2>8, <2>9, <2>10, <2>11, <2>12, <2>13
<1>2. Inv => FirstPairUsable  BY <1>1 DEF FirstPairUsable
<1>3. QED  BY <1>2, InvAlways, PTL
=============================================================================
