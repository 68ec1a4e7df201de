--------------------------- MODULE HandshakeProofs ---------------------------
(***************************************************************************)
(* Theorems about the handshake of a slave and the master: it runs in lock *)
(* step, it pairs the rings of the two interfaces one by one, and an       *)
(* interface is never told twice in a row that it is connected.            *)
(*                                                                         *)
(* The invariant follows one connection at a time.  Link speaks of its two *)
(* ends and the two interfaces, and of nothing else, so that what a step   *)
(* does to a connection is a lemma about data; the steps of the            *)
(* specification then cite these lemmas.                                   *)
(***************************************************************************)
EXTENDS ControlChannelProofs

-----------------------------------------------------------------------------
(* The script of a handshake. *)

\* The messages of the handshake of an interface with n queue pairs and one
\* region, in the order they are sent: Init, AddRegion, n rings of each
\* direction, Connect.
Line(n, k) ==
  CASE k = 1                -> InitMsg
    [] k = 2                -> Plain("AddRegion")
    [] k \in 3 .. n + 2     -> AddRing(<<"S2M", k - 3>>)
    [] k \in n + 3 .. 2 * n + 2 -> AddRing(<<"M2S", k - n - 3>>)
    [] OTHER                -> Plain("Connect")

Lines(n) == 2 * n + 3

\* What is left to say after k lines.
Rest(n, k) == [j \in 1 .. Lines(n) - k |-> Line(n, k + j)]

\* The rings of either direction that the first k lines have announced.
Announced(ringType, n, k) ==
  LET first == IF ringType = "S2M" THEN 2 ELSE n + 2
      last  == IF ringType = "S2M" THEN n + 2 ELSE 2 * n + 2
  IN  CASE k <= first            -> 0
        [] k > first /\ k < last -> k - first
        [] OTHER                 -> n

-----------------------------------------------------------------------------
(* The invariant of one connection: S and M are the interfaces of its slave *)
(* and of the master, s and m the ends they hold.                           *)

OnlyBye(q) == Only(q, {"Disconnect"})

\* Nothing but Disconnect follows the next message.
Parting(q) == \A k \in DOMAIN q : k > 1 => q[k].type = "Disconnect"

\* The slave has made its region and queues.
Configured(S) ==
  /\ S.run \in 1 .. MaxRings
  /\ S.regions = <<TRUE>>
  /\ S.tx = Rings("S2M", S.run) /\ S.rx = Rings("M2S", S.run)

\* The master has done what the first k lines ask for.
Served(S, M, m, k) ==
  IF k = 0 THEN ~m.bound
  ELSE /\ m.bound /\ M.told = "down"
       /\ M.regions = IF k = 1 THEN <<>> ELSE <<FALSE>>
       /\ M.rx = Rings("S2M", Announced("S2M", S.run, k))
       /\ M.tx = Rings("M2S", Announced("M2S", S.run, k))

\* Hello is on its way.
Greeting(S, M, s, m) ==
  /\ Empty(S) /\ S.told = "down"
  /\ s.msgQueue = <<>> /\ s.inbox = <<HelloMsg>> /\ ~s.up
  /\ ~m.bound /\ m.inbox = <<>>

\* Line k + 1 is on its way to the master, or the Ack for line k back.
UnderWay(S, M, s, m, k) ==
  /\ k \in 0 .. Lines(S.run) - 1
  /\ Configured(S) /\ S.told = "down" /\ ~s.up
  /\ Served(S, M, m, k)
  /\ \/ /\ m.inbox = <<Line(S.run, k + 1)>> /\ s.inbox = <<>>
        /\ s.msgQueue = Rest(S.run, k + 1)
     \/ /\ m.inbox = <<>> /\ s.inbox = <<Plain("Ack")>> /\ k > 0
        /\ s.msgQueue = Rest(S.run, k)

\* The two interfaces have paired the same rings on mapped memory.
Matched(S, M, m) ==
  /\ Configured(S)
  /\ m.up /\ m.bound
  /\ M.regions = <<TRUE>> /\ M.rx = S.tx /\ M.tx = S.rx

\* The master is connected, and so is the slave once it has read Connected.
Settled(S, M, s, m) ==
  /\ Matched(S, M, m)
  /\ s.msgQueue = <<>> /\ m.inbox = <<>>
  /\ \/ s.inbox = <<Plain("Connected")>> /\ S.told = "down" /\ ~s.up
     \/ s.inbox = <<>> /\ s.up

InPhase(S, M, s, m) ==
  \/ Greeting(S, M, s, m)
  \/ \E k \in 0 .. Lines(S.run) - 1 : UnderWay(S, M, s, m, k)
  \/ Settled(S, M, s, m)

\* waiting: the listener has not accepted the connection; held: the slave's
\* interface has the channel, or is about to have it.
Link(S, M, s, m, waiting, held) ==
  /\ m.msgQueue = <<>>
  /\ waiting => OnlyBye(m.inbox) /\ ~s.up
  /\ waiting /\ s.open => /\ s.inbox = <<>> /\ m.inbox = <<>> /\ s.msgQueue = <<>>
                          /\ Empty(S) /\ S.told = "down"
  /\ s.open => Parting(s.inbox) /\ (S.told = "up" => OnlyBye(s.inbox))
  /\ m.open => Parting(m.inbox) /\ (m.bound /\ M.told = "up" => OnlyBye(m.inbox))
  /\ s.open /\ m.open => InPhase(S, M, s, m)
  /\ s.up /\ m.open /\ held => Matched(S, M, m) /\ OnlyBye(m.inbox)

Held(c) == iface[owner[c]].cc = c \/ pending[owner[c]] = c

LinkInv ==
  \A c \in Conns :
    owner[c] # None =>
      Link(iface[owner[c]], iface[Master], end[c].slave, end[c].master, InBacklog(c), Held(c))

\* An interface without a channel is disconnected.
ToldInv ==
  \A p \in Procs : /\ iface[p].cc = None /\ ~Requesting(p) => iface[p].told = "down"
                   /\ ~iface[p].twice

HInv == IInv /\ LinkInv /\ ToldInv


-----------------------------------------------------------------------------
(* The script as sequences. *)

LEMMA LineFacts ==
  ASSUME NEW n \in Nat \ {0}, n <= MaxRings, NEW k \in 1 .. Lines(n)
  PROVE  /\ Line(n, k) \in Messages
         /\ k = 1 => Line(n, k) = InitMsg
         /\ k = 2 => Line(n, k) = Plain("AddRegion")
         /\ k \in 3 .. n + 2 => Line(n, k) = AddRing(<<"S2M", k - 3>>)
         /\ k \in n + 3 .. 2 * n + 2 => Line(n, k) = AddRing(<<"M2S", k - n - 3>>)
         /\ k = Lines(n) => Line(n, k) = Plain("Connect")
<1>1. Lines(n) = 2 * n + 3
  BY DEF Lines
<1>2. CASE k = 1
  BY <1>1, <1>2, MessageKinds DEF Line
<1>3. CASE k = 2
  BY <1>1, <1>3, MessageKinds DEF Line
<1>4. CASE k \in 3 .. n + 2
  <2>1. <<"S2M", k - 3>> \in RingIds
    BY <1>4, ControlAssumption DEF RingIds
  <2>2. Line(n, k) = AddRing(<<"S2M", k - 3>>)
    BY <1>4 DEF Line
  <2>3. QED
    BY <1>1, <1>4, <2>1, <2>2, MessageKinds
<1>5. CASE k \in n + 3 .. 2 * n + 2
  <2>1. <<"M2S", k - n - 3>> \in RingIds
    BY <1>5, ControlAssumption DEF RingIds
  <2>2. Line(n, k) = AddRing(<<"M2S", k - n - 3>>)
    BY <1>5 DEF Line
  <2>3. QED
    BY <1>1, <1>5, <2>1, <2>2, MessageKinds
<1>6. CASE k = 2 * n + 3
  BY <1>1, <1>6, MessageKinds DEF Line
<1>7. QED
  BY <1>1, <1>2, <1>3, <1>4, <1>5, <1>6

LEMMA RestFacts ==
  ASSUME NEW n \in Nat \ {0}, n <= MaxRings
  PROVE  /\ Rest(n, Lines(n)) = <<>>
         /\ \A k \in 0 .. Lines(n) : Rest(n, k) \in Seq(Messages)
         /\ \A k \in 0 .. Lines(n) - 1 : /\ Rest(n, k) # <<>>
                                        /\ Head(Rest(n, k)) = Line(n, k + 1)
                                        /\ Tail(Rest(n, k)) = Rest(n, k + 1)
<1>1. Lines(n) \in Nat \ {0}
  BY DEF Lines
<1>2. ASSUME NEW k \in 0 .. Lines(n)
      PROVE  /\ Rest(n, k) \in Seq(Messages) /\ Len(Rest(n, k)) = Lines(n) - k
             /\ \A j \in 1 .. Lines(n) - k : Rest(n, k)[j] = Line(n, k + j)
  <2>1. \A j \in 1 .. Lines(n) - k : Line(n, k + j) \in Messages
    <3>1. ASSUME NEW j \in 1 .. Lines(n) - k PROVE Line(n, k + j) \in Messages
      <4>1. k + j \in 1 .. Lines(n)
        BY <1>1
      <4>2. QED
        BY <4>1, LineFacts
    <3>2. QED
      BY <3>1
  <2>2. QED
    BY <1>1, <2>1 DEF Rest
<1>3. Rest(n, Lines(n)) = <<>>
  <2>1. Len(Rest(n, Lines(n))) = 0 /\ Rest(n, Lines(n)) \in Seq(Messages)
    BY <1>1, <1>2
  <2>2. QED
    BY <2>1
<1>4. ASSUME NEW k \in 0 .. Lines(n) - 1
      PROVE  /\ Rest(n, k) # <<>> /\ Head(Rest(n, k)) = Line(n, k + 1)
             /\ Tail(Rest(n, k)) = Rest(n, k + 1)
  <2> DEFINE q == Rest(n, k)
             r == Rest(n, k + 1)
  <2>1. /\ q \in Seq(Messages) /\ Len(q) = Lines(n) - k
        /\ \A j \in 1 .. Lines(n) - k : q[j] = Line(n, k + j)
    BY <1>1, <1>2
  <2>2. k + 1 \in 0 .. Lines(n)
    BY <1>1
  <2>3. /\ r \in Seq(Messages) /\ Len(r) = Lines(n) - (k + 1)
        /\ \A j \in 1 .. Lines(n) - (k + 1) : r[j] = Line(n, (k + 1) + j)
    BY <1>2, <2>2
  <2> HIDE DEF q, r
  <2>4. q # <<>> /\ Head(q) = q[1]
    BY <1>1, <2>1
  <2>5. q[1] = Line(n, k + 1)
    BY <1>1, <2>1
  <2>6. /\ Tail(q) \in Seq(Messages) /\ Len(Tail(q)) = Len(r)
        /\ \A j \in 1 .. Len(r) : Tail(q)[j] = q[j + 1]
    BY <1>1, <2>1, <2>3, <2>4
  <2>7. ASSUME NEW j \in 1 .. Len(r) PROVE Tail(q)[j] = r[j]
    <3>1. j + 1 \in 1 .. Lines(n) - k /\ k + (j + 1) = (k + 1) + j
      BY <1>1, <2>3
    <3>2. QED
      BY <2>1, <2>3, <2>6, <3>1
  <2>8. Tail(q) = r
    BY <2>3, <2>6, <2>7
  <2>9. QED
    BY <2>4, <2>5, <2>8 DEF q, r
<1>5. QED
  BY <1>2, <1>3, <1>4

LEMMA MoreRings ==
  ASSUME NEW ringType \in {"S2M", "M2S"}, NEW n \in Nat
  PROVE  Append(Rings(ringType, n), <<ringType, n>>) = Rings(ringType, n + 1)
<1>1. Rings(ringType, n) \in Seq({ringType} \X Nat) /\ Len(Rings(ringType, n)) = n
  BY DEF Rings
<1>2. QED
  BY <1>1 DEF Rings

LEMMA NoRings == \A ringType : Rings(ringType, 0) = <<>>
BY DEF Rings

LEMMA Concatenation ==
  ASSUME NEW p \in Seq(Messages), NEW q \in Seq(Messages)
  PROVE  /\ p \o q \in Seq(Messages) /\ Len(p \o q) = Len(p) + Len(q)
         /\ \A k \in 1 .. Len(p) : (p \o q)[k] = p[k]
         /\ \A k \in 1 .. Len(q) : (p \o q)[Len(p) + k] = q[k]
OBVIOUS

\* A configured slave's handshake is the script.
LEMMA HandshakeIsScript ==
  ASSUME NEW S, Configured(S)
  PROVE  Handshake(S) = Rest(S.run, 0)
<1> DEFINE n == S.run
           first == <<InitMsg>>
           regions == [r \in DOMAIN S.regions |-> Plain("AddRegion")]
           tx == AddRings(S.tx)
           rx == AddRings(S.rx)
           last == <<Plain("Connect")>>
           h == Handshake(S)
<1>1. n \in Nat \ {0} /\ n <= MaxRings
  BY ControlAssumption DEF Configured
<1>2. regions = <<Plain("AddRegion")>>
  <2>1. DOMAIN S.regions = 1 .. 1
    BY DEF Configured
  <2>2. QED
    BY <2>1
<1>3. tx \in Seq(Messages) /\ Len(tx) = n
      /\ \A k \in 1 .. n : tx[k] = AddRing(<<"S2M", k - 1>>)
  <2>1. S.tx = [k \in 1 .. n |-> <<"S2M", k - 1>>]
    BY DEF Configured, Rings
  <2>2. tx = [k \in 1 .. n |-> AddRing(<<"S2M", k - 1>>)]
    BY <2>1 DEF AddRings
  <2>3. \A k \in 1 .. n : AddRing(<<"S2M", k - 1>>) \in Messages
    BY <1>1, ControlAssumption, MessageKinds DEF RingIds
  <2> HIDE DEF tx, n
  <2>4. QED
    BY <1>1, <2>2, <2>3
<1>4. rx \in Seq(Messages) /\ Len(rx) = n
      /\ \A k \in 1 .. n : rx[k] = AddRing(<<"M2S", k - 1>>)
  <2>1. S.rx = [k \in 1 .. n |-> <<"M2S", k - 1>>]
    BY DEF Configured, Rings
  <2>2. rx = [k \in 1 .. n |-> AddRing(<<"M2S", k - 1>>)]
    BY <2>1 DEF AddRings
  <2>3. \A k \in 1 .. n : AddRing(<<"M2S", k - 1>>) \in Messages
    BY <1>1, ControlAssumption, MessageKinds DEF RingIds
  <2> HIDE DEF rx, n
  <2>4. QED
    BY <1>1, <2>2, <2>3
<1>5. h = (((first \o regions) \o tx) \o rx) \o last
  BY DEF Handshake
<1>6. first \in Seq(Messages) /\ regions \in Seq(Messages) /\ last \in Seq(Messages)
      /\ Len(first) = 1 /\ Len(regions) = 1 /\ Len(last) = 1
      /\ first[1] = InitMsg /\ regions[1] = Plain("AddRegion") /\ last[1] = Plain("Connect")
  BY <1>2, MessageKinds
<1> HIDE DEF n, first, regions, tx, rx, last, h
<1> DEFINE a == first \o regions
           b == a \o tx
           d == b \o rx
<1>7. /\ a \in Seq(Messages) /\ Len(a) = 2
      /\ a[1] = InitMsg /\ a[2] = Plain("AddRegion")
  <2>1. /\ a \in Seq(Messages) /\ Len(a) = Len(first) + Len(regions)
        /\ \A k \in 1 .. Len(first) : a[k] = first[k]
        /\ \A k \in 1 .. Len(regions) : a[Len(first) + k] = regions[k]
    BY <1>6, Concatenation
  <2> HIDE DEF a
  <2>2. a[1] = first[1] /\ a[1 + 1] = regions[1]
    BY <1>6, <2>1
  <2>3. QED
    BY <1>6, <2>1, <2>2
<1> HIDE DEF a
<1>8. /\ b \in Seq(Messages) /\ Len(b) = n + 2
      /\ b[1] = InitMsg /\ b[2] = Plain("AddRegion")
      /\ \A k \in 3 .. n + 2 : b[k] = AddRing(<<"S2M", k - 3>>)
  <2>1. /\ b \in Seq(Messages) /\ Len(b) = n + 2
        /\ b[1] = a[1] /\ b[2] = a[2]
        /\ \A k \in 3 .. n + 2 : b[k] = tx[k - 2]
    <3>1. /\ b \in Seq(Messages) /\ Len(b) = Len(a) + Len(tx)
          /\ \A k \in 1 .. Len(a) : b[k] = a[k]
          /\ \A k \in 1 .. Len(tx) : b[Len(a) + k] = tx[k]
      BY <1>3, <1>7, Concatenation
    <3>2. \A k \in 3 .. n + 2 : k - 2 \in 1 .. n /\ 2 + (k - 2) = k
      BY <1>1
    <3> HIDE DEF b
    <3>3. QED
      BY <1>1, <1>3, <1>7, <3>1, <3>2
  <2>2. \A k \in 3 .. n + 2 : k - 2 \in 1 .. n /\ (k - 2) - 1 = k - 3
    BY <1>1
  <2> HIDE DEF b
  <2>3. QED
    BY <1>3, <1>7, <2>1, <2>2
<1> HIDE DEF b
<1>9. /\ d \in Seq(Messages) /\ Len(d) = 2 * n + 2
      /\ d[1] = InitMsg /\ d[2] = Plain("AddRegion")
      /\ \A k \in 3 .. n + 2 : d[k] = AddRing(<<"S2M", k - 3>>)
      /\ \A k \in n + 3 .. 2 * n + 2 : d[k] = AddRing(<<"M2S", k - n - 3>>)
  <2>1. /\ d \in Seq(Messages) /\ Len(d) = 2 * n + 2
        /\ \A k \in 1 .. n + 2 : d[k] = b[k]
        /\ \A k \in n + 3 .. 2 * n + 2 : d[k] = rx[k - (n + 2)]
    BY <1>1, <1>4, <1>8
  <2>2. \A k \in n + 3 .. 2 * n + 2 : k - (n + 2) \in 1 .. n /\ (k - (n + 2)) - 1 = k - n - 3
    BY <1>1
  <2> HIDE DEF d
  <2>3. QED
    BY <1>1, <1>4, <1>8, <2>1, <2>2
<1> HIDE DEF d
<1>10. /\ h \in Seq(Messages) /\ Len(h) = 2 * n + 3
       /\ \A k \in 1 .. 2 * n + 2 : h[k] = d[k]
       /\ h[2 * n + 3] = Plain("Connect")
  <2>1. h = d \o last
    BY <1>5 DEF a, b, d
  <2> DEFINE x == d \o last
  <2>5. /\ x \in Seq(Messages) /\ Len(x) = Len(d) + Len(last)
        /\ \A k \in 1 .. Len(d) : x[k] = d[k]
        /\ \A k \in 1 .. Len(last) : x[Len(d) + k] = last[k]
    BY <1>6, <1>9, Concatenation
  <2> HIDE DEF x
  <2>2. /\ h \in Seq(Messages) /\ Len(h) = Len(d) + Len(last)
        /\ \A k \in 1 .. Len(d) : h[k] = d[k]
        /\ \A k \in 1 .. Len(last) : h[Len(d) + k] = last[k]
    BY <2>1, <2>5 DEF x
  <2>3. h[Len(d) + 1] = last[1] /\ Len(d) + 1 = 2 * n + 3
    BY <1>1, <1>6, <1>9, <2>2
  <2>4. QED
    BY <1>1, <1>6, <1>9, <2>2, <2>3
<1>11. ASSUME NEW k \in 1 .. Lines(n) PROVE h[k] = Line(n, k)
  <2>1. Lines(n) = 2 * n + 3
    BY DEF Lines
  <2>2. n <= MaxRings
    BY <1>1
  <2> DEFINE line == Line(n, k)
  <2>8. /\ k = 1 => line = InitMsg
        /\ k = 2 => line = Plain("AddRegion")
        /\ k \in 3 .. n + 2 => line = AddRing(<<"S2M", k - 3>>)
        /\ k \in n + 3 .. 2 * n + 2 => line = AddRing(<<"M2S", k - n - 3>>)
        /\ k = Lines(n) => line = Plain("Connect")
    BY <1>1, <2>2, LineFacts
  <2> HIDE DEF line
  <2>3. CASE k = 1 \/ k = 2
    BY <1>1, <1>9, <1>10, <2>3, <2>8 DEF line
  <2>4. CASE k \in 3 .. n + 2
    BY <1>1, <1>9, <1>10, <2>4, <2>8 DEF line
  <2>5. CASE k \in n + 3 .. 2 * n + 2
    BY <1>1, <1>9, <1>10, <2>5, <2>8 DEF line
  <2>6. CASE k = 2 * n + 3
    BY <1>1, <1>10, <2>1, <2>6, <2>8 DEF line
  <2>7. QED
    BY <1>1, <2>1, <2>3, <2>4, <2>5, <2>6
<1>12. Lines(n) = 2 * n + 3
  BY DEF Lines
<1>13. h = [k \in 1 .. Lines(n) |-> Line(n, k)]
  BY <1>10, <1>11, <1>12
<1>14. Rest(n, 0) = [k \in 1 .. Lines(n) |-> Line(n, k)]
  <2>1. \A j \in 1 .. Lines(n) : 0 + j = j
    BY <1>1, <1>12
  <2>2. Lines(n) - 0 = Lines(n)
    BY <1>1, <1>12
  <2>3. QED
    BY <2>1, <2>2 DEF Rest
<1>15. QED
  BY <1>13, <1>14 DEF h, n

-----------------------------------------------------------------------------
(* What SendMsg and Close do to a work record, beyond Outcome. *)

\* The other fields of the end stay.
SameEnd(e, f) == f.bound = e.bound /\ f.up = e.up /\ f.gone = e.gone /\ f.inbox = e.inbox

LEMMA SendMsgSends ==
  ASSUME NEW w \in Works, NEW peerGone \in BOOLEAN, w.out = <<>>
  PROVE  LET r == SendMsg(w, peerGone)  q == w.e.msgQueue IN
         /\ r \in Works /\ r.i = w.i /\ SameEnd(w.e, r.e) /\ r.e.open = w.e.open
         /\ q = <<>> => r.out = <<>> /\ r.e.msgQueue = <<>>
         /\ q # <<>> => /\ r.e.msgQueue = Tail(q) /\ r.out \in {<<>>, <<Head(q)>>}
                        /\ ~peerGone /\ w.i.regions # <<>> => r.out = <<Head(q)>>
                        /\ ~peerGone /\ ~CarriesFd(Head(q)) => r.out = <<Head(q)>>
<1> DEFINE q == w.e.msgQueue
           v == [w EXCEPT !.e.msgQueue = Tail(@)]
           x == [v EXCEPT !.out = Append(@, Head(q))]
<1>1. q \in Seq(Messages) /\ w.e \in Ends
  BY DEF Works, Ends
<1>2. CASE q = <<>>
  BY <1>1, <1>2 DEF SendMsg, SameEnd
<1>3. CASE q # <<>>
  <2>1. Tail(q) \in Seq(Messages) /\ Head(q) \in Messages /\ <<Head(q)>> \in Seq(Messages)
    BY <1>1, <1>3
  <2>2. /\ v \in Works /\ v.e.msgQueue = Tail(q) /\ v.i = w.i /\ v.out = <<>>
        /\ SameEnd(w.e, v.e) /\ v.e.open = w.e.open
    BY <1>1, <2>1 DEF Works, Ends, SameEnd
  <2>3. /\ Fail(v) \in Works /\ Fail(v).e = v.e /\ Fail(v).i = v.i /\ Fail(v).out = <<>>
    BY <2>2 DEF Works, Fail
  <2>4. Append(<<>>, Head(q)) = <<Head(q)>>
    OBVIOUS
  <2>5. x \in Works /\ x.e = v.e /\ x.i = v.i /\ x.out = <<Head(q)>>
    BY <2>1, <2>2, <2>4 DEF Works
  <2>6. SendMsg(w, peerGone) = IF peerGone \/ (CarriesFd(Head(q)) /\ w.i.regions = <<>>)
                                 THEN Fail(v) ELSE x
    BY <1>3, <2>2 DEF SendMsg
  <2> HIDE DEF v, x
  <2>7. QED
    BY <1>3, <2>2, <2>3, <2>5, <2>6
<1>4. QED
  BY <1>2, <1>3

\* disconnect leaves j of the interface i.
LetGo(i, j) ==
  /\ j.run = i.run /\ j.twice = i.twice /\ j.told \in {i.told, "down"}
  /\ j.cc = None => j.told = "down" \/ (i.cc = None /\ j.told = i.told)
  /\ j.cc # None => \/ j.tx = i.tx /\ j.rx = i.rx /\ j.regions = i.regions
                    \/ \E r \in DOMAIN i.regions : ~i.regions[r]

LEMMA DisconnectLetsGo ==
  ASSUME NEW w \in Works, NEW good \in BOOLEAN
  PROVE  LetGo(w.i, Disconnect(w, good).i)
<1> DEFINE told     == [w EXCEPT !.i.told = "down"]
           noQueues == [told EXCEPT !.i.tx = <<>>, !.i.rx = <<>>]
           cleared  == [noQueues EXCEPT !.i = Cleared(@)]
           r        == Disconnect(w, good)
<1>1. /\ told \in Works /\ told.i.run = w.i.run /\ told.i.twice = w.i.twice
      /\ told.i.told = "down" /\ told.i.cc = w.i.cc
      /\ told.i.tx = w.i.tx /\ told.i.rx = w.i.rx /\ told.i.regions = w.i.regions
  BY DEF Works, Interfaces
<1>2. <<>> \in Seq(RingIds) /\ <<>> \in Seq(BOOLEAN)
  BY NoMessages
<1>3. /\ noQueues \in Works /\ noQueues.i.run = w.i.run /\ noQueues.i.twice = w.i.twice
      /\ noQueues.i.told = "down" /\ noQueues.i.cc = w.i.cc
  BY <1>1, <1>2 DEF Works, Interfaces
<1>4. /\ cleared \in Works /\ cleared.i.run = w.i.run /\ cleared.i.twice = w.i.twice
      /\ cleared.i.told = "down" /\ cleared.i.cc = None
  BY <1>2, <1>3 DEF Works, Interfaces, Cleared
<1>5. \/ r = w
      \/ w.i.cc # None /\ r = Fail(told)
      \/ w.i.cc # None /\ r = Fail(noQueues) /\ \E k \in DOMAIN w.i.regions : ~w.i.regions[k]
      \/ r = cleared
  BY DEF Disconnect
<1> HIDE DEF told, noQueues, cleared, r
<1>6. LetGo(w.i, r.i)
  BY <1>1, <1>3, <1>4, <1>5, FailFacts DEF LetGo
<1>7. QED
  BY <1>6 DEF r

LEMMA CloseLetsGo ==
  ASSUME NEW w \in Works, NEW sendMsg \in BOOLEAN, NEW peerGone \in BOOLEAN,
         NEW good \in BOOLEAN, w.out = <<>>
  PROVE  LET r == Close(w, sendMsg, peerGone, good) IN
         /\ LetGo(w.i, r.i) /\ (r.e.open => r.i = w.i)
         /\ SameEnd(w.e, r.e)
         /\ OnlyBye(r.out) /\ (~sendMsg => r.out = <<>>)
         /\ r.e.msgQueue = IF sendMsg THEN <<>> ELSE w.e.msgQueue
<1> DEFINE bye    == <<Plain("Disconnect")>>
           u      == [w EXCEPT !.e.msgQueue = bye]
           sent   == Farewell(w, sendMsg, peerGone)
           closed == [sent EXCEPT !.e.open = FALSE]
           r      == Close(w, sendMsg, peerGone, good)
           q      == IF sendMsg THEN <<>> ELSE w.e.msgQueue
<1>1. /\ sent \in Works /\ sent.i = w.i /\ SameEnd(w.e, sent.e)
      /\ OnlyBye(sent.out) /\ (~sendMsg => sent.out = <<>>) /\ sent.e.msgQueue = q
  <2>1. CASE ~sendMsg
    BY <2>1, OnlyEmpty DEF Farewell, SameEnd, OnlyBye
  <2>2. CASE sendMsg
    <3>1. bye \in Seq(Messages) /\ bye # <<>> /\ Head(bye) = Plain("Disconnect") /\ Tail(bye) = <<>>
      BY DisconnectIsMessage
    <3>2. /\ u \in Works /\ u.out = <<>> /\ u.i = w.i /\ u.e.msgQueue = bye /\ SameEnd(w.e, u.e)
      BY <3>1 DEF Works, Ends, SameEnd
    <3>3. sent = SendMsg(u, peerGone)
      BY <2>2 DEF Farewell
    <3>4. OnlyBye(bye)
      BY DEF OnlyBye, Only, Plain
    <3> HIDE DEF u, bye
    <3> DEFINE x == SendMsg(u, peerGone)
    <3>5. /\ x \in Works /\ x.i = u.i /\ SameEnd(u.e, x.e)
          /\ x.e.msgQueue = Tail(bye) /\ x.out \in {<<>>, <<Head(bye)>>}
      BY <3>1, <3>2, SendMsgSends
    <3>6. OnlyBye(x.out)
      BY <3>1, <3>4, <3>5, OnlyEmpty DEF OnlyBye, bye
    <3>7. sent = x
      BY <3>3
    <3> HIDE DEF x, sent
    <3>8. QED
      BY <2>2, <3>1, <3>2, <3>5, <3>6, <3>7 DEF SameEnd
  <2>3. QED
    BY <2>1, <2>2
<1>2. r = CASE ~sent.ok -> sent
            [] sent.ok /\ ~sent.e.open -> Fail(sent)
            [] sent.ok /\ sent.e.open /\ ~w.e.bound -> closed
            [] OTHER -> Disconnect(closed, good)
  BY DEF Close, Farewell
<1> HIDE DEF sent, r, q
<1>3. /\ closed \in Works /\ closed.i = w.i /\ SameEnd(w.e, closed.e) /\ ~closed.e.open
      /\ closed.out = sent.out /\ closed.e.msgQueue = q
  BY <1>1 DEF Works, Ends, SameEnd
<1>4. /\ Fail(sent).i = w.i /\ Fail(sent).e = sent.e /\ Fail(sent).out = sent.out
  BY <1>1, FailFacts
<1> HIDE DEF closed
<1>5. LET x == Disconnect(closed, good) IN
      LetGo(w.i, x.i) /\ x.e = closed.e /\ x.out = closed.out
  BY <1>3, DisconnectOutcome, DisconnectLetsGo
<1>6. LetGo(w.i, w.i)
  BY DEF LetGo
<1>7. /\ LetGo(w.i, r.i) /\ (r.e.open => r.i = w.i) /\ SameEnd(w.e, r.e)
      /\ r.out = sent.out /\ r.e.msgQueue = q
  <2>1. CASE r \in {sent, Fail(sent), closed}
    BY <1>1, <1>3, <1>4, <1>6, <2>1
  <2>2. CASE r = Disconnect(closed, good)
    BY <1>3, <1>5, <2>2
  <2>3. QED
    BY <1>2, <2>1, <2>2
<1>8. QED
  BY <1>1, <1>7 DEF r, q

-----------------------------------------------------------------------------
(* What a step does to the connection of its channel.  In these lemmas S, M,*)
(* s and m are what they are before the step, S2, M2, s2 and m2 after it.   *)

LEMMA PartingFacts ==
  /\ Parting(<<>>) /\ OnlyBye(<<>>)
  /\ \A x : Parting(<<x>>)
  /\ \A q \in Seq(Messages) : OnlyBye(q) => Parting(q)
  /\ \A q \in Seq(Messages) : Parting(q) /\ q # <<>> => OnlyBye(Tail(q))
  /\ \A q \in Seq(Messages) : OnlyBye(q) /\ q # <<>> => Head(q).type = "Disconnect"
<1>1. Parting(<<>>) /\ OnlyBye(<<>>) /\ \A x : Parting(<<x>>)
  BY OnlyEmpty DEF Parting, OnlyBye
<1>2. ASSUME NEW q \in Seq(Messages), OnlyBye(q)
      PROVE  Parting(q) /\ (q # <<>> => Head(q).type = "Disconnect")
  <2>1. Parting(q)
    BY <1>2 DEF Parting, OnlyBye, Only
  <2>2. q # <<>> => Head(q).type = "Disconnect"
    BY <1>2, OnlyRest DEF OnlyBye
  <2>3. QED
    BY <2>1, <2>2
<1>3. ASSUME NEW q \in Seq(Messages), Parting(q), q # <<>>
      PROVE  OnlyBye(Tail(q))
  <2>1. \A k \in DOMAIN Tail(q) : Tail(q)[k] = q[k + 1] /\ k + 1 \in DOMAIN q /\ k + 1 > 1
    BY <1>3
  <2>2. QED
    BY <1>3, <2>1 DEF Parting, OnlyBye, Only
<1>4. QED
  BY <1>1, <1>2, <1>3

LEMMA PartingConcat ==
  ASSUME NEW q \in Seq(Messages), NEW out \in Seq(Messages), OnlyBye(out)
  PROVE  /\ Parting(q) => Parting(q \o out)
         /\ OnlyBye(q) => OnlyBye(q \o out)
<1>1. OnlyBye(q) => OnlyBye(q \o out)
  BY OnlyConcat DEF OnlyBye
<1>2. ASSUME Parting(q) PROVE Parting(q \o out)
  <2> DEFINE x == q \o out
  <2>1. /\ DOMAIN x = 1 .. Len(q) + Len(out) /\ DOMAIN q = 1 .. Len(q) /\ Len(q) \in Nat
        /\ DOMAIN out = 1 .. Len(out) /\ Len(out) \in Nat
        /\ \A k \in 1 .. Len(q) : x[k] = q[k]
        /\ \A k \in 1 .. Len(out) : x[Len(q) + k] = out[k]
    BY Concatenation
  <2> HIDE DEF x
  <2>2. ASSUME NEW k \in DOMAIN x, k > 1 PROVE x[k].type = "Disconnect"
    <3>1. CASE k <= Len(q)
      BY <1>2, <2>1, <2>2, <3>1 DEF Parting
    <3>2. CASE k > Len(q)
      <4>1. k - Len(q) \in DOMAIN out /\ Len(q) + (k - Len(q)) = k
        BY <2>1, <3>2
      <4>2. QED
        BY <2>1, <4>1 DEF OnlyBye, Only
    <3>3. QED
      BY <2>1, <3>1, <3>2
  <2>3. QED
    BY <2>2 DEF Parting, x
<1>3. QED
  BY <1>1, <1>2

\* The end the messages of a step reach.
Grown(e, f, out) ==
  /\ f.open = e.open /\ f.bound = e.bound /\ f.up = e.up /\ f.msgQueue = e.msgQueue
  /\ f.inbox = e.inbox \o out

\* While a handshake is going on nobody says Disconnect, and who has a message
\* to read is not connected.
LEMMA PhaseFacts ==
  ASSUME NEW S \in Interfaces, NEW M, NEW s \in Ends, NEW m \in Ends,
         InPhase(S, M, s, m)
  PROVE  /\ s.inbox # <<>> => ~s.up /\ Head(s.inbox).type # "Disconnect"
         /\ m.inbox # <<>> => ~s.up /\ s.inbox = <<>> /\ Head(m.inbox).type # "Disconnect"
         /\ Len(s.inbox) + Len(m.inbox) <= 1
<1>1. CASE Greeting(S, M, s, m)
  <2>1. HelloMsg.type # "Disconnect"
    BY DEF HelloMsg
  <2>2. QED
    BY <1>1, <2>1 DEF Greeting
<1>2. CASE \E k \in 0 .. Lines(S.run) - 1 : UnderWay(S, M, s, m, k)
  <2>1. PICK k \in 0 .. Lines(S.run) - 1 : UnderWay(S, M, s, m, k)
    BY <1>2
  <2>2. S.run \in Nat \ {0} /\ Lines(S.run) \in Nat /\ k + 1 \in 1 .. Lines(S.run)
    BY <2>1 DEF UnderWay, Configured, Lines
  <2> DEFINE line == Line(S.run, k + 1)
  <2>3. line.type # "Disconnect"
    BY <2>2 DEF Line, InitMsg, Plain, AddRing
  <2> HIDE DEF line
  <2>4. CASE m.inbox = <<line>> /\ s.inbox = <<>>
    BY <2>1, <2>3, <2>4 DEF UnderWay
  <2>5. CASE m.inbox = <<>> /\ s.inbox = <<Plain("Ack")>>
    BY <2>1, <2>5 DEF UnderWay, Plain
  <2>6. QED
    BY <2>1, <2>4, <2>5 DEF UnderWay, line
<1>3. CASE Settled(S, M, s, m)
  <2>1. Plain("Connected").type # "Disconnect"
    BY DEF Plain
  <2>2. m.inbox = <<>>
    BY <1>3 DEF Settled
  <2>3. CASE s.inbox = <<Plain("Connected")>> /\ ~s.up
    BY <2>1, <2>2, <2>3
  <2>4. CASE s.inbox = <<>>
    BY <2>2, <2>4
  <2>5. QED
    BY <1>3, <2>3, <2>4 DEF Settled
<1>4. QED
  BY <1>1, <1>2, <1>3 DEF InPhase

\* The slave's channel is closed.
LEMMA SlaveCloses ==
  ASSUME NEW S, NEW M, NEW s \in Ends, NEW m \in Ends, NEW waiting, NEW held,
         Link(S, M, s, m, waiting, held),
         NEW S2, NEW s2 \in Ends, NEW m2 \in Ends, NEW held2, NEW out \in Seq(Messages),
         ~s2.open, s2.up => s.up, Grown(m, m2, out), m.open \/ waiting => OnlyBye(out),
         s2.up /\ m.open /\ held2 => Matched(S2, M, m) /\ OnlyBye(m.inbox)
  PROVE  Link(S2, M, s2, m2, waiting, held2)
<1>1. m.inbox \in Seq(Messages)
  BY DEF Ends
<1>2. /\ m2.open = m.open /\ m2.bound = m.bound /\ m2.up = m.up /\ m2.msgQueue = m.msgQueue
      /\ m2.inbox = m.inbox \o out
  BY DEF Grown
<1>3. m.open \/ waiting => /\ Parting(m.inbox) => Parting(m2.inbox)
                           /\ OnlyBye(m.inbox) => OnlyBye(m2.inbox)
  BY <1>1, <1>2, PartingConcat
<1>4. Matched(S2, M, m) => Matched(S2, M, m2)
  BY <1>2 DEF Matched
<1>5. QED
  BY <1>2, <1>3, <1>4 DEF Link

\* The master's channel is closed.
LEMMA MasterCloses ==
  ASSUME NEW S, NEW M, NEW s \in Ends, NEW m \in Ends, NEW waiting, NEW held,
         Link(S, M, s, m, waiting, held), ~waiting,
         NEW M2, NEW s2 \in Ends, NEW m2 \in Ends, NEW out \in Seq(Messages),
         ~m2.open, m2.msgQueue = <<>>, Grown(s, s2, out), s.open => OnlyBye(out)
  PROVE  Link(S, M2, s2, m2, waiting, held)
<1>1. s.inbox \in Seq(Messages)
  BY DEF Ends
<1>2. s2.open = s.open /\ s2.up = s.up /\ s2.inbox = s.inbox \o out
  BY DEF Grown
<1>3. s.open => /\ Parting(s.inbox) => Parting(s2.inbox)
                /\ OnlyBye(s.inbox) => OnlyBye(s2.inbox)
  BY <1>1, <1>2, PartingConcat
<1>4. QED
  BY <1>2, <1>3 DEF Link

\* The slave reads a message of a master that has gone or closed.
LEMMA SlaveAlone ==
  ASSUME NEW S, NEW M, NEW s \in Ends, NEW m \in Ends, NEW waiting, NEW held,
         Link(S, M, s, m, waiting, held), ~waiting, s.open, s.inbox # <<>>, ~m.open,
         NEW S2, NEW s2 \in Ends, NEW m2 \in Ends, NEW held2,
         s2.inbox = Tail(s.inbox), ~m2.open, m2.msgQueue = m.msgQueue
  PROVE  Link(S2, M, s2, m2, waiting, held2)
<1>1. OnlyBye(s2.inbox)
  BY PartingFacts DEF Link, Ends
<1>2. Parting(s2.inbox)
  BY <1>1, PartingFacts DEF Ends
<1>3. QED
  BY <1>1, <1>2 DEF Link

\* The master reads a message, other than Disconnect, of a slave that has gone
\* or closed.
LEMMA MasterAlone ==
  ASSUME NEW S, NEW M, NEW s \in Ends, NEW m \in Ends, NEW waiting, NEW held,
         Link(S, M, s, m, waiting, held), ~waiting, m.open, m.inbox # <<>>, ~s.open,
         Head(m.inbox).type # "Disconnect",
         NEW M2, NEW s2 \in Ends, NEW m2 \in Ends,
         m2.inbox = Tail(m.inbox), m2.msgQueue = <<>>,
         ~s2.open, s2.up = s.up
  PROVE  Link(S, M2, s2, m2, waiting, held)
<1>1. m.inbox \in Seq(Messages) /\ m2.inbox \in Seq(Messages)
  BY DEF Ends
<1>2. OnlyBye(m2.inbox)
  BY <1>1, PartingFacts DEF Link
<1>3. Parting(m2.inbox)
  BY <1>1, <1>2, PartingFacts
<1>4. ~OnlyBye(m.inbox)
  BY <1>1, PartingFacts
<1>5. QED
  BY <1>2, <1>3, <1>4 DEF Link

\* A step on another channel: it may change the slave's interface unless it has
\* this channel, and the master's unless it is bound to this one.
LEMMA OthersLinked ==
  ASSUME NEW S, NEW M, NEW s, NEW m, NEW waiting, NEW held,
         Link(S, M, s, m, waiting, held),
         NEW S2, NEW M2, NEW waiting2, NEW held2, waiting2 => waiting,
         S2 = S \/ ~s.open, M2 = M \/ ~(m.open /\ m.bound),
         held2 => held /\ (S2.run = S.run /\ S2.regions = S.regions /\ S2.tx = S.tx
                           /\ S2.rx = S.rx)
  PROVE  Link(S2, M2, s, m, waiting2, held2)
<1>1. ~(m.open /\ m.bound) /\ s.open /\ m.open => InPhase(S, M2, s, m)
  <2>1. HAVE ~(m.open /\ m.bound) /\ s.open /\ m.open
  <2>2. InPhase(S, M, s, m) /\ ~m.bound
    BY <2>1 DEF Link
  <2>3. ~Settled(S, M, s, m)
    BY <2>2 DEF Settled, Matched
  <2>4. ASSUME NEW k \in 0 .. Lines(S.run) - 1, UnderWay(S, M, s, m, k)
        PROVE  UnderWay(S, M2, s, m, k)
    BY <2>2, <2>4 DEF UnderWay, Served
  <2>5. Greeting(S, M, s, m) => Greeting(S, M2, s, m)
    BY DEF Greeting
  <2>6. QED
    BY <2>2, <2>3, <2>4, <2>5 DEF InPhase
<1>2. Matched(S, M, m) /\ held2 => Matched(S2, M, m) /\ (m.open => M2 = M)
  BY DEF Matched, Configured
<1>3. QED
  BY <1>1, <1>2 DEF Link

-----------------------------------------------------------------------------
(* How a handshake goes on while both channels are open. *)

LEMMA LineTypes ==
  ASSUME NEW n \in Nat \ {0}, n <= MaxRings, NEW k \in 1 .. Lines(n)
  PROVE  /\ Line(n, k).type = "Init" <=> k = 1
         /\ Line(n, k).type = "AddRegion" <=> k = 2
         /\ Line(n, k).type = "AddRing" <=> k \in 3 .. 2 * n + 2
         /\ Line(n, k).type = "Connect" <=> k = Lines(n)
<1>1. Lines(n) = 2 * n + 3
  BY DEF Lines
<1> DEFINE line == Line(n, k)
<1>2. /\ k = 1 => line = InitMsg
      /\ k = 2 => line = Plain("AddRegion")
      /\ k \in 3 .. n + 2 => line = AddRing(<<"S2M", k - 3>>)
      /\ k \in n + 3 .. 2 * n + 2 => line = AddRing(<<"M2S", k - n - 3>>)
      /\ k = Lines(n) => line = Plain("Connect")
  BY LineFacts
<1> HIDE DEF line
<1>3. /\ k = 1 => line.type = "Init"
      /\ k = 2 => line.type = "AddRegion"
      /\ k \in 3 .. n + 2 => line.type = "AddRing"
      /\ k \in n + 3 .. 2 * n + 2 => line.type = "AddRing"
      /\ k = Lines(n) => line.type = "Connect"
  BY <1>2 DEF InitMsg, Plain, AddRing
<1>4. k = 1 \/ k = 2 \/ k \in 3 .. n + 2 \/ k \in n + 3 .. 2 * n + 2 \/ k = Lines(n)
  BY <1>1
<1>5. k \in 3 .. 2 * n + 2 <=> k \in 3 .. n + 2 \/ k \in n + 3 .. 2 * n + 2
  BY <1>1
<1>6. QED
  BY <1>1, <1>3, <1>4, <1>5 DEF line

\* Which line the master reads.
LEMMA MasterReads ==
  ASSUME NEW S, NEW M, NEW s, NEW m, InPhase(S, M, s, m), m.inbox # <<>>
  PROVE  \E k \in 0 .. Lines(S.run) - 1 :
           /\ Configured(S) /\ S.told = "down" /\ ~s.up /\ Served(S, M, m, k)
           /\ m.inbox = <<Line(S.run, k + 1)>> /\ s.inbox = <<>>
           /\ s.msgQueue = Rest(S.run, k + 1)
<1>1. ~Greeting(S, M, s, m) /\ ~Settled(S, M, s, m)
  BY DEF Greeting, Settled
<1>2. PICK k \in 0 .. Lines(S.run) - 1 : UnderWay(S, M, s, m, k)
  BY <1>1 DEF InPhase
<1>3. QED
  BY <1>2 DEF UnderWay

\* What the slave reads, and when.
LEMMA SlaveReads ==
  ASSUME NEW S, NEW M, NEW s, NEW m, InPhase(S, M, s, m), s.inbox # <<>>
  PROVE  /\ Head(s.inbox).type = "Hello" => Greeting(S, M, s, m)
         /\ Head(s.inbox).type = "Connected" => /\ Settled(S, M, s, m)
                                                /\ s.inbox = <<Plain("Connected")>>
         /\ Head(s.inbox).type = "Ack" =>
              \E k \in 1 .. Lines(S.run) - 1 :
                /\ Configured(S) /\ S.told = "down" /\ ~s.up /\ Served(S, M, m, k)
                /\ m.inbox = <<>> /\ s.inbox = <<Plain("Ack")>>
                /\ s.msgQueue = Rest(S.run, k)
<1>1. CASE Greeting(S, M, s, m)
  <2>1. s.inbox = <<HelloMsg>>
    BY <1>1 DEF Greeting
  <2>2. Head(s.inbox).type = "Hello"
    BY <2>1 DEF HelloMsg
  <2>3. QED
    BY <1>1, <2>2
<1>2. CASE \E k \in 0 .. Lines(S.run) - 1 : UnderWay(S, M, s, m, k)
  <2>1. PICK k \in 0 .. Lines(S.run) - 1 : UnderWay(S, M, s, m, k)
    BY <1>2
  <2>2. /\ Configured(S) /\ S.told = "down" /\ ~s.up /\ Served(S, M, m, k)
        /\ m.inbox = <<>> /\ s.inbox = <<Plain("Ack")>> /\ k > 0
        /\ s.msgQueue = Rest(S.run, k)
    BY <2>1 DEF UnderWay
  <2>3. Head(s.inbox).type = "Ack"
    BY <2>2 DEF Plain
  <2>4. Lines(S.run) \in Nat
    BY <2>2 DEF Configured, Lines
  <2>5. k \in 1 .. Lines(S.run) - 1
    BY <2>1, <2>2, <2>4
  <2>6. QED
    BY <2>2, <2>3, <2>5
<1>3. CASE Settled(S, M, s, m)
  <2>1. s.inbox = <<Plain("Connected")>>
    BY <1>3 DEF Settled
  <2>2. Head(s.inbox).type = "Connected"
    BY <2>1 DEF Plain
  <2>3. QED
    BY <1>3, <2>1, <2>2
<1>4. QED
  BY <1>1, <1>2, <1>3 DEF InPhase

\* A line is under way to the master.
LEMMA LineSent ==
  ASSUME NEW S2, NEW M, NEW s2, NEW m2, NEW waiting, ~waiting, NEW held2,
         Configured(S2), S2.told = "down", ~s2.up,
         NEW k \in 0 .. Lines(S2.run) - 1, Served(S2, M, m2, k),
         m2.inbox = <<Line(S2.run, k + 1)>>, s2.inbox = <<>>,
         s2.msgQueue = Rest(S2.run, k + 1),
         m2.msgQueue = <<>>
  PROVE  Link(S2, M, s2, m2, waiting, held2)
<1>1. UnderWay(S2, M, s2, m2, k)
  BY DEF UnderWay
<1>2. Parting(m2.inbox) /\ Parting(s2.inbox)
  BY PartingFacts
<1>3. m2.bound => M.told # "up"
  BY DEF Served
<1>4. QED
  BY <1>1, <1>2, <1>3 DEF Link, InPhase

\* Its Ack is under way back.
LEMMA AckSent ==
  ASSUME NEW S, NEW M2, NEW s2, NEW m2, NEW waiting, ~waiting, NEW held,
         Configured(S), S.told = "down", ~s2.up,
         NEW k \in 1 .. Lines(S.run) - 1, Served(S, M2, m2, k),
         m2.inbox = <<>>, s2.inbox = <<Plain("Ack")>>,
         s2.msgQueue = Rest(S.run, k),
         m2.msgQueue = <<>>
  PROVE  Link(S, M2, s2, m2, waiting, held)
<1>1. k \in 0 .. Lines(S.run) - 1 /\ k > 0
  BY DEF Lines, Configured
<1>2. UnderWay(S, M2, s2, m2, k)
  BY <1>1 DEF UnderWay
<1>3. Parting(m2.inbox) /\ OnlyBye(m2.inbox) /\ Parting(s2.inbox)
  BY PartingFacts
<1>4. QED
  BY <1>1, <1>2, <1>3 DEF Link, InPhase

\* The master is connected.
LEMMA MasterConnected ==
  ASSUME NEW S, NEW M2, NEW s2, NEW m2, NEW waiting, ~waiting, NEW held,
         Matched(S, M2, m2), S.told = "down", ~s2.up,
         m2.inbox = <<>>, s2.inbox = <<Plain("Connected")>>,
         s2.msgQueue = <<>>, m2.msgQueue = <<>>
  PROVE  Link(S, M2, s2, m2, waiting, held)
<1>1. Settled(S, M2, s2, m2)
  BY DEF Settled
<1>2. Parting(m2.inbox) /\ OnlyBye(m2.inbox) /\ Parting(s2.inbox)
  BY PartingFacts
<1>3. QED
  BY <1>1, <1>2 DEF Link, InPhase

\* And the slave.
LEMMA SlaveConnected ==
  ASSUME NEW S2, NEW M, NEW s2, NEW m2, NEW waiting, ~waiting, NEW held,
         Matched(S2, M, m2), s2.up,
         m2.inbox = <<>>, s2.inbox = <<>>, s2.msgQueue = <<>>, m2.msgQueue = <<>>
  PROVE  Link(S2, M, s2, m2, waiting, held)
<1>1. Settled(S2, M, s2, m2)
  BY DEF Settled
<1>2. Parting(<<>>) /\ OnlyBye(<<>>)
  BY PartingFacts
<1>3. QED
  BY <1>1, <1>2 DEF Link, InPhase

-----------------------------------------------------------------------------
(* The steps of the specification. *)

LEMMA HeldOnce ==
  ASSUME StateInv, NEW c \in Conns, owner[c] \in Slaves, Held(c),
         NEW d \in Conns \ {c}, owner[d] = owner[c]
  PROVE  ~Held(d) /\ ~end[d].slave.open
<1>1. /\ TypeOK /\ SlaveInv /\ None \notin Conns
      /\ pending[owner[c]] # None => iface[owner[c]].cc = None
  BY ControlAssumption DEF StateInv, SlaveInv
<1>2. ~Held(d)
  BY <1>1 DEF Held
<1>3. end[d].slave.open => Held(d)
  BY <1>1 DEF SlaveInv, Held
<1>4. QED
  BY <1>2, <1>3

\* A step on a channel: what remains to be shown is that its own connection
\* keeps to the invariant.
LEMMA ChannelStep ==
  ASSUME HInv, NEW c \in Conns, NEW side \in Sides, owner[c] # None,
         NEW r \in Works, Commit(c, side, r), UNCHANGED <<owner, pending>>,
         \A d \in Conns \ {c} : InBacklog(d)' <=> InBacklog(d),
         side = "slave" => Held(c),
         side = "slave" /\ r.i.cc # None => r.i.cc = iface[owner[c]].cc,
         side = "master" => r.i = iface[Master] \/ iface[Master].cc \in {None, c},
         ~r.i.twice,
         r.i.cc = None /\ ~Requesting(Proc(c, side)) => r.i.told = "down",
         Link(iface'[owner[c]], iface'[Master], end'[c].slave, end'[c].master,
              InBacklog(c)', Held(c)')
  PROVE  LinkInv' /\ ToldInv'
<1> DEFINE p == Proc(c, side)
           linked(d) == Link(iface'[owner[d]], iface'[Master], end'[d].slave, end'[d].master,
                             InBacklog(d)', Held(d)')
<1>1. StateInv /\ TypeOK /\ OneChannelPerInterface /\ LinkInv /\ ToldInv
  BY DEF HInv, IInv, StateInv
<1>2. /\ p \in Procs
      /\ side = "master" => p = Master
      /\ side = "slave" => p = owner[c] /\ p \in Slaves /\ p # Master
      /\ side = "master" \/ side = "slave"
  BY <1>1, SideFacts DEF Sides
<1>3. /\ iface'[p] = r.i
      /\ \A q \in Procs \ {p} : iface'[q] = iface[q]
      /\ \A d \in Conns \ {c} : end'[d] = end[d]
  BY <1>1, CommitView
<1>4. /\ None \notin Conns /\ Master \in Procs /\ Slaves \subseteq Procs /\ Master \notin Slaves
      /\ None \notin Slaves
  BY ControlAssumption DEF Procs
<1> HIDE DEF p
<1>5. ASSUME NEW d \in Conns \ {c}, owner[d] # None
      PROVE  linked(d)
  <2> DEFINE S == iface[owner[d]]
             M == iface[Master]
             s == end[d].slave
             m == end[d].master
             S2 == iface'[owner[d]]
             M2 == iface'[Master]
  <2>1. Link(S, M, s, m, InBacklog(d), Held(d))
    BY <1>1, <1>5 DEF LinkInv
  <2>2. owner[d] \in Slaves /\ owner[d] \in Procs
    BY <1>1, <1>4, <1>5 DEF TypeOK
  <2>3. end'[d].slave = s /\ end'[d].master = m
    BY <1>3
  <2>4. CASE side = "master"
    <3>1. S2 = S /\ (Held(d)' <=> Held(d))
      BY <1>2, <1>3, <1>4, <2>2, <2>4 DEF Held
    <3>2. M2 = M \/ ~(m.open /\ m.bound)
      <4>1. M2 = r.i
        BY <1>2, <1>3, <2>4
      <4>2. m.open /\ m.bound => M.cc = d
        BY <1>1 DEF OneChannelPerInterface
      <4>3. M.cc \in {None, c} => M.cc # d
        BY <1>4
      <4>4. QED
        BY <2>4, <4>1, <4>2, <4>3
    <3> HIDE DEF S, M, s, m, S2, M2
    <3>3. Link(S2, M2, s, m, InBacklog(d)', Held(d)')
      BY <2>1, <3>1, <3>2, OthersLinked
    <3>4. QED
      BY <2>3, <3>3 DEF S2, M2
  <2>5. CASE side = "slave"
    <3>1. M2 = M
      BY <1>2, <1>3, <1>4, <2>5
    <3>2. CASE owner[d] = owner[c]
      <4>1. ~Held(d) /\ ~s.open
        BY <1>1, <1>2, <2>5, <3>2, HeldOnce
      <4>2. ~Held(d)'
        BY <1>2, <1>3, <1>4, <2>5, <3>2, <4>1 DEF Held
      <4> HIDE DEF S, M, s, m, S2, M2
      <4>3. Link(S2, M2, s, m, InBacklog(d)', Held(d)')
        BY <2>1, <3>1, <4>1, <4>2, OthersLinked
      <4>4. QED
        BY <2>3, <4>3 DEF S2, M2
    <3>3. CASE owner[d] # owner[c]
      <4>1. S2 = S /\ (Held(d)' <=> Held(d))
        BY <1>2, <1>3, <2>2, <2>5, <3>3 DEF Held
      <4> HIDE DEF S, M, s, m, S2, M2
      <4>2. Link(S2, M2, s, m, InBacklog(d)', Held(d)')
        BY <2>1, <3>1, <4>1, OthersLinked
      <4>3. QED
        BY <2>3, <4>2 DEF S2, M2
    <3>4. QED
      BY <3>2, <3>3
  <2>6. QED
    BY <1>2, <2>4, <2>5
<1>6. linked(c)
  OBVIOUS
<1> HIDE DEF linked
<1>7. \A d \in Conns : owner[d] # None => linked(d)
  BY <1>5, <1>6
<1>8. LinkInv'
  BY <1>7 DEF LinkInv, linked
<1>9. ToldInv'
  BY <1>1, <1>2, <1>3 DEF ToldInv, Requesting, p
<1>10. QED
  BY <1>8, <1>9

\* The connection of a channel that has a message to read.
LEMMA Reading ==
  ASSUME HInv, NEW c \in Conns, NEW side \in Sides, NEW type, Receives(c, side, type)
  PROVE  LET S == iface[owner[c]]  M == iface[Master]
             s == end[c].slave     m == end[c].master
         IN
         /\ owner[c] # None /\ owner[c] \in Slaves /\ owner[c] # Master
         /\ S \in Interfaces /\ M \in Interfaces /\ s \in Ends /\ m \in Ends
         /\ Link(S, M, s, m, InBacklog(c), Held(c)) /\ ~InBacklog(c)
         /\ end[c][side].open /\ end[c][side].inbox # <<>>
         /\ Head(end[c][side].inbox).type = type
         /\ s.open => Held(c)
         /\ PeerGone(c, side) = FALSE
<1>1. TypeOK /\ OwnerInv /\ BacklogInv /\ SlaveInv /\ LinkInv
  BY DEF HInv, IInv, StateInv
<1>2. end[c][side].open /\ end[c][side].inbox # <<>> /\ ~PeerGone(c, side)
      /\ Head(end[c][side].inbox).type = type
  BY DEF Receives
<1>3. owner[c] \in Slaves /\ owner[c] # None /\ owner[c] # Master
  BY <1>1, <1>2, OpenIsOwned, ControlAssumption DEF Procs
<1>4. /\ iface[owner[c]] \in Interfaces /\ iface[Master] \in Interfaces
      /\ end[c].slave \in Ends /\ end[c].master \in Ends
  BY <1>1, <1>3 DEF TypeOK, Procs, Sides
<1>5. Link(iface[owner[c]], iface[Master], end[c].slave, end[c].master, InBacklog(c), Held(c))
  BY <1>1, <1>3 DEF LinkInv
<1>6. ~InBacklog(c)
  <2>1. CASE side = "slave"
    BY <1>2, <1>5, <2>1 DEF Link
  <2>2. CASE side = "master"
    BY <1>1, <1>2, <2>2 DEF BacklogInv
  <2>3. QED
    BY <2>1, <2>2 DEF Sides
<1>7. end[c].slave.open => Held(c)
  BY <1>1 DEF SlaveInv, Held
<1>8. PeerGone(c, side) \in BOOLEAN
  BY <1>1 DEF TypeOK, PeerGone, Sides, Other, Ends
<1>9. QED
  BY <1>2, <1>3, <1>4, <1>5, <1>6, <1>7, <1>8

\* A handler of the slave's channel: what remains to be shown is what becomes of
\* a handshake that goes on.
LEMMA SlaveStep ==
  ASSUME HInv, NEW c \in Conns, NEW type, Receives(c, "slave", type),
         NEW good \in BOOLEAN, NEW w \in Works, Finish(c, "slave", w, good),
         w.out = <<>>, ~w.i.twice,
         w.i.cc = iface[owner[c]].cc \/ (w.i.cc = None /\ w.i.told = "down"),
         w.e.inbox = Tail(end[c].slave.inbox),
         end[c].master.open =>
           /\ ~w.ok => ~w.e.up
           /\ w.ok => \A m2 \in Ends : \A waiting, held :
                        ~waiting /\ Grown(end[c].master, m2, SendMsg(w, FALSE).out) =>
                          Link(w.i, iface[Master], SendMsg(w, FALSE).e, m2, waiting, held)
  PROVE  LinkInv' /\ ToldInv'
<1> DEFINE S == iface[owner[c]]
           M == iface[Master]
           s == end[c].slave
           m == end[c].master
           s2 == end'[c].slave
           m2 == end'[c].master
           r == Finished(c, "slave", w, good)
           v == [w EXCEPT !.ok = TRUE]
<1>1. /\ owner[c] # None /\ owner[c] \in Slaves /\ owner[c] # Master
      /\ S \in Interfaces /\ M \in Interfaces /\ s \in Ends /\ m \in Ends
      /\ Link(S, M, s, m, InBacklog(c), Held(c)) /\ ~InBacklog(c)
      /\ s.open /\ s.inbox # <<>> /\ Held(c)
      /\ PeerGone(c, "slave") = FALSE
  BY Reading DEF Sides
<1>2. TypeOK /\ SlaveInv
  BY DEF HInv, IInv, StateInv
<1>3. Commit(c, "slave", r) /\ UNCHANGED <<alive, owner, backlog, pending, panics>>
  BY DEF Finish, Finished
<1>4. r = IF w.ok THEN SendMsg(w, FALSE) ELSE Close(v, TRUE, FALSE, good)
  BY <1>1 DEF Finished
<1>5. v \in Works /\ v.i = w.i /\ v.e = w.e /\ v.out = <<>> /\ v.ok
  BY DEF Works
<1> HIDE DEF r, v
<1>6. /\ r \in Works /\ r.e.inbox = w.e.inbox /\ r.e.up = w.e.up /\ LetGo(w.i, r.i)
      /\ w.ok => r.i = w.i
      /\ ~w.ok => ~r.e.open /\ OnlyBye(r.out)
      /\ r.i.cc # None => r.i.cc = w.i.cc
  <2>1. CASE w.ok
    BY <1>4, <2>1, SendMsgSends DEF SameEnd, LetGo
  <2>2. CASE ~w.ok
    <3>1. r = Close(v, TRUE, FALSE, good)
      BY <1>4, <2>2
    <3>2. Outcome(v, r, FALSE) /\ ~r.e.open
      BY <1>5, <3>1, CloseOutcome
    <3>3. LetGo(v.i, r.i) /\ SameEnd(v.e, r.e) /\ OnlyBye(r.out)
      BY <1>5, <3>1, CloseLetsGo
    <3>4. QED
      BY <1>5, <2>2, <3>2, <3>3 DEF Outcome, Kept, TakenDown, SameEnd
  <2>3. QED
    BY <2>1, <2>2
<1>7. /\ end' \in [Conns -> [Sides -> Ends]]
      /\ s2 = r.e /\ Grown(m, m2, r.out) /\ iface'[owner[c]] = r.i /\ iface'[Master] = M
  <2>1. Proc(c, "slave") = owner[c] /\ Other("slave") = "master" /\ Master \in Procs
        /\ "slave" \in Sides
    BY SMTT(40) DEF Proc, Other, Procs, Sides
  <2>2. /\ end' \in [Conns -> [Sides -> Ends]]
        /\ iface'[Proc(c, "slave")] = r.i
        /\ \A q \in Procs \ {Proc(c, "slave")} : iface'[q] = iface[q]
        /\ end'[c]["slave"] = r.e
        /\ LET o == end[c][Other("slave")]  n == end'[c][Other("slave")] IN
           /\ n.inbox = o.inbox \o r.out
           /\ n.open = o.open /\ n.bound = o.bound /\ n.up = o.up /\ n.gone = o.gone
           /\ n.msgQueue = o.msgQueue
    BY <1>1, <1>2, <1>3, <1>6, <2>1, CommitView, ZenonT(60)
  <2>3. QED
    BY <1>1, <2>1, <2>2 DEF Grown
<1>8. s2 \in Ends /\ m2 \in Ends
  BY <1>7 DEF Sides
<1>9. InBacklog(c)' <=> InBacklog(c)
  BY <1>3 DEF InBacklog
<1> HIDE DEF S, M, s, m, s2, m2
<1>10. Link(r.i, M, s2, m2, InBacklog(c)', Held(c)')
  <2>1. CASE ~m.open
    <3>1. s2.inbox = Tail(s.inbox) /\ ~m2.open /\ m2.msgQueue = m.msgQueue
      BY <1>6, <1>7, <2>1 DEF Grown, s
    <3>2. Link(r.i, M, s2, m2, InBacklog(c), Held(c)')
      BY <1>1, <1>8, <2>1, <3>1, SlaveAlone
    <3>3. QED
      BY <1>9, <3>2 DEF Link
  <2>2. CASE m.open /\ ~w.ok
    <3>1. ~w.e.up
      BY <2>2 DEF m
    <3>2. ~s2.open /\ ~s2.up /\ OnlyBye(r.out) /\ r.out \in Seq(Messages)
      BY <1>6, <1>7, <2>2, <3>1 DEF Works
    <3>3. Link(r.i, M, s2, m2, InBacklog(c), Held(c)')
      BY <1>1, <1>7, <1>8, <2>2, <3>2, SlaveCloses
    <3>4. QED
      BY <1>9, <3>3 DEF Link
  <2>3. CASE m.open /\ w.ok
    <3>1. r = SendMsg(w, FALSE)
      BY <1>4, <2>3
    <3>2. \A x \in Ends : \A waiting, held :
            ~waiting /\ Grown(m, x, r.out) => Link(r.i, M, r.e, x, waiting, held)
      BY <1>6, <2>3, <3>1 DEF m, M
    <3>3. QED
      BY <1>1, <1>7, <1>8, <1>9, <3>2
  <2>4. QED
    BY <2>1, <2>2, <2>3
<1>11. r.i.cc = None /\ ~Requesting(owner[c]) => r.i.told = "down"
  <2>1. HAVE r.i.cc = None /\ ~Requesting(owner[c])
  <2>2. S.cc # None
    BY <1>1, <2>1, ControlAssumption DEF Held, Requesting, S
  <2>3. r.i.told = "down" \/ (w.i.cc = None /\ r.i.told = w.i.told)
    BY <1>6, <2>1 DEF LetGo
  <2>4. QED
    BY <2>1, <2>2, <2>3 DEF S
<1>12. ~r.i.twice
  BY <1>6 DEF LetGo
<1>13. Proc(c, "slave") = owner[c] /\ "slave" \in Sides
  BY DEF Proc, Sides
<1>14. \A d \in Conns \ {c} : InBacklog(d)' <=> InBacklog(d)
  BY <1>3 DEF InBacklog
<1>15. QED
  BY <1>1, <1>3, <1>6, <1>7, <1>10, <1>11, <1>12, <1>13, <1>14, ChannelStep
  DEF S, M, s2, m2

LEMMA TakenFacts ==
  ASSUME TypeOK, NEW c \in Conns, NEW side \in Sides, owner[c] # None,
         end[c][side].inbox # <<>>
  PROVE  LET t == Taken(c, side) IN
         /\ t \in Works /\ t.out = <<>> /\ t.ok /\ t.i = iface[Proc(c, side)]
         /\ t.e = [end[c][side] EXCEPT !.inbox = Tail(end[c][side].inbox)]
         /\ t.e.up = end[c][side].up /\ t.e.msgQueue = end[c][side].msgQueue
         /\ t.e.open = end[c][side].open /\ t.e.bound = end[c][side].bound
         /\ t.e.inbox = Tail(end[c][side].inbox)
<1> DEFINE e == end[c][side]
           t == Taken(c, side)
           w == Work(c, side)
<1>1. w \in Works /\ w.out = <<>> /\ w.ok /\ w.i = iface[Proc(c, side)] /\ w.e = e
  BY WorkFacts
<1>2. e \in Ends /\ e.inbox \in Seq(Messages)
  BY DEF TypeOK, Ends
<1>3. Tail(e.inbox) \in Seq(Messages)
  BY <1>2
<1>4. t = [w EXCEPT !.e.inbox = Tail(w.e.inbox)]
  BY DEF Taken
<1> HIDE DEF w, t, e
<1>5. t.e = [e EXCEPT !.inbox = Tail(e.inbox)] /\ t.i = w.i /\ t.out = w.out /\ t.ok = w.ok
  BY <1>1, <1>4 DEF Works
<1>6. t.e \in Ends /\ t.e.up = e.up /\ t.e.msgQueue = e.msgQueue /\ t.e.open = e.open
      /\ t.e.bound = e.bound /\ t.e.inbox = Tail(e.inbox)
  BY <1>2, <1>3, <1>5 DEF Ends
<1>7. t \in Works
  BY <1>1, <1>4, <1>5, <1>6 DEF Works
<1>8. QED
  BY <1>1, <1>5, <1>6, <1>7 DEF t, e

LEMMA FirstMessage ==
  ASSUME NEW x \in Messages
  PROVE  <<>> \o <<x>> = <<x>> /\ Tail(<<x>>) = <<>> /\ Head(<<x>>) = x
OBVIOUS

\* The slave's queue, after k lines, gives up the next one.
LEMMA NextLine ==
  ASSUME NEW w \in Works, w.out = <<>>, Configured(w.i),
         NEW k \in 0 .. Lines(w.i.run) - 1, w.e.msgQueue = Rest(w.i.run, k)
  PROVE  LET r == SendMsg(w, FALSE) IN
         /\ r.out = <<Line(w.i.run, k + 1)>> /\ Line(w.i.run, k + 1) \in Messages
         /\ r.e.msgQueue = Rest(w.i.run, k + 1)
         /\ r.i = w.i /\ SameEnd(w.e, r.e) /\ r.e.open = w.e.open
<1> DEFINE q == w.e.msgQueue
           n == w.i.run
           r == SendMsg(w, FALSE)
<1>1. n \in Nat \ {0} /\ n <= MaxRings /\ w.i.regions # <<>>
  BY ControlAssumption DEF Configured
<1>2. q # <<>> /\ Head(q) = Line(n, k + 1) /\ Tail(q) = Rest(n, k + 1)
  BY <1>1, RestFacts
<1> HIDE DEF q, n, r
<1>3. /\ r.i = w.i /\ SameEnd(w.e, r.e) /\ r.e.open = w.e.open
      /\ r.e.msgQueue = Tail(q) /\ r.out = <<Head(q)>>
  BY <1>1, <1>2, SendMsgSends DEF q, r
<1>4. Line(n, k + 1) \in Messages
  <2>1. k + 1 \in 1 .. Lines(n)
    BY <1>1 DEF n, Lines
  <2>2. QED
    BY <1>1, <2>1, LineFacts
<1>5. QED
  BY <1>2, <1>3, <1>4 DEF r, n

LEMMA AckLinks ==
  ASSUME HInv, NEW c \in Conns, NEW side \in Sides, NEW good \in BOOLEAN,
         RecvAck(c, side, good)
  PROVE  LinkInv' /\ ToldInv'
<1> DEFINE t == Taken(c, side)
           S == iface[owner[c]]
           M == iface[Master]
           s == end[c].slave
           m == end[c].master
           r == SendMsg(t, FALSE)
<1>1. side = "slave" /\ Receives(c, "slave", "Ack") /\ Finish(c, "slave", t, good)
  BY ReceivesFacts DEF RecvAck, HInv, ToMaster, Sides
<1>2. /\ owner[c] # None /\ owner[c] \in Slaves
      /\ S \in Interfaces /\ s \in Ends /\ m \in Ends
      /\ Link(S, M, s, m, InBacklog(c), Held(c))
      /\ s.open /\ s.inbox # <<>> /\ Head(s.inbox).type = "Ack"
  BY <1>1, Reading
<1>3. /\ t \in Works /\ t.out = <<>> /\ t.ok /\ t.i = S
      /\ t.e.up = s.up /\ t.e.msgQueue = s.msgQueue /\ t.e.inbox = Tail(s.inbox)
  BY <1>1, <1>2, TakenFacts DEF HInv, IInv, StateInv, Proc
<1>4. ~S.twice
  BY <1>2 DEF HInv, ToldInv, Procs
<1> HIDE DEF t
<1>5. ASSUME m.open, NEW m2 \in Ends, NEW waiting, NEW held, ~waiting, Grown(m, m2, r.out)
      PROVE  Link(t.i, M, r.e, m2, waiting, held)
  <2>1. PICK k \in 1 .. Lines(S.run) - 1 :
          /\ Configured(S) /\ S.told = "down" /\ ~s.up /\ Served(S, M, m, k)
          /\ m.inbox = <<>> /\ s.inbox = <<Plain("Ack")>>
          /\ s.msgQueue = Rest(S.run, k)
    <3>1. InPhase(S, M, s, m)
      BY <1>2, <1>5 DEF Link
    <3> HIDE DEF S, M, s, m
    <3>2. QED
      BY <1>2, <3>1, SlaveReads
  <2>2. k \in 0 .. Lines(S.run) - 1
    BY <2>1 DEF Lines, Configured
  <2> HIDE DEF S, M, s, m
  <2>3. /\ r.out = <<Line(S.run, k + 1)>> /\ r.e.msgQueue = Rest(S.run, k + 1)
        /\ SameEnd(t.e, r.e) /\ Line(S.run, k + 1) \in Messages
    <3>1. /\ Configured(t.i) /\ k \in 0 .. Lines(t.i.run) - 1
          /\ t.e.msgQueue = Rest(t.i.run, k)
      BY <1>3, <2>1, <2>2
    <3>2. QED
      BY <1>3, <3>1, NextLine
  <2> HIDE DEF r
  <2>4. r.e.inbox = <<>> /\ ~r.e.up
    <3>1. Plain("Ack") \in Messages
      BY MessageKinds
    <3>2. QED
      BY <1>3, <2>1, <2>3, <3>1, FirstMessage DEF SameEnd
  <2>5. m2.inbox = <<Line(S.run, k + 1)>>
    BY <1>5, <2>1, <2>3, FirstMessage DEF Grown
  <2>6. m2.msgQueue = <<>> /\ Served(S, M, m2, k)
    BY <1>2, <1>5, <2>1 DEF Grown, Link, Served
  <2>7. Link(S, M, r.e, m2, waiting, held)
    BY <1>5, <2>1, <2>2, <2>3, <2>4, <2>5, <2>6, LineSent, SMTT(40)
  <2>8. QED
    BY <1>3, <2>7
<1> HIDE DEF S, M, s, m, r
<1>6. QED
  BY <1>1, <1>3, <1>4, <1>5, SlaveStep DEF S, M, s, m, r

\* The slave's interface while Hello is handled: only what it holds grows.
LEMMA HelloFacts ==
  ASSUME NEW t \in Works, NEW n \in Nat, n <= MaxRings
  PROVE  LET config == [t EXCEPT !.i.run = n]
             region == [config EXCEPT !.i.regions = Append(@, TRUE)]
             tx     == [region EXCEPT !.i.tx = @ \o Rings("S2M", n)]
             rx     == [tx EXCEPT !.i.rx = @ \o Rings("M2S", n)]
         IN
         /\ \A x \in {config, region, tx, rx} :
              /\ x \in Works /\ x.out = t.out /\ x.e = t.e /\ x.ok = t.ok
              /\ x.i.cc = t.i.cc /\ x.i.twice = t.i.twice /\ x.i.told = t.i.told
         /\ rx.i.run = n /\ rx.i.regions = Append(t.i.regions, TRUE)
         /\ rx.i.tx = t.i.tx \o Rings("S2M", n) /\ rx.i.rx = t.i.rx \o Rings("M2S", n)
<1> DEFINE config == [t EXCEPT !.i.run = n]
           region == [config EXCEPT !.i.regions = Append(@, TRUE)]
           tx     == [region EXCEPT !.i.tx = @ \o Rings("S2M", n)]
           rx     == [tx EXCEPT !.i.rx = @ \o Rings("M2S", n)]
           Same(x) == /\ x \in Works /\ x.out = t.out /\ x.e = t.e /\ x.ok = t.ok
                      /\ x.i.cc = t.i.cc /\ x.i.twice = t.i.twice /\ x.i.told = t.i.told
<1>1. Rings("S2M", n) \in Seq(RingIds) /\ Rings("M2S", n) \in Seq(RingIds)
  BY RingsFacts
<1>2. /\ Same(config) /\ config.i.run = n /\ config.i.regions = t.i.regions
      /\ config.i.tx = t.i.tx /\ config.i.rx = t.i.rx
  BY DEF Works, Interfaces
<1>3. /\ Same(region) /\ region.i.run = n /\ region.i.regions = Append(t.i.regions, TRUE)
      /\ region.i.tx = t.i.tx /\ region.i.rx = t.i.rx
  <2> HIDE DEF config
  <2>1. Append(config.i.regions, TRUE) \in Seq(BOOLEAN)
    BY <1>2 DEF Works, Interfaces
  <2>2. QED
    BY <1>2, <2>1 DEF Works, Interfaces
<1>4. /\ Same(tx) /\ tx.i.run = n /\ tx.i.regions = Append(t.i.regions, TRUE)
      /\ tx.i.tx = t.i.tx \o Rings("S2M", n) /\ tx.i.rx = t.i.rx
  <2> HIDE DEF region
  <2>1. region.i.tx \o Rings("S2M", n) \in Seq(RingIds)
    BY <1>1, <1>3 DEF Works, Interfaces
  <2>2. QED
    BY <1>3, <2>1 DEF Works, Interfaces
<1>5. /\ Same(rx) /\ rx.i.run = n /\ rx.i.regions = Append(t.i.regions, TRUE)
      /\ rx.i.tx = t.i.tx \o Rings("S2M", n) /\ rx.i.rx = t.i.rx \o Rings("M2S", n)
  <2> HIDE DEF tx
  <2>1. tx.i.rx \o Rings("M2S", n) \in Seq(RingIds)
    BY <1>1, <1>4 DEF Works, Interfaces
  <2>2. QED
    BY <1>4, <2>1 DEF Works, Interfaces
<1> HIDE DEF config, region, tx, rx
<1>6. \A x \in {config, region, tx, rx} : Same(x)
  BY <1>2, <1>3, <1>4, <1>5
<1>7. QED
  BY <1>5, <1>6 DEF config, region, tx, rx

LEMMA OneMapped ==
  ASSUME NEW b
  PROVE  [k \in DOMAIN <<b>> |-> TRUE] = <<TRUE>>
<1>1. DOMAIN <<b>> = 1 .. 1
  OBVIOUS
<1>2. \A x : [k \in 1 .. 1 |-> x] = <<x>>
  OBVIOUS
<1>3. QED
  BY <1>1, <1>2

LEMMA NothingBefore ==
  /\ \A ringType \in {"S2M", "M2S"}, n \in Nat : <<>> \o Rings(ringType, n) = Rings(ringType, n)
  /\ Append(<<>>, TRUE) = <<TRUE>> /\ Append(<<>>, FALSE) = <<FALSE>>
  /\ \A q \in Seq(Messages) : <<>> \o q = q
<1>1. \A q \in Seq(Messages) : <<>> \o q = q
  OBVIOUS
<1>2. ASSUME NEW ringType \in {"S2M", "M2S"}, NEW n \in Nat
      PROVE  <<>> \o Rings(ringType, n) = Rings(ringType, n)
  BY DEF Rings
<1>3. QED
  BY <1>1, <1>2

LEMMA HelloLinks ==
  ASSUME HInv, NEW c \in Conns, NEW side \in Sides, NEW good \in BOOLEAN,
         NEW done \in {"nothing", "region", "tx", "all"},
         RecvHello(c, side, done, good)
  PROVE  LinkInv' /\ ToldInv'
<1> DEFINE t == Taken(c, side)
           S == iface[owner[c]]
           M == iface[Master]
           s == end[c].slave
           m == end[c].master
           n == MinOf(Pairs[Proc(c, side)], Received(c, side).maxRingM2S)
           config == [t EXCEPT !.i.run = n]
           region == [config EXCEPT !.i.regions = Append(@, TRUE)]
           tx == [region EXCEPT !.i.tx = @ \o Rings("S2M", n)]
           rx == [tx EXCEPT !.i.rx = @ \o Rings("M2S", n)]
           v == CASE done = "nothing" -> Fail(config)
                  [] done = "region"  -> Fail(region)
                  [] done = "tx"      -> Fail(tx)
                  [] done = "all"     -> Enqueue(rx, Handshake(rx.i))
           r == SendMsg(v, FALSE)
<1>1. Receives(c, side, "Hello") /\ FinishOn(c, side, v, good)
  BY DEF RecvHello
<1> HIDE DEF v, n
<1>2. /\ side = "slave" /\ Received(c, side) \in Messages /\ Received(c, side).type = "Hello"
      /\ end[c][side].bound
  BY <1>1, ReceivesFacts DEF HInv, ToMaster, Sides
<1>3. /\ owner[c] # None /\ owner[c] \in Slaves /\ Proc(c, side) = owner[c]
      /\ S \in Interfaces /\ s \in Ends /\ m \in Ends
      /\ Link(S, M, s, m, InBacklog(c), Held(c))
      /\ s.open /\ s.inbox # <<>> /\ Head(s.inbox).type = "Hello"
  BY <1>1, <1>2, Reading DEF Proc
<1>4. /\ t \in Works /\ t.out = <<>> /\ t.ok /\ t.i = S
      /\ t.e.up = s.up /\ t.e.msgQueue = s.msgQueue /\ t.e.inbox = Tail(s.inbox)
      /\ t.e.bound
  <2>1. TypeOK /\ end[c][side] = s
    BY <1>2 DEF HInv, IInv, StateInv
  <2>2. end[c][side].inbox # <<>>
    BY <1>3, <2>1
  <2>3. /\ t \in Works /\ t.out = <<>> /\ t.ok /\ t.i = iface[Proc(c, side)]
        /\ t.e.up = end[c][side].up /\ t.e.msgQueue = end[c][side].msgQueue
        /\ t.e.inbox = Tail(end[c][side].inbox) /\ t.e.bound = end[c][side].bound
    BY <1>3, <2>1, <2>2, TakenFacts
  <2> HIDE DEF t
  <2>4. QED
    BY <1>2, <1>3, <2>1, <2>3
<1>5. ~S.twice
  BY <1>3 DEF HInv, ToldInv, Procs
<1>6. n \in 1 .. MaxRings
  <2>1. Pairs[owner[c]] \in Nat \ {0} /\ MaxRings \in Nat \ {0}
    BY <1>3, ControlAssumption DEF Procs
  <2>2. Received(c, side).maxRingM2S = MaxRings
    BY <1>2, MessageKinds
  <2>3. QED
    BY <1>3, <2>1, <2>2 DEF n, MinOf
<1> HIDE DEF t
<1>15. n \in Nat /\ n <= MaxRings
  BY <1>6, ControlAssumption, SMTT(40)
<1>7. /\ \A x \in {config, region, tx, rx} :
           /\ x \in Works /\ x.out = t.out /\ x.e = t.e /\ x.ok = t.ok
           /\ x.i.cc = t.i.cc /\ x.i.twice = t.i.twice /\ x.i.told = t.i.told
      /\ rx.i.run = n /\ rx.i.regions = Append(t.i.regions, TRUE)
      /\ rx.i.tx = t.i.tx \o Rings("S2M", n) /\ rx.i.rx = t.i.rx \o Rings("M2S", n)
  BY <1>4, <1>15, HelloFacts
<1> HIDE DEF config, region, tx, rx, S, M, s, m
<1> DEFINE h == Handshake(rx.i)
<1>8. /\ v \in Works /\ v.out = <<>> /\ v.i.cc = S.cc /\ ~v.i.twice
      /\ v.e.inbox = Tail(s.inbox) /\ v.e.up = s.up /\ v.e.bound
      /\ v.ok => /\ v.i = rx.i /\ done = "all" /\ h \in Seq(Messages)
                 /\ v.e.msgQueue = s.msgQueue \o h
  <2>1. CASE done # "all"
    <3>1. PICK x \in {config, region, tx} : v = Fail(x)
      BY <2>1 DEF v
    <3>2. v \in Works /\ v.i = x.i /\ v.e = x.e /\ v.out = x.out /\ ~v.ok
      BY <1>7, <3>1, FailFacts
    <3>3. x.out = t.out /\ x.e = t.e /\ x.i.cc = t.i.cc /\ x.i.twice = t.i.twice
      BY <1>7, <3>1
    <3>4. v.out = <<>> /\ v.i.cc = S.cc /\ ~v.i.twice
      BY <1>4, <1>5, <3>2, <3>3
    <3>5. v.e.inbox = Tail(s.inbox) /\ v.e.up = s.up /\ v.e.bound
      BY <1>4, <3>2, <3>3
    <3> HIDE DEF v
    <3>6. QED
      BY <3>2, <3>4, <3>5
  <2>2. CASE done = "all"
    <3>1. v = Enqueue(rx, h)
      BY <2>2 DEF v
    <3>2. h \in Seq(Messages)
      BY <1>7, HandshakeFacts, SMTT(40) DEF Works
    <3> HIDE DEF h
    <3>3. /\ v \in Works /\ v.i = rx.i /\ v.out = rx.out /\ v.ok = rx.ok
          /\ v.e = [rx.e EXCEPT !.msgQueue = rx.e.msgQueue \o h]
          /\ v.e.msgQueue = rx.e.msgQueue \o h /\ v.e.inbox = rx.e.inbox
          /\ v.e.bound = rx.e.bound
      BY <1>7, <3>1, <3>2, EnqueueFacts
    <3>4. v.e.up = rx.e.up
      BY <1>7, <3>3 DEF Works, Ends
    <3>5. v.i.cc = S.cc /\ ~v.i.twice
      BY <1>4, <1>5, <1>7, <3>3
    <3>6. v.out = <<>> /\ v.e.inbox = Tail(s.inbox) /\ v.e.up = s.up /\ v.e.bound
      BY <1>4, <1>7, <3>3, <3>4
    <3>7. v.e.msgQueue = s.msgQueue \o h
      BY <1>4, <1>7, <3>3
    <3>8. QED
      BY <2>2, <3>2, <3>3, <3>5, <3>6, <3>7
  <2>3. QED
    BY <2>1, <2>2
<1>9. Finish(c, "slave", v, good)
  BY <1>1, <1>2, <1>8 DEF FinishOn
<1> HIDE DEF h, r
<1>10. ASSUME m.open PROVE Greeting(S, M, s, m)
  <2>1. InPhase(S, M, s, m)
    BY <1>3, <1>10 DEF Link
  <2>2. QED
    BY <1>3, <2>1, SlaveReads
<1>11. m.open => ~v.e.up
  BY <1>8, <1>10 DEF Greeting
<1>12. ASSUME m.open, v.ok, NEW m2 \in Ends, NEW waiting, NEW held, ~waiting,
              Grown(m, m2, r.out)
       PROVE  Link(v.i, M, r.e, m2, waiting, held)
  <2>1. /\ Empty(S) /\ S.told = "down" /\ s.msgQueue = <<>> /\ s.inbox = <<HelloMsg>>
        /\ ~s.up /\ ~m.bound /\ m.inbox = <<>>
    BY <1>10, <1>12 DEF Greeting
  <2>2. Configured(v.i) /\ v.i.run = n
    <3>1. /\ v.i.run = n /\ v.i.regions = Append(<<>>, TRUE)
          /\ v.i.tx = <<>> \o Rings("S2M", n) /\ v.i.rx = <<>> \o Rings("M2S", n)
      BY <1>4, <1>7, <1>8, <1>12, <2>1 DEF Empty
    <3>2. QED
      BY <1>6, <1>15, <3>1, NothingBefore DEF Configured
  <2>3. n \in Nat \ {0} /\ 0 \in 0 .. Lines(n) - 1
    BY <1>6, ControlAssumption DEF Lines
  <2>4. v.e.msgQueue = Rest(n, 0)
    <3>1. h = Rest(v.i.run, 0)
      BY <1>8, <1>12, <2>2, HandshakeIsScript DEF h
    <3>2. QED
      BY <1>8, <1>12, <2>1, <2>2, <3>1, NothingBefore
  <2>5. /\ r.out = <<Line(n, 0 + 1)>> /\ r.e.msgQueue = Rest(n, 0 + 1)
        /\ SameEnd(v.e, r.e) /\ Line(n, 0 + 1) \in Messages
    BY <1>8, <2>2, <2>3, <2>4, NextLine DEF r
  <2>6. r.e.inbox = <<>> /\ ~r.e.up
    BY <1>8, <2>1, <2>5, MessageKinds, FirstMessage DEF SameEnd
  <2>7. m2.inbox = <<Line(n, 0 + 1)>>
    BY <1>12, <2>1, <2>5, FirstMessage DEF Grown
  <2>8. m2.msgQueue = <<>> /\ Served(v.i, M, m2, 0)
    BY <1>3, <1>12, <2>1 DEF Grown, Link, Served
  <2>9. v.i.told = "down"
    BY <1>4, <1>7, <1>8, <1>12, <2>1
  <2>10. QED
    BY <1>12, <2>2, <2>3, <2>5, <2>6, <2>7, <2>8, <2>9, LineSent
<1>13. Receives(c, "slave", "Hello")
  BY <1>1, <1>2
<1>14. QED
  BY <1>8, <1>9, <1>11, <1>12, <1>13, SlaveStep DEF S, M, s, m, r

\* Interface.connect: after an error the channel is not up.
LEMMA ConnectTells ==
  ASSUME NEW w \in Works, NEW goodMap \in BOOLEAN, NEW good \in BOOLEAN, w.ok
  PROVE  LET v == Connect(w, goodMap, good) IN
         /\ v \in Works /\ v.out = w.out
         /\ v.e.inbox = w.e.inbox /\ v.e.msgQueue = w.e.msgQueue /\ v.e.open = w.e.open
         /\ v.e.bound = w.e.bound
         /\ ~v.ok => v.e = w.e
         /\ v.i.cc = w.i.cc /\ v.i.run = w.i.run /\ v.i.tx = w.i.tx /\ v.i.rx = w.i.rx
         /\ w.i.told # "up" => v.i.twice = w.i.twice
         /\ v.ok => /\ v.e.up
                    /\ v.i.regions = [r \in DOMAIN w.i.regions |-> TRUE]
<1> DEFINE mapped == [r \in DOMAIN w.i.regions |-> TRUE]
           called == [w EXCEPT !.i.regions = [r \in DOMAIN @ |-> TRUE],
                               !.i.told = "up",
                               !.i.twice = @ \/ w.i.told = "up"]
           up == [called EXCEPT !.e.up = TRUE]
           v == Connect(w, goodMap, good)
<1>1. v \in Works /\ v.out = w.out /\ v.i.cc = w.i.cc
      /\ v.e.inbox = w.e.inbox /\ v.e.msgQueue = w.e.msgQueue /\ v.e.open = w.e.open
      /\ v.e.bound = w.e.bound
  BY ConnectFacts
<1>2. called.i = [w.i EXCEPT !.regions = mapped, !.told = "up",
                             !.twice = w.i.twice \/ w.i.told = "up"]
  BY DEF Works, Interfaces
<1>3. called.e = w.e /\ called.ok = w.ok
  BY DEF Works
<1>4. /\ called.i.run = w.i.run /\ called.i.tx = w.i.tx /\ called.i.rx = w.i.rx
      /\ called.i.regions = mapped /\ called.i.twice = (w.i.twice \/ w.i.told = "up")
  <2> HIDE DEF mapped, called
  <2>1. (w.i.twice \/ w.i.told = "up") \in BOOLEAN
    OBVIOUS
  <2>2. QED
    BY <1>2, <2>1 DEF Works, Interfaces
<1>5. w.i.told # "up" => called.i.twice = w.i.twice
  <2>1. w.i.twice \in BOOLEAN
    BY DEF Works, Interfaces
  <2> HIDE DEF called
  <2>2. QED
    BY <1>4, <2>1
<1>6. DOMAIN called = {"i", "e", "out", "ok"}
  BY DEF Works
<1>7. up.i = called.i /\ up.e = [w.e EXCEPT !.up = TRUE] /\ up.ok = called.ok
  <2> HIDE DEF called
  <2>1. QED
    BY <1>3, <1>6
<1>8. up.e.up
  BY <1>7 DEF Works, Ends
<1>9. /\ Fail(w).i = w.i /\ Fail(w).e = w.e /\ ~Fail(w).ok
      /\ Fail(called).i = called.i /\ Fail(called).e = called.e /\ ~Fail(called).ok
  <2>1. Fail(called) = [called EXCEPT !.ok = FALSE]
    BY DEF Fail
  <2> HIDE DEF called
  <2>2. QED
    BY <1>6, <2>1, FailFacts
<1>10. v \in {Fail(w), up, Fail(called)}
  BY DEF Connect, called
<1> HIDE DEF v, up, called
<1>11. CASE v = Fail(w)
  BY <1>1, <1>9, <1>11 DEF v
<1>12. CASE v = up
  BY <1>1, <1>3, <1>4, <1>5, <1>7, <1>8, <1>12 DEF v
<1>13. CASE v = Fail(called)
  BY <1>1, <1>3, <1>4, <1>5, <1>9, <1>13 DEF v
<1>14. QED
  BY <1>10, <1>11, <1>12, <1>13

\* An interface that has been told is up reads nothing but Disconnect.
LEMMA ConnectedLinks ==
  ASSUME HInv, NEW c \in Conns, NEW side \in Sides, NEW goodMap \in BOOLEAN,
         NEW goodUp \in BOOLEAN, NEW good \in BOOLEAN,
         RecvConnected(c, side, goodMap, goodUp, good)
  PROVE  LinkInv' /\ ToldInv'
<1> DEFINE t == Taken(c, side)
           S == iface[owner[c]]
           M == iface[Master]
           s == end[c].slave
           m == end[c].master
           v == Connect(t, goodMap, goodUp)
           r == SendMsg(v, FALSE)
<1>1. Receives(c, side, "Connected") /\ FinishOn(c, side, v, good)
  BY DEF RecvConnected
<1>2. side = "slave" /\ end[c][side].bound
  BY <1>1, ReceivesFacts DEF HInv, ToMaster, Sides
<1>3. /\ owner[c] # None /\ owner[c] \in Slaves /\ Proc(c, side) = owner[c]
      /\ S \in Interfaces /\ s \in Ends /\ m \in Ends
      /\ Link(S, M, s, m, InBacklog(c), Held(c))
      /\ s.open /\ s.inbox # <<>> /\ Head(s.inbox).type = "Connected"
  BY <1>1, <1>2, Reading DEF Proc
<1>4. /\ t \in Works /\ t.out = <<>> /\ t.ok /\ t.i = S
      /\ t.e.up = s.up /\ t.e.msgQueue = s.msgQueue /\ t.e.inbox = Tail(s.inbox)
      /\ t.e.bound
  <2>1. TypeOK /\ end[c][side] = s
    BY <1>2 DEF HInv, IInv, StateInv
  <2>2. end[c][side].inbox # <<>>
    BY <1>3, <2>1
  <2>3. /\ t \in Works /\ t.out = <<>> /\ t.ok /\ t.i = iface[Proc(c, side)]
        /\ t.e.up = end[c][side].up /\ t.e.msgQueue = end[c][side].msgQueue
        /\ t.e.inbox = Tail(end[c][side].inbox) /\ t.e.bound = end[c][side].bound
    BY <1>3, <2>1, <2>2, TakenFacts
  <2> HIDE DEF t
  <2>4. QED
    BY <1>2, <1>3, <2>1, <2>3
<1>5. ~S.twice
  BY <1>3 DEF HInv, ToldInv, Procs
<1>6. S.told # "up"
  BY <1>3, PartingFacts DEF Link, Ends
<1> HIDE DEF t, S, M, s, m
<1>7. /\ v \in Works /\ v.out = <<>>
      /\ v.e.inbox = t.e.inbox /\ v.e.msgQueue = t.e.msgQueue /\ v.e.bound
      /\ ~v.ok => v.e = t.e
      /\ v.i.cc = S.cc /\ v.i.run = S.run /\ v.i.tx = S.tx /\ v.i.rx = S.rx
      /\ v.i.twice = S.twice
      /\ v.ok => v.e.up /\ v.i.regions = [k \in DOMAIN S.regions |-> TRUE]
  BY <1>4, <1>6, ConnectTells
<1> HIDE DEF v
<1>8. Finish(c, "slave", v, good)
  BY <1>1, <1>2, <1>7 DEF FinishOn
<1>9. ASSUME m.open
      PROVE  Settled(S, M, s, m) /\ s.inbox = <<Plain("Connected")>>
  <2>1. InPhase(S, M, s, m)
    BY <1>3, <1>9 DEF Link
  <2>2. QED
    BY <1>3, <2>1, SlaveReads
<1>10. m.open => ~s.up
  <2>1. HAVE m.open
  <2>2. s.inbox # <<>> /\ InPhase(S, M, s, m)
    BY <1>3, <2>1 DEF Link
  <2>3. QED
    BY <1>3, <2>2, PhaseFacts
<1>11. ASSUME m.open, v.ok, NEW m2 \in Ends, NEW waiting, NEW held, ~waiting,
              Grown(m, m2, r.out)
       PROVE  Link(v.i, M, r.e, m2, waiting, held)
  <2>1. Matched(S, M, m) /\ s.msgQueue = <<>> /\ m.inbox = <<>>
    BY <1>9, <1>11 DEF Settled
  <2>2. /\ r.out = <<>> /\ r.e.msgQueue = <<>> /\ SameEnd(v.e, r.e)
    BY <1>4, <1>7, <2>1, SendMsgSends
  <2> HIDE DEF r
  <2>3. r.e.inbox = <<>>
    BY <1>4, <1>7, <1>9, <1>11, <2>2, MessageKinds, FirstMessage, ZenonT(60) DEF SameEnd
  <2>4. r.e.up
    BY <1>7, <1>11, <2>2 DEF SameEnd
  <2>5. m2.inbox = <<>> /\ m2.msgQueue = <<>>
    BY <1>3, <1>11, <2>1, <2>2 DEF Grown, Link
  <2>6. v.i.regions = <<TRUE>>
    <3>1. S.regions = <<TRUE>>
      BY <2>1 DEF Matched, Configured
    <3>2. QED
      BY <1>7, <1>11, <3>1, OneMapped
  <2>7. Matched(v.i, M, m2)
    BY <1>7, <1>11, <2>1, <2>6 DEF Matched, Configured, Grown
  <2>8. QED
    BY <1>11, <2>2, <2>3, <2>4, <2>5, <2>7, SlaveConnected
<1> HIDE DEF r
<1>12. Receives(c, "slave", "Connected") /\ v.e.inbox = Tail(s.inbox)
  BY <1>1, <1>2, <1>4, <1>7
<1>13. m.open /\ ~v.ok => ~v.e.up
  BY <1>4, <1>7, <1>10
<1>14. QED
  BY <1>5, <1>7, <1>8, <1>11, <1>12, <1>13, SlaveStep DEF S, M, s, m, r

\* Who says Disconnect has closed.
LEMMA SlaveLeaves ==
  ASSUME HInv, NEW c \in Conns, NEW good \in BOOLEAN,
         RecvDisconnect(c, "slave", good)
  PROVE  LinkInv' /\ ToldInv'
<1> DEFINE t == Taken(c, "slave")
           S == iface[owner[c]]
           M == iface[Master]
           s == end[c].slave
           m == end[c].master
           v == Close(t, FALSE, PeerGone(c, "slave"), good)
<1>1. Receives(c, "slave", "Disconnect") /\ Finish(c, "slave", v, good)
  BY DEF RecvDisconnect
<1>2. /\ owner[c] # None /\ owner[c] \in Slaves
      /\ S \in Interfaces /\ s \in Ends /\ m \in Ends
      /\ Link(S, M, s, m, InBacklog(c), Held(c))
      /\ s.open /\ s.inbox # <<>> /\ Head(s.inbox).type = "Disconnect"
      /\ PeerGone(c, "slave") = FALSE
  BY <1>1, Reading DEF Sides
<1>3. /\ t \in Works /\ t.out = <<>> /\ t.i = S /\ t.e.inbox = Tail(s.inbox)
  BY <1>2, TakenFacts DEF HInv, IInv, StateInv, Proc, Sides
<1>4. ~S.twice
  BY <1>2 DEF HInv, ToldInv, Procs
<1>5. ~m.open
  <2>1. s.open /\ m.open => InPhase(S, M, s, m)
    BY <1>2 DEF Link
  <2>2. QED
    BY <1>2, <2>1, PhaseFacts
<1> HIDE DEF t, S, M, s, m
<1>6. /\ v \in Works /\ v.out = <<>> /\ LetGo(S, v.i) /\ v.e.inbox = t.e.inbox
      /\ v.i.cc \in {S.cc, None}
  <2>1. v = Close(t, FALSE, FALSE, good)
    BY <1>2
  <2> HIDE DEF v
  <2>2. Outcome(t, v, FALSE) /\ LetGo(t.i, v.i) /\ v.out = <<>>
    BY <1>3, <2>1, CloseOutcome, CloseLetsGo
  <2>3. QED
    BY <1>3, <2>2 DEF Outcome, Kept, TakenDown
<1> HIDE DEF v
<1>7. ~v.i.twice /\ (v.i.cc = S.cc \/ (v.i.cc = None /\ v.i.told = "down"))
  BY <1>4, <1>6 DEF LetGo
<1>8. QED
  BY <1>1, <1>3, <1>5, <1>6, <1>7, SlaveStep DEF S, M, s, m

-----------------------------------------------------------------------------
(* The handlers of the master. *)

\* A channel that has no interface takes nothing down.
LEMMA CloseUnbound ==
  ASSUME NEW w \in Works, NEW sendMsg \in BOOLEAN, NEW peerGone \in BOOLEAN,
         NEW good \in BOOLEAN, w.out = <<>>, ~w.e.bound
  PROVE  Close(w, sendMsg, peerGone, good).i = w.i
<1> DEFINE sent   == Farewell(w, sendMsg, peerGone)
           closed == [sent EXCEPT !.e.open = FALSE]
           r      == Close(w, sendMsg, peerGone, good)
<1>1. sent \in Works /\ sent.i = w.i
  BY FarewellOutcome
<1>2. r \in {sent, Fail(sent), closed}
  BY DEF Close, Farewell
<1> HIDE DEF sent, r
<1>3. closed.i = sent.i /\ Fail(sent).i = sent.i
  BY <1>1, FailFacts DEF Works
<1>4. QED
  BY <1>1, <1>2, <1>3 DEF r

\* The one message a master has to send leaves at once.
LEMMA Replies ==
  ASSUME NEW w \in Works, w.out = <<>>, NEW reply \in {"Ack", "Connected"},
         w.e.msgQueue = <<Plain(reply)>>
  PROVE  LET r == SendMsg(w, FALSE) IN
         /\ r \in Works /\ r.i = w.i /\ SameEnd(w.e, r.e)
         /\ r.out = <<Plain(reply)>> /\ r.e.msgQueue = <<>>
<1> DEFINE q == w.e.msgQueue
           r == SendMsg(w, FALSE)
           x == Plain(reply)
<1>1. x \in Messages /\ ~CarriesFd(x)
  BY MessageKinds DEF Plain, CarriesFd
<1> HIDE DEF x
<1>2. q # <<>> /\ Head(q) = x /\ Tail(q) = <<>>
  BY <1>1, FirstMessage DEF x
<1> HIDE DEF q
<1>3. /\ r \in Works /\ r.i = w.i /\ SameEnd(w.e, r.e)
      /\ r.e.msgQueue = Tail(q) /\ r.out = <<Head(q)>>
  BY <1>1, <1>2, SendMsgSends DEF q
<1>4. QED
  BY <1>2, <1>3 DEF x

\* What a handler makes of the k-th line it reads: its Ack, or the end.
Answers(S, M, m, line, w, reply) ==
  \A k \in 0 .. Lines(S.run) - 1 :
    Configured(S) /\ Served(S, M, m, k) /\ line = Line(S.run, k + 1) =>
      \/ reply = "Ack" /\ k + 1 \in 1 .. Lines(S.run) - 1 /\ Served(S, w.i, w.e, k + 1)
      \/ reply = "Connected" /\ k + 1 = Lines(S.run) /\ Matched(S, w.i, w.e)

\* A handler of the master's channel: what remains to be shown is what it makes
\* of the line it has read.
LEMMA MasterHandles ==
  ASSUME HInv, NEW c \in Conns, NEW type, Receives(c, "master", type),
         type # "Disconnect",
         NEW good \in BOOLEAN, NEW w \in Works, Finish(c, "master", w, good),
         w.out = <<>>, ~w.i.twice, w.i.cc = None => w.i.told = "down",
         \/ w.i = iface[Master] /\ ~w.e.bound /\ ~w.ok
         \/ iface[Master].cc \in {None, c},
         w.e.inbox = Tail(end[c].master.inbox),
         NEW reply \in {"Ack", "Connected"},
         w.ok => /\ w.e.msgQueue = <<Plain(reply)>>
                 /\ end[c].slave.open =>
                      Answers(iface[owner[c]], iface[Master], end[c].master,
                              Received(c, "master"), w, reply)
  PROVE  LinkInv' /\ ToldInv'
<1> DEFINE S == iface[owner[c]]
           M == iface[Master]
           s == end[c].slave
           m == end[c].master
           s2 == end'[c].slave
           m2 == end'[c].master
           r == Finished(c, "master", w, good)
           v == [w EXCEPT !.ok = TRUE]
<1>1. /\ owner[c] # None /\ owner[c] \in Slaves /\ owner[c] # Master
      /\ S \in Interfaces /\ M \in Interfaces /\ s \in Ends /\ m \in Ends
      /\ Link(S, M, s, m, InBacklog(c), Held(c)) /\ ~InBacklog(c)
      /\ m.open /\ m.inbox # <<>> /\ Head(m.inbox).type = type
      /\ PeerGone(c, "master") = FALSE
  BY Reading DEF Sides
<1>2. TypeOK
  BY DEF HInv, IInv, StateInv
<1>3. Commit(c, "master", r) /\ UNCHANGED <<alive, owner, backlog, pending, panics>>
  BY DEF Finish, Finished
<1>4. r = IF w.ok THEN SendMsg(w, FALSE) ELSE Close(v, TRUE, FALSE, good)
  BY <1>1 DEF Finished
<1>5. v \in Works /\ v.i = w.i /\ v.e = w.e /\ v.out = <<>> /\ v.ok
  BY DEF Works
<1> HIDE DEF r, v
<1>6. /\ r \in Works /\ r.e.inbox = w.e.inbox /\ LetGo(w.i, r.i) /\ r.e.msgQueue = <<>>
      /\ w.ok => r.i = w.i /\ SameEnd(w.e, r.e) /\ r.out = <<Plain(reply)>>
      /\ ~w.ok => /\ ~r.e.open /\ OnlyBye(r.out) /\ (~w.e.bound => r.i = w.i)
  <2>1. CASE w.ok
    <3>1. /\ r \in Works /\ r.i = w.i /\ SameEnd(w.e, r.e)
          /\ r.out = <<Plain(reply)>> /\ r.e.msgQueue = <<>>
      BY <1>4, <2>1, Replies
    <3>2. QED
      BY <2>1, <3>1 DEF SameEnd, LetGo
  <2>2. CASE ~w.ok
    <3>1. r = Close(v, TRUE, FALSE, good)
      BY <1>4, <2>2
    <3>2. Outcome(v, r, FALSE) /\ ~r.e.open
      BY <1>5, <3>1, CloseOutcome
    <3>3. LetGo(v.i, r.i) /\ SameEnd(v.e, r.e) /\ OnlyBye(r.out) /\ r.e.msgQueue = <<>>
      BY <1>5, <3>1, CloseLetsGo
    <3>4. ~v.e.bound => r.i = v.i
      BY <1>5, <3>1, CloseUnbound
    <3>5. QED
      BY <1>5, <2>2, <3>2, <3>3, <3>4 DEF Outcome, SameEnd
  <2>3. QED
    BY <2>1, <2>2
<1>7. /\ end' \in [Conns -> [Sides -> Ends]]
      /\ m2 = r.e /\ Grown(s, s2, r.out) /\ iface'[owner[c]] = S /\ iface'[Master] = r.i
  <2>1. Proc(c, "master") = Master /\ Other("master") = "slave" /\ owner[c] \in Procs
        /\ "master" \in Sides
    BY <1>1 DEF Proc, Other, Procs, Sides
  <2>2. /\ end' \in [Conns -> [Sides -> Ends]]
        /\ iface'[Proc(c, "master")] = r.i
        /\ \A q \in Procs \ {Proc(c, "master")} : iface'[q] = iface[q]
        /\ end'[c]["master"] = r.e
        /\ LET o == end[c][Other("master")]  n == end'[c][Other("master")] IN
           /\ n.inbox = o.inbox \o r.out
           /\ n.open = o.open /\ n.bound = o.bound /\ n.up = o.up /\ n.gone = o.gone
           /\ n.msgQueue = o.msgQueue
    BY <1>1, <1>2, <1>3, <1>6, <2>1, CommitView, ZenonT(60)
  <2>3. QED
    BY <1>1, <2>1, <2>2 DEF Grown
<1>8. s2 \in Ends /\ m2 \in Ends
  BY <1>7 DEF Sides
<1>9. /\ InBacklog(c)' <=> InBacklog(c)
      /\ Held(c)' <=> Held(c)
  BY <1>3, <1>7 DEF InBacklog, Held, S
<1>10. Received(c, "master") = Head(m.inbox)
  BY DEF Received
<1> HIDE DEF S, M, s, m, s2, m2
<1>11. Link(S, r.i, s2, m2, InBacklog(c)', Held(c))
  <2>1. CASE ~w.ok
    <3>1. ~m2.open /\ m2.msgQueue = <<>> /\ OnlyBye(r.out) /\ r.out \in Seq(Messages)
      BY <1>6, <1>7, <2>1 DEF Works
    <3>2. Link(S, r.i, s2, m2, InBacklog(c), Held(c))
      BY <1>1, <1>7, <1>8, <3>1, MasterCloses
    <3>3. QED
      BY <1>9, <3>2 DEF Link
  <2>2. CASE w.ok /\ ~s.open
    <3>1. /\ m2.inbox = Tail(m.inbox) /\ m2.msgQueue = <<>> /\ ~s2.open /\ s2.up = s.up
      BY <1>6, <1>7, <2>2 DEF Grown, m
    <3>2. Link(S, r.i, s2, m2, InBacklog(c), Held(c))
      BY <1>1, <1>8, <2>2, <3>1, MasterAlone
    <3>3. QED
      BY <1>9, <3>2 DEF Link
  <2>3. CASE w.ok /\ s.open
    <3>1. InPhase(S, M, s, m)
      BY <1>1, <2>3 DEF Link
    <3>2. PICK k \in 0 .. Lines(S.run) - 1 :
            /\ Configured(S) /\ S.told = "down" /\ ~s.up /\ Served(S, M, m, k)
            /\ m.inbox = <<Line(S.run, k + 1)>> /\ s.inbox = <<>>
            /\ s.msgQueue = Rest(S.run, k + 1)
      BY <1>1, <3>1, MasterReads
    <3>3. Answers(S, M, m, Head(m.inbox), w, reply)
      BY <1>10, <2>3 DEF S, M, s, m
    <3>4. /\ r.i = w.i /\ m2.bound = w.e.bound /\ m2.up = w.e.up
          /\ m2.inbox = Tail(m.inbox) /\ m2.msgQueue = <<>>
      BY <1>6, <1>7, <2>3 DEF SameEnd, m
    <3>5. /\ Head(m.inbox) = Line(S.run, k + 1) /\ m2.inbox = <<>>
      BY <3>2, <3>4
    <3>6. /\ s2.up = s.up /\ s2.msgQueue = s.msgQueue /\ s2.inbox = <<Plain(reply)>>
      <4>1. Plain(reply) \in Messages /\ r.out = <<Plain(reply)>>
        BY <1>6, <2>3, MessageKinds
      <4>2. QED
        BY <1>7, <3>2, <4>1, FirstMessage DEF Grown
    <3>7. \/ reply = "Ack" /\ k + 1 \in 1 .. Lines(S.run) - 1 /\ Served(S, w.i, w.e, k + 1)
          \/ reply = "Connected" /\ k + 1 = Lines(S.run) /\ Matched(S, w.i, w.e)
      BY <3>2, <3>3, <3>5 DEF Answers
    <3>8. ~InBacklog(c)'
      BY <1>1, <1>9
    <3>9. CASE reply = "Ack"
      <4>1. Served(S, r.i, m2, k + 1)
        BY <3>4, <3>7, <3>9 DEF Served
      <4>2. QED
        BY <3>2, <3>4, <3>5, <3>6, <3>7, <3>8, <3>9, <4>1, AckSent
    <3>10. CASE reply = "Connected"
      <4>1. Matched(S, r.i, m2)
        BY <3>4, <3>7, <3>10 DEF Matched
      <4>2. s2.msgQueue = <<>>
        <5>1. S.run \in Nat \ {0} /\ S.run <= MaxRings
          BY <3>2, ControlAssumption DEF Configured
        <5>2. QED
          BY <3>2, <3>6, <3>7, <3>10, <5>1, RestFacts
      <4>3. QED
        BY <3>2, <3>4, <3>5, <3>6, <3>8, <3>10, <4>1, <4>2, MasterConnected
    <3>11. QED
      BY <3>9, <3>10
  <2>4. QED
    BY <2>1, <2>2, <2>3
<1>12. r.i = M \/ M.cc \in {None, c}
  BY <1>6 DEF M
<1>13. /\ ~r.i.twice
       /\ r.i.cc = None => r.i.told = "down"
  BY <1>6 DEF LetGo
<1>14. Proc(c, "master") = Master /\ "master" \in Sides
  BY DEF Proc, Sides
<1>15. \A d \in Conns \ {c} : InBacklog(d)' <=> InBacklog(d)
  BY <1>3 DEF InBacklog
<1>16. Link(iface'[owner[c]], iface'[Master], end'[c].slave, end'[c].master,
            InBacklog(c)', Held(c)')
  <2>1. Link(S, r.i, s2, m2, InBacklog(c)', Held(c)')
    BY <1>9, <1>11 DEF Link
  <2>2. QED
    BY <1>7, <2>1 DEF s2, m2
<1>17. r.i = iface[Master] \/ iface[Master].cc \in {None, c}
  BY <1>12 DEF M
<1>18. UNCHANGED <<owner, pending>>
  BY <1>3
<1>19. r.i.cc = None /\ ~Requesting(Proc(c, "master")) => r.i.told = "down"
  BY <1>13
<1>20. QED
  BY <1>1, <1>3, <1>6, <1>13, <1>14, <1>15, <1>16, <1>17, <1>18, <1>19, ChannelStep

\* What a master finds when it reads anything but Disconnect.
LEMMA MasterTakes ==
  ASSUME HInv, NEW c \in Conns, NEW side \in Sides, NEW type, Receives(c, side, type),
         type \in {"Init", "AddRegion", "AddRing", "Connect"}
  PROVE  LET t == Taken(c, side)  M == iface[Master]  m == end[c].master IN
         /\ side = "master" /\ Received(c, side) \in Messages /\ Received(c, side).type = type
         /\ t \in Works /\ t.out = <<>> /\ t.ok /\ t.i = M
         /\ t.e.bound = m.bound /\ t.e.up = m.up /\ t.e.msgQueue = <<>>
         /\ t.e.inbox = Tail(m.inbox)
         /\ m.bound => M.cc = c /\ M.told # "up"
         /\ M.cc = None => M.told = "down" /\ Empty(M)
         /\ ~M.twice
         /\ type \in Needy => m.bound
<1> DEFINE t == Taken(c, side)
           M == iface[Master]
           m == end[c].master
<1>1. /\ owner[c] # None /\ Received(c, side) \in Messages /\ Received(c, side).type = type
      /\ side = "master" /\ (type \in Needy => end[c][side].bound)
  BY ReceivesFacts DEF HInv, ToSlave, Sides
<1>2. /\ Link(iface[owner[c]], M, end[c].slave, m, InBacklog(c), Held(c))
      /\ m \in Ends /\ m.open /\ m.inbox # <<>> /\ Head(m.inbox).type = type
  BY <1>1, Reading
<1>3. /\ t \in Works /\ t.out = <<>> /\ t.ok /\ t.i = iface[Proc(c, side)]
      /\ t.e.up = end[c][side].up /\ t.e.msgQueue = end[c][side].msgQueue
      /\ t.e.bound = end[c][side].bound
      /\ t.e.inbox = Tail(end[c][side].inbox)
  BY <1>1, <1>2, TakenFacts DEF HInv, IInv, StateInv
<1>4. m.msgQueue = <<>> /\ (m.bound /\ M.told = "up" => OnlyBye(m.inbox))
  BY <1>2 DEF Link
<1>5. ~OnlyBye(m.inbox)
  BY <1>2, PartingFacts DEF Ends
<1>6. m.bound => M.cc = c
  BY <1>2 DEF HInv, IInv, StateInv, OneChannelPerInterface
<1>7. /\ M.cc = None => M.told = "down" /\ Empty(M)
      /\ ~M.twice
  BY DEF HInv, IInv, StateInv, ToldInv, NothingLeaks, IsConnecting, Requesting, Empty, Procs
<1>8. Proc(c, side) = Master
  BY <1>1 DEF Proc
<1> HIDE DEF t, M, m
<1>9. end[c][side] = m
  BY <1>1 DEF m
<1>10. iface[Proc(c, side)] = M
  BY <1>8 DEF M
<1>11. QED
  BY <1>1, <1>3, <1>4, <1>5, <1>6, <1>7, <1>9, <1>10 DEF t, M, m

LEMMA AnnouncedFacts ==
  ASSUME NEW n \in Nat \ {0}
  PROVE  /\ \A ringType \in {"S2M", "M2S"} : /\ Announced(ringType, n, 1) = 0
                                             /\ Announced(ringType, n, 2) = 0
                                             /\ Announced(ringType, n, 2 * n + 2) = n
         /\ \A k \in 2 .. n + 1 :
              /\ Announced("S2M", n, k) = k - 2 /\ Announced("S2M", n, k + 1) = (k - 2) + 1
              /\ Announced("M2S", n, k) = 0 /\ Announced("M2S", n, k + 1) = 0
         /\ \A k \in n + 2 .. 2 * n + 1 :
              /\ Announced("S2M", n, k) = n /\ Announced("S2M", n, k + 1) = n
              /\ Announced("M2S", n, k) = k - n - 2
              /\ Announced("M2S", n, k + 1) = (k - n - 2) + 1
<1>1. \A k \in Nat : Announced("S2M", n, k)
        = IF k <= 2 THEN 0 ELSE IF k < n + 2 THEN k - 2 ELSE n
  BY DEF Announced
<1>2. \A k \in Nat : Announced("M2S", n, k)
        = IF k <= n + 2 THEN 0 ELSE IF k < 2 * n + 2 THEN k - (n + 2) ELSE n
  BY DEF Announced
<1>3. QED
  BY <1>1, <1>2

\* What has been done for the first lines.
LEMMA ServedFacts ==
  ASSUME NEW S, S.run \in Nat \ {0}, NEW M, NEW m
  PROVE  /\ Served(S, M, m, 1) <=>
              /\ m.bound /\ M.told = "down" /\ M.regions = <<>>
              /\ M.rx = <<>> /\ M.tx = <<>>
         /\ Served(S, M, m, 2) <=>
              /\ m.bound /\ M.told = "down" /\ M.regions = <<FALSE>>
              /\ M.rx = <<>> /\ M.tx = <<>>
<1> DEFINE n == S.run
<1>1. /\ Announced("S2M", n, 1) = 0 /\ Announced("M2S", n, 1) = 0
      /\ Announced("S2M", n, 2) = 0 /\ Announced("M2S", n, 2) = 0
  BY AnnouncedFacts
<1>2. Rings("S2M", 0) = <<>> /\ Rings("M2S", 0) = <<>>
  BY NoRings
<1>3. Served(S, M, m, 1) <=>
        /\ m.bound /\ M.told = "down" /\ M.regions = <<>>
        /\ M.rx = Rings("S2M", Announced("S2M", n, 1))
        /\ M.tx = Rings("M2S", Announced("M2S", n, 1))
  BY DEF Served
<1>4. Served(S, M, m, 2) <=>
        /\ m.bound /\ M.told = "down" /\ M.regions = <<FALSE>>
        /\ M.rx = Rings("S2M", Announced("S2M", n, 2))
        /\ M.tx = Rings("M2S", Announced("M2S", n, 2))
  BY DEF Served
<1> HIDE DEF n
<1>5. QED
  BY <1>1, <1>2, <1>3, <1>4

LEMMA InitLinks ==
  ASSUME HInv, NEW c \in Conns, NEW side \in Sides, NEW good \in BOOLEAN,
         RecvInit(c, side, good)
  PROVE  LinkInv' /\ ToldInv'
<1> DEFINE t == Taken(c, side)
           S == iface[owner[c]]
           M == iface[Master]
           m == end[c].master
           p == Proc(c, side)
           v == [t EXCEPT !.i.cc = c, !.i.run = Pairs[p], !.e.bound = TRUE]
           fits == Fits(p, t.i, Received(c, side))
           w == IF fits THEN Enqueue(v, <<Plain("Ack")>>) ELSE Fail(t)
<1>1. Receives(c, side, "Init") /\ Finish(c, side, w, good)
  BY DEF RecvInit
<1> HIDE DEF w
<1>2. /\ side = "master" /\ Received(c, side).type = "Init"
      /\ t \in Works /\ t.out = <<>> /\ t.ok /\ t.i = M
      /\ t.e.bound = m.bound /\ t.e.msgQueue = <<>>
      /\ t.e.inbox = Tail(m.inbox)
      /\ m.bound => M.cc = c
      /\ M.cc = None => M.told = "down" /\ Empty(M)
      /\ ~M.twice
  BY <1>1, MasterTakes
<1>3. p = Master /\ Pairs[p] \in Nat /\ None \notin Conns
  BY <1>2, ControlAssumption DEF Proc, Procs
<1> HIDE DEF t, p, M, S, m
<1>4. CASE fits
  <2>1. M.cc = None /\ M.told = "down" /\ Empty(M)
    BY <1>2, <1>4 DEF Fits
  <2>2. /\ v \in Works /\ v.out = <<>> /\ v.i.cc = c /\ v.i.tx = M.tx /\ v.i.rx = M.rx
        /\ v.i.regions = M.regions /\ v.i.told = M.told /\ v.i.twice = M.twice
        /\ v.e.bound /\ v.e.msgQueue = <<>> /\ v.e.inbox = t.e.inbox
    BY <1>2, <1>3 DEF Works, Interfaces, Ends
  <2>3. w = Enqueue(v, <<Plain("Ack")>>)
    BY <1>4 DEF w
  <2> HIDE DEF v
  <2>4. /\ w \in Works /\ w.i = v.i /\ w.out = <<>>
        /\ w.e.msgQueue = <<Plain("Ack")>> /\ w.e.inbox = v.e.inbox
        /\ w.e.bound
    <3>1. <<Plain("Ack")>> \in Seq(Messages)
      BY ReplyFacts
    <3> DEFINE q == <<Plain("Ack")>>
    <3> HIDE DEF q
    <3>2. /\ w \in Works /\ w.i = v.i /\ w.out = v.out
          /\ w.e.msgQueue = v.e.msgQueue \o q /\ w.e.inbox = v.e.inbox
          /\ w.e.bound = v.e.bound
      BY <2>2, <2>3, <3>1, EnqueueFacts DEF q
    <3>3. <<>> \o q = q
      BY <3>1, NothingBefore DEF q
    <3>4. QED
      BY <2>2, <3>2, <3>3 DEF q
  <2>5. Answers(S, M, m, Received(c, side), w, "Ack")
    <3>1. SUFFICES ASSUME NEW k \in 0 .. Lines(S.run) - 1, Configured(S),
                          Received(c, side) = Line(S.run, k + 1)
                   PROVE  k + 1 \in 1 .. Lines(S.run) - 1 /\ Served(S, w.i, w.e, k + 1)
      BY DEF Answers
    <3>2. S.run \in Nat \ {0} /\ S.run <= MaxRings /\ Lines(S.run) = 2 * S.run + 3
      BY <3>1, ControlAssumption DEF Configured, Lines
    <3>3. k + 1 = 1
      BY <1>2, <3>1, <3>2, LineTypes
    <3>4. Served(S, w.i, w.e, 1)
      BY <2>1, <2>2, <2>4, <3>2, ServedFacts, ZenonT(60) DEF Empty
    <3>5. QED
      BY <3>2, <3>3, <3>4
  <2>6. ~w.i.twice /\ w.i.cc # None /\ w.e.inbox = Tail(m.inbox)
    BY <1>2, <1>3, <2>2, <2>4
  <2>7. M.cc \in {None, c}
    BY <2>1
  <2>8. QED
    BY <1>1, <1>2, <2>4, <2>5, <2>6, <2>7, MasterHandles DEF S, M, m
<1>5. CASE ~fits
  <2>1. w = Fail(t)
    BY <1>5 DEF w
  <2>2. w \in Works /\ w.i = M /\ w.e = t.e /\ w.out = <<>> /\ ~w.ok
    BY <1>2, <2>1, FailFacts
  <2>3. \/ w.i = M /\ ~w.e.bound /\ ~w.ok
        \/ M.cc \in {None, c}
    BY <1>2, <2>2
  <2>4. ~w.i.twice /\ (w.i.cc = None => w.i.told = "down") /\ w.e.inbox = Tail(m.inbox)
    BY <1>2, <2>2
  <2>5. QED
    BY <1>1, <1>2, <2>2, <2>3, <2>4, MasterHandles DEF S, M, m
<1>6. QED
  BY <1>4, <1>5

LEMMA AddRegionLinks ==
  ASSUME HInv, NEW c \in Conns, NEW side \in Sides, NEW good \in BOOLEAN,
         RecvAddRegion(c, side, good)
  PROVE  LinkInv' /\ ToldInv'
<1> DEFINE t == Taken(c, side)
           S == iface[owner[c]]
           M == iface[Master]
           m == end[c].master
           v == [t EXCEPT !.i.regions = Append(@, FALSE)]
           w == Enqueue(v, <<Plain("Ack")>>)
<1>1. Receives(c, side, "AddRegion") /\ FinishOn(c, side, w, good)
  BY DEF RecvAddRegion
<1> HIDE DEF w
<1>2. /\ side = "master" /\ Received(c, side).type = "AddRegion"
      /\ t \in Works /\ t.out = <<>> /\ t.ok /\ t.i = M
      /\ t.e.bound /\ t.e.msgQueue = <<>>
      /\ t.e.inbox = Tail(m.inbox) /\ M.cc = c /\ ~M.twice
  BY <1>1, MasterTakes DEF Needy
<1>3. None \notin Conns
  BY ControlAssumption
<1> HIDE DEF t, M, S, m
<1>4. /\ v \in Works /\ v.out = t.out /\ v.e = t.e
      /\ v.i.cc = M.cc /\ v.i.tx = M.tx /\ v.i.rx = M.rx /\ v.i.regions = Append(M.regions, FALSE)
      /\ v.i.told = M.told /\ v.i.twice = M.twice
  <2>1. Append(t.i.regions, FALSE) \in Seq(BOOLEAN)
    BY <1>2 DEF Works, Interfaces
  <2>2. QED
    BY <1>2, <2>1 DEF Works, Interfaces
<1> HIDE DEF v
<1>5. /\ w \in Works /\ w.i = v.i /\ w.out = <<>>
      /\ w.e.msgQueue = <<Plain("Ack")>> /\ w.e.inbox = Tail(m.inbox)
      /\ w.e.bound
  <2>1. <<Plain("Ack")>> \in Seq(Messages)
    BY ReplyFacts
  <2> DEFINE q == <<Plain("Ack")>>
  <2> HIDE DEF q
  <2>2. /\ w \in Works /\ w.i = v.i /\ w.out = v.out
        /\ w.e.msgQueue = v.e.msgQueue \o q /\ w.e.inbox = v.e.inbox
        /\ w.e.bound = v.e.bound
    BY <1>4, <2>1, EnqueueFacts DEF q, w
  <2>3. <<>> \o q = q
    BY <2>1, NothingBefore DEF q
  <2>4. QED
    BY <1>2, <1>4, <2>2, <2>3 DEF q
<1>6. Answers(S, M, m, Received(c, side), w, "Ack")
  <2>1. SUFFICES ASSUME NEW k \in 0 .. Lines(S.run) - 1, Configured(S),
                        Served(S, M, m, k), Received(c, side) = Line(S.run, k + 1)
                 PROVE  k + 1 \in 1 .. Lines(S.run) - 1 /\ Served(S, w.i, w.e, k + 1)
    BY DEF Answers
  <2>2. S.run \in Nat \ {0} /\ S.run <= MaxRings /\ Lines(S.run) = 2 * S.run + 3
    BY <2>1, ControlAssumption DEF Configured, Lines
  <2>3. k + 1 = 2 /\ k = 1
    BY <1>2, <2>1, <2>2, LineTypes
  <2>4. /\ M.told = "down" /\ M.regions = <<>>
        /\ M.rx = <<>> /\ M.tx = <<>>
    BY <2>1, <2>2, <2>3, ServedFacts
  <2>5. w.i.regions = <<FALSE>>
    BY <1>4, <1>5, <2>4, NothingBefore
  <2>6. Served(S, w.i, w.e, 2)
    BY <1>4, <1>5, <2>2, <2>4, <2>5, ServedFacts, ZenonT(60)
  <2>7. QED
    BY <2>2, <2>3, <2>6
<1>7. ~w.i.twice /\ w.i.cc # None /\ M.cc \in {None, c}
  BY <1>2, <1>3, <1>4, <1>5
<1>8. Finish(c, "master", w, good)
  BY <1>1, <1>2, <1>5 DEF FinishOn
<1>9. QED
  BY <1>1, <1>2, <1>5, <1>6, <1>7, <1>8, MasterHandles DEF S, M, m

\* The next ring announced is the next one of its direction.
LEMMA RingAdded ==
  ASSUME NEW S, Configured(S), NEW k \in 0 .. Lines(S.run) - 1, NEW i, NEW j, NEW m, NEW f,
         Served(S, i, m, k), NEW ring,
         Line(S.run, k + 1) = AddRing(ring), f.bound,
         j.told = i.told, j.regions = i.regions,
         \/ ring[1] = "S2M" /\ j.rx = Append(i.rx, ring) /\ j.tx = i.tx
         \/ ring[1] # "S2M" /\ j.tx = Append(i.tx, ring) /\ j.rx = i.rx
  PROVE  k + 1 \in 1 .. Lines(S.run) - 1 /\ Served(S, j, f, k + 1)
<1> DEFINE n == S.run
<1>1. n \in Nat \ {0} /\ n <= MaxRings /\ Lines(n) = 2 * n + 3
  BY ControlAssumption DEF Configured, Lines
<1> HIDE DEF n
<1>2. k + 1 \in 1 .. Lines(n)
  BY <1>1 DEF n
<1>3. k + 1 \in 3 .. 2 * n + 2
  <2>1. Line(n, k + 1).type = "AddRing"
    BY DEF AddRing, n
  <2>2. QED
    BY <1>1, <1>2, <2>1, LineTypes
<1>4. /\ i.told = "down" /\ i.regions = <<FALSE>>
      /\ i.rx = Rings("S2M", Announced("S2M", n, k))
      /\ i.tx = Rings("M2S", Announced("M2S", n, k))
  <2>1. k # 0 /\ k # 1
    BY <1>3
  <2>2. QED
    BY <2>1 DEF Served, n
<1>5. \A x, y : AddRing(x) = AddRing(y) => x = y
  BY DEF AddRing
<1>6. CASE k \in 2 .. n + 1
  <2>1. k + 1 \in 3 .. n + 2 /\ (k + 1) - 3 = k - 2 /\ k - 2 \in Nat
    BY <1>1, <1>6
  <2>2. Line(n, k + 1) = AddRing(<<"S2M", (k + 1) - 3>>)
    BY <1>1, <1>2, <2>1, LineFacts
  <2>3. ring = <<"S2M", k - 2>>
    BY <1>5, <2>1, <2>2 DEF n
  <2>4. /\ Announced("S2M", n, k) = k - 2 /\ Announced("S2M", n, k + 1) = (k - 2) + 1
        /\ Announced("M2S", n, k) = 0 /\ Announced("M2S", n, k + 1) = 0
    BY <1>1, <1>6, AnnouncedFacts
  <2>5. Append(Rings("S2M", k - 2), <<"S2M", k - 2>>) = Rings("S2M", (k - 2) + 1)
    BY <2>1, MoreRings
  <2>6. j.rx = Rings("S2M", Announced("S2M", n, k + 1))
        /\ j.tx = Rings("M2S", Announced("M2S", n, k + 1))
    BY <1>4, <2>3, <2>4, <2>5
  <2>7. k + 1 # 0 /\ k + 1 # 1
    BY <1>3
  <2>8. Served(S, j, f, k + 1)
    BY <1>4, <2>6, <2>7 DEF Served, n
  <2>9. QED
    BY <1>1, <1>3, <2>8 DEF n
<1>7. CASE k \in n + 2 .. 2 * n + 1
  <2>1. k + 1 \in n + 3 .. 2 * n + 2 /\ (k + 1) - n - 3 = k - n - 2 /\ k - n - 2 \in Nat
    BY <1>1, <1>7, SMTT(40)
  <2>2. Line(n, k + 1) = AddRing(<<"M2S", (k + 1) - n - 3>>)
    BY <1>1, <1>2, <2>1, LineFacts
  <2>3. ring = <<"M2S", k - n - 2>>
    BY <1>5, <2>1, <2>2 DEF n
  <2>4. /\ Announced("S2M", n, k) = n /\ Announced("S2M", n, k + 1) = n
        /\ Announced("M2S", n, k) = k - n - 2
        /\ Announced("M2S", n, k + 1) = (k - n - 2) + 1
    BY <1>1, <1>7, AnnouncedFacts
  <2>5. Append(Rings("M2S", k - n - 2), <<"M2S", k - n - 2>>) = Rings("M2S", (k - n - 2) + 1)
    BY <2>1, MoreRings
  <2>6. j.rx = Rings("S2M", Announced("S2M", n, k + 1))
        /\ j.tx = Rings("M2S", Announced("M2S", n, k + 1))
    BY <1>4, <2>3, <2>4, <2>5
  <2>7. k + 1 # 0 /\ k + 1 # 1
    BY <1>3
  <2>8. Served(S, j, f, k + 1)
    BY <1>4, <2>6, <2>7 DEF Served, n
  <2>9. QED
    BY <1>1, <1>3, <2>8 DEF n
<1>8. QED
  BY <1>1, <1>3, <1>6, <1>7

LEMMA AddRingLinks ==
  ASSUME HInv, NEW c \in Conns, NEW side \in Sides, NEW good \in BOOLEAN,
         RecvAddRing(c, side, good)
  PROVE  LinkInv' /\ ToldInv'
<1> DEFINE t == Taken(c, side)
           S == iface[owner[c]]
           M == iface[Master]
           m == end[c].master
           line == Received(c, side)
           ring == line.ring
           v == [t EXCEPT !.i = AddQueue(@, ring)]
           x == Enqueue(v, <<Plain("Ack")>>)
           w == IF ring[2] >= t.i.run THEN Fail(t) ELSE x
<1>1. Receives(c, side, "AddRing") /\ FinishOn(c, side, w, good)
  BY DEF RecvAddRing
<1> HIDE DEF w
<1>2. /\ side = "master" /\ line \in Messages /\ line.type = "AddRing"
      /\ t \in Works /\ t.out = <<>> /\ t.ok /\ t.i = M
      /\ t.e.bound /\ t.e.msgQueue = <<>>
      /\ t.e.inbox = Tail(m.inbox) /\ M.cc = c /\ ~M.twice
  BY <1>1, MasterTakes DEF Needy
<1>3. None \notin Conns
  BY ControlAssumption
<1> HIDE DEF line
<1>4. ring \in RingIds /\ line = AddRing(ring)
  <2>1. line \notin {Plain(k) : k \in {"Ack", "AddRegion", "Connect", "Connected", "Disconnect"}}
    BY <1>2 DEF Plain
  <2>2. line # HelloMsg /\ line # InitMsg
    BY <1>2 DEF HelloMsg, InitMsg
  <2>3. PICK other \in RingIds : line = AddRing(other)
    BY <1>2, <2>1, <2>2 DEF Messages
  <2>4. line.ring = other
    BY <2>3 DEF AddRing
  <2>5. QED
    BY <2>3, <2>4
<1> HIDE DEF t, M, S, m, ring
<1>5. /\ v \in Works /\ v.out = t.out /\ v.e = t.e
      /\ v.i.cc = M.cc /\ v.i.regions = M.regions
      /\ v.i.told = M.told /\ v.i.twice = M.twice
      /\ \/ ring[1] = "S2M" /\ v.i.rx = Append(M.rx, ring) /\ v.i.tx = M.tx
         \/ ring[1] # "S2M" /\ v.i.tx = Append(M.tx, ring) /\ v.i.rx = M.rx
  <2>1. Append(t.i.rx, ring) \in Seq(RingIds) /\ Append(t.i.tx, ring) \in Seq(RingIds)
    BY <1>2, <1>4 DEF Works, Interfaces
  <2> DEFINE j == AddQueue(t.i, ring)
  <2>2. /\ j \in Interfaces /\ j.cc = M.cc /\ j.regions = M.regions
        /\ j.told = M.told /\ j.twice = M.twice
        /\ \/ ring[1] = "S2M" /\ j.rx = Append(M.rx, ring) /\ j.tx = M.tx
           \/ ring[1] # "S2M" /\ j.tx = Append(M.tx, ring) /\ j.rx = M.rx
    BY <1>2, <2>1 DEF AddQueue, Works, Interfaces
  <2>3. v = [t EXCEPT !.i = j]
    OBVIOUS
  <2> HIDE DEF j, v
  <2>4. v \in Works /\ v.out = t.out /\ v.e = t.e /\ v.i = j
    BY <1>2, <2>2, <2>3 DEF Works
  <2>5. QED
    BY <2>2, <2>4
<1> HIDE DEF v
<1>6. /\ x \in Works /\ x.i = v.i /\ x.out = <<>>
      /\ x.e.msgQueue = <<Plain("Ack")>> /\ x.e.inbox = Tail(m.inbox)
      /\ x.e.bound
  <2>1. <<Plain("Ack")>> \in Seq(Messages)
    BY ReplyFacts
  <2> DEFINE q == <<Plain("Ack")>>
  <2> HIDE DEF q
  <2>2. /\ x \in Works /\ x.i = v.i /\ x.out = v.out
        /\ x.e.msgQueue = v.e.msgQueue \o q /\ x.e.inbox = v.e.inbox
        /\ x.e.bound = v.e.bound
    BY <1>5, <2>1, EnqueueFacts DEF q
  <2>3. <<>> \o q = q
    BY <2>1, NothingBefore DEF q
  <2> HIDE DEF x
  <2>4. QED
    BY <1>2, <1>5, <2>2, <2>3 DEF q
<1>7. Answers(S, M, m, line, x, "Ack")
  <2>1. SUFFICES ASSUME NEW k \in 0 .. Lines(S.run) - 1, Configured(S),
                        Served(S, M, m, k), line = Line(S.run, k + 1)
                 PROVE  k + 1 \in 1 .. Lines(S.run) - 1 /\ Served(S, x.i, x.e, k + 1)
    BY DEF Answers
  <2> HIDE DEF x
  <2>2. Line(S.run, k + 1) = AddRing(ring)
    BY <1>4, <2>1
  <2>3. QED
    BY <1>5, <1>6, <2>1, <2>2, RingAdded
<1>8. Fail(t) \in Works /\ Fail(t).i = M /\ Fail(t).e = t.e /\ Fail(t).out = <<>> /\ ~Fail(t).ok
  BY <1>2, FailFacts
<1>9. w \in {Fail(t), x}
  BY DEF w
<1> HIDE DEF x
<1>10. /\ w \in Works /\ w.out = <<>> /\ w.e.inbox = Tail(m.inbox) /\ w.e.bound
       /\ ~w.i.twice /\ w.i.cc # None /\ M.cc \in {None, c}
       /\ w.ok => w.e.msgQueue = <<Plain("Ack")>> /\ Answers(S, M, m, line, w, "Ack")
  <2>1. CASE w = Fail(t)
    BY <1>2, <1>3, <1>8, <2>1
  <2>2. CASE w = x
    BY <1>2, <1>3, <1>5, <1>6, <1>7, <2>2
  <2>3. QED
    BY <1>9, <2>1, <2>2
<1>11. Finish(c, "master", w, good)
  BY <1>1, <1>2, <1>10 DEF FinishOn
<1>12. QED
  BY <1>1, <1>2, <1>10, <1>11, MasterHandles DEF S, M, m, line

LEMMA ConnectLinks ==
  ASSUME HInv, NEW c \in Conns, NEW side \in Sides, NEW goodMap \in BOOLEAN,
         NEW goodUp \in BOOLEAN, NEW good \in BOOLEAN,
         RecvConnect(c, side, goodMap, goodUp, good)
  PROVE  LinkInv' /\ ToldInv'
<1> DEFINE t == Taken(c, side)
           S == iface[owner[c]]
           M == iface[Master]
           m == end[c].master
           line == Received(c, side)
           v == Connect(t, goodMap, goodUp)
           x == Enqueue(v, <<Plain("Connected")>>)
           w == IF v.ok THEN x ELSE v
<1>1. Receives(c, side, "Connect") /\ FinishOn(c, side, w, good)
  BY DEF RecvConnect
<1> HIDE DEF w
<1>2. /\ side = "master" /\ line \in Messages /\ line.type = "Connect"
      /\ t \in Works /\ t.out = <<>> /\ t.ok /\ t.i = M
      /\ t.e.bound /\ t.e.msgQueue = <<>>
      /\ t.e.inbox = Tail(m.inbox) /\ M.cc = c /\ ~M.twice /\ M.told # "up"
  <2>1. /\ side = "master" /\ line \in Messages /\ line.type = "Connect"
        /\ t \in Works /\ t.out = <<>> /\ t.ok /\ t.i = M
        /\ t.e.bound = m.bound /\ t.e.msgQueue = <<>>
        /\ t.e.inbox = Tail(m.inbox)
        /\ m.bound => M.cc = c /\ M.told # "up"
        /\ ~M.twice /\ m.bound
    BY <1>1, MasterTakes DEF Needy
  <2> HIDE DEF t, M, m, line
  <2>2. QED
    BY <2>1
<1>3. None \notin Conns
  BY ControlAssumption
<1> HIDE DEF t, M, S, m, line
<1>4. /\ v \in Works /\ v.out = <<>>
      /\ v.e.inbox = t.e.inbox /\ v.e.msgQueue = <<>> /\ v.e.bound
      /\ v.i.cc = M.cc /\ v.i.run = M.run /\ v.i.tx = M.tx /\ v.i.rx = M.rx
      /\ v.i.twice = M.twice
      /\ v.ok => v.e.up /\ v.i.regions = [k \in DOMAIN M.regions |-> TRUE]
  BY <1>2, ConnectTells
<1> HIDE DEF v
<1>5. /\ x \in Works /\ x.i = v.i /\ x.out = <<>> /\ x.ok = v.ok
      /\ x.e.msgQueue = <<Plain("Connected")>> /\ x.e.inbox = Tail(m.inbox)
      /\ x.e.bound /\ x.e.up = v.e.up
  <2>1. <<Plain("Connected")>> \in Seq(Messages)
    BY ReplyFacts
  <2> DEFINE q == <<Plain("Connected")>>
  <2> HIDE DEF q
  <2>2. /\ x \in Works /\ x.i = v.i /\ x.out = v.out /\ x.ok = v.ok
        /\ x.e = [v.e EXCEPT !.msgQueue = v.e.msgQueue \o q]
        /\ x.e.msgQueue = v.e.msgQueue \o q /\ x.e.inbox = v.e.inbox
        /\ x.e.bound = v.e.bound
    BY <1>4, <2>1, EnqueueFacts DEF q
  <2>3. <<>> \o q = q
    BY <2>1, NothingBefore DEF q
  <2> HIDE DEF x
  <2>4. x.e.up = v.e.up
    BY <1>4, <2>2 DEF Works, Ends
  <2>5. QED
    BY <1>2, <1>4, <2>2, <2>3, <2>4 DEF q
<1> HIDE DEF x
<1>6. ASSUME v.ok PROVE Answers(S, M, m, line, x, "Connected")
  <2>1. SUFFICES ASSUME NEW k \in 0 .. Lines(S.run) - 1, Configured(S),
                        Served(S, M, m, k), line = Line(S.run, k + 1)
                 PROVE  k + 1 = Lines(S.run) /\ Matched(S, x.i, x.e)
    BY DEF Answers
  <2>2. S.run \in Nat \ {0} /\ S.run <= MaxRings /\ Lines(S.run) = 2 * S.run + 3
    BY <2>1, ControlAssumption DEF Configured, Lines
  <2>3. k + 1 = Lines(S.run)
    BY <1>2, <2>1, <2>2, LineTypes
  <2>4. k # 0 /\ k # 1 /\ k = 2 * S.run + 2
    BY <2>1, <2>2, <2>3
  <2>5. /\ M.regions = <<FALSE>>
        /\ M.rx = Rings("S2M", Announced("S2M", S.run, k))
        /\ M.tx = Rings("M2S", Announced("M2S", S.run, k))
    BY <2>1, <2>4 DEF Served
  <2>6. Announced("S2M", S.run, k) = S.run /\ Announced("M2S", S.run, k) = S.run
    BY <2>2, <2>4, AnnouncedFacts
  <2>7. x.i.regions = <<TRUE>>
    BY <1>4, <1>5, <1>6, <2>5, OneMapped
  <2>8. x.i.rx = S.tx /\ x.i.tx = S.rx
    BY <1>4, <1>5, <2>1, <2>5, <2>6 DEF Configured
  <2>9. Matched(S, x.i, x.e)
    BY <1>4, <1>5, <1>6, <2>1, <2>7, <2>8 DEF Matched
  <2>10. QED
    BY <2>3, <2>9
<1>7. /\ w \in Works /\ w.out = <<>> /\ w.e.inbox = Tail(m.inbox) /\ w.e.bound
      /\ ~w.i.twice /\ w.i.cc # None /\ M.cc \in {None, c}
      /\ w.ok => w.e.msgQueue = <<Plain("Connected")>> /\ Answers(S, M, m, line, w, "Connected")
  <2>1. CASE ~v.ok
    <3>1. w = v
      BY <2>1 DEF w
    <3>2. QED
      BY <1>2, <1>3, <1>4, <2>1, <3>1
  <2>2. CASE v.ok
    <3>1. w = x
      BY <2>2 DEF w
    <3>2. QED
      BY <1>2, <1>3, <1>4, <1>5, <1>6, <2>2, <3>1
  <2>3. QED
    BY <2>1, <2>2
<1>8. Finish(c, "master", w, good)
  BY <1>1, <1>2, <1>7 DEF FinishOn
<1>9. QED
  BY <1>1, <1>2, <1>7, <1>8, MasterHandles DEF S, M, m, line

\* The slave of a connection that says Disconnect has closed.
LEMMA MasterLeaves ==
  ASSUME HInv, NEW c \in Conns, NEW good \in BOOLEAN,
         RecvDisconnect(c, "master", good)
  PROVE  LinkInv' /\ ToldInv'
<1> DEFINE t == Taken(c, "master")
           S == iface[owner[c]]
           M == iface[Master]
           s == end[c].slave
           m == end[c].master
           s2 == end'[c].slave
           m2 == end'[c].master
           v == Close(t, FALSE, PeerGone(c, "master"), good)
           u == [v EXCEPT !.ok = TRUE]
           r == Finished(c, "master", v, good)
<1>1. Receives(c, "master", "Disconnect") /\ Finish(c, "master", v, good)
  BY DEF RecvDisconnect
<1>2. /\ owner[c] # None /\ owner[c] \in Slaves /\ owner[c] # Master
      /\ S \in Interfaces /\ s \in Ends /\ m \in Ends
      /\ Link(S, M, s, m, InBacklog(c), Held(c)) /\ ~InBacklog(c)
      /\ m.open /\ m.inbox # <<>> /\ Head(m.inbox).type = "Disconnect"
      /\ PeerGone(c, "master") = FALSE
  BY <1>1, Reading DEF Sides
<1>3. /\ t \in Works /\ t.out = <<>> /\ t.i = M /\ t.e.msgQueue = <<>> /\ t.ok
      /\ t.e.bound = m.bound
  BY <1>2, TakenFacts DEF HInv, IInv, StateInv, Proc, Sides, Link
<1>4. /\ ~M.twice /\ (M.cc = None => M.told = "down")
      /\ m.bound => M.cc = c
  BY <1>2 DEF HInv, IInv, StateInv, OneChannelPerInterface, ToldInv, Requesting, Procs
<1>5. ~s.open
  <2>1. s.open /\ m.open => InPhase(S, M, s, m)
    BY <1>2 DEF Link
  <2>2. QED
    BY <1>2, <2>1, PhaseFacts
<1>6. Commit(c, "master", r) /\ UNCHANGED <<alive, owner, backlog, pending, panics>>
  BY <1>1 DEF Finish, Finished
<1>7. r = IF v.ok THEN SendMsg(v, FALSE) ELSE Close(u, TRUE, FALSE, good)
  BY <1>2 DEF Finished
<1> HIDE DEF t, S, M, s, m, s2, m2, r
<1>8. /\ v \in Works /\ v.out = <<>> /\ LetGo(M, v.i) /\ v.e.msgQueue = <<>> /\ ~v.e.open
      /\ v.e.bound = t.e.bound /\ (~m.bound => v.i = M)
  <2> DEFINE y == Close(t, FALSE, FALSE, good)
  <2>1. v = y
    BY <1>2
  <2> HIDE DEF v
  <2>2. Outcome(t, y, FALSE) /\ ~y.e.open
    BY <1>3, CloseOutcome
  <2>3. LetGo(t.i, y.i) /\ y.out = <<>> /\ y.e.msgQueue = t.e.msgQueue
    <3>1. t \in Works /\ t.out = <<>> /\ FALSE \in BOOLEAN
      BY <1>3
    <3>2. /\ LetGo(t.i, y.i) /\ (~FALSE => y.out = <<>>)
          /\ y.e.msgQueue = IF FALSE THEN <<>> ELSE t.e.msgQueue
      BY <3>1, CloseLetsGo
    <3> HIDE DEF y
    <3>3. QED
      BY <3>2
  <2>4. ~t.e.bound => y.i = t.i
    BY <1>3, CloseUnbound
  <2> HIDE DEF y
  <2>5. QED
    BY <1>3, <2>1, <2>2, <2>3, <2>4 DEF Outcome
<1> HIDE DEF v
<1>9. u \in Works /\ u.i = v.i /\ u.e = v.e /\ u.out = <<>> /\ u.ok
  BY <1>8 DEF Works
<1> HIDE DEF u
<1>10. /\ r \in Works /\ r.e.msgQueue = <<>> /\ ~r.e.open /\ LetGo(v.i, r.i)
       /\ ~m.bound => r.i = M
  <2>1. CASE v.ok
    <3>1. /\ r \in Works /\ r.i = v.i /\ r.e.open = v.e.open /\ r.e.msgQueue = <<>>
      BY <1>7, <1>8, <2>1, SendMsgSends
    <3>2. QED
      BY <1>8, <3>1 DEF LetGo
  <2>2. CASE ~v.ok
    <3>1. r = Close(u, TRUE, FALSE, good)
      BY <1>7, <2>2
    <3>2. Outcome(u, r, FALSE) /\ ~r.e.open
      BY <1>9, <3>1, CloseOutcome
    <3>3. LetGo(u.i, r.i) /\ r.e.msgQueue = <<>>
      BY <1>9, <3>1, CloseLetsGo
    <3>4. ~u.e.bound => r.i = u.i
      BY <1>9, <3>1, CloseUnbound
    <3>5. QED
      BY <1>3, <1>8, <1>9, <3>2, <3>3, <3>4 DEF Outcome
  <2>3. QED
    BY <2>1, <2>2
<1>11. /\ s2 \in Ends /\ m2 \in Ends
       /\ m2 = r.e /\ Grown(s, s2, r.out) /\ iface'[owner[c]] = S /\ iface'[Master] = r.i
  <2>1. Proc(c, "master") = Master /\ Other("master") = "slave" /\ owner[c] \in Procs
        /\ "master" \in Sides /\ "slave" \in Sides
    BY <1>2 DEF Proc, Other, Procs, Sides
  <2>4. TypeOK
    BY DEF HInv, IInv, StateInv
  <2>5. r \in Works
    BY <1>10
  <2>2. /\ end' \in [Conns -> [Sides -> Ends]]
        /\ iface'[Proc(c, "master")] = r.i
        /\ \A q \in Procs \ {Proc(c, "master")} : iface'[q] = iface[q]
        /\ end'[c]["master"] = r.e
        /\ LET o == end[c][Other("master")]  n == end'[c][Other("master")] IN
           /\ n.inbox = o.inbox \o r.out
           /\ n.open = o.open /\ n.bound = o.bound /\ n.up = o.up /\ n.gone = o.gone
           /\ n.msgQueue = o.msgQueue
    <3>1. "master" \in Sides /\ owner[c] # None
      BY <1>2, <2>1
    <3> HIDE DEF r
    <3>2. /\ end' \in [Conns -> [Sides -> Ends]]
          /\ iface'[Proc(c, "master")] = r.i
          /\ end'[c]["master"] = r.e
      BY <1>6, <2>4, <2>5, <3>1, CommitView
    <3>3. \A q \in Procs \ {Proc(c, "master")} : iface'[q] = iface[q]
      BY <1>6, <2>4, <2>5, <3>1, CommitView
    <3>4. LET o == end[c][Other("master")]  n == end'[c][Other("master")] IN
          /\ n.inbox = o.inbox \o r.out
          /\ n.open = o.open /\ n.bound = o.bound /\ n.up = o.up /\ n.gone = o.gone
          /\ n.msgQueue = o.msgQueue
      BY <1>6, <2>4, <2>5, <3>1, CommitView
    <3>5. QED
      BY <3>2, <3>3, <3>4
  <2>3. QED
    BY <1>2, <2>1, <2>2 DEF Grown, S, s, s2, m2
<1>12. /\ InBacklog(c)' <=> InBacklog(c)
       /\ Held(c)' <=> Held(c)
  BY <1>6, <1>11 DEF InBacklog, Held, S
<1>13. Link(S, r.i, s2, m2, InBacklog(c), Held(c))
  <2>1. r.out \in Seq(Messages)
    BY <1>10 DEF Works
  <2>2. QED
    BY <1>2, <1>5, <1>10, <1>11, <2>1, MasterCloses
<1>14. Link(iface'[owner[c]], iface'[Master], end'[c].slave, end'[c].master,
            InBacklog(c)', Held(c)')
  <2>1. Link(S, r.i, s2, m2, InBacklog(c)', Held(c)')
    BY <1>12, <1>13 DEF Link
  <2>2. QED
    BY <1>11, <2>1 DEF s2, m2
<1>15. r.i = iface[Master] \/ iface[Master].cc \in {None, c}
  BY <1>4, <1>10 DEF M
<1>16. ~r.i.twice /\ (r.i.cc = None => r.i.told = "down")
  BY <1>4, <1>8, <1>10 DEF LetGo
<1>17. Proc(c, "master") = Master /\ "master" \in Sides
  BY DEF Proc, Sides
<1>18. \A d \in Conns \ {c} : InBacklog(d)' <=> InBacklog(d)
  BY <1>6 DEF InBacklog
<1>19. UNCHANGED <<owner, pending>>
  BY <1>6
<1>20. QED
  BY <1>2, <1>6, <1>10, <1>14, <1>15, <1>16, <1>17, <1>18, <1>19, ChannelStep

-----------------------------------------------------------------------------
(* Channels that are closed on the user's behalf or after a hang up. *)

\* The master could not say Disconnect to a slave that has exited.
LEMMA MasterStays ==
  ASSUME NEW S, NEW M, NEW s, NEW m, NEW waiting, NEW held,
         Link(S, M, s, m, waiting, held), ~waiting, m.open,
         NEW M2, NEW s2, NEW m2, ~s2.open, s2.up = s.up,
         M2.told = M.told, M2.tx = M.tx, M2.rx = M.rx, M2.regions = M.regions,
         SameEnd(m, m2), m2.msgQueue = <<>>
  PROVE  Link(S, M2, s2, m2, waiting, held)
<1>1. m2.bound = m.bound /\ m2.up = m.up /\ m2.inbox = m.inbox
  BY DEF SameEnd
<1>2. Matched(S, M, m) => Matched(S, M2, m2)
  BY <1>1 DEF Matched
<1>3. QED
  BY <1>1, <1>2 DEF Link

\* Nor the slave to a master that has.
LEMMA SlaveStays ==
  ASSUME NEW S, NEW M, NEW s, NEW m, NEW waiting, NEW held,
         Link(S, M, s, m, waiting, held), ~waiting, s.open,
         NEW S2, NEW s2, NEW m2, NEW held2, ~m2.open, m2.msgQueue = m.msgQueue,
         S2.told = S.told, SameEnd(s, s2)
  PROVE  Link(S2, M, s2, m2, waiting, held2)
<1>1. s2.inbox = s.inbox
  BY DEF SameEnd
<1>2. QED
  BY <1>1 DEF Link

\* What is the same for the invariant.
SameData(i, j) ==
  /\ j.run = i.run /\ j.told = i.told
  /\ j.tx = i.tx /\ j.rx = i.rx /\ j.regions = i.regions

Alike(i, j) == SameData(i, j) /\ j.cc = i.cc /\ j.twice = i.twice

LEMMA AllMapped == ~\E k \in DOMAIN <<TRUE>> : ~<<TRUE>>[k]
<1>1. DOMAIN <<TRUE>> = {1} /\ <<TRUE>>[1] = TRUE
  OBVIOUS
<1>2. QED
  BY <1>1

LEMMA Closes ==
  ASSUME HInv, NEW c \in Conns, NEW side \in Sides, owner[c] # None,
         NEW sendMsg \in BOOLEAN, NEW good \in BOOLEAN,
         NEW r \in Works, NEW x, x = Close(Work(c, side), sendMsg, PeerGone(c, side), good),
         r.e = x.e, r.out = x.out, Alike(x.i, r.i),
         Commit(c, side, r), UNCHANGED <<alive, owner, backlog, pending, panics>>,
         side = "master" => iface[Master].cc = c,
         side = "slave" => \/ iface[owner[c]].cc = c
                           \/ PeerGone(c, side) /\ end[c].slave.open,
         ~sendMsg => PeerGone(c, side)
  PROVE  LinkInv' /\ ToldInv'
<1> DEFINE p == Proc(c, side)
           w == Work(c, side)
           gone == PeerGone(c, side)
           S == iface[owner[c]]
           M == iface[Master]
           s == end[c].slave
           m == end[c].master
           s2 == end'[c].slave
           m2 == end'[c].master
<1>1. TypeOK /\ GoneInv /\ BacklogInv /\ SlaveInv /\ MasterInv /\ LinkInv /\ ToldInv
  BY DEF HInv, IInv, StateInv
<1>2. /\ w \in Works /\ w.out = <<>> /\ w.ok /\ w.i = iface[p] /\ w.e = end[c][side]
  BY <1>1, WorkFacts
<1>3. /\ owner[c] \in Slaves /\ owner[c] # Master /\ p \in Procs
      /\ s \in Ends /\ m \in Ends /\ gone \in BOOLEAN /\ "master" \in Sides /\ "slave" \in Sides
      /\ Link(S, M, s, m, InBacklog(c), Held(c))
  <2>1. owner[c] \in Slaves /\ owner[c] # Master
    BY <1>1, ControlAssumption DEF TypeOK
  <2>2. "master" \in Sides /\ "slave" \in Sides /\ Other(side) \in Sides
    BY DEF Sides, Other
  <2>3. p \in Procs
    BY <1>1, SideFacts
  <2>4. \A x1 \in Sides : end[c][x1] \in Ends
    BY <1>1 DEF TypeOK
  <2>5. gone \in BOOLEAN
    BY <2>2, <2>4 DEF PeerGone, Ends
  <2>6. Link(S, M, s, m, InBacklog(c), Held(c))
    BY <1>1 DEF LinkInv
  <2>7. QED
    BY <2>1, <2>2, <2>3, <2>4, <2>5, <2>6
<1>4. /\ side = "master" => p = Master /\ gone = s.gone /\ end[c][side] = m
                            /\ Other(side) = "slave"
      /\ side = "slave" => p = owner[c] /\ gone = m.gone /\ end[c][side] = s
                           /\ Other(side) = "master"
      /\ side = "master" \/ side = "slave"
  BY DEF Sides, PeerGone, Other, Proc
<1> HIDE DEF w, p, gone
<1>5. /\ Outcome(w, x, gone)
      /\ ~(sendMsg /\ gone) => ~x.e.open
      /\ LetGo(w.i, x.i) /\ (x.e.open => x.i = w.i) /\ SameEnd(w.e, x.e)
      /\ OnlyBye(x.out)
      /\ x.e.msgQueue = IF sendMsg THEN <<>> ELSE w.e.msgQueue
  <2>1. x = Close(w, sendMsg, gone, good)
    BY DEF w, gone
  <2>2. QED
    BY <1>2, <1>3, <2>1, CloseOutcome, CloseLetsGo
<1>6. /\ LetGo(w.i, r.i) /\ SameEnd(w.e, r.e) /\ OnlyBye(r.out) /\ r.out \in Seq(Messages)
      /\ r.e.msgQueue = IF sendMsg THEN <<>> ELSE w.e.msgQueue
      /\ r.e.open => w.e.open /\ gone /\ Alike(w.i, r.i)
      /\ r.i.cc \in {w.i.cc, None}
  BY <1>5 DEF LetGo, Alike, SameData, Outcome, Kept, TakenDown, Works
<1>7. /\ iface'[p] = r.i /\ \A q \in Procs \ {p} : iface'[q] = iface[q]
      /\ s2 \in Ends /\ m2 \in Ends
      /\ side = "master" => m2 = r.e /\ Grown(s, s2, r.out)
      /\ side = "slave" => s2 = r.e /\ Grown(m, m2, r.out)
  <2>1. /\ end' \in [Conns -> [Sides -> Ends]]
        /\ iface'[Proc(c, side)] = r.i
        /\ \A q \in Procs \ {Proc(c, side)} : iface'[q] = iface[q]
        /\ end'[c][side] = r.e
        /\ Grown(end[c][Other(side)], end'[c][Other(side)], r.out)
    BY <1>1, CommitView, ZenonT(60) DEF Grown
  <2>2. s2 \in Ends /\ m2 \in Ends
    BY <1>3, <2>1
  <2>3. iface'[p] = r.i /\ \A q \in Procs \ {p} : iface'[q] = iface[q]
    BY <2>1 DEF p
  <2>4. side = "master" => m2 = r.e /\ Grown(s, s2, r.out)
    BY <1>4, <2>1
  <2>5. side = "slave" => s2 = r.e /\ Grown(m, m2, r.out)
    BY <1>4, <2>1
  <2>6. QED
    BY <2>2, <2>3, <2>4, <2>5
<1>8. Master \in Procs /\ owner[c] \in Procs /\ None \notin Conns
  BY <1>3, ControlAssumption DEF Procs
<1>9. /\ s.gone => ~s.open
      /\ m.gone => ~m.open /\ ~InBacklog(c)
  BY <1>1, <1>3 DEF GoneInv, BacklogInv
<1>10. InBacklog(c)' <=> InBacklog(c)
  BY DEF InBacklog
<1>11. w.i.cc = None /\ ~Requesting(p) => w.i.told = "down"
  BY <1>1, <1>2, <1>3 DEF ToldInv
<1>12. ~w.i.twice
  BY <1>1, <1>2, <1>3 DEF ToldInv
<1>13. CASE side = "master"
  <2>1. M.cc = c /\ ~InBacklog(c)
    BY <1>1, <1>8, <1>13 DEF MasterInv, BacklogInv
  <2>2. iface'[Master] = r.i /\ iface'[owner[c]] = S /\ (Held(c)' <=> Held(c))
    BY <1>3, <1>4, <1>7, <1>8, <1>13 DEF Held
  <2>3. w.i = M /\ w.e = m
    BY <1>2, <1>4, <1>13
  <2> HIDE DEF S, M, s, m, s2, m2
  <2>4. m2.msgQueue = <<>>
    BY <1>3, <1>6, <1>7, <1>13, <2>3 DEF Link
  <2>5. Link(S, r.i, s2, m2, InBacklog(c), Held(c))
    <3>1. CASE ~r.e.open
      BY <1>3, <1>6, <1>7, <1>13, <2>1, <2>4, <3>1, MasterCloses
    <3>2. CASE r.e.open
      <4>1. m.open /\ ~s2.open /\ s2.up = s.up
        BY <1>4, <1>6, <1>7, <1>9, <1>13, <2>3, <3>2 DEF Grown
      <4>2. /\ r.i.told = M.told /\ r.i.tx = M.tx /\ r.i.rx = M.rx
            /\ r.i.regions = M.regions /\ SameEnd(m, m2)
        BY <1>6, <1>7, <1>13, <2>3, <3>2 DEF Alike, SameData
      <4>3. QED
        BY <1>3, <2>1, <2>4, <4>1, <4>2, MasterStays
    <3>3. QED
      BY <3>1, <3>2
  <2>6. Link(iface'[owner[c]], iface'[Master], end'[c].slave, end'[c].master,
             InBacklog(c)', Held(c)')
    <3>1. Link(S, r.i, s2, m2, InBacklog(c)', Held(c)')
      BY <1>10, <2>2, <2>5 DEF Link
    <3>2. QED
      BY <2>2, <3>1 DEF s2, m2
  <2>7. ~r.i.twice /\ (r.i.cc = None /\ ~Requesting(p) => r.i.told = "down")
    BY <1>6, <1>11, <1>12 DEF LetGo
  <2>8. \A d \in Conns \ {c} : InBacklog(d)' <=> InBacklog(d)
    BY DEF InBacklog
  <2>9. iface[Master].cc \in {None, c}
    BY <2>1 DEF M
  <2>10. QED
    BY <1>13, <2>6, <2>7, <2>8, <2>9, ChannelStep DEF p
<1>14. CASE side = "slave"
  <2>1. iface'[Master] = M /\ iface'[owner[c]] = r.i
    BY <1>3, <1>4, <1>7, <1>8, <1>14
  <2>2. w.i = S /\ w.e = s
    BY <1>2, <1>4, <1>14
  <2>3. Held(c)
    BY <1>1, <1>14 DEF Held, SlaveInv
  <2>4. S.cc = c => pending[owner[c]] = None
    BY <1>1, <1>3, <1>8 DEF SlaveInv
  <2>5. Held(c)' => r.i.cc = c \/ pending[owner[c]] = c
    BY <2>1 DEF Held
  <2>6. S.cc = c \/ (gone /\ s.open)
    BY <1>14 DEF gone
  <2> HIDE DEF S, M, s, m, s2, m2
  <2>7. ASSUME r.e.up, m.open, Held(c)'
        PROVE  Matched(r.i, M, m) /\ OnlyBye(m.inbox)
    <3>1. S.cc = c
      BY <1>4, <1>9, <1>14, <2>6, <2>7
    <3>2. r.i.cc = c
      BY <1>8, <2>4, <2>5, <2>7, <3>1
    <3>3. s.up
      BY <1>6, <2>2, <2>7 DEF SameEnd
    <3>4. Matched(S, M, m) /\ OnlyBye(m.inbox)
      BY <1>3, <2>3, <2>7, <3>3 DEF Link
    <3>5. S.regions = <<TRUE>>
      BY <3>4 DEF Matched, Configured
    <3>6. ~\E k \in DOMAIN S.regions : ~S.regions[k]
      BY <3>5, AllMapped
    <3>7. r.i.run = S.run /\ r.i.tx = S.tx /\ r.i.rx = S.rx /\ r.i.regions = S.regions
      BY <1>6, <1>8, <2>2, <3>2, <3>6 DEF LetGo
    <3>8. QED
      BY <3>4, <3>7 DEF Matched, Configured
  <2>8. Link(r.i, M, s2, m2, InBacklog(c), Held(c)')
    <3>1. CASE ~r.e.open
      <4>1. s2 = r.e /\ s2.up = s.up /\ Grown(m, m2, r.out) /\ OnlyBye(r.out)
            /\ r.out \in Seq(Messages)
        BY <1>6, <1>7, <1>14, <2>2 DEF SameEnd
      <4>2. s2.up /\ m.open /\ Held(c)' => Matched(r.i, M, m) /\ OnlyBye(m.inbox)
        BY <2>7, <4>1
      <4>3. QED
        BY <1>3, <1>7, <3>1, <4>1, <4>2, SlaveCloses
    <3>2. CASE r.e.open
      <4>1. s.open /\ ~InBacklog(c) /\ ~m2.open /\ m2.msgQueue = m.msgQueue
        BY <1>4, <1>6, <1>7, <1>9, <1>14, <2>2, <3>2 DEF Grown
      <4>2. r.i.told = S.told /\ SameEnd(s, s2)
        BY <1>6, <1>7, <1>14, <2>2, <3>2 DEF Alike, SameData
      <4>3. QED
        BY <1>3, <4>1, <4>2, SlaveStays
    <3>3. QED
      BY <3>1, <3>2
  <2>9. Link(iface'[owner[c]], iface'[Master], end'[c].slave, end'[c].master,
             InBacklog(c)', Held(c)')
    <3>1. Link(r.i, M, s2, m2, InBacklog(c)', Held(c)')
      BY <1>10, <2>8 DEF Link
    <3>2. QED
      BY <2>1, <3>1 DEF s2, m2
  <2>10. ~r.i.twice /\ (r.i.cc = None /\ ~Requesting(p) => r.i.told = "down")
    BY <1>6, <1>11, <1>12 DEF LetGo
  <2>11. \A d \in Conns \ {c} : InBacklog(d)' <=> InBacklog(d)
    BY DEF InBacklog
  <2>12. r.i.cc # None => r.i.cc = iface[owner[c]].cc
    BY <1>6, <2>2 DEF S
  <2>13. QED
    BY <1>14, <2>3, <2>9, <2>10, <2>11, <2>12, ChannelStep DEF p
<1>15. QED
  BY <1>4, <1>13, <1>14

LEMMA AlikeItself == \A i : Alike(i, i)
BY DEF Alike, SameData

LEMMA HangUpLinks ==
  ASSUME HInv, NEW c \in Conns, NEW side \in Sides, NEW good \in BOOLEAN,
         HangUp(c, side, good), end[c][side].bound
  PROVE  LinkInv' /\ ToldInv'
<1> DEFINE w == Work(c, side)
           r == Close(w, FALSE, PeerGone(c, side), good)
<1>1. TypeOK /\ OwnerInv /\ OneChannelPerInterface /\ end[c][side].open /\ PeerGone(c, side)
  BY DEF HangUp, HInv, IInv, StateInv
<1>2. owner[c] # None
  BY <1>1, OpenIsOwned, ControlAssumption DEF Procs
<1>3. PeerGone(c, side) = TRUE
  BY <1>1, <1>2, SideFacts DEF PeerGone, TypeOK, Ends
<1>4. Commit(c, side, r) /\ UNCHANGED <<alive, owner, backlog, pending, panics>>
  BY <1>3 DEF HangUp
<1>5. w \in Works /\ w.out = <<>>
  BY <1>1, <1>2, WorkFacts
<1>6. r \in Works
  <2> HIDE DEF w
  <2>1. Outcome(w, r, PeerGone(c, side))
    BY <1>3, <1>5, CloseOutcome
  <2>2. QED
    BY <2>1 DEF Outcome
<1>7. /\ side = "master" => iface[Master].cc = c
      /\ side = "slave" => PeerGone(c, side) /\ end[c].slave.open
  BY <1>1 DEF OneChannelPerInterface
<1> DEFINE x == r
<1>8. x = Close(Work(c, side), FALSE, PeerGone(c, side), good)
  OBVIOUS
<1>9. r.e = x.e /\ r.out = x.out /\ Alike(x.i, r.i)
  BY AlikeItself
<1> HIDE DEF r, x, w
<1>10. QED
  BY <1>1, <1>2, <1>4, <1>6, <1>7, <1>8, <1>9, Closes

\* What Disconnect and Delete of an interface with a channel do to it.
LEMMA UserCloses ==
  ASSUME HInv, NEW p \in Procs, NEW good \in BOOLEAN, NEW c, NEW side,
         c = iface[p].cc, side = SideOf(p), c # None, NEW x, NEW r \in Works,
         x = Close(Work(c, side), TRUE, PeerGone(c, side), good),
         r.e = x.e, r.out = x.out, Alike(x.i, r.i),
         Commit(c, side, r), UNCHANGED <<alive, owner, backlog, pending, panics>>
  PROVE  LinkInv' /\ ToldInv'
<1>1. StateInv
  BY DEF HInv, IInv
<1>2. c \in Conns /\ side \in Sides /\ owner[c] # None /\ Proc(c, side) = p
  BY <1>1, ChannelFacts
<1>3. /\ side = "master" => iface[Master].cc = c
      /\ side = "slave" => iface[owner[c]].cc = c
  BY <1>2 DEF Proc
<1>4. QED
  BY <1>2, <1>3, Closes

LEMMA UserWork ==
  ASSUME HInv, NEW p \in Procs, NEW good \in BOOLEAN, iface[p].cc # None
  PROVE  Close(Work(iface[p].cc, SideOf(p)), TRUE,
               PeerGone(iface[p].cc, SideOf(p)), good) \in Works
<1> DEFINE c == iface[p].cc
           side == SideOf(p)
           gone == PeerGone(c, side)
           w == Work(c, side)
           x == Close(w, TRUE, gone, good)
<1>1. StateInv /\ TypeOK
  BY DEF HInv, IInv, StateInv
<1>2. c \in Conns /\ side \in Sides /\ owner[c] # None /\ gone \in BOOLEAN
  BY <1>1, ChannelFacts
<1> HIDE DEF c, side
<1>3. w \in Works /\ w.out = <<>>
  BY <1>1, <1>2, WorkFacts
<1> HIDE DEF w, gone
<1>4. Outcome(w, x, gone)
  BY <1>2, <1>3, CloseOutcome
<1>5. QED
  BY <1>4 DEF Outcome, w, gone, c, side

LEMMA UserDisconnectLinks ==
  ASSUME HInv, NEW p \in Procs, NEW good \in BOOLEAN, UserDisconnect(p, good)
  PROVE  LinkInv' /\ ToldInv'
<1> DEFINE c == iface[p].cc
           side == SideOf(p)
           r == Close(Work(c, side), TRUE, PeerGone(c, side), good)
<1>1. c # None /\ Commit(c, side, r) /\ UNCHANGED <<alive, owner, backlog, pending, panics>>
  BY DEF UserDisconnect
<1>2. r \in Works
  BY <1>1, UserWork
<1> DEFINE x == r
<1>3. x = Close(Work(c, side), TRUE, PeerGone(c, side), good)
  OBVIOUS
<1>4. r.e = x.e /\ r.out = x.out /\ Alike(x.i, r.i)
  BY AlikeItself
<1>5. c = iface[p].cc /\ side = SideOf(p)
  OBVIOUS
<1> HIDE DEF r, x, c, side
<1>6. QED
  BY <1>1, <1>2, <1>3, <1>4, <1>5, UserCloses

-----------------------------------------------------------------------------
(* Steps that are not on a channel. *)

LEMMA LinkAlike ==
  ASSUME NEW S, NEW M, NEW s, NEW m, NEW waiting, NEW held,
         Link(S, M, s, m, waiting, held), NEW S2, NEW M2, SameData(S, S2), SameData(M, M2)
  PROVE  Link(S2, M2, s, m, waiting, held)
<1>1. /\ Empty(S2) <=> Empty(S)
      /\ Configured(S2) <=> Configured(S)
      /\ S2.told = S.told /\ M2.told = M.told /\ S2.run = S.run
  BY DEF SameData, Empty, Configured
<1>2. Matched(S2, M2, m) <=> Matched(S, M, m)
  BY <1>1 DEF Matched, SameData
<1>3. Greeting(S, M, s, m) => Greeting(S2, M2, s, m)
  BY <1>1 DEF Greeting
<1>4. Settled(S, M, s, m) => Settled(S2, M2, s, m)
  BY <1>1, <1>2 DEF Settled
<1>5. \A k : UnderWay(S, M, s, m, k) => UnderWay(S2, M2, s, m, k)
  <2>1. \A k : Served(S, M, m, k) => Served(S2, M2, m, k)
    BY <1>1 DEF Served, SameData
  <2>2. QED
    BY <1>1, <2>1 DEF UnderWay
<1>6. InPhase(S, M, s, m) => InPhase(S2, M2, s, m)
  BY <1>1, <1>3, <1>4, <1>5 DEF InPhase
<1>7. QED
  BY <1>1, <1>2, <1>6 DEF Link

LEMMA FrameLinks ==
  ASSUME HInv, \A p \in Procs : Alike(iface[p], iface'[p]),
         UNCHANGED <<owner, end, backlog, pending>>
  PROVE  LinkInv' /\ ToldInv'
<1>1. TypeOK /\ LinkInv /\ ToldInv
  BY DEF HInv, IInv, StateInv
<1>2. Master \in Procs /\ Slaves \subseteq Procs
  BY DEF Procs
<1>3. ASSUME NEW c \in Conns, owner'[c] # None
      PROVE  Link(iface'[owner'[c]], iface'[Master], end'[c].slave, end'[c].master,
                  InBacklog(c)', Held(c)')
  <2>1. owner[c] \in Procs /\ owner[c] # None
    BY <1>1, <1>2, <1>3 DEF TypeOK
  <2>2. Link(iface[owner[c]], iface[Master], end[c].slave, end[c].master,
             InBacklog(c), Held(c))
    BY <1>1, <2>1 DEF LinkInv
  <2>3. Alike(iface[owner[c]], iface'[owner[c]]) /\ Alike(iface[Master], iface'[Master])
    BY <1>2, <2>1
  <2>4. Link(iface'[owner[c]], iface'[Master], end[c].slave, end[c].master,
             InBacklog(c), Held(c))
    BY <2>2, <2>3, LinkAlike DEF Alike
  <2>5. (InBacklog(c)' <=> InBacklog(c)) /\ (Held(c)' <=> Held(c))
    BY <2>3 DEF InBacklog, Held, Alike, SameData
  <2>6. QED
    BY <2>4, <2>5 DEF Link
<1>4. LinkInv'
  BY <1>3 DEF LinkInv
<1>5. ToldInv'
  BY <1>1 DEF ToldInv, Requesting, Alike, SameData
<1>6. QED
  BY <1>4, <1>5

LEMMA DeleteLinks ==
  ASSUME HInv, NEW p \in Procs, NEW good \in BOOLEAN, Delete(p, good)
  PROVE  LinkInv' /\ ToldInv'
<1> DEFINE c == iface[p].cc
           side == SideOf(p)
           x == Close(Work(c, side), TRUE, PeerGone(c, side), good)
           r == [x EXCEPT !.i.listed = FALSE]
<1>1. TypeOK
  BY DEF HInv, IInv, StateInv
<1>2. CASE c = None
  <2>1. iface' = [iface EXCEPT ![p].listed = FALSE]
        /\ UNCHANGED <<alive, owner, end, backlog, pending, panics>>
    BY <1>2 DEF Delete
  <2>2. iface \in [Procs -> Interfaces] /\ iface[p] \in Interfaces
    BY <1>1 DEF TypeOK
  <2> DEFINE i == [iface[p] EXCEPT !.listed = FALSE]
  <2>3. Alike(iface[p], i)
    BY <2>2 DEF Interfaces, Alike, SameData
  <2>4. iface' = [iface EXCEPT ![p] = i]
    BY <2>1
  <2> HIDE DEF i
  <2>5. \A q \in Procs : iface'[q] = IF q = p THEN i ELSE iface[q]
    BY <2>2, <2>4
  <2>6. \A q \in Procs : Alike(iface[q], iface'[q])
    BY <2>3, <2>5, AlikeItself
  <2>7. QED
    BY <2>1, <2>6, FrameLinks
<1>3. CASE c # None
  <2>1. Commit(c, side, r) /\ UNCHANGED <<alive, owner, backlog, pending, panics>>
    BY <1>3 DEF Delete
  <2>2. x \in Works
    BY <1>3, UserWork
  <2>3. x = Close(Work(c, side), TRUE, PeerGone(c, side), good)
    OBVIOUS
  <2>4. c = iface[p].cc /\ side = SideOf(p)
    OBVIOUS
  <2> HIDE DEF x
  <2>5. /\ r \in Works /\ r.e = x.e /\ r.out = x.out /\ Alike(x.i, r.i)
    BY <2>2 DEF Works, Interfaces, Alike, SameData
  <2> HIDE DEF r, c, side
  <2>6. QED
    BY <1>3, <2>1, <2>2, <2>3, <2>4, <2>5, UserCloses
<1>4. QED
  BY <1>2, <1>3

\* The slave's application has ended.
LEMMA SlaveEnds ==
  ASSUME NEW S, NEW M, NEW s, NEW m, NEW waiting, NEW held,
         Link(S, M, s, m, waiting, held), NEW S2
  PROVE  Link(S2, M, GoneEnd, m, waiting, FALSE)
<1>1. ~GoneEnd.open /\ ~GoneEnd.up
  BY DEF GoneEnd, NewEnd
<1>2. QED
  BY <1>1 DEF Link

\* The master's has, and the listener with it.
LEMMA MasterEnds ==
  ASSUME NEW S, NEW M, NEW s, NEW m, NEW waiting, NEW held,
         Link(S, M, s, m, waiting, held), NEW M2, NEW waiting2, ~waiting2
  PROVE  Link(S, M2, s, GoneEnd, waiting2, held)
<1>1. ~GoneEnd.open /\ GoneEnd.msgQueue = <<>>
  BY DEF GoneEnd, NewEnd
<1>2. QED
  BY <1>1 DEF Link

LEMMA ExitLinks ==
  ASSUME HInv, NEW p \in Procs, Exit(p)
  PROVE  LinkInv' /\ ToldInv'
<1>1. TypeOK /\ LinkInv /\ ToldInv
  BY DEF HInv, IInv, StateInv
<1>2. /\ Master \in Procs /\ Slaves \subseteq Procs /\ Master \notin Slaves /\ None \notin Conns
      /\ p # Master => p \in Slaves
  BY ControlAssumption DEF Procs
<1>3. /\ owner' = owner
      /\ iface' = [iface EXCEPT ![p] = NewInterface]
      /\ end' = [c \in Conns |-> [side \in Sides |->
                   IF owner[c] # None /\ Proc(c, side) = p THEN GoneEnd ELSE end[c][side]]]
      /\ p = Master => pending' = pending /\ backlog' = <<>>
      /\ p # Master => pending' = [pending EXCEPT ![p] = None] /\ backlog' = backlog
  BY DEF Exit
<1>4. /\ iface'[p] = NewInterface
      /\ \A q \in Procs \ {p} : iface'[q] = iface[q]
      /\ NewInterface.cc = None /\ NewInterface.told = "down" /\ ~NewInterface.twice
  BY <1>1, <1>3 DEF TypeOK, NewInterface
<1>5. p # Master => /\ pending'[p] = None
                    /\ \A t \in Slaves \ {p} : pending'[t] = pending[t]
  BY <1>1, <1>2, <1>3 DEF TypeOK
<1>6. ASSUME NEW c \in Conns, owner[c] # None
      PROVE  Link(iface'[owner[c]], iface'[Master], end'[c].slave, end'[c].master,
                  InBacklog(c)', Held(c)')
  <2> DEFINE S == iface[owner[c]]
             M == iface[Master]
             s == end[c].slave
             m == end[c].master
  <2>1. Link(S, M, s, m, InBacklog(c), Held(c))
    BY <1>1, <1>6 DEF LinkInv
  <2>2. owner[c] \in Slaves /\ owner[c] # Master
    BY <1>1, <1>2, <1>6 DEF TypeOK
  <2>3. /\ end'[c].slave = IF owner[c] = p THEN GoneEnd ELSE s
        /\ end'[c].master = IF Master = p THEN GoneEnd ELSE m
    BY <1>3, <1>6 DEF Proc, Sides
  <2>4. CASE p = Master
    <3>1. ~InBacklog(c)'
      <4>1. DOMAIN backlog' = {}
        BY <1>3, <2>4, NoMessages
      <4>2. QED
        BY <4>1 DEF InBacklog
    <3>2. iface'[owner[c]] = S /\ (Held(c)' <=> Held(c))
      BY <1>2, <1>3, <1>4, <2>2, <2>4 DEF Held
    <3>3. Link(S, iface'[Master], s, GoneEnd, InBacklog(c)', Held(c))
      BY <2>1, <3>1, MasterEnds
    <3>4. Link(S, iface'[Master], s, GoneEnd, InBacklog(c)', Held(c)')
      BY <3>2, <3>3 DEF Link
    <3>5. end'[c].slave = s /\ end'[c].master = GoneEnd
      BY <2>2, <2>3, <2>4
    <3>6. QED
      BY <3>2, <3>4, <3>5
  <2>5. CASE p = owner[c]
    <3>1. ~Held(c)'
      BY <1>2, <1>3, <1>4, <1>5, <2>2, <2>5 DEF Held
    <3>2. iface'[Master] = M /\ (InBacklog(c)' <=> InBacklog(c))
      BY <1>2, <1>3, <1>4, <2>2, <2>5 DEF InBacklog
    <3>3. Link(iface'[owner[c]], M, GoneEnd, m, InBacklog(c), FALSE)
      BY <2>1, SlaveEnds
    <3>4. Link(iface'[owner[c]], M, GoneEnd, m, InBacklog(c)', Held(c)')
      BY <3>1, <3>2, <3>3 DEF Link
    <3>5. end'[c].slave = GoneEnd /\ end'[c].master = m
      BY <2>2, <2>3, <2>5
    <3>6. QED
      BY <3>2, <3>4, <3>5
  <2>6. CASE p # Master /\ p # owner[c]
    <3>1. /\ iface'[owner[c]] = S /\ iface'[Master] = M
          /\ Held(c)' <=> Held(c)
          /\ InBacklog(c)' <=> InBacklog(c)
      BY <1>2, <1>3, <1>4, <1>5, <2>2, <2>6 DEF Held, InBacklog
    <3>2. Link(S, M, s, m, InBacklog(c)', Held(c)')
      BY <2>1, <3>1 DEF Link
    <3>3. end'[c].slave = s /\ end'[c].master = m
      BY <2>3, <2>6
    <3>4. QED
      BY <3>1, <3>2, <3>3
  <2>7. QED
    BY <2>4, <2>5, <2>6
<1>7. LinkInv'
  BY <1>3, <1>6 DEF LinkInv
<1>8. ASSUME NEW q \in Procs
      PROVE  /\ iface'[q].cc = None /\ ~Requesting(q)' => iface'[q].told = "down"
             /\ ~iface'[q].twice
  <2>1. CASE q = p
    BY <1>4, <2>1
  <2>2. CASE q # p
    <3>1. q # Master => q \in Slaves \ {p}
      BY <2>2 DEF Procs
    <3>2. Requesting(q)' <=> Requesting(q)
      BY <1>3, <1>5, <3>1 DEF Requesting
    <3>3. iface'[q] = iface[q]
      BY <1>4, <2>2
    <3>4. QED
      BY <1>1, <3>2, <3>3 DEF ToldInv
  <2>3. QED
    BY <2>1, <2>2
<1>9. ToldInv'
  BY <1>8 DEF ToldInv
<1>10. QED
  BY <1>7, <1>9

LEMMA RequestReturnsLinks ==
  ASSUME HInv, NEW p \in Slaves, RequestReturns(p)
  PROVE  LinkInv' /\ ToldInv'
<1>1. TypeOK /\ LinkInv /\ ToldInv /\ SlaveInv
  BY DEF HInv, IInv, StateInv
<1>2. /\ pending[p] # None
      /\ iface' = [iface EXCEPT ![p].cc = pending[p]]
      /\ pending' = [pending EXCEPT ![p] = None]
      /\ UNCHANGED <<alive, owner, end, backlog, panics>>
  BY DEF RequestReturns
<1>3. Master \in Procs /\ Slaves \subseteq Procs /\ Master \notin Slaves /\ p \in Procs
      /\ None \notin Conns /\ pending[p] \in Conns
  BY <1>1, <1>2, ControlAssumption DEF Procs, TypeOK
<1> DEFINE i == [iface[p] EXCEPT !.cc = pending[p]]
<1>4. iface[p] \in Interfaces
  BY <1>1, <1>3 DEF TypeOK
<1>5. /\ i.cc = pending[p] /\ i.run = iface[p].run /\ i.told = iface[p].told
      /\ i.twice = iface[p].twice /\ i.tx = iface[p].tx /\ i.rx = iface[p].rx
      /\ i.regions = iface[p].regions
  BY <1>4 DEF Interfaces
<1>6. iface' = [iface EXCEPT ![p] = i]
  BY <1>2
<1> HIDE DEF i
<1>7. iface'[p] = i /\ \A q \in Procs \ {p} : iface'[q] = iface[q]
  BY <1>1, <1>3, <1>6 DEF TypeOK
<1>8. pending'[p] = None /\ \A t \in Slaves \ {p} : pending'[t] = pending[t]
  BY <1>1, <1>2 DEF TypeOK
<1>9. iface[p].cc = None
  BY <1>1, <1>2 DEF SlaveInv
<1>10. ASSUME NEW c \in Conns, owner[c] # None
       PROVE  Link(iface'[owner[c]], iface'[Master], end'[c].slave, end'[c].master,
                   InBacklog(c)', Held(c)')
  <2> DEFINE S == iface[owner[c]]
             M == iface[Master]
             s == end[c].slave
             m == end[c].master
             S2 == iface'[owner[c]]
  <2>1. Link(S, M, s, m, InBacklog(c), Held(c))
    BY <1>1, <1>10 DEF LinkInv
  <2>2. owner[c] \in Slaves
    BY <1>1, <1>10 DEF TypeOK
  <2>3. iface'[Master] = M /\ end'[c] = end[c] /\ (InBacklog(c)' <=> InBacklog(c))
    BY <1>2, <1>3, <1>7 DEF InBacklog
  <2>4. Held(c)' <=> Held(c)
    <3>1. CASE owner[c] = p
      BY <1>2, <1>3, <1>5, <1>7, <1>8, <1>9, <3>1 DEF Held
    <3>2. CASE owner[c] # p
      BY <1>2, <1>3, <1>7, <1>8, <2>2, <3>2 DEF Held
    <3>3. QED
      BY <3>1, <3>2
  <2>5. SameData(S, S2) /\ SameData(M, M)
    BY <1>3, <1>5, <1>7, <2>2 DEF SameData
  <2> HIDE DEF S, S2, M, s, m
  <2>9. Link(S2, M, s, m, InBacklog(c), Held(c))
    BY <2>1, <2>5, LinkAlike
  <2>10. Link(S2, M, s, m, InBacklog(c)', Held(c)')
    BY <2>3, <2>4, <2>9 DEF Link
  <2>11. QED
    BY <2>3, <2>10 DEF S2, M, s, m
<1>11. LinkInv'
  BY <1>2, <1>10 DEF LinkInv
<1>12. ASSUME NEW q \in Procs
       PROVE  /\ iface'[q].cc = None /\ ~Requesting(q)' => iface'[q].told = "down"
              /\ ~iface'[q].twice
  <2>1. CASE q = p
    BY <1>1, <1>3, <1>5, <1>7, <2>1 DEF ToldInv
  <2>2. CASE q # p
    <3>1. q # Master => q \in Slaves \ {p}
      BY <2>2 DEF Procs
    <3>2. Requesting(q)' <=> Requesting(q)
      BY <1>8, <3>1 DEF Requesting
    <3>3. iface'[q] = iface[q]
      BY <1>7, <2>2
    <3>4. QED
      BY <1>1, <3>2, <3>3 DEF ToldInv
  <2>3. QED
    BY <2>1, <2>2
<1>13. ToldInv'
  BY <1>12 DEF ToldInv
<1>14. QED
  BY <1>11, <1>13

LEMMA RequestLinks ==
  ASSUME HInv, NEW p \in Slaves, NEW c \in Conns, RequestConnection(p, c)
  PROVE  LinkInv' /\ ToldInv'
<1>1. StateInv /\ TypeOK /\ LinkInv /\ ToldInv /\ NothingLeaks
  BY DEF HInv, IInv, StateInv
<1>2. /\ Slaves \subseteq Procs /\ Master \notin Slaves /\ None \notin Conns
  BY ControlAssumption DEF Procs
<1>3. /\ iface[p].cc = None /\ pending[p] = None /\ owner[c] = None /\ iface' = iface
      /\ end'[c].slave = Opened /\ end'[c].master = NewEnd
      /\ \A d \in Conns \ {c} : end'[d] = end[d] /\ owner'[d] = owner[d]
      /\ owner'[c] = p /\ pending'[p] = c
      /\ \A t \in Slaves \ {p} : pending'[t] = pending[t]
      /\ \A d \in Conns \ {c} : InBacklog(d)' <=> InBacklog(d)
  <2>1. /\ iface[p].cc = None /\ pending[p] = None /\ owner[c] = None /\ iface' = iface
        /\ end'[c].slave = Opened /\ end'[c].master = NewEnd
        /\ owner'[c] = p /\ pending'[p] = c
    <3>1. StateInv
      BY <1>1
    <3>2. iface[p].cc = None /\ pending[p] = None /\ owner[c] = None
      BY <3>1, RequestView
    <3>3. iface' = iface
      BY <3>1, RequestView
    <3>4. end'[c].slave = Opened /\ end'[c].master = NewEnd
      BY <3>1, RequestView
    <3>5. owner'[c] = p /\ pending'[p] = c
      BY <3>1, RequestView
    <3>6. QED
      BY <3>2, <3>3, <3>4, <3>5
  <2>2. /\ \A d \in Conns \ {c} : end'[d] = end[d]
        /\ \A d \in Conns \ {c} : owner'[d] = owner[d]
    BY <1>1, RequestView, ZenonT(60)
  <2>3. \A t \in Slaves \ {p} : pending'[t] = pending[t]
    BY <1>1, RequestView
  <2>4. \A d \in Conns \ {c} : InBacklog(d)' <=> InBacklog(d)
    BY <1>1, RequestView
  <2>5. QED
    BY <2>1, <2>2, <2>3, <2>4
<1>4. Link(iface[p], iface[Master], Opened, NewEnd, InBacklog(c)', Held(c)')
  <2>1. p \in Procs /\ p # Master
    BY <1>2
  <2>2. Empty(iface[p]) /\ iface[p].told = "down"
    BY <1>1, <1>3, <2>1 DEF NothingLeaks, ToldInv, IsConnecting, Requesting, Empty
  <2>3. /\ ~NewEnd.open /\ NewEnd.msgQueue = <<>> /\ NewEnd.inbox = <<>>
        /\ Opened.inbox = <<>> /\ Opened.msgQueue = <<>> /\ ~Opened.up
    BY DEF NewEnd, Opened
  <2>4. QED
    BY <2>2, <2>3, PartingFacts DEF Link
<1>5. ASSUME NEW d \in Conns \ {c}, owner[d] # None
      PROVE  Link(iface[owner[d]], iface[Master], end[d].slave, end[d].master,
                  InBacklog(d)', Held(d)')
  <2> DEFINE S == iface[owner[d]]
             M == iface[Master]
             s == end[d].slave
             m == end[d].master
  <2>1. Link(S, M, s, m, InBacklog(d), Held(d))
    BY <1>1, <1>5 DEF LinkInv
  <2>2. owner[d] \in Slaves
    BY <1>1, <1>5 DEF TypeOK
  <2>3. Held(d)' => Held(d)
    <3>1. CASE owner[d] = p
      BY <1>2, <1>3, <3>1 DEF Held
    <3>2. CASE owner[d] # p
      BY <1>3, <2>2, <3>2 DEF Held
    <3>3. QED
      BY <3>1, <3>2
  <2>4. InBacklog(d)' => InBacklog(d)
    BY <1>3
  <2> HIDE DEF S, M, s, m
  <2>5. Link(S, M, s, m, InBacklog(d)', Held(d)')
    BY <2>1, <2>3, <2>4, OthersLinked
  <2>6. QED
    BY <2>5 DEF S, M, s, m
<1>6. ASSUME NEW d \in Conns, owner'[d] # None
      PROVE  Link(iface'[owner'[d]], iface'[Master], end'[d].slave, end'[d].master,
                  InBacklog(d)', Held(d)')
  <2>1. CASE d = c
    BY <1>3, <1>4, <2>1
  <2>2. CASE d # c
    <3>1. owner[d] # None /\ end'[d] = end[d] /\ owner'[d] = owner[d]
      BY <1>3, <1>6, <2>2
    <3>2. Link(iface[owner[d]], iface[Master], end[d].slave, end[d].master,
               InBacklog(d)', Held(d)')
      BY <1>5, <2>2, <3>1
    <3>3. QED
      BY <1>3, <3>1, <3>2
  <2>3. QED
    BY <2>1, <2>2
<1>7. LinkInv'
  BY <1>6 DEF LinkInv
<1>8. \A q \in Procs : Requesting(q) => Requesting(q)'
  BY <1>2, <1>3 DEF Requesting, Procs
<1>9. ToldInv'
  BY <1>1, <1>3, <1>8 DEF ToldInv
<1>10. QED
  BY <1>7, <1>9

\* The listener has said Hello, and the slave is there to hear it.
LEMMA Greeted ==
  ASSUME NEW S, NEW M, NEW s \in Ends, NEW m \in Ends, NEW held,
         Link(S, M, s, m, TRUE, held), ~m.bound,
         NEW s2 \in Ends, NEW m2 \in Ends, NEW waiting, ~waiting,
         NEW out \in Seq(Messages), Grown(s, s2, out), SameEnd(m, m2), m2.msgQueue = <<>>,
         s.open => out = <<HelloMsg>>
  PROVE  Link(S, M, s2, m2, waiting, held)
<1>1. /\ m2.bound = m.bound /\ m2.up = m.up /\ m2.inbox = m.inbox
      /\ s2.open = s.open /\ s2.up = s.up /\ s2.msgQueue = s.msgQueue
      /\ s2.inbox = s.inbox \o out /\ ~s.up
  BY DEF SameEnd, Grown, Link
<1>2. CASE s.open
  <2>1. /\ s.inbox = <<>> /\ m.inbox = <<>> /\ s.msgQueue = <<>>
        /\ Empty(S) /\ S.told = "down"
    BY <1>2 DEF Link
  <2>2. s2.inbox = <<HelloMsg>>
    BY <1>1, <1>2, <2>1, MessageKinds, FirstMessage
  <2>3. Greeting(S, M, s2, m2)
    BY <1>1, <2>1, <2>2 DEF Greeting
  <2>4. QED
    BY <1>1, <2>1, <2>2, <2>3, PartingFacts DEF Link, InPhase
<1>3. CASE ~s.open
  <2>1. OnlyBye(m.inbox) /\ Parting(m.inbox)
    BY PartingFacts DEF Link, Ends
  <2>2. QED
    BY <1>1, <1>3, <2>1 DEF Link
<1>4. QED
  BY <1>2, <1>3

\* The connection that has been accepted is no longer in the backlog.
LEMMA BacklogTail ==
  ASSUME TypeOK, BacklogInv, backlog # <<>>, backlog' = Tail(backlog), NEW c, c = Head(backlog)
  PROVE  /\ InBacklog(c) /\ ~InBacklog(c)'
         /\ \A d \in Conns \ {c} : InBacklog(d)' <=> InBacklog(d)
<1>1. /\ backlog[1] = c /\ 1 \in DOMAIN backlog
      /\ DOMAIN backlog' = 1 .. Len(backlog) - 1
      /\ DOMAIN backlog = 1 .. Len(backlog) /\ Len(backlog) \in Nat
      /\ \A k \in DOMAIN backlog' : backlog'[k] = backlog[k + 1]
  BY OneLess DEF TypeOK
<1>2. InBacklog(c)
  BY <1>1 DEF InBacklog
<1>3. ASSUME NEW k \in DOMAIN backlog' PROVE backlog'[k] # c
  <2>1. k + 1 \in DOMAIN backlog /\ k + 1 # 1 /\ backlog'[k] = backlog[k + 1]
    BY <1>1
  <2>2. QED
    BY <1>1, <2>1 DEF BacklogInv
<1>4. ASSUME NEW d \in Conns \ {c}, InBacklog(d)' PROVE InBacklog(d)
  <2>1. PICK k \in DOMAIN backlog' : backlog'[k] = d
    BY <1>4 DEF InBacklog
  <2>2. k + 1 \in DOMAIN backlog /\ backlog[k + 1] = d
    BY <1>1, <2>1
  <2>3. QED
    BY <2>2 DEF InBacklog
<1>5. ASSUME NEW d \in Conns \ {c}, InBacklog(d) PROVE InBacklog(d)'
  <2>1. PICK k \in DOMAIN backlog : backlog[k] = d
    BY <1>5 DEF InBacklog
  <2>2. k # 1
    BY <1>1, <2>1
  <2>3. k - 1 \in DOMAIN backlog' /\ (k - 1) + 1 = k
    BY <1>1, <2>1, <2>2
  <2>4. backlog'[k - 1] = d
    BY <1>1, <2>1, <2>3
  <2>5. QED
    BY <2>3, <2>4 DEF InBacklog
<1>6. ~InBacklog(c)'
  BY <1>3 DEF InBacklog
<1>7. QED
  BY <1>2, <1>4, <1>5, <1>6

LEMMA AcceptLinks ==
  ASSUME HInv, Accept, NEW c \in Conns, c = Head(backlog)
  PROVE  LinkInv' /\ ToldInv'
<1> DEFINE u == Work(c, "master")
           w == [u EXCEPT !.e.open = TRUE]
           v == Enqueue(w, <<HelloMsg>>)
           gone == PeerGone(c, "master")
           r == SendMsg(v, gone)
           S == iface[owner[c]]
           M == iface[Master]
           s == end[c].slave
           m == end[c].master
           s2 == end'[c].slave
           m2 == end'[c].master
<1>1. TypeOK /\ GoneInv /\ BacklogInv /\ MasterInv /\ LinkInv /\ ToldInv
  BY DEF HInv, IInv, StateInv
<1>2. /\ backlog # <<>> /\ backlog' = Tail(backlog)
      /\ Commit(c, "master", r) /\ UNCHANGED <<alive, owner, pending, panics>>
  BY DEF Accept
<1>3. InBacklog(c) /\ ~InBacklog(c)' /\ \A d \in Conns \ {c} : InBacklog(d)' <=> InBacklog(d)
  BY <1>1, <1>2, BacklogTail
<1>4. owner[c] # None /\ ~m.open /\ ~m.bound
  BY <1>1, <1>3 DEF BacklogInv
<1>5. "master" \in Sides /\ "slave" \in Sides /\ Other("master") = "slave"
      /\ Proc(c, "master") = Master
  BY DEF Sides, Other, Proc
<1>6. /\ owner[c] \in Slaves /\ owner[c] \in Procs /\ Master \in Procs /\ owner[c] # Master
      /\ s \in Ends /\ m \in Ends /\ M \in Interfaces
  <2>1. owner[c] \in Slaves /\ owner[c] # Master
    BY <1>1, <1>4, ControlAssumption DEF TypeOK
  <2>2. owner[c] \in Procs /\ Master \in Procs
    BY <2>1 DEF Procs
  <2>3. \A x \in Sides : end[c][x] \in Ends
    BY <1>1 DEF TypeOK
  <2>4. M \in Interfaces
    BY <1>1, <2>2 DEF TypeOK
  <2>5. QED
    BY <1>5, <2>1, <2>2, <2>3, <2>4
<1>7. Link(S, M, s, m, InBacklog(c), Held(c))
  BY <1>1, <1>4 DEF LinkInv
<1>8. u \in Works /\ u.out = <<>> /\ u.i = M /\ u.e = m
  BY <1>1, <1>4, <1>5, WorkFacts
<1>9. gone \in BOOLEAN /\ (s.open => gone = FALSE)
  BY <1>1, <1>5, <1>6 DEF PeerGone, GoneInv, Ends
<1> HIDE DEF u, gone
<1>10. /\ w \in Works /\ w.out = <<>> /\ w.i = M /\ SameEnd(m, w.e) /\ w.e.msgQueue = m.msgQueue
  BY <1>8 DEF Works, Ends, SameEnd
<1> HIDE DEF w
<1>11. /\ HelloMsg \in Messages /\ <<HelloMsg>> \in Seq(Messages) /\ m.msgQueue = <<>>
       /\ <<>> \o <<HelloMsg>> = <<HelloMsg>> /\ ~CarriesFd(HelloMsg)
       /\ Head(<<HelloMsg>>) = HelloMsg /\ Tail(<<HelloMsg>>) = <<>> /\ <<HelloMsg>> # <<>>
  <2>1. HelloMsg \in Messages /\ ~CarriesFd(HelloMsg)
    BY MessageKinds DEF CarriesFd, HelloMsg
  <2>2. m.msgQueue = <<>>
    BY <1>7 DEF Link
  <2>3. QED
    BY <2>1, <2>2, FirstMessage
<1>12. /\ v \in Works /\ v.out = <<>> /\ v.i = M /\ SameEnd(m, v.e)
       /\ v.e.msgQueue = <<HelloMsg>>
  <2>1. /\ v \in Works /\ v.i = w.i /\ v.out = w.out
        /\ v.e = [w.e EXCEPT !.msgQueue = w.e.msgQueue \o <<HelloMsg>>]
        /\ v.e.msgQueue = w.e.msgQueue \o <<HelloMsg>>
    BY <1>10, <1>11, EnqueueFacts
  <2> HIDE DEF v
  <2>2. SameEnd(w.e, v.e)
    BY <1>10, <2>1 DEF SameEnd, Works, Ends
  <2>3. QED
    BY <1>10, <1>11, <2>1, <2>2 DEF SameEnd
<1> HIDE DEF v
<1>13. /\ r \in Works /\ r.i = M /\ SameEnd(m, r.e) /\ r.e.msgQueue = <<>>
       /\ s.open => r.out = <<HelloMsg>>
  <2>1. /\ r \in Works /\ r.i = v.i /\ SameEnd(v.e, r.e)
        /\ r.e.msgQueue = Tail(v.e.msgQueue)
        /\ ~gone => r.out = <<Head(v.e.msgQueue)>>
    <3> DEFINE q == v.e.msgQueue
    <3>1. q # <<>> /\ ~CarriesFd(Head(q))
      BY <1>11, <1>12
    <3> HIDE DEF q
    <3>2. /\ r \in Works /\ r.i = v.i /\ SameEnd(v.e, r.e)
          /\ q # <<>> => /\ r.e.msgQueue = Tail(q)
                         /\ ~gone /\ ~CarriesFd(Head(q)) => r.out = <<Head(q)>>
      BY <1>9, <1>12, SendMsgSends DEF q
    <3> HIDE DEF r
    <3>3. QED
      BY <3>1, <3>2 DEF q
  <2> HIDE DEF r
  <2>2. QED
    BY <1>9, <1>11, <1>12, <2>1 DEF SameEnd
<1> HIDE DEF r
<1>14. /\ s2 \in Ends /\ m2 \in Ends /\ m2 = r.e /\ Grown(s, s2, r.out)
       /\ iface'[owner[c]] = S /\ iface'[Master] = r.i
  <2>1. /\ end' \in [Conns -> [Sides -> Ends]]
        /\ iface'[Proc(c, "master")] = r.i
        /\ \A q \in Procs \ {Proc(c, "master")} : iface'[q] = iface[q]
        /\ end'[c]["master"] = r.e
        /\ Grown(end[c][Other("master")], end'[c][Other("master")], r.out)
    BY <1>1, <1>2, <1>4, <1>5, <1>13, CommitView DEF Grown
  <2>2. QED
    BY <1>5, <1>6, <2>1
<1>15. Held(c)' <=> Held(c)
  BY <1>2, <1>14 DEF Held
<1> HIDE DEF S, M, s, m, s2, m2
<1>16. Link(S, r.i, s2, m2, InBacklog(c)', Held(c))
  <2>1. Link(S, M, s, m, TRUE, Held(c))
    BY <1>3, <1>7 DEF Link
  <2>2. r.out \in Seq(Messages)
    BY <1>13 DEF Works
  <2>3. Link(S, M, s2, m2, InBacklog(c)', Held(c))
    BY <1>3, <1>4, <1>6, <1>13, <1>14, <2>1, <2>2, Greeted
  <2>4. QED
    BY <1>13, <2>3
<1>17. Link(iface'[owner[c]], iface'[Master], end'[c].slave, end'[c].master,
            InBacklog(c)', Held(c)')
  <2>1. Link(S, r.i, s2, m2, InBacklog(c)', Held(c)')
    BY <1>15, <1>16 DEF Link
  <2>2. QED
    BY <1>14, <2>1 DEF s2, m2
<1>18. r.i = iface[Master] /\ ~r.i.twice
       /\ (r.i.cc = None /\ ~Requesting(Master) => r.i.told = "down")
  BY <1>1, <1>6, <1>13 DEF ToldInv, M
<1>19. UNCHANGED <<owner, pending>>
  BY <1>2
<1>20. QED
  BY <1>2, <1>3, <1>4, <1>5, <1>13, <1>17, <1>18, <1>19, ChannelStep

-----------------------------------------------------------------------------
(* The invariant. *)

LEMMA HandleLinks ==
  ASSUME HInv, NEW c \in Conns, NEW side \in Sides, Handle(c, side)
  PROVE  LinkInv' /\ ToldInv'
<1>1. PICK good \in Results :
        \/ HangUp(c, side, good)
        \/ RecvAck(c, side, good)
        \/ \E done \in {"nothing", "region", "tx", "all"} : RecvHello(c, side, done, good)
        \/ RecvInit(c, side, good)
        \/ RecvAddRegion(c, side, good)
        \/ RecvAddRing(c, side, good)
        \/ RecvDisconnect(c, side, good)
        \/ \E goodMap, goodUp \in Results :
             \/ RecvConnect(c, side, goodMap, goodUp, good)
             \/ RecvConnected(c, side, goodMap, goodUp, good)
  BY DEF Handle
<1>2. good \in BOOLEAN /\ Results \subseteq BOOLEAN
  BY ControlAssumption
<1>3. CASE HangUp(c, side, good)
  <2>1. CASE end[c][side].bound
    BY <1>2, <1>3, <2>1, HangUpLinks
  <2>2. CASE ~end[c][side].bound
    <3>1. Exit(Proc(c, side))
      BY <1>3, <2>2 DEF HangUp
    <3>2. TypeOK /\ OwnerInv /\ end[c][side].open
      BY <1>3 DEF HangUp, HInv, IInv, StateInv
    <3>3. Proc(c, side) \in Procs
      BY <3>2, OpenIsOwned, SideFacts, ControlAssumption DEF Procs
    <3>4. QED
      BY <3>1, <3>3, ExitLinks
  <2>3. QED
    BY <2>1, <2>2
<1>4. side = "slave" \/ side = "master"
  BY DEF Sides
<1>5. CASE RecvDisconnect(c, side, good)
  BY <1>2, <1>4, <1>5, SlaveLeaves, MasterLeaves
<1>6. QED
  BY <1>1, <1>2, <1>3, <1>5, AckLinks, HelloLinks, InitLinks, AddRegionLinks, AddRingLinks,
     ConnectLinks, ConnectedLinks

LEMMA HInvInit == Init => HInv
<1> SUFFICES ASSUME Init PROVE HInv
  OBVIOUS
<1>1. IInv
  BY InitInv
<1>2. LinkInv
  BY DEF Init, LinkInv
<1>3. ToldInv
  BY DEF Init, ToldInv, NewInterface
<1>4. QED
  BY <1>1, <1>2, <1>3 DEF HInv

LEMMA HInvNext == HInv /\ [Next]_vars => HInv'
<1> SUFFICES ASSUME HInv, [Next]_vars PROVE HInv'
  OBVIOUS
<1>1. IInv'
  BY NextInv DEF HInv
<1>2. CASE User
  <2>1. Results \subseteq BOOLEAN
    BY ControlAssumption
  <2>2. QED
    BY <1>1, <1>2, <2>1, RequestLinks, RequestReturnsLinks, UserDisconnectLinks, DeleteLinks
    DEF User, HInv
<1>3. CASE Accept
  <2>1. Head(backlog) \in Conns
    BY <1>3, OneLess DEF Accept, HInv, IInv, StateInv, TypeOK
  <2>2. QED
    BY <1>1, <1>3, <2>1, AcceptLinks DEF HInv
<1>4. CASE \E c \in Conns, side \in Sides : Handle(c, side)
  BY <1>1, <1>4, HandleLinks DEF HInv
<1>5. CASE \E p \in Procs : Crash(p)
  BY <1>1, <1>5, ExitLinks DEF HInv, Crash
<1>6. CASE (\E s \in Slaves : Restart(s)) \/ UNCHANGED vars
  <2>1. iface' = iface /\ UNCHANGED <<owner, end, backlog, pending>>
    BY <1>6 DEF Restart, vars
  <2>2. QED
    BY <1>1, <2>1, AlikeItself, FrameLinks DEF HInv
<1>7. QED
  BY <1>2, <1>3, <1>4, <1>5, <1>6 DEF Next

LEMMA HandshakeInvariant == Spec => []HInv
<1>1. QED
  BY HInvInit, HInvNext, PTL DEF Spec

-----------------------------------------------------------------------------
(* The theorems. *)

LEMMA NoMoreThanInbox ==
  ASSUME NEW q \in Seq(Messages), NEW W, W \subseteq DOMAIN q
  PROVE  Cardinality(W) \in Nat /\ Cardinality(W) <= Len(q)
<1>1. DOMAIN q = 1 .. Len(q) /\ Len(q) \in Nat
  OBVIOUS
<1>2. IsFiniteSet(1 .. Len(q)) /\ Cardinality(1 .. Len(q)) = Len(q)
  <2> DEFINE n == Len(q)
  <2>1. n \in Int /\ 1 \in Int
    BY <1>1
  <2> HIDE DEF n
  <2>2. /\ IsFiniteSet(1 .. n)
        /\ Cardinality(1 .. n) = IF 1 > n THEN 0 ELSE n - 1 + 1
    BY <2>1, FS_Interval
  <2>3. n \in Nat
    BY <1>1 DEF n
  <2>4. Cardinality(1 .. n) = n
    BY <2>2, <2>3
  <2>5. QED
    BY <2>2, <2>4 DEF n
<1>3. IsFiniteSet(W) /\ Cardinality(W) <= Cardinality(1 .. Len(q))
  BY <1>1, <1>2, FS_Subset
<1>4. QED
  BY <1>2, <1>3, FS_CardinalityType

\* Both of a connection's channels are open: it is somewhere in the handshake.
LEMMA BothOpen ==
  ASSUME HInv, NEW c \in Conns, end[c].slave.open, end[c].master.open
  PROVE  /\ owner[c] \in Slaves
         /\ end[c].slave \in Ends /\ end[c].master \in Ends
         /\ InPhase(iface[owner[c]], iface[Master], end[c].slave, end[c].master)
<1>1. TypeOK /\ OwnerInv /\ LinkInv /\ "slave" \in Sides /\ "master" \in Sides
  BY DEF HInv, IInv, StateInv, Sides
<1>2. owner[c] \in Slaves /\ owner[c] # None
  BY <1>1, OpenIsOwned, ControlAssumption DEF Procs
<1>3. end[c].slave \in Ends /\ end[c].master \in Ends
  BY <1>1 DEF TypeOK
<1>4. QED
  BY <1>1, <1>2, <1>3 DEF LinkInv, Link

LEMMA LockStepHolds == HInv => LockStep
<1> SUFFICES ASSUME HInv, NEW c \in Conns, end[c].slave.open, end[c].master.open
             PROVE  LET waiting(side) ==
                          {k \in DOMAIN end[c][side].inbox :
                             end[c][side].inbox[k].type # "Disconnect"}
                    IN  Cardinality(waiting("slave")) + Cardinality(waiting("master")) <= 1
  BY DEF LockStep
<1> DEFINE S == iface[owner[c]]
           M == iface[Master]
           s == end[c].slave
           m == end[c].master
           waits(e) == {k \in DOMAIN e.inbox : e.inbox[k].type # "Disconnect"}
<1>1. S \in Interfaces /\ s \in Ends /\ m \in Ends /\ InPhase(S, M, s, m)
  BY BothOpen DEF HInv, IInv, StateInv, TypeOK, Procs
<1> HIDE DEF S, M, s, m
<1>2. s.inbox \in Seq(Messages) /\ m.inbox \in Seq(Messages)
  BY <1>1 DEF Ends
<1> DEFINE x == Cardinality(waits(s))
           y == Cardinality(waits(m))
           a == Len(s.inbox)
           b == Len(m.inbox)
<1>3. x \in Nat /\ x <= a /\ y \in Nat /\ y <= b
  BY <1>2, NoMoreThanInbox
<1> HIDE DEF x, y
<1>4. a + b <= 1
  BY <1>1, PhaseFacts
<1>5. a \in Nat /\ b \in Nat
  BY <1>2
<1> HIDE DEF a, b
<1>6. x + y <= 1
  BY <1>3, <1>4, <1>5
<1>7. QED
  BY <1>6 DEF x, y, s, m

LEMMA QueuesPairedHolds == HInv => QueuesPaired
<1> SUFFICES ASSUME HInv, NEW c \in Conns, owner[c] # None, iface[owner[c]].cc = c,
                    end[c].slave.up, end[c].master.open
             PROVE  LET s == iface[owner[c]]  m == iface[Master] IN
                    /\ end[c].master.up /\ m.cc = c
                    /\ s.tx = m.rx /\ s.rx = m.tx /\ Len(s.tx) = s.run
                    /\ s.regions = <<TRUE>> /\ m.regions = <<TRUE>>
  BY DEF QueuesPaired
<1>1. LinkInv /\ OneChannelPerInterface
  BY DEF HInv, IInv, StateInv
<1>2. Matched(iface[owner[c]], iface[Master], end[c].master)
  BY <1>1 DEF LinkInv, Link, Held
<1>3. iface[Master].cc = c
  BY <1>1, <1>2 DEF OneChannelPerInterface, Matched
<1>4. Len(iface[owner[c]].tx) = iface[owner[c]].run
  BY <1>2, ControlAssumption DEF Matched, Configured, Rings
<1>5. QED
  BY <1>2, <1>3, <1>4 DEF Matched, Configured

\* While both channels of a connection are open, no more than one message of the
\* handshake is on its way, in either direction, however many queue pairs the
\* slave announces and whatever fails or is called meanwhile: sendMsg sends one
\* message of msgQueue for each event that is handled.
THEOREM LockStepAlways == Spec => []LockStep
<1>1. QED
  BY HandshakeInvariant, LockStepHolds, PTL

\* When the slave has called ConnectedFunc and the master has not closed, the
\* master has too, and the two have the same rings in the same order, those of
\* one direction against those of the other, on mapped memory: parseAddRing
\* appends what the slave's handshake announces, and connect comes last.
THEOREM QueuesAlwaysPaired == Spec => []QueuesPaired
<1>1. QED
  BY HandshakeInvariant, QueuesPairedHolds, PTL

\* ConnectedFunc of an interface is not called again before its
\* DisconnectedFunc: connect is only reached on a channel that parseInit or
\* RequestConnection gave to an interface without one.
THEOREM NeverTwiceUp == Spec => []NeverUpTwice
<1>1. HInv => NeverUpTwice
  BY DEF HInv, ToldInv, NeverUpTwice
<1>2. QED
  BY <1>1, HandshakeInvariant, PTL

=============================================================================
