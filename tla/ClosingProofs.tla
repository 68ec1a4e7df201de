---------------------------- MODULE ClosingProofs ----------------------------
(***************************************************************************)
(* What is left of an interface whose channel is closed, where callbacks   *)
(* and system calls succeed and polling waits for RequestConnection: the   *)
(* interface is disconnected, unless it is a master's with a region that   *)
(* was announced and never mapped.                                         *)
(***************************************************************************)
EXTENDS HandshakeProofs

-----------------------------------------------------------------------------
(* The invariant. *)

Unmapped(i) == \E k \in DOMAIN i.regions : ~i.regions[k]

\* A slave maps its region as it makes it.
SlaveMapped == \A s \in Slaves : ~Unmapped(iface[s])

\* Nobody closes a channel before RequestConnection has stored it.
PendingOpen == \A s \in Slaves : pending[s] # None => end[pending[s]].slave.open

\* Who keeps a closed channel.
ClosedInv ==
  \A p \in Procs :
    LET c == iface[p].cc  side == SideOf(p) IN
    c # None /\ ~end[c][side].open => side = "master" /\ Unmapped(iface[p])

LeftInv == SlaveMapped /\ PendingOpen /\ ClosedInv

CInv == IInv /\ LeftInv

-----------------------------------------------------------------------------
(* What closing does to a work record when DisconnectedFunc succeeds. *)

\* An open channel that has an interface is closed only with the interface let
\* go or a region of it unmapped.
Ended(w, r) ==
  /\ r.e.open => w.e.open
  /\ (w.e.open /\ w.e.bound) \/ r.i = w.i
  /\ \/ r.i = w.i /\ (r.e.open = w.e.open \/ ~w.e.bound)
     \/ r.i.cc = None /\ (r.i = w.i \/ r.i.regions = <<>>)
     \/ r.i.cc = w.i.cc /\ r.i.regions = w.i.regions /\ Unmapped(w.i)

LEMMA DisconnectEnds ==
  ASSUME NEW w \in Works
  PROVE  LET r == Disconnect(w, TRUE) IN
         \/ r.i.cc = None /\ (r.i = w.i \/ r.i.regions = <<>>)
         \/ r.i.cc = w.i.cc /\ r.i.regions = w.i.regions /\ Unmapped(w.i)
<1> DEFINE told     == [w EXCEPT !.i.told = "down"]
           noQueues == [told EXCEPT !.i.tx = <<>>, !.i.rx = <<>>]
           cleared  == [noQueues EXCEPT !.i = Cleared(@)]
           r        == Disconnect(w, TRUE)
<1>1. <<>> \in Seq(RingIds) /\ <<>> \in Seq(BOOLEAN)
  BY NoMessages
<1>2. told \in Works /\ told.i.cc = w.i.cc /\ told.i.regions = w.i.regions
  BY DEF Works, Interfaces
<1>3. noQueues \in Works /\ noQueues.i.cc = w.i.cc /\ noQueues.i.regions = w.i.regions
  BY <1>1, <1>2 DEF Works, Interfaces
<1>4. cleared.i.cc = None /\ cleared.i.regions = <<>>
  BY <1>1, <1>3 DEF Works, Interfaces, Cleared
<1>5. \/ w.i.cc = None /\ r = w
      \/ r = Fail(noQueues) /\ Unmapped(w.i)
      \/ r = cleared
  BY DEF Disconnect, Unmapped
<1> HIDE DEF told, noQueues, cleared, r
<1>6. \/ r.i.cc = None /\ (r.i = w.i \/ r.i.regions = <<>>)
      \/ r.i.cc = w.i.cc /\ r.i.regions = w.i.regions /\ Unmapped(w.i)
  BY <1>3, <1>4, <1>5, FailFacts
<1>7. QED
  BY <1>6 DEF r

LEMMA CloseEnds ==
  ASSUME NEW w \in Works, NEW sendMsg \in BOOLEAN, NEW peerGone \in BOOLEAN, w.out = <<>>
  PROVE  Ended(w, Close(w, sendMsg, peerGone, TRUE))
<1> DEFINE sent   == Farewell(w, sendMsg, peerGone)
           closed == [sent EXCEPT !.e.open = FALSE]
           d      == Disconnect(closed, TRUE)
           r      == Close(w, sendMsg, peerGone, TRUE)
<1>1. sent \in Works /\ sent.i = w.i /\ sent.e.open = w.e.open /\ sent.e.bound = w.e.bound
  BY FarewellOutcome
<1>2. r = CASE ~sent.ok -> sent
            [] sent.ok /\ ~sent.e.open -> Fail(sent)
            [] sent.ok /\ sent.e.open /\ ~w.e.bound -> closed
            [] OTHER -> d
  BY DEF Close, Farewell
<1> HIDE DEF sent, r
<1>3. closed \in Works /\ closed.i = w.i /\ ~closed.e.open
  BY <1>1 DEF Works, Ends
<1>4. Fail(sent).i = w.i /\ Fail(sent).e.open = w.e.open
  BY <1>1, FailFacts
<1> HIDE DEF closed
<1>5. d.e = closed.e
  BY <1>3, DisconnectOutcome
<1>6. \/ d.i.cc = None /\ (d.i = w.i \/ d.i.regions = <<>>)
      \/ d.i.cc = w.i.cc /\ d.i.regions = w.i.regions /\ Unmapped(w.i)
  BY <1>3, DisconnectEnds
<1> HIDE DEF d
<1>7. CASE r = sent
  BY <1>1, <1>7 DEF Ended, r
<1>8. CASE r = Fail(sent)
  BY <1>4, <1>8 DEF Ended, r
<1>9. CASE r = closed /\ ~w.e.bound
  BY <1>3, <1>9 DEF Ended, r
<1>10. CASE r = d /\ sent.e.open /\ w.e.bound
  BY <1>1, <1>3, <1>5, <1>6, <1>10 DEF Ended, r
<1>11. QED
  BY <1>2, <1>7, <1>8, <1>9, <1>10

LEMMA FinishedEnds ==
  ASSUME TypeOK, NEW c \in Conns, NEW side \in Sides, NEW w \in Works, w.out = <<>>
  PROVE  Ended(w, Finished(c, side, w, TRUE))
<1> DEFINE gone == PeerGone(c, side)
           v == [w EXCEPT !.ok = TRUE]
           s == SendMsg(w, gone)
           x == Close(v, TRUE, gone, TRUE)
           r == Finished(c, side, w, TRUE)
<1>1. gone \in BOOLEAN
  BY DEF TypeOK, PeerGone, Sides, Other, Ends
<1>2. v \in Works /\ v.i = w.i /\ v.e = w.e /\ v.out = w.out
  BY DEF Works
<1>3. r = IF w.ok THEN s ELSE x
  BY DEF Finished
<1> HIDE DEF gone, v, r
<1>4. s.i = w.i /\ s.e.open = w.e.open
  BY <1>1, SendMsgSends
<1>5. Ended(w, s)
  BY <1>4 DEF Ended
<1>6. Ended(v, x)
  BY <1>1, <1>2, CloseEnds
<1> HIDE DEF s, x
<1>7. Ended(w, x)
  BY <1>2, <1>6 DEF Ended
<1>8. QED
  BY <1>3, <1>5, <1>7 DEF r

\* What Ended means for the interface.
LEMMA EndedFacts ==
  ASSUME NEW w, NEW r, Ended(w, r)
  PROVE  /\ r.i.cc \in {w.i.cc, None}
         /\ Unmapped(r.i) => Unmapped(w.i)
         /\ ~w.e.open \/ ~w.e.bound => r.i = w.i
         /\ w.e.open /\ w.e.bound /\ ~r.e.open /\ r.i.cc # None => Unmapped(r.i)
<1>1. r.i.regions = <<>> => ~Unmapped(r.i)
  BY NoMessages DEF Unmapped
<1>2. r.i.regions = w.i.regions => (Unmapped(r.i) <=> Unmapped(w.i))
  BY DEF Unmapped
<1>3. r.i.cc \in {w.i.cc, None}
  BY DEF Ended
<1>4. Unmapped(r.i) => Unmapped(w.i)
  BY <1>1, <1>2 DEF Ended
<1>5. ~w.e.open \/ ~w.e.bound => r.i = w.i
  BY DEF Ended
<1>6. w.e.open /\ w.e.bound /\ ~r.e.open /\ r.i.cc # None => Unmapped(r.i)
  BY <1>2 DEF Ended
<1>7. QED
  BY <1>3, <1>4, <1>5, <1>6

-----------------------------------------------------------------------------
(* Steps that commit an outcome. *)

LEMMA CommitLeaves ==
  ASSUME CInv, NEW c \in Conns, NEW side \in Sides, owner[c] # None,
         NEW r \in Works, Commit(c, side, r), UNCHANGED <<owner, pending>>,
         r.i.cc = c /\ ~r.e.open => side = "master" /\ Unmapped(r.i),
         side = "slave" => /\ ~Unmapped(r.i) /\ r.i.cc \in {c, None}
                           /\ pending[owner[c]] = None,
         side = "master" => r.i.cc \in {c, None} \/ r.i = iface[Master]
  PROVE  LeftInv'
<1> DEFINE p == Proc(c, side)
<1>1. TypeOK /\ StateInv /\ SlaveInv /\ SlaveMapped /\ PendingOpen /\ ClosedInv
  BY DEF CInv, IInv, StateInv, LeftInv
<1>2. /\ p \in Procs /\ Other(side) \in Sides /\ Other(side) # side /\ SideOf(p) = side
      /\ side = "master" => p = Master /\ Other(side) = "slave"
      /\ side = "slave" => /\ p = owner[c] /\ owner[c] \in Slaves
                           /\ Other(side) = "master" /\ p # Master
  BY <1>1, SideFacts
<1>3. /\ iface'[p] = r.i
      /\ \A q \in Procs \ {p} : iface'[q] = iface[q]
      /\ \A d \in Conns \ {c} : end'[d] = end[d]
      /\ end'[c][side] = r.e
      /\ end'[c][Other(side)].open = end[c][Other(side)].open
  BY <1>1, CommitView
<1>4. side \in {"master", "slave"} /\ Master \notin Slaves /\ Slaves \subseteq Procs
      /\ None \notin Conns
  BY ControlAssumption DEF Sides, Procs
<1> HIDE DEF p
<1>5. SlaveMapped'
  <2>1. ASSUME NEW s \in Slaves PROVE ~Unmapped(iface'[s])
    <3>1. CASE s = p
      BY <1>2, <1>3, <1>4, <3>1
    <3>2. CASE s # p
      BY <1>1, <1>3, <1>4, <3>2 DEF SlaveMapped
    <3>3. QED
      BY <3>1, <3>2
  <2>2. QED
    BY <2>1 DEF SlaveMapped, Unmapped
<1>6. PendingOpen'
  <2>1. ASSUME NEW s \in Slaves, pending[s] # None PROVE end'[pending[s]].slave.open
    <3>1. pending[s] \in Conns /\ owner[pending[s]] = s /\ end[pending[s]].slave.open
      BY <1>1, <2>1, ZenonT(60) DEF TypeOK, SlaveInv, PendingOpen
    <3>2. CASE pending[s] = c
      <4>1. side = "master"
        BY <1>4, <2>1, <3>1, <3>2
      <4>2. QED
        BY <1>2, <1>3, <3>1, <3>2, <4>1
    <3>3. CASE pending[s] # c
      BY <1>3, <3>1, <3>3
    <3>4. QED
      BY <3>2, <3>3
  <2>2. QED
    BY <2>1 DEF PendingOpen
<1>7. ClosedInv'
  <2>1. ASSUME NEW q \in Procs, iface'[q].cc # None, ~end'[iface'[q].cc][SideOf(q)].open
        PROVE  SideOf(q) = "master" /\ Unmapped(iface'[q])
    <3> DEFINE d == iface[q].cc
    <3>1. CASE q = p /\ r.i.cc = c
      BY <1>2, <1>3, <2>1, <3>1
    <3>2. CASE iface'[q] = iface[q] /\ (d = c => SideOf(q) = Other(side))
      <4>1. d \in Conns
        BY <1>1, <2>1, <3>2 DEF TypeOK, Interfaces
      <4>2. end'[d][SideOf(q)].open = end[d][SideOf(q)].open
        BY <1>3, <3>2, <4>1
      <4>3. QED
        BY <1>1, <2>1, <3>2, <4>2 DEF ClosedInv
    <3>3. CASE q = p /\ r.i.cc # c
      <4>1. side = "master" /\ r.i = iface[Master] /\ p = Master
        BY <1>2, <1>3, <1>4, <2>1, <3>3
      <4>2. QED
        BY <1>3, <3>2, <3>3, <4>1
    <3>4. CASE q # p
      <4>1. iface'[q] = iface[q]
        BY <1>3, <3>4
      <4>2. ASSUME d = c PROVE SideOf(q) = Other(side)
        <5>1. CASE q = Master
          BY <1>2, <1>4, <3>4, <5>1 DEF SideOf
        <5>2. CASE q # Master
          <6>1. q \in Slaves /\ SideOf(q) = "slave"
            BY <5>2 DEF Procs, SideOf
          <6>2. owner[c] = q
            BY <1>1, <2>1, <4>1, <4>2, <6>1 DEF SlaveInv
          <6>3. side = "master"
            BY <1>2, <1>4, <3>4, <6>2
          <6>4. QED
            BY <1>2, <6>1, <6>3
        <5>3. QED
          BY <5>1, <5>2
      <4>3. QED
        BY <3>2, <4>1, <4>2
    <3>5. QED
      BY <3>1, <3>3, <3>4
  <2>2. QED
    BY <2>1 DEF ClosedInv, Unmapped
<1>8. QED
  BY <1>5, <1>6, <1>7 DEF LeftInv

\* The outcome of closing, or of going on with, the work w.
LEMMA EndingLeaves ==
  ASSUME CInv, NEW c \in Conns, NEW side \in Sides, owner[c] # None,
         NEW w, NEW r \in Works, Ended(w, r),
         Commit(c, side, r), UNCHANGED <<owner, pending>>,
         w.e.bound \in BOOLEAN,
         w.e.open \/ (side = "master" /\ Unmapped(w.i)),
         w.e.bound => w.i.cc = c,
         ~w.e.bound => side = "master" /\ w.i = iface[Master] /\ ~end[c].master.bound,
         side = "slave" => ~Unmapped(w.i) /\ pending[owner[c]] = None
  PROVE  LeftInv'
<1>1. /\ r.i.cc \in {w.i.cc, None}
      /\ Unmapped(r.i) => Unmapped(w.i)
      /\ ~w.e.open \/ ~w.e.bound => r.i = w.i
      /\ w.e.open /\ w.e.bound /\ ~r.e.open /\ r.i.cc # None => Unmapped(r.i)
  BY EndedFacts
<1>2. None \notin Conns /\ side \in {"master", "slave"} /\ MasterInv
  BY ControlAssumption DEF Sides, CInv, IInv, StateInv
<1>3. ~w.e.bound => r.i = iface[Master] /\ iface[Master].cc # c
  BY <1>1, <1>2 DEF MasterInv
<1>4. ASSUME r.i.cc = c, ~r.e.open PROVE side = "master" /\ Unmapped(r.i)
  <2>1. w.e.bound
    BY <1>3, <1>4
  <2>2. Unmapped(r.i)
    BY <1>1, <1>2, <1>4, <2>1
  <2>3. side = "master"
    BY <1>1, <1>2, <2>2
  <2>4. QED
    BY <2>2, <2>3
<1>5. side = "slave" => ~Unmapped(r.i) /\ r.i.cc \in {c, None} /\ pending[owner[c]] = None
  BY <1>1
<1>6. side = "master" => r.i.cc \in {c, None} \/ r.i = iface[Master]
  BY <1>1, <1>3
<1>7. QED
  BY <1>4, <1>5, <1>6, CommitLeaves

\* Where a handler that has read a message starts, when polling waits for
\* RequestConnection.
LEMMA ReadingFacts ==
  ASSUME CInv, ~ConcurrentRequests, NEW c \in Conns, NEW side \in Sides, NEW type,
         Receives(c, side, type)
  PROVE  LET t == Taken(c, side) IN
         /\ owner[c] # None
         /\ t \in Works /\ t.out = <<>> /\ t.ok /\ t.e.open
         /\ t.i = iface[Proc(c, side)] /\ t.e.bound = end[c][side].bound
         /\ t.e.bound => t.i.cc = c
         /\ side = "slave" => /\ t.e.bound /\ ~Unmapped(t.i)
                              /\ pending[owner[c]] = None /\ type \in ToSlave
         /\ side = "master" => type \in ToMaster /\ (type \in Needy => t.e.bound)
<1> DEFINE t == Taken(c, side)
<1>1. TypeOK /\ StateInv /\ IInv /\ SlaveInv /\ OneChannelPerInterface /\ SlaveMapped
  BY DEF CInv, IInv, StateInv, LeftInv
<1>2. /\ owner[c] # None /\ end[c][side].open
      /\ t \in Works /\ t.out = <<>> /\ t.ok /\ t.i = iface[Proc(c, side)]
      /\ t.e.open /\ t.e.bound = end[c][side].bound
      /\ side = "slave" => type \in ToSlave /\ end[c][side].bound
      /\ side = "master" => type \in ToMaster /\ (type \in Needy => end[c][side].bound)
  BY <1>1, ReceivesFacts
<1> HIDE DEF t
<1>3. CASE side = "slave"
  <2>1. Proc(c, side) = owner[c] /\ owner[c] \in Slaves /\ owner[c] # Master
    BY <1>1, <1>2, <1>3, SideFacts
  <2>2. pending[owner[c]] = None
    BY <2>1 DEF Receives, Polls, Requesting
  <2>3. iface[owner[c]].cc = c
    BY <1>1, <1>2, <1>3, <2>2, ControlAssumption DEF SlaveInv
  <2>4. ~Unmapped(iface[owner[c]])
    BY <1>1, <2>1 DEF SlaveMapped
  <2>5. QED
    BY <1>2, <1>3, <2>1, <2>2, <2>3, <2>4 DEF t
<1>4. CASE side = "master"
  <2>1. end[c].master.bound => iface[Master].cc = c
    BY <1>1, <1>2, <1>4 DEF OneChannelPerInterface
  <2>2. QED
    BY <1>2, <1>4, <2>1 DEF t, Proc
<1>5. QED
  BY <1>3, <1>4 DEF Sides

\* The end of a handler.
LEMMA FinishLeaves ==
  ASSUME CInv, ~ConcurrentRequests, NEW c \in Conns, NEW side \in Sides, NEW type,
         Receives(c, side, type),
         NEW w \in Works, w.out = <<>>, Finish(c, side, w, TRUE), w.e.open,
         w.e.bound => w.i.cc = c,
         ~w.e.bound => w.i = Taken(c, side).i /\ ~Taken(c, side).e.bound,
         side = "slave" => ~Unmapped(w.i)
  PROVE  LeftInv'
<1> DEFINE r == Finished(c, side, w, TRUE)
<1>1. TypeOK
  BY DEF CInv, IInv, StateInv
<1>2. /\ owner[c] # None
      /\ Taken(c, side).i = iface[Proc(c, side)]
      /\ Taken(c, side).e.bound = end[c][side].bound
      /\ side = "slave" => Taken(c, side).e.bound /\ pending[owner[c]] = None
  BY ReadingFacts
<1>3. r \in Works /\ Ended(w, r)
  BY <1>1, FinishedOutcome, FinishedEnds DEF Outcome
<1>4. Commit(c, side, r) /\ UNCHANGED <<owner, pending>>
  BY DEF Finish, Finished
<1> HIDE DEF r
<1>5. ~w.e.bound => side = "master" /\ w.i = iface[Master] /\ ~end[c].master.bound
  BY <1>2 DEF Proc, Sides
<1>6. w.e.bound \in BOOLEAN
  BY DEF Works, Ends
<1>7. QED
  BY <1>2, <1>3, <1>4, <1>5, <1>6, EndingLeaves

-----------------------------------------------------------------------------
(* The handlers. *)

LEMMA AckLeaves ==
  ASSUME CInv, ~ConcurrentRequests, NEW c \in Conns, NEW side \in Sides,
         RecvAck(c, side, TRUE)
  PROVE  LeftInv'
<1> DEFINE t == Taken(c, side)
<1>1. Receives(c, side, "Ack") /\ Finish(c, side, t, TRUE)
  BY DEF RecvAck
<1>2. /\ t \in Works /\ t.out = <<>> /\ t.e.open
      /\ t.e.bound => t.i.cc = c
      /\ side = "slave" => t.e.bound /\ ~Unmapped(t.i)
      /\ side = "master" => "Ack" \in ToMaster
  BY <1>1, ReadingFacts
<1>3. side = "slave"
  BY <1>2 DEF ToMaster, Sides
<1>4. QED
  BY <1>1, <1>2, <1>3, FinishLeaves

LEMMA OneMoreMapped ==
  ASSUME NEW S, NEW q \in Seq(S), NEW x \in S, x, \A k \in DOMAIN q : q[k]
  PROVE  \A k \in DOMAIN Append(q, x) : Append(q, x)[k]
<1>1. \A k \in DOMAIN q : q[k] = TRUE
  OBVIOUS
<1>2. QED
  BY <1>1

LEMMA HelloLeaves ==
  ASSUME CInv, ~ConcurrentRequests, NEW c \in Conns, NEW side \in Sides,
         RecvHello(c, side, "all", TRUE)
  PROVE  LeftInv'
<1> DEFINE t == Taken(c, side)
           n == MinOf(Pairs[Proc(c, side)], Received(c, side).maxRingM2S)
           config == [t EXCEPT !.i.run = n]
           region == [config EXCEPT !.i.regions = Append(@, TRUE)]
           tx == [region EXCEPT !.i.tx = @ \o Rings("S2M", n)]
           rx == [tx EXCEPT !.i.rx = @ \o Rings("M2S", n)]
           v == Enqueue(rx, Handshake(rx.i))
<1>1. Receives(c, side, "Hello") /\ FinishOn(c, side, v, TRUE)
  BY DEF RecvHello
<1> HIDE DEF v, n
<1>2. /\ owner[c] # None
      /\ t \in Works /\ t.out = <<>> /\ t.e.open
      /\ t.e.bound => t.i.cc = c
      /\ side = "slave" => t.e.bound /\ ~Unmapped(t.i)
      /\ side = "master" => "Hello" \in ToMaster
  BY <1>1, ReadingFacts
<1>3. side = "slave"
  BY <1>2 DEF ToMaster, Sides
<1>4. n \in Nat /\ n <= MaxRings
  <2>1. Proc(c, side) \in Procs
    BY <1>2, SideFacts DEF CInv, IInv, StateInv
  <2>2. Pairs[Proc(c, side)] \in Nat \ {0} /\ MaxRings \in Nat \ {0}
    BY <2>1, ControlAssumption
  <2>3. Received(c, side) \in Messages /\ Received(c, side).type = "Hello"
    BY <1>1, ReceivesFacts DEF CInv
  <2>4. Received(c, side).maxRingM2S = MaxRings
    BY <2>3, MessageKinds, SMTT(40)
  <2>5. QED
    BY <2>2, <2>4 DEF n, MinOf
<1> HIDE DEF t
<1>5. /\ rx \in Works /\ rx.out = t.out /\ rx.e = t.e /\ rx.i.cc = t.i.cc
      /\ rx.i.regions = Append(t.i.regions, TRUE)
  BY <1>2, <1>4, HelloFacts
<1> HIDE DEF rx
<1>6. ~Unmapped(rx.i)
  <2>1. t.i.regions \in Seq(BOOLEAN)
    BY <1>2 DEF Works, Interfaces
  <2>2. \A k \in DOMAIN t.i.regions : t.i.regions[k]
    BY <1>2, <1>3 DEF Unmapped
  <2>3. \A k \in DOMAIN Append(t.i.regions, TRUE) : Append(t.i.regions, TRUE)[k]
    BY <2>1, <2>2, OneMoreMapped
  <2>4. QED
    BY <1>5, <2>3 DEF Unmapped
<1>7. /\ v \in Works /\ v.i = rx.i /\ v.out = rx.out
      /\ v.e.open = rx.e.open /\ v.e.bound = rx.e.bound
  <2>1. rx.i \in Interfaces
    BY <1>5 DEF Works
  <2>2. QED
    BY <1>5, <2>1, HandshakeFacts, EnqueueFacts DEF v
<1>8. Finish(c, side, v, TRUE)
  BY <1>1, <1>2, <1>3, <1>5, <1>7 DEF FinishOn
<1>9. QED
  BY <1>1, <1>2, <1>3, <1>5, <1>6, <1>7, <1>8, FinishLeaves

\* Handlers of messages about the master's interface.
LEMMA MasterHandlerLeaves ==
  ASSUME CInv, ~ConcurrentRequests, NEW c \in Conns, NEW side \in Sides,
         NEW type \in Needy, Receives(c, side, type),
         NEW w \in Works, FinishOn(c, side, w, TRUE), w.out = <<>>,
         w.i.cc = Taken(c, side).i.cc, w.e.open = Taken(c, side).e.open,
         w.e.bound = Taken(c, side).e.bound
  PROVE  LeftInv'
<1>1. /\ Taken(c, side).e.open
      /\ Taken(c, side).e.bound => Taken(c, side).i.cc = c
      /\ side = "slave" => type \in ToSlave
      /\ side = "master" => (type \in Needy => Taken(c, side).e.bound)
  BY ReadingFacts
<1>2. side = "master"
  BY <1>1 DEF Needy, ToSlave, Sides
<1>3. Finish(c, side, w, TRUE)
  BY <1>1, <1>2 DEF FinishOn
<1>4. QED
  BY <1>1, <1>2, <1>3, FinishLeaves

LEMMA InitLeaves ==
  ASSUME CInv, ~ConcurrentRequests, NEW c \in Conns, NEW side \in Sides,
         RecvInit(c, side, TRUE)
  PROVE  LeftInv'
<1> DEFINE t == Taken(c, side)
           p == Proc(c, side)
           v == [t EXCEPT !.i.cc = c, !.i.run = Pairs[p], !.e.bound = TRUE]
           x == Enqueue(v, <<Plain("Ack")>>)
           w == IF Fits(p, t.i, Received(c, side)) THEN x ELSE Fail(t)
<1>1. Receives(c, side, "Init") /\ Finish(c, side, w, TRUE)
  BY DEF RecvInit
<1> HIDE DEF w
<1>2. /\ owner[c] # None
      /\ t \in Works /\ t.out = <<>> /\ t.e.open
      /\ t.e.bound => t.i.cc = c
      /\ side = "slave" => "Init" \in ToSlave
  BY <1>1, ReadingFacts
<1>3. side = "master"
  BY <1>2 DEF ToSlave, Sides
<1>4. Pairs[p] \in Nat
  BY <1>2, SideFacts, ControlAssumption DEF CInv, IInv, StateInv
<1> HIDE DEF p
<1>5. /\ Fail(t) \in Works /\ Fail(t).i = t.i /\ Fail(t).e = t.e /\ Fail(t).out = t.out
  BY <1>2, FailFacts
<1>6. CASE w = Fail(t)
  <2> HIDE DEF t
  <2>1. w \in Works /\ w.i = t.i /\ w.e = t.e /\ w.out = <<>>
    BY <1>2, <1>5, <1>6
  <2>2. QED
    BY <1>1, <1>2, <1>3, <2>1, FinishLeaves DEF t
<1>7. CASE w = x
  <2> HIDE DEF t
  <2>1. v \in Works /\ v.out = t.out /\ v.i.cc = c /\ v.e.bound /\ v.e.open = t.e.open
    BY <1>2, <1>4 DEF Works, Interfaces, Ends
  <2> HIDE DEF v
  <2>2. /\ x \in Works /\ x.i = v.i /\ x.out = v.out
        /\ x.e.open = v.e.open /\ x.e.bound = v.e.bound
    BY <2>1, ReplyFacts, EnqueueFacts
  <2> HIDE DEF x
  <2>3. QED
    BY <1>1, <1>2, <1>3, <1>7, <2>1, <2>2, FinishLeaves
<1>8. QED
  BY <1>6, <1>7 DEF w

LEMMA AddRegionLeaves ==
  ASSUME CInv, ~ConcurrentRequests, NEW c \in Conns, NEW side \in Sides,
         RecvAddRegion(c, side, TRUE)
  PROVE  LeftInv'
<1> DEFINE t == Taken(c, side)
           v == [t EXCEPT !.i.regions = Append(@, FALSE)]
           w == Enqueue(v, <<Plain("Ack")>>)
<1>1. Receives(c, side, "AddRegion") /\ FinishOn(c, side, w, TRUE)
  BY DEF RecvAddRegion
<1>2. t \in Works /\ t.out = <<>>
  BY <1>1, ReadingFacts
<1> HIDE DEF t
<1>3. v \in Works /\ v.out = t.out /\ v.e = t.e /\ v.i.cc = t.i.cc
  <2>1. Append(t.i.regions, FALSE) \in Seq(BOOLEAN)
    BY <1>2 DEF Works, Interfaces
  <2>2. QED
    BY <1>2, <2>1 DEF Works, Interfaces
<1> HIDE DEF v
<1>4. /\ w \in Works /\ w.i = v.i /\ w.out = v.out
      /\ w.e.open = v.e.open /\ w.e.bound = v.e.bound
  BY <1>3, ReplyFacts, EnqueueFacts
<1> HIDE DEF w
<1>5. QED
  BY <1>1, <1>2, <1>3, <1>4, MasterHandlerLeaves DEF t, Needy

LEMMA AddRingLeaves ==
  ASSUME CInv, ~ConcurrentRequests, NEW c \in Conns, NEW side \in Sides,
         RecvAddRing(c, side, TRUE)
  PROVE  LeftInv'
<1> DEFINE t == Taken(c, side)
           r == Received(c, side).ring
           v == [t EXCEPT !.i = AddQueue(@, r)]
           x == Enqueue(v, <<Plain("Ack")>>)
           w == IF r[2] >= t.i.run THEN Fail(t) ELSE x
<1>1. Receives(c, side, "AddRing") /\ FinishOn(c, side, w, TRUE)
  BY DEF RecvAddRing
<1>2. t \in Works /\ t.out = <<>> /\ r \in RingIds
  BY <1>1, ReceivesFacts, MessageKinds DEF CInv
<1> HIDE DEF t, r
<1>3. v \in Works /\ v.out = t.out /\ v.e = t.e /\ v.i.cc = t.i.cc
  <2>1. Append(t.i.rx, r) \in Seq(RingIds) /\ Append(t.i.tx, r) \in Seq(RingIds)
    BY <1>2 DEF Works, Interfaces
  <2>2. AddQueue(t.i, r) \in Interfaces /\ AddQueue(t.i, r).cc = t.i.cc
    BY <1>2, <2>1 DEF AddQueue, Works, Interfaces
  <2>3. QED
    BY <1>2, <2>2 DEF Works
<1> HIDE DEF v
<1>4. /\ x \in Works /\ x.i = v.i /\ x.out = v.out
      /\ x.e.open = v.e.open /\ x.e.bound = v.e.bound
  BY <1>3, ReplyFacts, EnqueueFacts
<1>5. Fail(t) \in Works /\ Fail(t).i = t.i /\ Fail(t).e = t.e /\ Fail(t).out = t.out
  BY <1>2, FailFacts
<1>6. w \in {Fail(t), x}
  OBVIOUS
<1> HIDE DEF w, x
<1>7. /\ w \in Works /\ w.out = <<>> /\ w.i.cc = t.i.cc
      /\ w.e.open = t.e.open /\ w.e.bound = t.e.bound
  BY <1>2, <1>3, <1>4, <1>5, <1>6
<1>8. QED
  BY <1>1, <1>7, MasterHandlerLeaves DEF t, Needy

\* connect leaves no region of the slave unmapped that was mapped before.
LEMMA ConnectMaps ==
  ASSUME NEW w \in Works, NEW goodMap \in BOOLEAN, NEW good \in BOOLEAN, ~Unmapped(w.i)
  PROVE  ~Unmapped(Connect(w, goodMap, good).i)
<1> DEFINE mapped == [r \in DOMAIN w.i.regions |-> TRUE]
           called == [w EXCEPT !.i.regions = [r \in DOMAIN @ |-> TRUE],
                               !.i.told = "up",
                               !.i.twice = @ \/ w.i.told = "up"]
           up == [called EXCEPT !.e.up = TRUE]
           v == Connect(w, goodMap, good)
<1>1. called.i = [w.i EXCEPT !.regions = mapped, !.told = "up",
                             !.twice = w.i.twice \/ w.i.told = "up"]
  BY DEF Works, Interfaces
<1>2. called.i.regions = mapped
  <2> HIDE DEF mapped, called
  <2>1. QED
    BY <1>1 DEF Works, Interfaces
<1>3. DOMAIN called = {"i", "e", "out", "ok"}
  BY DEF Works
<1>4. v \in {Fail(w), up, Fail(called)}
  BY DEF Connect
<1> HIDE DEF called
<1>5. up.i = called.i /\ Fail(called).i = called.i /\ Fail(w).i = w.i
  BY <1>3, FailFacts DEF Fail
<1> HIDE DEF up, v
<1>6. v.i = w.i \/ v.i.regions = mapped
  BY <1>2, <1>4, <1>5
<1>7. ~Unmapped(v.i)
  BY <1>6 DEF Unmapped
<1>8. QED
  BY <1>7 DEF v

LEMMA ConnectLeaves ==
  ASSUME CInv, ~ConcurrentRequests, NEW c \in Conns, NEW side \in Sides,
         NEW goodMap \in BOOLEAN, NEW goodUp \in BOOLEAN,
         RecvConnect(c, side, goodMap, goodUp, TRUE)
  PROVE  LeftInv'
<1> DEFINE t == Taken(c, side)
           v == Connect(t, goodMap, goodUp)
           x == Enqueue(v, <<Plain("Connected")>>)
           w == IF v.ok THEN x ELSE v
<1>1. Receives(c, side, "Connect") /\ FinishOn(c, side, w, TRUE)
  BY DEF RecvConnect
<1>2. t \in Works /\ t.out = <<>>
  BY <1>1, ReadingFacts
<1> HIDE DEF t
<1>3. /\ v \in Works /\ v.out = t.out /\ v.i.cc = t.i.cc
      /\ v.e.open = t.e.open /\ v.e.bound = t.e.bound
  BY <1>2, ConnectFacts
<1> HIDE DEF v
<1>4. /\ x \in Works /\ x.i = v.i /\ x.out = v.out
      /\ x.e.open = v.e.open /\ x.e.bound = v.e.bound
  BY <1>3, ReplyFacts, EnqueueFacts
<1>5. w \in {v, x}
  OBVIOUS
<1> HIDE DEF w, x
<1>6. /\ w \in Works /\ w.out = <<>> /\ w.i.cc = t.i.cc
      /\ w.e.open = t.e.open /\ w.e.bound = t.e.bound
  BY <1>2, <1>3, <1>4, <1>5
<1>7. QED
  BY <1>1, <1>6, MasterHandlerLeaves DEF t, Needy

LEMMA ConnectedLeaves ==
  ASSUME CInv, ~ConcurrentRequests, NEW c \in Conns, NEW side \in Sides,
         NEW goodMap \in BOOLEAN, NEW goodUp \in BOOLEAN,
         RecvConnected(c, side, goodMap, goodUp, TRUE)
  PROVE  LeftInv'
<1> DEFINE t == Taken(c, side)
           v == Connect(t, goodMap, goodUp)
<1>1. Receives(c, side, "Connected") /\ FinishOn(c, side, v, TRUE)
  BY DEF RecvConnected
<1>2. /\ t \in Works /\ t.out = <<>> /\ t.e.open
      /\ t.e.bound => t.i.cc = c
      /\ side = "slave" => t.e.bound /\ ~Unmapped(t.i)
      /\ side = "master" => "Connected" \in ToMaster
  BY <1>1, ReadingFacts
<1>3. side = "slave"
  BY <1>2 DEF ToMaster, Sides
<1> HIDE DEF t
<1>4. /\ v \in Works /\ v.out = t.out /\ v.i.cc = t.i.cc
      /\ v.e.open = t.e.open /\ v.e.bound = t.e.bound
  <2>1. t \in Works
    BY <1>2
  <2>2. QED
    BY <2>1, ConnectFacts
<1>5. ~Unmapped(v.i)
  BY <1>2, <1>3, ConnectMaps
<1> HIDE DEF v
<1>6. Finish(c, side, v, TRUE)
  BY <1>1, <1>2, <1>3, <1>4 DEF FinishOn
<1>7. QED
  BY <1>1, <1>2, <1>3, <1>4, <1>5, <1>6, FinishLeaves

\* parseDisconnect closes; the error of a second close changes nothing.
LEMMA DisconnectLeaves ==
  ASSUME CInv, ~ConcurrentRequests, NEW c \in Conns, NEW side \in Sides,
         RecvDisconnect(c, side, TRUE)
  PROVE  LeftInv'
<1> DEFINE t == Taken(c, side)
           gone == PeerGone(c, side)
           w == Close(t, FALSE, gone, TRUE)
           r == Finished(c, side, w, TRUE)
<1>1. Receives(c, side, "Disconnect") /\ Finish(c, side, w, TRUE)
  BY DEF RecvDisconnect
<1>2. /\ owner[c] # None
      /\ t \in Works /\ t.out = <<>> /\ t.ok /\ t.e.open
      /\ t.i = iface[Proc(c, side)] /\ t.e.bound = end[c][side].bound
      /\ t.e.bound => t.i.cc = c
      /\ side = "slave" => t.e.bound /\ ~Unmapped(t.i) /\ pending[owner[c]] = None
  BY <1>1, ReadingFacts
<1>3. TypeOK /\ gone \in BOOLEAN
  BY DEF CInv, IInv, StateInv, TypeOK, PeerGone, Sides, Other, Ends
<1>4. Commit(c, side, r) /\ UNCHANGED <<owner, pending>>
  BY <1>1 DEF Finish, Finished
<1>5. ~t.e.bound => side = "master" /\ t.i = iface[Master] /\ ~end[c].master.bound
  BY <1>2 DEF Proc, Sides
<1> HIDE DEF t, gone
<1>6. Outcome(t, w, gone) /\ Untold(t, w) /\ ~w.e.open
  BY <1>2, <1>3, CloseOutcome
<1>7. Ended(t, w)
  BY <1>2, <1>3, CloseEnds
<1> HIDE DEF w
<1>8. w \in Works /\ w.out = <<>>
  BY <1>2, <1>6 DEF Outcome, Untold
<1>9. r \in Works /\ (r.e.open => w.e.open)
  BY <1>3, <1>8, FinishedOutcome DEF Outcome
<1>10. Ended(w, r)
  BY <1>3, <1>8, FinishedEnds
<1>11. r.i = w.i
  BY <1>6, <1>10, EndedFacts
<1> HIDE DEF r
<1>12. Ended(t, r)
  BY <1>2, <1>6, <1>7, <1>9, <1>11 DEF Ended
<1>13. t.e.bound \in BOOLEAN
  BY <1>2 DEF Works, Ends
<1>14. QED
  BY <1>2, <1>4, <1>5, <1>9, <1>12, <1>13, EndingLeaves

-----------------------------------------------------------------------------
(* The other steps. *)

LEMMA ExitLeaves ==
  ASSUME CInv, NEW p \in Procs, Exit(p)
  PROVE  LeftInv'
<1>1. TypeOK /\ StateInv /\ SlaveInv /\ SlaveMapped /\ PendingOpen /\ ClosedInv
  BY DEF CInv, IInv, StateInv, LeftInv
<1>2. Slaves \subseteq Procs /\ Master \notin Slaves /\ None \notin Conns
      /\ (p # Master => p \in Slaves)
  BY ControlAssumption DEF Procs
<1>3. /\ iface' = [iface EXCEPT ![p] = NewInterface]
      /\ end' = [c \in Conns |-> [side \in Sides |->
                   IF owner[c] # None /\ Proc(c, side) = p THEN GoneEnd ELSE end[c][side]]]
      /\ p = Master => pending' = pending
      /\ p # Master => pending' = [pending EXCEPT ![p] = None]
  BY DEF Exit
<1>4. /\ iface'[p] = NewInterface
      /\ \A q \in Procs \ {p} : iface'[q] = iface[q]
  BY <1>1, <1>3 DEF TypeOK
<1>5. NewInterface.cc = None /\ ~Unmapped(NewInterface)
  BY NoMessages DEF NewInterface, Unmapped
<1>6. \A c \in Conns, side \in Sides :
        Proc(c, side) # p => end'[c][side] = end[c][side]
  BY <1>3
<1>7. ASSUME NEW s \in Slaves PROVE ~Unmapped(iface'[s])
  BY <1>1, <1>2, <1>4, <1>5 DEF SlaveMapped
<1>8. ASSUME NEW s \in Slaves, pending'[s] # None PROVE end'[pending'[s]].slave.open
  <2>1. s # p /\ pending'[s] = pending[s]
    <3>1. pending \in [Slaves -> Conns \cup {None}]
      BY <1>1 DEF TypeOK
    <3>2. CASE p = Master
      BY <1>2, <1>3, <3>2
    <3>3. CASE p # Master
      BY <1>2, <1>3, <1>8, <3>1, <3>3
    <3>4. QED
      BY <3>2, <3>3
  <2>2. /\ pending[s] \in Conns /\ owner[pending[s]] = s
        /\ end[pending[s]].slave.open
    BY <1>1, <1>8, <2>1, ZenonT(60) DEF TypeOK, SlaveInv, PendingOpen
  <2>3. "slave" \in Sides /\ Proc(pending[s], "slave") = s
    BY <2>2 DEF Sides, Proc
  <2>4. QED
    BY <1>6, <2>1, <2>2, <2>3
<1>9. ASSUME NEW q \in Procs, iface'[q].cc # None, ~end'[iface'[q].cc][SideOf(q)].open
      PROVE  SideOf(q) = "master" /\ Unmapped(iface'[q])
  <2>1. iface'[q] = iface[q] /\ q # p
    BY <1>4, <1>5, <1>9
  <2>2. /\ iface[q].cc \in Conns /\ SideOf(q) \in Sides
        /\ Proc(iface[q].cc, SideOf(q)) = q
    BY <1>1, <1>9, <2>1, ChannelFacts
  <2>3. end'[iface[q].cc][SideOf(q)] = end[iface[q].cc][SideOf(q)]
    BY <1>6, <2>1, <2>2
  <2>4. QED
    BY <1>1, <1>9, <2>1, <2>3 DEF ClosedInv
<1>10. SlaveMapped'
  BY <1>7 DEF SlaveMapped, Unmapped
<1>11. PendingOpen'
  BY <1>8 DEF PendingOpen
<1>12. ClosedInv'
  BY <1>9 DEF ClosedInv, Unmapped
<1>13. QED
  BY <1>10, <1>11, <1>12 DEF LeftInv

LEMMA HangUpLeaves ==
  ASSUME CInv, ~ConcurrentRequests, NEW c \in Conns, NEW side \in Sides,
         HangUp(c, side, TRUE)
  PROVE  LeftInv'
<1>1. /\ TypeOK /\ OwnerInv /\ SlaveInv /\ OneChannelPerInterface /\ SlaveMapped
      /\ end[c][side].open /\ Polls(Proc(c, side))
  BY DEF HangUp, CInv, IInv, StateInv, LeftInv
<1>2. owner[c] \in Slaves /\ owner[c] # None /\ None \notin Conns /\ Master \notin Slaves
  BY <1>1, OpenIsOwned, ControlAssumption DEF Procs
<1>3. CASE end[c][side].bound
  <2> DEFINE w == Work(c, side)
             r == Close(w, FALSE, TRUE, TRUE)
  <2>1. Commit(c, side, r) /\ UNCHANGED <<owner, pending>>
    BY <1>3 DEF HangUp
  <2>2. w \in Works /\ w.out = <<>> /\ w.i = iface[Proc(c, side)] /\ w.e = end[c][side]
    BY <1>1, <1>2, WorkFacts
  <2> HIDE DEF w
  <2>3. r \in Works /\ Ended(w, r)
    BY <2>2, CloseOutcome, CloseEnds DEF Outcome
  <2> HIDE DEF r
  <2>4. w.i.cc = c /\ (side = "slave" => ~Unmapped(w.i) /\ pending[owner[c]] = None)
    <3>1. CASE side = "slave"
      <4>1. Proc(c, side) = owner[c] /\ owner[c] # Master
        BY <1>2, <3>1 DEF Proc
      <4>2. pending[owner[c]] = None
        BY <1>1, <4>1 DEF Polls, Requesting
      <4>3. iface[owner[c]].cc = c
        BY <1>1, <1>2, <3>1, <4>2 DEF SlaveInv
      <4>4. ~Unmapped(iface[owner[c]])
        BY <1>1, <1>2 DEF SlaveMapped
      <4>5. QED
        BY <2>2, <4>1, <4>2, <4>3, <4>4
    <3>2. CASE side = "master"
      BY <1>1, <1>3, <2>2, <3>2 DEF Proc, OneChannelPerInterface
    <3>3. QED
      BY <3>1, <3>2 DEF Sides
  <2>5. w.e.open /\ w.e.bound
    BY <1>1, <1>3, <2>2
  <2>6. QED
    BY <1>2, <1>3, <2>1, <2>2, <2>3, <2>4, <2>5, EndingLeaves
<1>4. CASE ~end[c][side].bound
  <2>1. Exit(Proc(c, side))
    BY <1>4 DEF HangUp
  <2>2. Proc(c, side) \in Procs
    BY <1>1, <1>2, SideFacts
  <2>3. QED
    BY <2>1, <2>2, ExitLeaves
<1>5. QED
  BY <1>3, <1>4

LEMMA HandleLeaves ==
  ASSUME Results = {TRUE}, ~ConcurrentRequests, CInv,
         NEW c \in Conns, NEW side \in Sides, Handle(c, side)
  PROVE  LeftInv'
<1>1. \/ HangUp(c, side, TRUE)
      \/ RecvAck(c, side, TRUE)
      \/ RecvHello(c, side, "all", TRUE)
      \/ RecvInit(c, side, TRUE)
      \/ RecvAddRegion(c, side, TRUE)
      \/ RecvAddRing(c, side, TRUE)
      \/ RecvDisconnect(c, side, TRUE)
      \/ RecvConnect(c, side, TRUE, TRUE, TRUE)
      \/ RecvConnected(c, side, TRUE, TRUE, TRUE)
  BY DEF Handle
<1>2. QED
  BY <1>1, HangUpLeaves, AckLeaves, HelloLeaves, InitLeaves, AddRegionLeaves, AddRingLeaves,
     DisconnectLeaves, ConnectLeaves, ConnectedLeaves

\* Disconnect and Delete; a channel that is closed already stays as it is.
LEMMA UserLeaves ==
  ASSUME CInv, NEW p \in Procs, ~Requesting(p), NEW c, NEW side,
         c = iface[p].cc, side = SideOf(p), c # None,
         NEW x, Ended(Work(c, side), x),
         NEW r \in Works, r.e = x.e, r.i.cc = x.i.cc, r.i.regions = x.i.regions,
         Commit(c, side, r), UNCHANGED <<owner, pending>>
  PROVE  LeftInv'
<1> DEFINE w == Work(c, side)
<1>1. TypeOK /\ StateInv /\ SlaveInv /\ MasterInv /\ SlaveMapped /\ ClosedInv
  BY DEF CInv, IInv, StateInv, LeftInv
<1>2. c \in Conns /\ side \in Sides /\ owner[c] # None /\ Proc(c, side) = p
  BY <1>1, ChannelFacts
<1>3. w \in Works /\ w.out = <<>> /\ w.i = iface[p] /\ w.e = end[c][side]
  BY <1>1, <1>2, WorkFacts
<1>5. Ended(w, x)
  OBVIOUS
<1> HIDE DEF w
<1>6. /\ x.i.cc \in {w.i.cc, None}
      /\ Unmapped(x.i) => Unmapped(w.i)
      /\ ~w.e.open \/ ~w.e.bound => x.i = w.i
      /\ w.e.open /\ w.e.bound /\ ~x.e.open /\ x.i.cc # None => Unmapped(x.i)
  BY <1>5, EndedFacts
<1>7. Unmapped(r.i) <=> Unmapped(x.i)
  BY DEF Unmapped
<1>8. w.i.cc = c /\ None \notin Conns
  BY <1>3, ControlAssumption
<1>9. ~w.e.open => side = "master" /\ Unmapped(w.i)
  BY <1>1, <1>2, <1>3, <1>8 DEF ClosedInv
<1>10. w.e.open => w.e.bound
  <2>1. CASE side = "slave"
    BY <1>1, <1>2, <1>3, <2>1 DEF SlaveInv
  <2>2. CASE side = "master"
    <3>1. p = Master
      BY <1>2, <2>2 DEF Proc
    <3>2. QED
      BY <1>1, <1>2, <1>3, <2>2, <3>1 DEF MasterInv
  <2>3. QED
    BY <1>2, <2>1, <2>2 DEF Sides
<1>11. side = "slave" => ~Unmapped(w.i) /\ pending[owner[c]] = None
  <2>1. ASSUME side = "slave" PROVE ~Unmapped(w.i) /\ pending[owner[c]] = None
    <3>1. p = owner[c] /\ p \in Slaves /\ p # Master
      BY <1>1, <1>2, <2>1, SideFacts
    <3>2. pending[p] = None
      BY <3>1 DEF Requesting
    <3>3. ~Unmapped(iface[p])
      BY <1>1, <3>1 DEF SlaveMapped
    <3>4. QED
      BY <1>3, <3>1, <3>2, <3>3
  <2>2. QED
    BY <2>1, SMTT(40)
<1>12. r.i.cc = c /\ ~r.e.open => side = "master" /\ Unmapped(r.i)
  <2>1. ASSUME r.i.cc = c, ~r.e.open PROVE Unmapped(x.i)
    BY <1>2, <1>6, <1>8, <1>9, <1>10, <2>1
  <2>2. QED
    BY <1>2, <1>6, <1>7, <1>11, <2>1 DEF Sides
<1>13. side = "slave" => /\ ~Unmapped(r.i) /\ r.i.cc \in {c, None}
                         /\ pending[owner[c]] = None
  BY <1>6, <1>7, <1>8, <1>11
<1>14. side = "master" => r.i.cc \in {c, None} \/ r.i = iface[Master]
  BY <1>6, <1>8
<1>15. QED
  BY <1>2, <1>12, <1>13, <1>14, CommitLeaves

\* Steps that leave channels and regions alone.
LEMMA FrameLeaves ==
  ASSUME CInv, UNCHANGED <<owner, end, pending>>,
         \A p \in Procs : iface'[p].cc = iface[p].cc /\ iface'[p].regions = iface[p].regions
  PROVE  LeftInv'
<1>1. SlaveMapped /\ PendingOpen /\ ClosedInv /\ Slaves \subseteq Procs
  BY DEF CInv, LeftInv, Procs
<1>2. SlaveMapped'
  BY <1>1 DEF SlaveMapped, Unmapped
<1>3. PendingOpen'
  BY <1>1 DEF PendingOpen
<1>4. ClosedInv'
  BY <1>1 DEF ClosedInv, Unmapped
<1>5. QED
  BY <1>2, <1>3, <1>4 DEF LeftInv

LEMMA UserDisconnectLeaves ==
  ASSUME CInv, NEW p \in Procs, UserDisconnect(p, TRUE)
  PROVE  LeftInv'
<1> DEFINE c == iface[p].cc
           side == SideOf(p)
           x == Close(Work(c, side), TRUE, PeerGone(c, side), TRUE)
<1>1. c # None /\ ~Requesting(p) /\ Commit(c, side, x) /\ UNCHANGED <<owner, pending>>
  BY DEF UserDisconnect
<1>2. x \in Works /\ Ended(Work(c, side), x)
  <2>1. StateInv /\ TypeOK
    BY DEF CInv, IInv, StateInv
  <2>2. c \in Conns /\ side \in Sides /\ owner[c] # None /\ PeerGone(c, side) \in BOOLEAN
    BY <1>1, <2>1, ChannelFacts
  <2> HIDE DEF c, side
  <2>3. Work(c, side) \in Works /\ Work(c, side).out = <<>>
    BY <2>1, <2>2, WorkFacts
  <2>4. QED
    BY <2>2, <2>3, CloseOutcome, CloseEnds DEF Outcome
<1>3. QED
  BY <1>1, <1>2, UserLeaves

LEMMA DeleteLeaves ==
  ASSUME CInv, NEW p \in Procs, Delete(p, TRUE)
  PROVE  LeftInv'
<1> DEFINE c == iface[p].cc
           side == SideOf(p)
           x == Close(Work(c, side), TRUE, PeerGone(c, side), TRUE)
           r == [x EXCEPT !.i.listed = FALSE]
<1>1. StateInv /\ TypeOK
  BY DEF CInv, IInv, StateInv
<1>2. CASE c = None
  <2>1. iface' = [iface EXCEPT ![p].listed = FALSE] /\ UNCHANGED <<owner, end, pending>>
    BY <1>2 DEF Delete
  <2>2. \A q \in Procs : iface[q] \in Interfaces
    BY <1>1 DEF TypeOK
  <2>3. ASSUME NEW q \in Procs
        PROVE  iface'[q].cc = iface[q].cc /\ iface'[q].regions = iface[q].regions
    BY <1>1, <2>1, <2>2 DEF TypeOK, Interfaces
  <2>4. QED
    BY <2>1, <2>3, FrameLeaves
<1>3. CASE c # None
  <2>1. ~Requesting(p) /\ Commit(c, side, r) /\ UNCHANGED <<owner, pending>>
    BY <1>3 DEF Delete
  <2>2. c \in Conns /\ side \in Sides /\ owner[c] # None /\ PeerGone(c, side) \in BOOLEAN
    BY <1>1, <1>3, ChannelFacts
  <2>3. x \in Works /\ Ended(Work(c, side), x)
    <3> HIDE DEF c, side
    <3>1. Work(c, side) \in Works /\ Work(c, side).out = <<>>
      BY <1>1, <2>2, WorkFacts
    <3>2. QED
      BY <2>2, <3>1, CloseOutcome, CloseEnds DEF Outcome
  <2> HIDE DEF x
  <2>5. r \in Works /\ r.e = x.e /\ r.i.cc = x.i.cc /\ r.i.regions = x.i.regions
    BY <2>3 DEF Works, Interfaces
  <2> HIDE DEF r
  <2>6. QED
    BY <1>3, <2>1, <2>3, <2>5, UserLeaves
<1>4. QED
  BY <1>2, <1>3

LEMMA RequestReturnsLeaves ==
  ASSUME CInv, NEW s \in Slaves, RequestReturns(s)
  PROVE  LeftInv'
<1>1. TypeOK /\ SlaveMapped /\ PendingOpen /\ ClosedInv
  BY DEF CInv, IInv, StateInv, LeftInv
<1>2. /\ s \in Procs /\ s # Master /\ Slaves \subseteq Procs /\ None \notin Conns
      /\ SideOf(s) = "slave"
  BY ControlAssumption DEF Procs, SideOf
<1>3. /\ pending[s] # None
      /\ iface' = [iface EXCEPT ![s].cc = pending[s]]
      /\ pending' = [pending EXCEPT ![s] = None]
      /\ UNCHANGED <<owner, end>>
  BY DEF RequestReturns
<1>4. /\ \A q \in Procs : iface[q] \in Interfaces
      /\ iface \in [Procs -> Interfaces] /\ pending \in [Slaves -> Conns \cup {None}]
  BY <1>1 DEF TypeOK
<1>5. iface'[s] = [iface[s] EXCEPT !.cc = pending[s]]
      /\ \A q \in Procs \ {s} : iface'[q] = iface[q]
  BY <1>2, <1>3, <1>4
<1>6. iface'[s].cc = pending[s] /\ iface'[s].regions = iface[s].regions
  BY <1>2, <1>4, <1>5 DEF Interfaces
<1>7. SlaveMapped'
  <2>1. ASSUME NEW t \in Slaves PROVE ~Unmapped(iface'[t])
    <3>1. iface'[t].regions = iface[t].regions
      BY <1>2, <1>5, <1>6, <2>1
    <3>2. QED
      BY <1>1, <3>1 DEF SlaveMapped, Unmapped
  <2>2. QED
    BY <2>1 DEF SlaveMapped, Unmapped
<1>8. PendingOpen'
  <2>1. \A t \in Slaves : pending'[t] # None => t # s /\ pending'[t] = pending[t]
    BY <1>3, <1>4
  <2>2. QED
    BY <1>1, <1>3, <2>1 DEF PendingOpen
<1>9. ClosedInv'
  <2>1. ASSUME NEW q \in Procs, iface'[q].cc # None, ~end[iface'[q].cc][SideOf(q)].open
        PROVE  SideOf(q) = "master" /\ Unmapped(iface'[q])
    <3>1. q # s
      BY <1>1, <1>2, <1>3, <1>6, <2>1 DEF PendingOpen
    <3>2. iface'[q] = iface[q]
      BY <1>5, <3>1
    <3>3. QED
      BY <1>1, <2>1, <3>2 DEF ClosedInv
  <2>2. QED
    BY <1>3, <2>1 DEF ClosedInv, Unmapped
<1>10. QED
  BY <1>7, <1>8, <1>9 DEF LeftInv

LEMMA RequestLeaves ==
  ASSUME CInv, NEW s \in Slaves, NEW c \in Conns, RequestConnection(s, c)
  PROVE  LeftInv'
<1>1. TypeOK /\ StateInv /\ SlaveInv /\ SlaveMapped /\ PendingOpen /\ ClosedInv
  BY DEF CInv, IInv, StateInv, LeftInv
<1>2. owner[c] = None /\ iface' = iface /\ Opened.open /\ end'[c].slave = Opened
  BY <1>1, RequestView, ZenonT(60)
<1>3. \A d \in Conns \ {c} : end'[d] = end[d]
  BY <1>1, RequestView
<1>4. pending'[s] = c /\ \A t \in Slaves \ {s} : pending'[t] = pending[t]
  BY <1>1, RequestView
<1>5. None \notin Conns /\ None \notin Slaves
  BY ControlAssumption DEF Procs
<1>6. SlaveMapped'
  BY <1>1, <1>2 DEF SlaveMapped, Unmapped
<1>7. PendingOpen'
  <2>1. ASSUME NEW t \in Slaves, pending'[t] # None PROVE end'[pending'[t]].slave.open
    <3>1. CASE t = s
      BY <1>2, <1>4, <3>1
    <3>2. CASE t # s
      <4>1. pending'[t] = pending[t]
        BY <1>4, <3>2
      <4>2. pending[t] \in Conns /\ owner[pending[t]] = t /\ end[pending[t]].slave.open
        BY <1>1, <2>1, <4>1, ZenonT(60) DEF TypeOK, SlaveInv, PendingOpen
      <4>3. pending[t] # c
        BY <1>2, <1>5, <4>2
      <4>4. QED
        BY <1>3, <4>1, <4>2, <4>3
    <3>3. QED
      BY <3>1, <3>2
  <2>2. QED
    BY <2>1 DEF PendingOpen
<1>8. ClosedInv'
  <2>1. ASSUME NEW q \in Procs, iface[q].cc # None, ~end'[iface[q].cc][SideOf(q)].open
        PROVE  SideOf(q) = "master" /\ Unmapped(iface[q])
    <3>1. iface[q].cc \in Conns /\ owner[iface[q].cc] # None
      BY <1>1, <2>1, ChannelFacts
    <3>2. end'[iface[q].cc] = end[iface[q].cc]
      BY <1>2, <1>3, <3>1
    <3>3. QED
      BY <1>1, <2>1, <3>2 DEF ClosedInv
  <2>2. QED
    BY <1>2, <2>1 DEF ClosedInv, Unmapped
<1>9. QED
  BY <1>6, <1>7, <1>8 DEF LeftInv

LEMMA AcceptLeaves ==
  ASSUME CInv, Accept, NEW c \in Conns, c = Head(backlog)
  PROVE  LeftInv'
<1> DEFINE u == Work(c, "master")
           w == [u EXCEPT !.e.open = TRUE]
           v == Enqueue(w, <<HelloMsg>>)
           gone == PeerGone(c, "master")
           r == SendMsg(v, gone)
<1>1. TypeOK /\ BacklogInv
  BY DEF CInv, IInv, StateInv
<1>2. backlog # <<>> /\ backlog' = Tail(backlog)
  BY DEF Accept
<1>3. Commit(c, "master", r) /\ UNCHANGED <<owner, pending>>
  BY DEF Accept
<1>4. InBacklog(c)
  BY <1>1, <1>2, BacklogTail
<1>5. owner[c] # None /\ ~end[c].master.bound
  BY <1>1, <1>4 DEF BacklogInv
<1>6. "master" \in Sides /\ Proc(c, "master") = Master
  BY DEF Sides, Proc
<1>7. u \in Works /\ u.out = <<>> /\ u.i = iface[Master] /\ u.e = end[c].master
  BY <1>1, <1>5, <1>6, WorkFacts
<1>8. gone \in BOOLEAN
  BY <1>1, <1>6 DEF TypeOK, PeerGone, Sides, Other, Ends
<1> HIDE DEF u, gone
<1>9. /\ w \in Works /\ w.out = <<>> /\ w.i = u.i /\ w.e.open /\ w.e.bound = u.e.bound
  BY <1>7 DEF Works, Ends
<1> HIDE DEF w
<1>10. /\ v \in Works /\ v.i = w.i /\ v.out = w.out
       /\ v.e.open = w.e.open /\ v.e.bound = w.e.bound
  <2>1. <<HelloMsg>> \in Seq(Messages)
    BY MessageKinds
  <2>2. QED
    BY <1>9, <2>1, EnqueueFacts
<1> HIDE DEF v
<1>11. r \in Works /\ r.i = v.i /\ r.e.open = v.e.open
  BY <1>8, <1>9, <1>10, SendMsgSends
<1>12. Ended(v, r)
  BY <1>11 DEF Ended
<1>13. v.e.bound = FALSE /\ v.e.open
  BY <1>5, <1>7, <1>9, <1>10 DEF Works, Ends
<1> HIDE DEF r
<1>14. QED
  BY <1>3, <1>5, <1>6, <1>7, <1>9, <1>10, <1>11, <1>12, <1>13, EndingLeaves

LEMMA CInvInit == Init => CInv
<1> SUFFICES ASSUME Init PROVE CInv
  OBVIOUS
<1>1. IInv
  BY InitInv
<1>2. NewInterface.cc = None /\ ~Unmapped(NewInterface)
  BY NoMessages DEF NewInterface, Unmapped
<1>3. /\ \A p \in Procs : iface[p] = NewInterface
      /\ \A s \in Slaves : pending[s] = None
      /\ Slaves \subseteq Procs
  BY DEF Init, Procs
<1>4. LeftInv
  BY <1>2, <1>3 DEF LeftInv, SlaveMapped, PendingOpen, ClosedInv
<1>5. QED
  BY <1>1, <1>4 DEF CInv

LEMMA CInvNext ==
  ASSUME Results = {TRUE}, ~ConcurrentRequests
  PROVE  CInv /\ [Next]_vars => CInv'
<1> SUFFICES ASSUME CInv, [Next]_vars PROVE CInv'
  OBVIOUS
<1>1. IInv'
  BY NextInv DEF CInv
<1>2. CASE User
  BY <1>1, <1>2, RequestLeaves, RequestReturnsLeaves, UserDisconnectLeaves, DeleteLeaves
  DEF User, CInv
<1>3. CASE Accept
  <2>1. Head(backlog) \in Conns
    BY <1>3, OneLess DEF Accept, CInv, IInv, StateInv, TypeOK
  <2>2. QED
    BY <1>1, <1>3, <2>1, AcceptLeaves DEF CInv
<1>4. CASE \E c \in Conns, side \in Sides : Handle(c, side)
  BY <1>1, <1>4, HandleLeaves DEF CInv
<1>5. CASE \E p \in Procs : Crash(p)
  BY <1>1, <1>5, ExitLeaves DEF CInv, Crash
<1>6. CASE (\E s \in Slaves : Restart(s)) \/ UNCHANGED vars
  <2>1. iface' = iface /\ UNCHANGED <<owner, end, pending>>
    BY <1>6 DEF Restart, vars
  <2>2. QED
    BY <1>1, <2>1, FrameLeaves DEF CInv
<1>7. QED
  BY <1>2, <1>3, <1>4, <1>5, <1>6 DEF Next

-----------------------------------------------------------------------------
(* The theorem. *)

LEMMA ClosedHolds == CInv => ClosedOnlyUnmapped
<1> SUFFICES ASSUME CInv, NEW p \in Procs, iface[p].cc # None,
                    ~end[iface[p].cc][SideOf(p)].open
             PROVE  p = Master /\ \E r \in DOMAIN iface[p].regions : ~iface[p].regions[r]
  BY DEF ClosedOnlyUnmapped, IsConnecting
<1>1. SideOf(p) = "master" /\ Unmapped(iface[p])
  BY DEF CInv, LeftInv, ClosedInv
<1>2. QED
  BY <1>1 DEF SideOf, Unmapped

\* Where callbacks and system calls succeed and polling does not run into
\* RequestConnection, close disconnects the interface of the channel, whoever
\* closes, crashes or calls Disconnect and Delete: what keeps a closed channel is
\* a master with a region that Munmap refuses because connect never mapped it.
THEOREM ClosedOnlyUnmappedAlways ==
  ASSUME Results = {TRUE}, ~ConcurrentRequests
  PROVE  Spec => []ClosedOnlyUnmapped
<1>1. CInv /\ [Next]_vars => CInv'
  BY CInvNext
<1>2. QED
  BY <1>1, CInvInit, ClosedHolds, PTL DEF Spec

=============================================================================
