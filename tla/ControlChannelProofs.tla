------------------------ MODULE ControlChannelProofs ------------------------
(***************************************************************************)
(* Theorems about the control plane, for any number of slaves, connections *)
(* and rings: a master interface serves one channel at a time, no message  *)
(* arrives on a channel that has no interface yet, and an interface        *)
(* without a channel holds nothing.                                        *)
(*                                                                         *)
(* A handler takes a work record w to an outcome r of its end, by SendMsg  *)
(* or Close, and commits it; Outcome says what every one of them does to   *)
(* the interface, the channel and the messages, and the lemmas about       *)
(* Commit are proved from it, once for all handlers.                       *)
(***************************************************************************)
EXTENDS ControlChannel, SequenceTheorems, FiniteSetTheorems, TLAPS

-----------------------------------------------------------------------------
(* The invariant. *)

Owned == {d \in Conns : owner[d] # None}

InBacklog(c) == \E k \in DOMAIN backlog : backlog[k] = c

\* Connections are made in the order of their numbers.
OwnerInv ==
  /\ \E n \in 0 .. MaxConns : Owned = 1 .. n
  /\ \A c \in Conns : owner[c] = None => end[c] = [side \in Sides |-> NewEnd]

\* The end that an application that has exited held is closed.
GoneInv == \A c \in Conns, side \in Sides : end[c][side].gone => ~end[c][side].open

\* The listener accepts a connection once.
BacklogInv ==
  /\ \A c \in Conns :
       InBacklog(c) => /\ owner[c] # None
                       /\ ~end[c].master.open /\ ~end[c].master.bound /\ ~end[c].master.gone
  /\ \A j, k \in DOMAIN backlog : backlog[j] = backlog[k] => j = k

\* The channel of a slave is one it has made, and an open one is the one it
\* has or is about to have.
SlaveInv ==
  /\ \A s \in Slaves :
       /\ iface[s].cc # None => owner[iface[s].cc] = s
       /\ pending[s] # None => owner[pending[s]] = s /\ iface[s].cc = None
  /\ \A c \in Conns :
       end[c].slave.open =>
         /\ end[c].slave.bound
         /\ iface[owner[c]].cc = c \/ pending[owner[c]] = c

\* The channel of the master interface belongs to a connection, and Init has
\* bound it.
MasterInv ==
  iface[Master].cc # None => /\ owner[iface[Master].cc] # None
                             /\ end[iface[Master].cc].master.bound

StateInv ==
  /\ TypeOK /\ OwnerInv /\ GoneInv /\ BacklogInv /\ SlaveInv /\ MasterInv
  /\ OneChannelPerInterface /\ NothingLeaks

\* What each side sends.
ToSlave  == {"Hello", "Ack", "Connected", "Disconnect"}
ToMaster == {"Init", "AddRegion", "AddRing", "Connect", "Disconnect"}

Only(q, types) == \A k \in DOMAIN q : q[k].type \in types

\* Messages about the interface, and the one that binds the channel to it.
Needy == {"AddRegion", "AddRing", "Connect"}

HasInit(q) == \E k \in DOMAIN q : q[k].type = "Init"

InitLeads(q) ==
  \A k \in DOMAIN q :
    q[k].type \in Needy => \E j \in DOMAIN q : j < k /\ q[j].type = "Init"

Kinds(c) ==
  /\ Only(end[c].slave.inbox, ToSlave) /\ Only(end[c].master.msgQueue, ToSlave)
  /\ Only(end[c].master.inbox, ToMaster) /\ Only(end[c].slave.msgQueue, ToMaster)

\* Until a channel is bound, whatever needs its interface is on the way behind
\* an Init.
InitFirst(c) ==
  ~end[c].master.bound /\ (end[c].master.open \/ InBacklog(c)) =>
    /\ InitLeads(end[c].master.inbox)
    /\ HasInit(end[c].master.inbox) \/ InitLeads(end[c].slave.msgQueue)

MessageInv ==
  /\ \A c \in Conns : Kinds(c) /\ InitFirst(c)
  /\ NoMessagePanic

IInv == StateInv /\ MessageInv

-----------------------------------------------------------------------------
(* Sequences of messages. *)

LEMMA NoMessages == \A S : <<>> \in Seq(S) /\ DOMAIN <<>> = {}
OBVIOUS

LEMMA OnlyEmpty == \A types : Only(<<>>, types)
BY DEF Only

LEMMA OnlyOne == ASSUME NEW m, NEW types, m.type \in types
                 PROVE  Only(<<m>>, types)
BY DEF Only

LEMMA OnlyConcat ==
  ASSUME NEW p \in Seq(Messages), NEW q \in Seq(Messages), NEW types,
         Only(p, types), Only(q, types)
  PROVE  Only(p \o q, types)
<1>1. SUFFICES ASSUME NEW k \in 1 .. Len(p) + Len(q)
               PROVE  (p \o q)[k].type \in types
  BY DEF Only
<1>2. CASE k <= Len(p)
  BY <1>2 DEF Only
<1>3. CASE k > Len(p)
  <2>1. (p \o q)[k] = q[k - Len(p)] /\ k - Len(p) \in DOMAIN q
    BY <1>3
  <2>2. QED
    BY <2>1 DEF Only
<1>4. QED
  BY <1>2, <1>3

LEMMA OnlyRest ==
  ASSUME NEW q \in Seq(Messages), NEW types, Only(q, types), q # <<>>
  PROVE  Head(q).type \in types /\ Only(Tail(q), types)
<1>1. Head(q) = q[1] /\ 1 \in DOMAIN q
  OBVIOUS
<1>2. \A k \in DOMAIN Tail(q) : Tail(q)[k] = q[k + 1] /\ k + 1 \in DOMAIN q
  OBVIOUS
<1>3. QED
  BY <1>1, <1>2 DEF Only

LEMMA InitLeadsEmpty == InitLeads(<<>>)
BY DEF InitLeads

LEMMA InitLeadsOne == ASSUME NEW m, m.type \notin Needy
                      PROVE  InitLeads(<<m>>)
BY DEF InitLeads

LEMMA HasInitConcat ==
  ASSUME NEW p \in Seq(Messages), NEW q \in Seq(Messages), HasInit(p) \/ HasInit(q)
  PROVE  HasInit(p \o q)
<1>1. CASE HasInit(p)
  <2>1. PICK k \in DOMAIN p : p[k].type = "Init"
    BY <1>1 DEF HasInit
  <2>2. (p \o q)[k] = p[k] /\ k \in DOMAIN (p \o q)
    OBVIOUS
  <2>3. QED
    BY <2>1, <2>2 DEF HasInit
<1>2. CASE HasInit(q)
  <2>1. PICK k \in DOMAIN q : q[k].type = "Init"
    BY <1>2 DEF HasInit
  <2>2. (p \o q)[Len(p) + k] = q[k] /\ Len(p) + k \in DOMAIN (p \o q)
    OBVIOUS
  <2>3. QED
    BY <2>1, <2>2 DEF HasInit
<1>3. QED
  BY <1>1, <1>2

LEMMA InitLeadsConcat ==
  ASSUME NEW p \in Seq(Messages), NEW q \in Seq(Messages),
         InitLeads(p), HasInit(p) \/ InitLeads(q)
  PROVE  InitLeads(p \o q)
<1> DEFINE s == p \o q
<1>1. /\ DOMAIN s = 1 .. Len(p) + Len(q)
      /\ DOMAIN p = 1 .. Len(p) /\ DOMAIN q = 1 .. Len(q)
      /\ Len(p) \in Nat /\ Len(q) \in Nat
      /\ \A k \in 1 .. Len(p) : s[k] = p[k]
      /\ \A k \in 1 .. Len(q) : s[Len(p) + k] = q[k]
  OBVIOUS
<1> HIDE DEF s
<1>2. SUFFICES ASSUME NEW k \in DOMAIN s, s[k].type \in Needy
               PROVE  \E j \in DOMAIN s : j < k /\ s[j].type = "Init"
  BY DEF InitLeads, s
<1>3. CASE k <= Len(p)
  <2>1. PICK j \in DOMAIN p : j < k /\ p[j].type = "Init"
    BY <1>1, <1>2, <1>3 DEF InitLeads
  <2>2. QED
    BY <1>1, <2>1
<1>4. CASE k > Len(p) /\ HasInit(p)
  <2>1. PICK j \in DOMAIN p : p[j].type = "Init"
    BY <1>4 DEF HasInit
  <2>2. QED
    BY <1>1, <1>4, <2>1
<1>5. CASE k > Len(p) /\ InitLeads(q)
  <2>1. k - Len(p) \in DOMAIN q /\ s[k] = q[k - Len(p)]
    <3>1. k - Len(p) \in 1 .. Len(q) /\ Len(p) + (k - Len(p)) = k
      BY <1>1, <1>5
    <3>2. QED
      BY <1>1, <3>1
  <2>2. PICK j \in DOMAIN q : j < k - Len(p) /\ q[j].type = "Init"
    BY <1>2, <1>5, <2>1 DEF InitLeads
  <2>3. Len(p) + j \in DOMAIN s /\ Len(p) + j < k /\ s[Len(p) + j] = q[j]
    BY <1>1, <2>2
  <2>4. QED
    BY <2>2, <2>3
<1>6. QED
  BY <1>1, <1>3, <1>4, <1>5

LEMMA InitLeadsRest ==
  ASSUME NEW q \in Seq(Messages), InitLeads(q), q # <<>>
  PROVE  /\ Head(q).type \notin Needy
         /\ Head(q).type # "Init" => InitLeads(Tail(q))
<1>1. /\ Head(q) = q[1] /\ DOMAIN q = 1 .. Len(q) /\ Len(q) \in Nat \ {0}
      /\ DOMAIN Tail(q) = 1 .. Len(q) - 1
      /\ \A k \in 1 .. Len(q) - 1 : Tail(q)[k] = q[k + 1]
  OBVIOUS
<1>2. Head(q).type \notin Needy
  BY <1>1 DEF InitLeads
<1>3. ASSUME Head(q).type # "Init", NEW k \in DOMAIN Tail(q), Tail(q)[k].type \in Needy
      PROVE  \E j \in DOMAIN Tail(q) : j < k /\ Tail(q)[j].type = "Init"
  <2>1. PICK j \in DOMAIN q : j < k + 1 /\ q[j].type = "Init"
    BY <1>1, <1>3 DEF InitLeads
  <2>2. j # 1
    BY <1>1, <1>3, <2>1
  <2>3. j - 1 \in DOMAIN Tail(q) /\ j - 1 < k /\ Tail(q)[j - 1] = q[(j - 1) + 1]
    BY <1>1, <2>1, <2>2
  <2>4. (j - 1) + 1 = j
    BY <1>1, <2>1
  <2>5. QED
    BY <2>1, <2>3, <2>4
<1>4. QED
  BY <1>2, <1>3 DEF InitLeads

-----------------------------------------------------------------------------
(* What handlers do to a work record. *)

Works == [i : Interfaces, e : Ends, out : Seq(Messages), ok : BOOLEAN]

Empty(i) == i.tx = <<>> /\ i.rx = <<>> /\ i.regions = <<>>

Kept(w, r) ==
  /\ r.i.cc = w.i.cc /\ r.i.tx = w.i.tx /\ r.i.rx = w.i.rx
  /\ r.i.regions = w.i.regions

\* disconnect has done its work, or part of it.
TakenDown(w, r) ==
  /\ w.e.open /\ w.e.bound /\ ~r.e.open
  /\ \/ r.i.cc = w.i.cc /\ w.i.cc # None
     \/ r.i.cc = None /\ Empty(r.i)

Untold(w, r) == r.e.msgQueue = w.e.msgQueue /\ r.out = w.out

\* At most one message is sent: the next one in the queue, or Disconnect
\* instead of all that was in it.  The next one is lost when the peer is gone or
\* the message's descriptor cannot be passed.
Sent(w, r, peerGone) ==
  \/ Untold(w, r)
  \/ r.out = <<>> /\ r.e.msgQueue = <<>>
  \/ /\ w.e.msgQueue # <<>> /\ r.e.msgQueue = Tail(w.e.msgQueue)
     /\ \/ r.out = <<Head(w.e.msgQueue)>>
        \/ r.out = <<>> /\ (peerGone \/ CarriesFd(Head(w.e.msgQueue)))
  \/ r.e.msgQueue = <<>> /\ r.out = <<Plain("Disconnect")>>

Outcome(w, r, peerGone) ==
  /\ r \in Works
  /\ r.e.bound = w.e.bound /\ r.e.inbox = w.e.inbox /\ r.e.gone = w.e.gone
  /\ r.e.open => w.e.open
  /\ Kept(w, r) \/ TakenDown(w, r)
  /\ Sent(w, r, peerGone)

LEMMA DisconnectIsMessage == Plain("Disconnect") \in Messages
BY DEF Messages, Plain

\* sendMsg works on the queue of the channel only.
LEMMA SendMsgOutcome ==
  ASSUME NEW w \in Works, NEW peerGone \in BOOLEAN, w.out = <<>>
  PROVE  LET r == SendMsg(w, peerGone) IN
         /\ r \in Works /\ Sent(w, r, peerGone) /\ r.i = w.i
         /\ r.e = [w.e EXCEPT !.msgQueue = r.e.msgQueue]
<1> DEFINE q == w.e.msgQueue
           v == [w EXCEPT !.e.msgQueue = Tail(@)]
           x == [v EXCEPT !.out = Append(@, Head(q))]
<1>1. q \in Seq(Messages) /\ w.e \in Ends
  BY DEF Works, Ends
<1>2. CASE q = <<>>
  BY <1>1, <1>2 DEF SendMsg, Sent, Untold, Ends
<1>3. CASE q # <<>>
  <2>1. Tail(q) \in Seq(Messages) /\ Head(q) \in Messages /\ <<Head(q)>> \in Seq(Messages)
    BY <1>1, <1>3
  <2>2. /\ v \in Works /\ v.e.msgQueue = Tail(q) /\ v.i = w.i /\ v.out = <<>>
        /\ v.e = [w.e EXCEPT !.msgQueue = v.e.msgQueue]
    BY <1>1, <2>1 DEF Works, Ends
  <2>3. /\ Fail(v) \in Works /\ Fail(v).e = v.e /\ Fail(v).i = v.i /\ Fail(v).out = <<>>
    BY <2>2 DEF Works, Fail
  <2>4. Append(<<>>, Head(q)) = <<Head(q)>>
    OBVIOUS
  <2>5. x \in Works /\ x.e = v.e /\ x.i = v.i /\ x.out = <<Head(q)>>
    BY <2>1, <2>2, <2>4 DEF Works
  <2>6. \/ SendMsg(w, peerGone) = Fail(v) /\ (peerGone \/ CarriesFd(Head(q)))
        \/ SendMsg(w, peerGone) = x
    BY <1>3 DEF SendMsg
  <2> HIDE DEF v, x
  <2>7. QED
    BY <1>3, <2>2, <2>3, <2>5, <2>6 DEF Sent
<1>4. QED
  BY <1>2, <1>3

\* Interface.disconnect lets go of all or keeps the channel.
LEMMA DisconnectOutcome ==
  ASSUME NEW w \in Works, NEW good \in BOOLEAN
  PROVE  LET r == Disconnect(w, good) IN
         /\ r \in Works /\ r.e = w.e /\ r.out = w.out
         /\ \/ r.i = w.i
            \/ r.i.cc = w.i.cc /\ w.i.cc # None
            \/ r.i.cc = None /\ Empty(r.i)
<1> DEFINE told     == [w EXCEPT !.i.told = "down"]
           noQueues == [told EXCEPT !.i.tx = <<>>, !.i.rx = <<>>]
           cleared  == [noQueues EXCEPT !.i = Cleared(@)]
<1>1. <<>> \in Seq(RingIds) /\ <<>> \in Seq(BOOLEAN)
  OBVIOUS
<1>2. told \in Works /\ told.e = w.e /\ told.out = w.out /\ told.i.cc = w.i.cc
  BY DEF Works, Interfaces
<1>3. /\ noQueues \in Works /\ noQueues.e = w.e /\ noQueues.out = w.out
      /\ noQueues.i.cc = w.i.cc /\ noQueues.i.tx = <<>> /\ noQueues.i.rx = <<>>
  BY <1>1, <1>2 DEF Works, Interfaces
<1>4. /\ cleared \in Works /\ cleared.e = w.e /\ cleared.out = w.out
      /\ cleared.i.cc = None /\ Empty(cleared.i)
  BY <1>1, <1>3 DEF Works, Interfaces, Cleared, Empty
<1>5. \A v \in Works : /\ Fail(v) \in Works /\ Fail(v).e = v.e /\ Fail(v).out = v.out
                       /\ Fail(v).i = v.i
  BY DEF Works, Fail
<1>6. \/ Disconnect(w, good) \in {w, cleared}
      \/ w.i.cc # None /\ Disconnect(w, good) \in {Fail(told), Fail(noQueues)}
  BY DEF Disconnect
<1> HIDE DEF told, noQueues, cleared
<1>7. QED
  BY <1>2, <1>3, <1>4, <1>5, <1>6

\* What close is to send, if anything.
Farewell(w, sendMsg, peerGone) ==
  IF sendMsg THEN SendMsg([w EXCEPT !.e.msgQueue = <<Plain("Disconnect")>>], peerGone)
             ELSE w

LEMMA FarewellOutcome ==
  ASSUME NEW w \in Works, NEW sendMsg \in BOOLEAN, NEW peerGone \in BOOLEAN, w.out = <<>>
  PROVE  LET r == Farewell(w, sendMsg, peerGone) IN
         /\ r \in Works /\ Sent(w, r, peerGone) /\ r.i = w.i
         /\ r.e.open = w.e.open /\ r.e.bound = w.e.bound /\ r.e.inbox = w.e.inbox
         /\ r.e.gone = w.e.gone
         /\ ~sendMsg => r = w
         /\ w.ok /\ ~peerGone => r.ok
<1> DEFINE bye == <<Plain("Disconnect")>>
           u   == [w EXCEPT !.e.msgQueue = bye]
<1>1. CASE ~sendMsg
  BY <1>1 DEF Farewell, Sent, Untold
<1>2. CASE sendMsg
  <2>1. bye \in Seq(Messages) /\ bye # <<>> /\ Head(bye) = Plain("Disconnect")
        /\ Tail(bye) = <<>> /\ Append(<<>>, Head(bye)) = bye
    BY DisconnectIsMessage
  <2>2. /\ u \in Works /\ u.out = <<>> /\ u.i = w.i /\ u.e.msgQueue = bye /\ u.ok = w.ok
        /\ u.e.open = w.e.open /\ u.e.bound = w.e.bound /\ u.e.inbox = w.e.inbox
        /\ u.e.gone = w.e.gone
    BY <2>1 DEF Works, Ends
  <2>4. ~CarriesFd(Head(bye))
    BY <2>1 DEF CarriesFd, Plain
  <2> HIDE DEF u, bye
  <2> DEFINE v == [u EXCEPT !.e.msgQueue = Tail(@)]
             r == SendMsg(u, peerGone)
  <2>3. Farewell(w, sendMsg, peerGone) = r
    BY <1>2 DEF Farewell, u, bye
  <2>5. r \in Works /\ r.i = u.i /\ r.e = [u.e EXCEPT !.msgQueue = r.e.msgQueue]
    BY <2>2, SendMsgOutcome
  <2>6. /\ r.e.open = w.e.open /\ r.e.bound = w.e.bound /\ r.e.inbox = w.e.inbox
        /\ r.e.gone = w.e.gone
    BY <2>2, <2>5 DEF Works, Ends
  <2>7. r = IF peerGone THEN Fail(v) ELSE [v EXCEPT !.out = Append(@, Head(bye))]
    BY <2>1, <2>2, <2>4 DEF SendMsg
  <2>8. /\ v \in Works /\ v.e.msgQueue = <<>> /\ v.out = <<>> /\ v.ok = w.ok
    BY <2>1, <2>2 DEF Works, Ends
  <2>9. CASE peerGone
    <3>1. r.e.msgQueue = <<>> /\ r.out = <<>>
      BY <2>7, <2>8, <2>9 DEF Fail, Works
    <3>2. Sent(w, r, peerGone)
      BY <3>1 DEF Sent
    <3> HIDE DEF r
    <3>3. QED
      BY <1>2, <2>2, <2>5, <2>6, <2>9, <2>3, <3>2
  <2>10. CASE ~peerGone
    <3>1. r.e.msgQueue = <<>> /\ r.out = bye /\ r.ok = w.ok
      BY <2>1, <2>7, <2>8, <2>10 DEF Works
    <3>2. Sent(w, r, peerGone)
      BY <3>1 DEF Sent, bye
    <3> HIDE DEF r
    <3>3. QED
      BY <1>2, <2>2, <2>5, <2>6, <2>10, <2>3, <3>1, <3>2
  <2>11. QED
    BY <2>9, <2>10
<1>3. QED
  BY <1>1, <1>2

\* controlChannel.close.  It leaves the channel open only when the message could
\* not be sent.
LEMMA CloseOutcome ==
  ASSUME NEW w \in Works, NEW sendMsg \in BOOLEAN, NEW peerGone \in BOOLEAN,
         NEW good \in BOOLEAN, w.out = <<>>
  PROVE  LET r == Close(w, sendMsg, peerGone, good) IN
         /\ Outcome(w, r, peerGone)
         /\ ~sendMsg => Untold(w, r)
         /\ w.ok /\ (sendMsg => ~peerGone) => ~r.e.open
<1> DEFINE sent   == Farewell(w, sendMsg, peerGone)
           closed == [sent EXCEPT !.e.open = FALSE]
           r      == Close(w, sendMsg, peerGone, good)
<1>1. /\ sent \in Works /\ Sent(w, sent, peerGone) /\ sent.i = w.i
      /\ sent.e.open = w.e.open /\ sent.e.bound = w.e.bound /\ sent.e.inbox = w.e.inbox
      /\ sent.e.gone = w.e.gone
      /\ ~sendMsg => sent = w
      /\ w.ok /\ ~peerGone => sent.ok
  BY FarewellOutcome
<1>2. /\ closed \in Works /\ closed.i = w.i /\ closed.out = sent.out
      /\ closed.e.msgQueue = sent.e.msgQueue
      /\ ~closed.e.open /\ closed.e.bound = w.e.bound /\ closed.e.inbox = w.e.inbox
      /\ closed.e.gone = w.e.gone
  BY <1>1 DEF Works, Ends
<1>3. r = CASE ~sent.ok -> sent
            [] sent.ok /\ ~sent.e.open -> Fail(sent)
            [] sent.ok /\ sent.e.open /\ ~w.e.bound -> closed
            [] OTHER -> Disconnect(closed, good)
  BY DEF Close, Farewell
<1>4. /\ Fail(sent) \in Works /\ Fail(sent).i = w.i /\ Fail(sent).e = sent.e
      /\ Fail(sent).out = sent.out
  BY <1>1 DEF Works, Fail
<1>5. \A x : Untold(sent, x) => Sent(w, x, peerGone) /\ (~sendMsg => Untold(w, x))
  BY <1>1 DEF Sent, Untold
<1>6. CASE r = sent /\ ~sent.ok
  BY <1>1, <1>5, <1>6 DEF Outcome, Kept, Untold
<1>7. CASE r = Fail(sent) /\ ~sent.e.open
  BY <1>1, <1>4, <1>5, <1>7 DEF Outcome, Kept, Untold
<1>8. CASE r = closed /\ sent.e.open
  BY <1>1, <1>2, <1>5, <1>8 DEF Outcome, Kept, Untold
<1>9. CASE r = Disconnect(closed, good) /\ sent.e.open /\ w.e.bound
  <2>1. /\ r \in Works /\ r.e = closed.e /\ r.out = closed.out
        /\ \/ r.i = w.i
           \/ r.i.cc = w.i.cc /\ w.i.cc # None
           \/ r.i.cc = None /\ Empty(r.i)
    <3> HIDE DEF r, closed
    <3>1. closed \in Works /\ closed.i = w.i /\ r = Disconnect(closed, good)
      BY <1>2, <1>9
    <3> DEFINE d == Disconnect(closed, good)
    <3>2. /\ d \in Works /\ d.e = closed.e /\ d.out = closed.out
          /\ \/ d.i = closed.i
             \/ d.i.cc = closed.i.cc /\ closed.i.cc # None
             \/ d.i.cc = None /\ Empty(d.i)
      BY <3>1, DisconnectOutcome
    <3>3. r = d
      BY <3>1
    <3> HIDE DEF d
    <3>4. QED
      BY <3>1, <3>2, <3>3
  <2>2. Kept(w, r) \/ TakenDown(w, r)
    BY <1>1, <1>2, <1>9, <2>1 DEF Kept, TakenDown
  <2>3. QED
    BY <1>1, <1>2, <1>5, <2>1, <2>2 DEF Outcome, Untold
<1>10. QED
  BY <1>3, <1>6, <1>7, <1>8, <1>9

\* The end of a handler.
Finished(c, side, w, good) ==
  IF w.ok THEN SendMsg(w, PeerGone(c, side))
          ELSE Close([w EXCEPT !.ok = TRUE], TRUE, PeerGone(c, side), good)

LEMMA FinishedOutcome ==
  ASSUME TypeOK, NEW c \in Conns, NEW side \in Sides, NEW w \in Works, NEW good \in BOOLEAN,
         w.out = <<>>
  PROVE  LET r == Finished(c, side, w, good) IN
         /\ Outcome(w, r, PeerGone(c, side))
         /\ ~w.ok /\ ~PeerGone(c, side) => ~r.e.open
<1> DEFINE gone == PeerGone(c, side)
           v == [w EXCEPT !.ok = TRUE]
           r == Finished(c, side, w, good)
<1>1. gone \in BOOLEAN
  BY DEF TypeOK, PeerGone, Sides, Other, Ends
<1>2. v \in Works /\ v.i = w.i /\ v.e = w.e /\ v.out = w.out /\ v.ok
  BY DEF Works
<1>3. r = IF w.ok THEN SendMsg(w, gone) ELSE Close(v, TRUE, gone, good)
  BY DEF Finished
<1> HIDE DEF gone, v, r
<1>4. CASE w.ok
  <2>1. /\ r \in Works /\ Sent(w, r, gone) /\ r.i = w.i
        /\ r.e = [w.e EXCEPT !.msgQueue = r.e.msgQueue]
    BY <1>1, <1>3, <1>4, SendMsgOutcome
  <2>2. /\ r.e.open = w.e.open /\ r.e.bound = w.e.bound /\ r.e.inbox = w.e.inbox
        /\ r.e.gone = w.e.gone
    BY <2>1 DEF Works, Ends
  <2>3. Outcome(w, r, gone)
    BY <2>1, <2>2 DEF Outcome, Kept
  <2>4. QED
    BY <1>4, <2>3 DEF gone, r
<1>5. CASE ~w.ok
  <2>1. Outcome(v, r, gone) /\ (~gone => ~r.e.open)
    BY <1>1, <1>2, <1>3, <1>5, CloseOutcome
  <2>2. Outcome(w, r, gone)
    BY <1>2, <2>1 DEF Outcome, Kept, TakenDown, Sent, Untold
  <2>3. QED
    BY <2>1, <2>2 DEF gone, r
<1>6. QED
  BY <1>4, <1>5

-----------------------------------------------------------------------------
(* What a step does to the state once its outcome is committed. *)

\* A work record that handlers and calls start from: that of the channel, which
\* the listener may have opened or Init bound, with the interface it may change
\* when the channel is open and bound.
Prepared(c, side, w) ==
  LET i == iface[Proc(c, side)]
      e == end[c][side]
  IN  /\ c \in Conns /\ side \in Sides /\ owner[c] # None
      /\ w \in Works /\ w.out = <<>>
      /\ w.e.gone = e.gone
      /\ w.e.open => e.open \/ (side = "master" /\ ~w.e.bound /\ InBacklog(c))
      /\ \/ w.i.cc = i.cc /\ w.e.bound = e.bound
         \/ side = "master" /\ i.cc = None /\ w.i.cc = c /\ w.e.bound /\ e.open
      /\ \/ w.i.tx = i.tx /\ w.i.rx = i.rx /\ w.i.regions = i.regions
         \/ e.open /\ w.e.bound

LEMMA SideFacts ==
  ASSUME TypeOK, NEW c \in Conns, NEW side \in Sides, owner[c] # None
  PROVE  /\ Proc(c, side) \in Procs /\ Other(side) \in Sides /\ Other(side) # side
         /\ SideOf(Proc(c, side)) = side
         /\ side = "master" => Proc(c, side) = Master /\ Other(side) = "slave"
         /\ side = "slave" => /\ Proc(c, side) = owner[c] /\ owner[c] \in Slaves
                              /\ Other(side) = "master" /\ Proc(c, side) # Master
BY ControlAssumption DEF TypeOK, Sides, Proc, Other, SideOf, Procs

LEMMA OpenIsOwned ==
  ASSUME TypeOK, OwnerInv, NEW c \in Conns, NEW side \in Sides, end[c][side].open
  PROVE  owner[c] \in Slaves
<1>1. NewEnd.open = FALSE
  BY DEF NewEnd
<1>2. owner[c] # None
  BY <1>1 DEF OwnerInv
<1>3. QED
  BY <1>2 DEF TypeOK

\* Commit changes one interface, one end, and the inbox of the other end.
LEMMA CommitView ==
  ASSUME TypeOK, NEW c \in Conns, NEW side \in Sides, owner[c] # None,
         NEW r \in Works, Commit(c, side, r)
  PROVE  /\ iface' \in [Procs -> Interfaces] /\ end' \in [Conns -> [Sides -> Ends]]
         /\ iface'[Proc(c, side)] = r.i
         /\ \A q \in Procs \ {Proc(c, side)} : iface'[q] = iface[q]
         /\ \A d \in Conns \ {c} : end'[d] = end[d]
         /\ end'[c][side] = r.e
         /\ LET o == end[c][Other(side)]  n == end'[c][Other(side)] IN
            /\ n.inbox = o.inbox \o r.out
            /\ n.open = o.open /\ n.bound = o.bound /\ n.up = o.up /\ n.gone = o.gone
            /\ n.msgQueue = o.msgQueue
<1> DEFINE p == Proc(c, side)
           s == Other(side)
           o == end[c][s]
           n == [o EXCEPT !.inbox = @ \o r.out]
<1>1. p \in Procs /\ s \in Sides /\ s # side
  BY SideFacts
<1>2. r.i \in Interfaces /\ r.e \in Ends /\ r.out \in Seq(Messages)
  BY DEF Works
<1>3. o \in Ends
  BY <1>1 DEF TypeOK
<1> HIDE DEF o
<1>4. n \in Ends /\ n.inbox = o.inbox \o r.out
      /\ n.open = o.open /\ n.bound = o.bound /\ n.up = o.up /\ n.gone = o.gone
      /\ n.msgQueue = o.msgQueue
  <2> DEFINE q == o.inbox \o r.out
  <2>1. q \in Seq(Messages)
    BY <1>2, <1>3 DEF Ends
  <2>2. n = [o EXCEPT !.inbox = q]
    OBVIOUS
  <2> HIDE DEF q, n
  <2>3. n \in Ends /\ n.inbox = q
        /\ n.open = o.open /\ n.bound = o.bound /\ n.up = o.up /\ n.gone = o.gone
        /\ n.msgQueue = o.msgQueue
    BY <1>3, <2>1, <2>2 DEF Ends
  <2>4. QED
    BY <2>3 DEF q
<1>5. /\ iface' = [iface EXCEPT ![p] = r.i]
      /\ end' = [end EXCEPT ![c] = [t \in Sides |->
                   IF t = side THEN r.e ELSE [end[c][t] EXCEPT !.inbox = @ \o r.out]]]
  BY DEF Commit
<1>6. Sides = {side, s}
  BY DEF Sides, Other
<1> HIDE DEF p
<1>7. /\ iface' \in [Procs -> Interfaces] /\ iface'[p] = r.i
      /\ \A q \in Procs \ {p} : iface'[q] = iface[q]
  BY <1>1, <1>2, <1>5 DEF TypeOK
<1>8. /\ end'[c][side] = r.e /\ end'[c][s] = n
      /\ \A d \in Conns \ {c} : end'[d] = end[d]
      /\ end' = [d \in Conns |-> end'[d]] /\ end'[c] = [t \in Sides |-> end'[c][t]]
  BY <1>1, <1>5, <1>6 DEF TypeOK, o
<1> HIDE DEF n, s
<1>9. end' \in [Conns -> [Sides -> Ends]]
  <2>1. end'[c] \in [Sides -> Ends]
    BY <1>2, <1>4, <1>6, <1>8
  <2>2. QED
    BY <1>8, <2>1 DEF TypeOK
<1>10. QED
  BY <1>4, <1>7, <1>8, <1>9 DEF p, o, s

\* The channels and interfaces after a commit.
LEMMA CommitState ==
  ASSUME StateInv, NEW c, NEW side, NEW w, NEW r, NEW peerGone,
         Prepared(c, side, w), Outcome(w, r, peerGone),
         Commit(c, side, r), UNCHANGED <<alive, owner, pending, panics>>
  PROVE  /\ iface' \in [Procs -> Interfaces] /\ end' \in [Conns -> [Sides -> Ends]]
         /\ OwnerInv' /\ GoneInv' /\ SlaveInv' /\ MasterInv'
         /\ OneChannelPerInterface' /\ NothingLeaks'
<1> DEFINE p == Proc(c, side)
<1>1. c \in Conns /\ side \in Sides /\ owner[c] # None /\ w \in Works /\ r \in Works
  BY DEF Prepared, Outcome
<1>2. /\ TypeOK /\ OwnerInv /\ SlaveInv /\ MasterInv /\ OneChannelPerInterface /\ NothingLeaks
      /\ GoneInv /\ BacklogInv
  BY DEF StateInv
<1>3. /\ p \in Procs
      /\ side = "master" => p = Master
      /\ side = "slave" => p = owner[c] /\ p \in Slaves /\ p # Master
  BY <1>1, <1>2, SideFacts
<1>4. side = "master" \/ side = "slave"
  BY <1>1 DEF Sides
<1>5. /\ iface' \in [Procs -> Interfaces] /\ end' \in [Conns -> [Sides -> Ends]]
      /\ iface'[p] = r.i
      /\ \A q \in Procs \ {p} : iface'[q] = iface[q]
      /\ \A d \in Conns \ {c} : end'[d] = end[d]
      /\ end'[c][side] = r.e
      /\ end'[c][Other(side)].open = end[c][Other(side)].open
      /\ end'[c][Other(side)].bound = end[c][Other(side)].bound
  BY <1>1, <1>2, CommitView
<1>6. /\ r.e.bound = w.e.bound /\ (r.e.open => w.e.open)
      /\ \/ r.i.cc = w.i.cc /\ r.i.tx = w.i.tx /\ r.i.rx = w.i.rx /\ r.i.regions = w.i.regions
         \/ /\ w.e.open /\ w.e.bound /\ ~r.e.open
            /\ \/ r.i.cc = w.i.cc /\ w.i.cc # None
               \/ r.i.cc = None /\ Empty(r.i)
  BY DEF Outcome, Kept, TakenDown
<1>7. LET i == iface[p]
          e == end[c][side]
      IN  /\ w.e.open => e.open \/ (side = "master" /\ ~w.e.bound /\ InBacklog(c))
          /\ r.e.gone = e.gone
          /\ \/ w.i.cc = i.cc /\ w.e.bound = e.bound
             \/ side = "master" /\ i.cc = None /\ w.i.cc = c /\ w.e.bound /\ e.open
          /\ \/ w.i.tx = i.tx /\ w.i.rx = i.rx /\ w.i.regions = i.regions
             \/ e.open /\ w.e.bound
  BY DEF Prepared, Outcome
<1> HIDE DEF p
<1>8. None \notin Conns /\ Master \in Procs /\ Slaves \subseteq Procs /\ Master \notin Slaves
  BY ControlAssumption DEF Procs
<1>9. OwnerInv'
  <2>1. \A d \in Conns : owner[d] = None => d # c
    BY <1>1
  <2>2. QED
    BY <1>2, <1>5, <2>1 DEF OwnerInv, Owned
<1>13. GoneInv'
  <2>1. r.e.gone => ~r.e.open
    BY <1>1, <1>2, <1>4, <1>6, <1>7 DEF GoneInv, BacklogInv
  <2>2. Sides = {side, Other(side)} /\ end'[c][Other(side)].gone = end[c][Other(side)].gone
    BY <1>1, <1>2, CommitView DEF Sides, Other
  <2>3. \A d \in Conns \ {c}, s \in Sides : end'[d][s].gone => ~end'[d][s].open
    BY <1>2, <1>5 DEF GoneInv
  <2>4. \A s \in Sides : end'[c][s].gone => ~end'[c][s].open
    BY <1>1, <1>2, <1>5, <2>1, <2>2 DEF GoneInv
  <2>5. QED
    BY <2>3, <2>4 DEF GoneInv
<1>10. CASE side = "master"
  <2>1. p = Master /\ end'[c].master = r.e /\ Other(side) = "slave"
    BY <1>3, <1>5, <1>10 DEF Other
  <2>2. \A s \in Slaves : iface'[s] = iface[s]
    BY <1>5, <1>8, <2>1
  <2>3. SlaveInv'
    <3>1. \A d \in Conns : end'[d].slave.open = end[d].slave.open
                           /\ end'[d].slave.bound = end[d].slave.bound
      BY <1>1, <1>5, <2>1
    <3>2. \A d \in Conns : end[d].slave.open => owner[d] \in Slaves
      BY <1>2, OpenIsOwned DEF Sides
    <3>3. QED
      BY <1>2, <2>2, <3>1, <3>2 DEF SlaveInv
  <2>4. ASSUME r.i.cc # None PROVE owner[r.i.cc] # None /\ end'[r.i.cc].master.bound
    <3>1. r.i.cc \in Conns /\ r.i.cc = w.i.cc
      BY <1>1, <1>6, <2>4 DEF Works, Interfaces
    <3>2. owner[r.i.cc] # None /\ (r.i.cc # c => end[r.i.cc].master.bound)
          /\ (r.i.cc = c => w.e.bound)
      BY <1>1, <1>2, <1>7, <1>10, <2>1, <2>4, <3>1 DEF MasterInv
    <3>3. QED
      BY <1>5, <1>6, <2>1, <3>1, <3>2
  <2>5. MasterInv'
    BY <1>5, <2>1, <2>4 DEF MasterInv
  <2>6. OneChannelPerInterface'
    <3>1. CASE r.i.cc = iface[Master].cc
      <4>1. \A d \in Conns \ {c} :
              end'[d].master.open /\ end'[d].master.bound => iface[Master].cc = d
        BY <1>2, <1>5 DEF OneChannelPerInterface
      <4>2. r.e.open /\ r.e.bound => iface[Master].cc = c
        BY <1>1, <1>2, <1>6, <1>7, <1>8, <1>10, <2>1, <3>1 DEF OneChannelPerInterface
      <4>3. QED
        BY <1>5, <2>1, <3>1, <4>1, <4>2 DEF OneChannelPerInterface
    <3>2. CASE r.i.cc # iface[Master].cc /\ iface[Master].cc = None
      <4>1. \A d \in Conns : ~(end[d].master.open /\ end[d].master.bound)
        BY <1>2, <1>8, <3>2 DEF OneChannelPerInterface
      <4>2. r.e.open /\ r.e.bound => r.i.cc = c
        BY <1>1, <1>6, <1>7, <2>1, <3>2, <4>1
      <4>3. QED
        BY <1>5, <2>1, <4>1, <4>2 DEF OneChannelPerInterface
    <3>3. CASE r.i.cc # iface[Master].cc /\ iface[Master].cc # None
      <4>1. w.e.open /\ w.e.bound /\ ~r.e.open /\ end[c].master.open /\ end[c].master.bound
        BY <1>6, <1>7, <1>10, <2>1, <3>3
      <4>2. iface[Master].cc = c
        BY <1>1, <1>2, <4>1 DEF OneChannelPerInterface
      <4>3. QED
        BY <1>2, <1>5, <2>1, <4>1, <4>2 DEF OneChannelPerInterface
    <3>4. QED
      BY <3>1, <3>2, <3>3
  <2>7. r.i.cc = None => Empty(r.i)
    <3>1. HAVE r.i.cc = None
    <3>2. CASE w.i.cc = None
      <4>1. iface[p].cc = None /\ w.e.bound = end[c][side].bound
        BY <1>1, <1>7, <1>8, <3>2
      <4>2. ~(end[c][side].open /\ w.e.bound)
        BY <1>1, <1>2, <1>8, <1>10, <2>1, <4>1 DEF OneChannelPerInterface
      <4>3. w.i.tx = <<>> /\ w.i.rx = <<>> /\ w.i.regions = <<>>
        BY <1>2, <1>7, <2>1, <4>1, <4>2, <1>8 DEF NothingLeaks, IsConnecting, Requesting
      <4>4. QED
        BY <1>6, <3>2, <4>3 DEF Empty
    <3>3. CASE w.i.cc # None
      BY <1>6, <3>1, <3>3
    <3>4. QED
      BY <3>2, <3>3
  <2>8. NothingLeaks'
    BY <1>2, <1>5, <2>1, <2>7 DEF NothingLeaks, IsConnecting, Requesting, Empty
  <2>9. QED
    BY <1>5, <1>9, <1>13, <2>3, <2>5, <2>6, <2>8
<1>11. CASE side = "slave"
  <2>1. /\ p = owner[c] /\ p \in Slaves /\ p # Master
        /\ end'[c].slave = r.e /\ Other(side) = "master" /\ end[c][side] = end[c].slave
    BY <1>3, <1>5, <1>11 DEF Other
  <2>2. iface'[Master] = iface[Master]
    BY <1>5, <1>8, <2>1
  <2>3. /\ w.i.cc = iface[p].cc /\ w.e.bound = end[c].slave.bound
        /\ r.e.open => end[c].slave.open
    BY <1>6, <1>7, <1>11, <2>1
  <2>4. MasterInv'
    <3>1. \A d \in Conns : end'[d].master.bound = end[d].master.bound
      BY <1>5, <2>1
    <3>2. iface[Master].cc # None => iface[Master].cc \in Conns
      BY <1>2, <1>8 DEF TypeOK, Interfaces
    <3>3. QED
      BY <1>2, <2>2, <3>1, <3>2 DEF MasterInv
  <2>5. OneChannelPerInterface'
    BY <1>1, <1>2, <1>5, <2>1, <2>2 DEF OneChannelPerInterface
  <2>6. r.i.cc = None => pending[p] # None \/ Empty(r.i)
    <3>1. HAVE r.i.cc = None
    <3>2. CASE w.i.cc = None
      <4>1. CASE pending[p] = None
        <5>1. ~end[c].slave.open
          BY <1>1, <1>2, <1>8, <2>1, <2>3, <3>2, <4>1, ZenonT(60) DEF SlaveInv
        <5>2. w.i.tx = <<>> /\ w.i.rx = <<>> /\ w.i.regions = <<>>
          BY <1>2, <1>3, <1>7, <2>1, <2>3, <3>2, <4>1, <5>1
          DEF NothingLeaks, IsConnecting, Requesting
        <5>3. QED
          BY <1>6, <3>2, <5>2 DEF Empty
      <4>2. QED
        BY <4>1
    <3>3. CASE w.i.cc # None
      BY <1>6, <3>1, <3>3
    <3>4. QED
      BY <3>2, <3>3
  <2>7. NothingLeaks'
    BY <1>2, <1>5, <2>1, <2>6 DEF NothingLeaks, IsConnecting, Requesting, Empty
  <2>8. \A d \in Conns : d # c /\ end[d].slave.open /\ owner[d] = p =>
          r.i.cc = d \/ pending[p] = d
    <3>1. TAKE d \in Conns
    <3>2. HAVE d # c /\ end[d].slave.open /\ owner[d] = p
    <3>3. iface[p].cc = d \/ pending[p] = d
      BY <1>2, <3>2 DEF SlaveInv
    <3>4. CASE pending[p] = d
      BY <3>4
    <3>5. CASE iface[p].cc = d
      <4>1. ~end[c].slave.open
        BY <1>1, <1>2, <1>8, <2>1, <3>2, <3>5 DEF SlaveInv
      <4>2. QED
        BY <1>6, <1>7, <1>11, <2>1, <2>3, <3>5, <4>1
    <3>6. QED
      BY <3>3, <3>4, <3>5
  <2>9. SlaveInv'
    <3>1. \A s \in Slaves : /\ iface'[s].cc # None => owner[iface'[s].cc] = s
                            /\ pending[s] # None => owner[pending[s]] = s /\ iface'[s].cc = None
      <4>1. TAKE s \in Slaves
      <4>2. CASE s # p
        BY <1>2, <1>5, <1>8, <4>2 DEF SlaveInv
      <4>3. CASE s = p
        BY <1>2, <1>5, <1>6, <2>1, <2>3, <4>3 DEF SlaveInv
      <4>4. QED
        BY <4>2, <4>3
    <3>2. \A d \in Conns : end'[d].slave.open =>
            /\ end'[d].slave.bound
            /\ iface'[owner[d]].cc = d \/ pending[owner[d]] = d
      <4>1. TAKE d \in Conns
      <4>2. HAVE end'[d].slave.open
      <4>3. CASE d = c
        <5>1. end[c].slave.open /\ r.e.open
          BY <2>1, <2>3, <4>2, <4>3
        <5>2. r.i.cc = w.i.cc /\ r.e.bound = end[c].slave.bound
          BY <1>6, <2>3, <5>1
        <5>3. QED
          BY <1>1, <1>2, <1>5, <2>1, <2>3, <4>3, <5>1, <5>2 DEF SlaveInv
      <4>4. CASE d # c
        <5>1. end'[d] = end[d] /\ owner[d] \in Slaves
          BY <1>2, <1>5, <4>2, <4>4, OpenIsOwned DEF Sides
        <5>2. CASE owner[d] = p
          BY <1>2, <1>5, <1>3, <2>8, <4>2, <4>4, <5>1, <5>2 DEF SlaveInv
        <5>3. CASE owner[d] # p
          BY <1>2, <1>5, <1>8, <4>2, <5>1, <5>3 DEF SlaveInv
        <5>4. QED
          BY <5>2, <5>3
      <4>5. QED
        BY <4>3, <4>4
    <3>3. QED
      BY <3>1, <3>2 DEF SlaveInv
  <2>10. QED
    BY <1>5, <1>9, <1>13, <2>4, <2>5, <2>7, <2>9
<1>12. QED
  BY <1>4, <1>10, <1>11

\* What a step takes from the inbox and adds to the queue of its side.
Speaks(side) == IF side = "master" THEN ToSlave ELSE ToMaster

Carried(c, side, w, r) ==
  LET e == end[c][side] IN
  /\ w.e.inbox = e.inbox \/ (e.inbox # <<>> /\ w.e.inbox = Tail(e.inbox))
  /\ Only(w.e.msgQueue, Speaks(side))
  /\ side = "slave" /\ InitLeads(e.msgQueue) => InitLeads(w.e.msgQueue)
  /\ side = "master" /\ ~r.e.bound /\ (r.e.open \/ InBacklog(c)) => w.e.inbox = e.inbox

\* What a step sends and what it leaves in its queue.
LEMMA SentKinds ==
  ASSUME NEW w \in Works, NEW r \in Works, NEW peerGone, Sent(w, r, peerGone), w.out = <<>>,
         NEW types, "Disconnect" \in types, Only(w.e.msgQueue, types)
  PROVE  Only(r.e.msgQueue, types) /\ Only(r.out, types)
<1> DEFINE q == w.e.msgQueue
<1>1. q \in Seq(Messages)
  BY DEF Works, Ends
<1> HIDE DEF q
<1>2. Only(q, types) /\ Only(<<>>, types) /\ Only(<<Plain("Disconnect")>>, types)
  BY OnlyEmpty, OnlyOne DEF q, Plain
<1>3. q # <<>> => Only(<<Head(q)>>, types) /\ Only(Tail(q), types)
  BY <1>1, <1>2, OnlyRest, OnlyOne
<1>4. QED
  BY <1>2, <1>3 DEF Sent, Untold, q

\* A queue led by Init stays so as it is sent into an inbox.
LEMMA SentInOrder ==
  ASSUME NEW w \in Works, NEW r \in Works, NEW peerGone, Sent(w, r, peerGone), w.out = <<>>,
         ~peerGone,
         NEW inbox \in Seq(Messages), InitLeads(inbox),
         HasInit(inbox) \/ InitLeads(w.e.msgQueue)
  PROVE  /\ InitLeads(inbox \o r.out)
         /\ HasInit(inbox \o r.out) \/ InitLeads(r.e.msgQueue)
<1> DEFINE q == w.e.msgQueue
           bye == <<Plain("Disconnect")>>
<1>1. q \in Seq(Messages) /\ r.out \in Seq(Messages)
  BY DEF Works, Ends
<1> HIDE DEF q
<1>2. /\ Sent(w, r, peerGone)
      /\ HasInit(inbox) \/ InitLeads(q)
  BY DEF q
<1>3. CASE HasInit(inbox)
  BY <1>1, <1>3, HasInitConcat, InitLeadsConcat
<1>4. CASE InitLeads(q)
  <2>1. CASE r.out = <<>> /\ (r.e.msgQueue = q \/ r.e.msgQueue = <<>>)
    BY <1>4, <2>1, InitLeadsEmpty
  <2>2. CASE q # <<>> /\ r.e.msgQueue = Tail(q) /\ r.out = <<Head(q)>>
    <3>1. Head(q).type \notin Needy /\ (Head(q).type # "Init" => InitLeads(r.e.msgQueue))
      BY <1>1, <1>4, <2>2, InitLeadsRest
    <3>2. InitLeads(inbox \o r.out)
      BY <1>1, <2>2, <3>1, InitLeadsOne, InitLeadsConcat
    <3>3. Head(q).type = "Init" => HasInit(r.out)
      BY <2>2 DEF HasInit
    <3>4. QED
      BY <1>1, <3>1, <3>2, <3>3, HasInitConcat
  <2>3. CASE q # <<>> /\ CarriesFd(Head(q))
    BY <1>1, <1>4, <2>3, InitLeadsRest DEF CarriesFd, Needy
  <2>4. CASE r.e.msgQueue = <<>> /\ r.out = bye
    <3>1. InitLeads(r.out)
      BY <2>4, InitLeadsOne DEF Plain, Needy
    <3>2. QED
      BY <1>1, <2>4, <3>1, InitLeadsConcat, InitLeadsEmpty
  <2>5. QED
    BY <1>2, <2>1, <2>2, <2>3, <2>4 DEF Sent, Untold, q
<1>5. QED
  BY <1>2, <1>3, <1>4

LEMMA CommitMessages ==
  ASSUME StateInv, \A d \in Conns : Kinds(d) /\ InitFirst(d),
         NEW c, NEW side, NEW w, NEW r,
         Prepared(c, side, w), Outcome(w, r, PeerGone(c, side)), Carried(c, side, w, r),
         Commit(c, side, r), UNCHANGED owner,
         \A d \in Conns : InBacklog(d)' => InBacklog(d)
  PROVE  \A d \in Conns : Kinds(d)' /\ InitFirst(d)'
<1>1. c \in Conns /\ side \in Sides /\ owner[c] # None /\ w \in Works /\ r \in Works
  BY DEF Prepared, Outcome
<1>2. TypeOK /\ GoneInv /\ BacklogInv
  BY DEF StateInv
<1>3. /\ end' \in [Conns -> [Sides -> Ends]]
      /\ \A d \in Conns \ {c} : end'[d] = end[d]
      /\ end'[c][side] = r.e
      /\ LET o == end[c][Other(side)]  n == end'[c][Other(side)] IN
         /\ n.inbox = o.inbox \o r.out
         /\ n.open = o.open /\ n.bound = o.bound /\ n.up = o.up /\ n.gone = o.gone
         /\ n.msgQueue = o.msgQueue
  BY <1>1, <1>2, CommitView
<1>4. ASSUME NEW d \in Conns \ {c}
      PROVE  Kinds(d)' /\ InitFirst(d)'
  BY <1>3, <1>4 DEF Kinds, InitFirst
<1>5. Sent(w, r, PeerGone(c, side)) /\ w.out = <<>> /\ r.e.inbox = w.e.inbox
      /\ r.e.bound = w.e.bound /\ (r.e.open => w.e.open) /\ r.out \in Seq(Messages)
  BY <1>1 DEF Prepared, Outcome, Works
<1>6. /\ end[c].master \in Ends /\ end[c].slave \in Ends
      /\ end[c].master.inbox \in Seq(Messages) /\ end[c].slave.inbox \in Seq(Messages)
      /\ end[c].master.msgQueue \in Seq(Messages) /\ end[c].slave.msgQueue \in Seq(Messages)
  BY <1>1, <1>2 DEF TypeOK, Sides, Ends
<1>7. Only(r.e.msgQueue, Speaks(side)) /\ Only(r.out, Speaks(side))
  BY <1>1, <1>5, SentKinds DEF Carried, Speaks, ToSlave, ToMaster
<1>8. \A types : Only(end[c][side].inbox, types) => Only(r.e.inbox, types)
  <2>1. end[c][side].inbox \in Seq(Messages)
    BY <1>1, <1>6 DEF Sides
  <2>2. QED
    BY <1>5, <2>1, OnlyRest DEF Carried
<1>9. ASSUME side = "master"
      PROVE  Kinds(c)' /\ InitFirst(c)'
  <2>1. /\ end'[c].master = r.e
        /\ end'[c].slave.inbox = end[c].slave.inbox \o r.out
        /\ end'[c].slave.msgQueue = end[c].slave.msgQueue
    BY <1>3, <1>9 DEF Other
  <2>2. Only(end[c].slave.inbox \o r.out, ToSlave)
    BY <1>1, <1>5, <1>6, <1>7, <1>9, OnlyConcat DEF Kinds, Speaks
  <2>3. Kinds(c)'
    BY <1>1, <1>7, <1>8, <1>9, <2>1, <2>2 DEF Kinds, Speaks
  <2>4. InitFirst(c)'
    <3>1. CASE ~r.e.bound /\ (r.e.open \/ InBacklog(c)')
      <4>1. ~w.e.bound /\ ~end[c].master.bound /\ (end[c].master.open \/ InBacklog(c))
        BY <1>1, <1>5, <1>9, <3>1 DEF Prepared
      <4>2. r.e.inbox = end[c].master.inbox
        BY <1>1, <1>5, <1>9, <3>1, <4>1 DEF Carried
      <4>3. QED
        BY <1>1, <2>1, <4>1, <4>2 DEF InitFirst
    <3>2. CASE r.e.bound \/ ~(r.e.open \/ InBacklog(c)')
      BY <2>1, <3>2 DEF InitFirst
    <3>3. QED
      BY <3>1, <3>2
  <2>5. QED
    BY <2>3, <2>4
<1>10. ASSUME side = "slave"
       PROVE  Kinds(c)' /\ InitFirst(c)'
  <2>1. /\ end'[c].slave = r.e
        /\ end'[c].master.inbox = end[c].master.inbox \o r.out
        /\ end'[c].master.msgQueue = end[c].master.msgQueue
        /\ end'[c].master.open = end[c].master.open
        /\ end'[c].master.bound = end[c].master.bound
    BY <1>3, <1>10 DEF Other
  <2>2. Only(end[c].master.inbox \o r.out, ToMaster)
    BY <1>1, <1>5, <1>6, <1>7, <1>10, OnlyConcat DEF Kinds, Speaks
  <2>3. Kinds(c)'
    BY <1>1, <1>7, <1>8, <1>10, <2>1, <2>2 DEF Kinds, Speaks
  <2>4. InitFirst(c)'
    <3>1. CASE ~end[c].master.bound /\ (end[c].master.open \/ InBacklog(c)')
      <4>1. /\ InitLeads(end[c].master.inbox)
            /\ HasInit(end[c].master.inbox) \/ InitLeads(end[c].slave.msgQueue)
        BY <1>1, <3>1 DEF InitFirst
      <4>2. HasInit(end[c].master.inbox) \/ InitLeads(w.e.msgQueue)
        BY <1>10, <4>1 DEF Carried
      <4>3. ~PeerGone(c, side)
        BY <1>1, <1>2, <1>10, <3>1 DEF PeerGone, Other, GoneInv, BacklogInv, Sides
      <4>4. /\ InitLeads(end[c].master.inbox \o r.out)
            /\ HasInit(end[c].master.inbox \o r.out) \/ InitLeads(r.e.msgQueue)
        BY <1>1, <1>5, <1>6, <4>1, <4>2, <4>3, SentInOrder
      <4>5. QED
        BY <2>1, <4>4 DEF InitFirst
    <3>2. CASE end[c].master.bound \/ ~(end[c].master.open \/ InBacklog(c)')
      BY <2>1, <3>2 DEF InitFirst
    <3>3. QED
      BY <3>1, <3>2
  <2>5. QED
    BY <2>3, <2>4
<1>11. Kinds(c)' /\ InitFirst(c)'
  BY <1>1, <1>9, <1>10 DEF Sides
<1>12. QED
  BY <1>4, <1>11

\* A step of one channel, on the connections as they are.
LEMMA CommitInv ==
  ASSUME IInv, NEW c, NEW side, NEW w, NEW r,
         Prepared(c, side, w), Outcome(w, r, PeerGone(c, side)), Carried(c, side, w, r),
         w.e.open => end[c][side].open,
         Commit(c, side, r), UNCHANGED <<alive, owner, backlog, pending, panics>>
  PROVE  IInv'
<1>1. c \in Conns /\ side \in Sides /\ owner[c] # None /\ w \in Works /\ r \in Works
  BY DEF Prepared, Outcome
<1>2. StateInv /\ TypeOK /\ BacklogInv /\ MessageInv
  BY DEF IInv, StateInv
<1>3. /\ iface' \in [Procs -> Interfaces] /\ end' \in [Conns -> [Sides -> Ends]]
      /\ OwnerInv' /\ GoneInv' /\ SlaveInv' /\ MasterInv'
      /\ OneChannelPerInterface' /\ NothingLeaks'
  BY <1>2, CommitState
<1>4. TypeOK'
  BY <1>2, <1>3 DEF TypeOK
<1>5. \A d \in Conns : InBacklog(d)' <=> InBacklog(d)
  BY DEF InBacklog
<1>6. (\A d \in Conns : Kinds(d)' /\ InitFirst(d)')
  BY <1>2, <1>5, CommitMessages DEF MessageInv
<1>7. \A d \in Conns : InBacklog(d) =>
        ~end'[d].master.open /\ ~end'[d].master.bound /\ ~end'[d].master.gone
  <2>1. SUFFICES ASSUME NEW d \in Conns, InBacklog(d)
                 PROVE  ~end'[d].master.open /\ ~end'[d].master.bound /\ ~end'[d].master.gone
    OBVIOUS
  <2>2. ~end[d].master.open /\ ~end[d].master.bound /\ ~end[d].master.gone
    BY <1>2, <2>1 DEF BacklogInv
  <2>3. CASE d # c
    <3>1. end'[d] = end[d]
      BY <1>1, <1>2, <2>3, CommitView
    <3>2. QED
      BY <2>2, <3>1
  <2>4. CASE d = c /\ side = "slave"
    <3>1. Other(side) = "master"
      BY <2>4 DEF Other
    <3>2. LET o == end[c][Other(side)]  n == end'[c][Other(side)] IN
          n.open = o.open /\ n.bound = o.bound /\ n.gone = o.gone
      BY <1>1, <1>2, CommitView
    <3>3. QED
      BY <2>2, <2>4, <3>1, <3>2
  <2>5. CASE d = c /\ side = "master"
    <3>1. ~w.e.open /\ ~w.e.bound /\ ~w.e.gone
      BY <2>2, <2>5 DEF Prepared
    <3>2. ~r.e.open /\ ~r.e.bound /\ ~r.e.gone
      BY <3>1 DEF Outcome
    <3>3. QED
      BY <1>1, <1>2, <2>5, <3>2, CommitView, ZenonT(60)
  <2>6. QED
    BY <1>1, <2>3, <2>4, <2>5 DEF Sides
<1>8. BacklogInv'
  BY <1>2, <1>5, <1>7 DEF BacklogInv
<1>9. NoMessagePanic'
  BY <1>2 DEF MessageInv, NoMessagePanic
<1>10. QED
  BY <1>3, <1>4, <1>6, <1>8, <1>9 DEF IInv, StateInv, MessageInv

\* An application that ends, as long as it was not a message that ended it.
LEMMA ExitInv ==
  ASSUME IInv, NEW p \in Procs, Exit(p),
         panics' \subseteq panics \cup {"hang up"}
  PROVE  IInv'
<1>1. StateInv /\ TypeOK /\ OwnerInv /\ GoneInv /\ BacklogInv /\ SlaveInv /\ MasterInv
      /\ OneChannelPerInterface /\ NothingLeaks /\ MessageInv
  BY DEF IInv, StateInv
<1>2. /\ NewInterface \in Interfaces /\ NewInterface.cc = None
      /\ NewInterface.tx = <<>> /\ NewInterface.rx = <<>> /\ NewInterface.regions = <<>>
  <2>1. <<>> \in Seq(RingIds) /\ <<>> \in Seq(BOOLEAN)
    BY NoMessages
  <2>2. QED
    BY <2>1 DEF NewInterface, Interfaces
<1>3. /\ GoneEnd \in Ends /\ ~GoneEnd.open /\ ~GoneEnd.bound /\ GoneEnd.gone
      /\ GoneEnd.inbox = <<>> /\ GoneEnd.msgQueue = <<>>
  <2>1. <<>> \in Seq(Messages)
    BY NoMessages
  <2>2. NewEnd \in Ends /\ ~NewEnd.open /\ ~NewEnd.bound
        /\ NewEnd.inbox = <<>> /\ NewEnd.msgQueue = <<>>
    BY <2>1 DEF NewEnd, Ends
  <2>3. GoneEnd = [NewEnd EXCEPT !.gone = TRUE]
    BY DEF GoneEnd
  <2>4. QED
    BY <2>2, <2>3 DEF Ends
<1>4. /\ iface' \in [Procs -> Interfaces] /\ iface'[p] = NewInterface
      /\ \A q \in Procs \ {p} : iface'[q] = iface[q]
  BY <1>1, <1>2 DEF Exit, TypeOK
<1>5. /\ end' \in [Conns -> [Sides -> Ends]]
      /\ \A c \in Conns, side \in Sides :
           end'[c][side] = IF owner[c] # None /\ Proc(c, side) = p THEN GoneEnd
                                                                   ELSE end[c][side]
  BY <1>1, <1>3 DEF Exit, TypeOK
<1>6. /\ owner' = owner /\ alive' = alive \ {p}
      /\ p = Master => pending' = pending /\ backlog' = <<>>
      /\ p # Master => pending' = [pending EXCEPT ![p] = None] /\ backlog' = backlog
  BY DEF Exit
<1>7. /\ None \notin Conns /\ Master \in Procs /\ Slaves \subseteq Procs /\ Master \notin Slaves
      /\ p # Master => p \in Slaves
  BY ControlAssumption DEF Procs
<1>8. backlog' \in Seq(Conns) /\ pending' \in [Slaves -> Conns \cup {None}]
  <2>1. <<>> \in Seq(Conns) /\ backlog \in Seq(Conns)
        /\ pending \in [Slaves -> Conns \cup {None}]
    BY <1>1, NoMessages DEF TypeOK
  <2>2. CASE p = Master
    BY <1>6, <2>1, <2>2
  <2>3. CASE p # Master
    BY <1>6, <1>7, <2>1, <2>3
  <2>4. QED
    BY <2>2, <2>3
<1>9. TypeOK'
  BY <1>1, <1>4, <1>5, <1>6, <1>8 DEF TypeOK
<1>10. \A c \in Conns :
         /\ end'[c].master = IF owner[c] # None /\ p = Master THEN GoneEnd ELSE end[c].master
         /\ end'[c].slave = IF owner[c] # None /\ owner[c] = p THEN GoneEnd ELSE end[c].slave
  BY <1>5 DEF Sides, Proc
<1>11. OwnerInv'
  <2>1. \A c \in Conns : owner[c] = None => end'[c] = end[c]
    <3>1. TAKE c \in Conns
    <3>2. HAVE owner[c] = None
    <3>3. end'[c] = [side \in Sides |-> end[c][side]]
      BY <3>2 DEF Exit
    <3>4. QED
      BY <1>1, <3>3 DEF TypeOK
  <2>2. QED
    BY <1>1, <1>6, <2>1 DEF OwnerInv, Owned
<1>12. GoneInv'
  BY <1>1, <1>3, <1>5 DEF GoneInv
<1>13. p = Master => \A c \in Conns : ~InBacklog(c)'
  <2>1. DOMAIN <<>> = {}
    BY NoMessages
  <2>2. QED
    BY <1>6, <2>1 DEF InBacklog
<1>14. p # Master => /\ \A c \in Conns : InBacklog(c)' <=> InBacklog(c)
                     /\ \A c \in Conns : end'[c].master = end[c].master
  BY <1>6, <1>10 DEF InBacklog
<1>15. BacklogInv'
  <2>1. CASE p = Master
    <3>1. DOMAIN backlog' = {}
      BY <1>6, <2>1, NoMessages
    <3>2. QED
      BY <1>13, <2>1, <3>1 DEF BacklogInv
  <2>2. CASE p # Master
    BY <1>1, <1>6, <1>14, <2>2 DEF BacklogInv
  <2>3. QED
    BY <2>1, <2>2
<1>16. SlaveInv'
  <2>1. \A s \in Slaves : /\ iface'[s].cc = None \/ (s # p /\ iface'[s] = iface[s])
                          /\ pending'[s] = None \/ (s # p /\ pending'[s] = pending[s])
                          /\ s # p => iface'[s] = iface[s] /\ pending'[s] = pending[s]
    BY <1>1, <1>2, <1>4, <1>6, <1>7 DEF TypeOK
  <2>2. \A s \in Slaves :
          /\ iface'[s].cc # None => owner[iface'[s].cc] = s
          /\ pending'[s] # None => owner[pending'[s]] = s /\ iface'[s].cc = None
    BY <1>1, <2>1, ZenonT(60) DEF SlaveInv
  <2>3. \A c \in Conns : end'[c].slave.open =>
          end'[c].slave = end[c].slave /\ owner[c] \in Slaves /\ owner[c] # p
    <3>1. TAKE c \in Conns
    <3>2. HAVE end'[c].slave.open
    <3>3. end'[c].slave = end[c].slave /\ ~(owner[c] # None /\ owner[c] = p)
      BY <1>3, <1>10, <3>2
    <3>4. owner[c] \in Slaves
      BY <1>1, <3>2, <3>3, OpenIsOwned DEF Sides
    <3>5. owner[c] # None
      BY <3>4, ControlAssumption DEF Procs
    <3>6. QED
      BY <3>3, <3>4, <3>5
  <2>4. \A c \in Conns : end'[c].slave.open =>
          /\ end'[c].slave.bound
          /\ iface'[owner[c]].cc = c \/ pending'[owner[c]] = c
    BY <1>1, <2>1, <2>3, ZenonT(60) DEF SlaveInv
  <2>5. QED
    BY <1>6, <2>2, <2>4 DEF SlaveInv
<1>17. MasterInv'
  <2>1. iface[Master].cc # None => iface[Master].cc \in Conns
    BY <1>1, <1>7 DEF TypeOK, Interfaces
  <2>2. CASE p = Master
    BY <1>2, <1>4, <2>2 DEF MasterInv
  <2>3. CASE p # Master
    <3>1. iface'[Master] = iface[Master] /\ \A d \in Conns : end'[d].master = end[d].master
      BY <1>4, <1>7, <1>10, <2>3
    <3>2. QED
      BY <1>1, <1>6, <2>1, <3>1 DEF MasterInv
  <2>4. QED
    BY <2>2, <2>3
<1>18. OneChannelPerInterface'
  <2>1. CASE p = Master
    <3>1. \A c \in Conns : end'[c].master.open => owner[c] # None
      BY <1>1, <1>10, OpenIsOwned, ControlAssumption DEF Sides, Procs
    <3>2. QED
      BY <1>3, <1>10, <2>1, <3>1 DEF OneChannelPerInterface
  <2>2. CASE p # Master
    BY <1>1, <1>4, <1>7, <1>14, <2>2 DEF OneChannelPerInterface
  <2>3. QED
    BY <2>1, <2>2
<1>19. NothingLeaks'
  <2>1. \A q \in Procs \ {p} : iface'[q] = iface[q] /\ (q # Master => pending'[q] = pending[q])
    BY <1>1, <1>4, <1>6, <1>7 DEF TypeOK, Procs
  <2>2. QED
    BY <1>1, <1>2, <1>4, <2>1 DEF NothingLeaks, IsConnecting, Requesting
<1>20. ASSUME NEW c \in Conns
       PROVE  Kinds(c)' /\ InitFirst(c)'
  <2>1. Kinds(c) /\ InitFirst(c)
    BY <1>1 DEF MessageInv
  <2>2. Kinds(c)'
    BY <1>3, <1>10, <2>1, OnlyEmpty DEF Kinds
  <2>3. InitFirst(c)'
    <3>1. CASE p = Master /\ owner[c] # None
      BY <1>3, <1>10, <3>1, InitLeadsEmpty, <1>13 DEF InitFirst
    <3>2. CASE p = Master /\ owner[c] = None
      <4>1. end'[c].master = end[c].master /\ end'[c].slave = end[c].slave
        BY <1>10, <3>2
      <4>2. QED
        BY <1>13, <2>1, <3>2, <4>1 DEF InitFirst
    <3>3. CASE p # Master
      BY <1>3, <1>10, <1>14, <2>1, <3>3, InitLeadsEmpty DEF InitFirst
    <3>4. QED
      BY <3>1, <3>2, <3>3
  <2>4. QED
    BY <2>2, <2>3
<1>21. NoMessagePanic' /\ panics' \subseteq {"hang up", "message"}
  BY <1>1 DEF MessageInv, NoMessagePanic, TypeOK
<1>22. QED
  BY <1>9, <1>11, <1>12, <1>15, <1>16, <1>17, <1>18, <1>19, <1>20, <1>21
  DEF IInv, StateInv, MessageInv

-----------------------------------------------------------------------------
(* The handlers. *)

LEMMA EnqueueFacts ==
  ASSUME NEW w \in Works, NEW msgs \in Seq(Messages)
  PROVE  LET v == Enqueue(w, msgs) IN
         /\ v \in Works /\ v.i = w.i /\ v.out = w.out /\ v.ok = w.ok
         /\ v.e = [w.e EXCEPT !.msgQueue = w.e.msgQueue \o msgs]
         /\ v.e.msgQueue = w.e.msgQueue \o msgs /\ v.e.inbox = w.e.inbox
         /\ v.e.open = w.e.open /\ v.e.bound = w.e.bound /\ v.e.gone = w.e.gone
<1> DEFINE q == w.e.msgQueue \o msgs
<1>1. q \in Seq(Messages)
  BY DEF Works, Ends
<1>2. Enqueue(w, msgs) = [w EXCEPT !.e.msgQueue = q]
  BY DEF Enqueue
<1> HIDE DEF q
<1>3. w.e \in Ends
  BY DEF Works
<1>4. LET v == Enqueue(w, msgs) IN
      /\ v \in Works /\ v.i = w.i /\ v.out = w.out /\ v.ok = w.ok
      /\ v.e = [w.e EXCEPT !.msgQueue = q]
      /\ v.e.msgQueue = q /\ v.e.inbox = w.e.inbox
      /\ v.e.open = w.e.open /\ v.e.bound = w.e.bound /\ v.e.gone = w.e.gone
  BY <1>1, <1>2, <1>3 DEF Works, Ends
<1>5. QED
  BY <1>4 DEF q

LEMMA FailFacts ==
  ASSUME NEW w \in Works
  PROVE  /\ Fail(w) \in Works /\ Fail(w).i = w.i /\ Fail(w).e = w.e
         /\ Fail(w).out = w.out /\ ~Fail(w).ok
BY DEF Works, Fail

\* Where work on a channel of a connection starts.
LEMMA WorkFacts ==
  ASSUME TypeOK, NEW c \in Conns, NEW side \in Sides, owner[c] # None
  PROVE  LET w == Work(c, side) IN
         /\ w \in Works /\ w.out = <<>> /\ w.ok
         /\ w.i = iface[Proc(c, side)] /\ w.e = end[c][side]
<1>1. Proc(c, side) \in Procs
  BY SideFacts
<1>2. iface[Proc(c, side)] \in Interfaces /\ end[c][side] \in Ends
  BY <1>1 DEF TypeOK
<1>3. QED
  BY <1>2, NoMessages DEF Work, Works

\* A message has come in.
LEMMA ReceivesFacts ==
  ASSUME IInv, NEW c \in Conns, NEW side \in Sides, NEW type, Receives(c, side, type)
  PROVE  LET t == Taken(c, side)
             e == end[c][side]
         IN
         /\ owner[c] # None /\ Received(c, side) \in Messages /\ Received(c, side).type = type
         /\ e.open /\ ~PeerGone(c, side)
         /\ t \in Works /\ t.out = <<>> /\ t.ok /\ t.i = iface[Proc(c, side)]
         /\ t.e.open /\ t.e.bound = e.bound /\ t.e.gone = e.gone /\ t.e.msgQueue = e.msgQueue
         /\ e.inbox # <<>> /\ t.e.inbox = Tail(e.inbox)
         /\ side = "slave" => type \in ToSlave /\ e.bound
         /\ side = "master" => type \in ToMaster /\ ~InBacklog(c) /\ (type \in Needy => e.bound)
<1> DEFINE e == end[c][side]
           t == Taken(c, side)
           w == Work(c, side)
<1>1. TypeOK /\ OwnerInv /\ BacklogInv /\ SlaveInv /\ Kinds(c) /\ InitFirst(c)
  BY DEF IInv, StateInv, MessageInv
<1>2. e.open /\ ~PeerGone(c, side) /\ e.inbox # <<>> /\ Head(e.inbox).type = type
  BY DEF Receives
<1>3. owner[c] # None
  BY <1>1, <1>2, OpenIsOwned, ControlAssumption DEF Procs
<1>4. w \in Works /\ w.out = <<>> /\ w.ok /\ w.i = iface[Proc(c, side)] /\ w.e = e
  BY <1>1, <1>3, WorkFacts
<1>5. e \in Ends /\ e.inbox \in Seq(Messages)
  BY <1>1 DEF TypeOK, Ends
<1>6. Tail(e.inbox) \in Seq(Messages) /\ Head(e.inbox) \in Messages
  BY <1>2, <1>5
<1>7. t = [w EXCEPT !.e.inbox = Tail(e.inbox)]
  <2>1. t = [w EXCEPT !.e.inbox = Tail(w.e.inbox)]
    BY DEF Taken
  <2> HIDE DEF w, t
  <2>2. QED
    BY <1>4, <2>1
<1> HIDE DEF w, t
<1>8. /\ t \in Works /\ t.out = <<>> /\ t.ok /\ t.i = iface[Proc(c, side)]
      /\ t.e.open /\ t.e.bound = e.bound /\ t.e.gone = e.gone /\ t.e.msgQueue = e.msgQueue
      /\ t.e.inbox = Tail(e.inbox)
  <2>1. t.e = [e EXCEPT !.inbox = Tail(e.inbox)] /\ t.i = w.i /\ t.out = w.out /\ t.ok = w.ok
    BY <1>4, <1>7 DEF Works
  <2>2. t.e \in Ends
    BY <1>5, <1>6, <2>1 DEF Ends
  <2>3. t \in Works
    BY <1>4, <1>7, <2>1, <2>2 DEF Works
  <2>4. QED
    BY <1>2, <1>4, <1>5, <2>1, <2>3 DEF Ends
<1>9. CASE side = "slave"
  <2>1. Only(e.inbox, ToSlave) /\ e.bound
    BY <1>1, <1>2, <1>9 DEF Kinds, SlaveInv
  <2>2. type \in ToSlave
    BY <1>2, <1>5, <2>1, OnlyRest
  <2>3. QED
    BY <1>2, <1>3, <1>6, <1>8, <1>9, <2>1, <2>2 DEF t, Received
<1>10. CASE side = "master"
  <2>1. Only(e.inbox, ToMaster) /\ ~InBacklog(c)
    BY <1>1, <1>2, <1>10 DEF Kinds, BacklogInv
  <2>2. type \in ToMaster
    BY <1>2, <1>5, <2>1, OnlyRest
  <2>3. type \in Needy => e.bound
    <3>1. ~e.bound => InitLeads(e.inbox)
      BY <1>1, <1>2, <1>10 DEF InitFirst
    <3>2. QED
      BY <1>2, <1>5, <3>1, InitLeadsRest
  <2>4. QED
    BY <1>2, <1>3, <1>6, <1>8, <1>10, <2>1, <2>2, <2>3 DEF t, Received
<1>11. QED
  BY <1>9, <1>10 DEF Sides

\* A handler that ends with Finish: what it is to have done until then.
LEMMA FinishInv ==
  ASSUME IInv, NEW c \in Conns, NEW side \in Sides, NEW w, NEW good \in BOOLEAN,
         Prepared(c, side, w), Finish(c, side, w, good),
         end[c][side].open, ~PeerGone(c, side),
         end[c][side].inbox # <<>>, w.e.inbox = Tail(end[c][side].inbox),
         Only(w.e.msgQueue, Speaks(side)),
         side = "slave" /\ InitLeads(end[c][side].msgQueue) => InitLeads(w.e.msgQueue),
         side = "master" /\ ~w.e.bound => ~w.ok
  PROVE  IInv'
<1> DEFINE r == Finished(c, side, w, good)
<1>1. TypeOK /\ BacklogInv /\ w \in Works /\ w.out = <<>>
  BY DEF IInv, StateInv, Prepared
<1>2. Outcome(w, r, PeerGone(c, side)) /\ (~w.ok => ~r.e.open)
  BY <1>1, FinishedOutcome
<1>3. Commit(c, side, r) /\ UNCHANGED <<alive, owner, backlog, pending, panics>>
  BY DEF Finish, Finished
<1> HIDE DEF r
<1>4. side = "master" => ~InBacklog(c)
  BY <1>1 DEF BacklogInv
<1>5. side = "master" /\ ~r.e.bound => ~r.e.open
  BY <1>2 DEF Outcome
<1>6. Carried(c, side, w, r)
  BY <1>4, <1>5 DEF Carried
<1>7. QED
  BY <1>2, <1>3, <1>6, CommitInv

\* Handlers of the slave's channel keep to what the slave says.
LEMMA AckStep ==
  ASSUME IInv, NEW c \in Conns, NEW side \in Sides, NEW good \in BOOLEAN,
         RecvAck(c, side, good)
  PROVE  IInv'
<1> DEFINE t == Taken(c, side)
           e == end[c][side]
<1>1. /\ owner[c] # None /\ e.open /\ ~PeerGone(c, side)
      /\ t \in Works /\ t.out = <<>> /\ t.i = iface[Proc(c, side)]
      /\ t.e.open /\ t.e.bound = e.bound /\ t.e.gone = e.gone /\ t.e.msgQueue = e.msgQueue
      /\ e.inbox # <<>> /\ t.e.inbox = Tail(e.inbox)
      /\ side = "slave"
  BY ReceivesFacts DEF RecvAck, ToMaster, Sides
<1>2. Prepared(c, side, t)
  BY <1>1 DEF Prepared
<1>3. Only(t.e.msgQueue, Speaks(side))
  BY <1>1 DEF IInv, MessageInv, Kinds, Speaks
<1>4. Finish(c, side, t, good)
  BY DEF RecvAck
<1> HIDE DEF t
<1>5. QED
  BY <1>1, <1>2, <1>3, <1>4, FinishInv

\* A handler for a message about the interface of a bound channel, which changes
\* the interface, and adds a reply.
LEMMA BoundStep ==
  ASSUME IInv, NEW c \in Conns, NEW side \in Sides, NEW type, NEW good \in BOOLEAN,
         Receives(c, side, type), end[c][side].bound,
         NEW w \in Works, Finish(c, side, w, good),
         w.out = <<>>, w.i.cc = iface[Proc(c, side)].cc,
         w.e.open, w.e.bound, w.e.gone = end[c][side].gone,
         w.e.inbox = Tail(end[c][side].inbox),
         Only(w.e.msgQueue, Speaks(side)),
         side = "slave" /\ InitLeads(end[c][side].msgQueue) => InitLeads(w.e.msgQueue)
  PROVE  IInv'
<1> DEFINE e == end[c][side]
<1>1. owner[c] # None /\ e.open /\ ~PeerGone(c, side) /\ e.inbox # <<>>
  BY ReceivesFacts
<1>2. Prepared(c, side, w)
  BY <1>1 DEF Prepared
<1>3. QED
  BY <1>1, <1>2, FinishInv

LEMMA MessageKinds ==
  /\ \A t \in {"Ack", "AddRegion", "Connect", "Connected", "Disconnect"} : Plain(t) \in Messages
  /\ HelloMsg \in Messages /\ InitMsg \in Messages
  /\ \A ring \in RingIds : AddRing(ring) \in Messages
  /\ \A m \in Messages : /\ m.type = "Hello" => m.maxRingM2S = MaxRings
                         /\ m.type = "AddRing" => m.ring \in RingIds
<1>1. \A t \in {"Ack", "AddRegion", "Connect", "Connected", "Disconnect"} : Plain(t) \in Messages
  BY DEF Messages
<1>2. HelloMsg \in Messages /\ InitMsg \in Messages
  BY DEF Messages
<1>3. \A ring \in RingIds : AddRing(ring) \in Messages
  BY DEF Messages
<1>4. ASSUME NEW m \in Messages
      PROVE  /\ m.type = "Hello" => m.maxRingM2S = MaxRings
             /\ m.type = "AddRing" => m.ring \in RingIds
  <2>1. CASE \E t \in {"Ack", "AddRegion", "Connect", "Connected", "Disconnect"} : m = Plain(t)
    BY <2>1 DEF Plain
  <2>2. CASE m = HelloMsg \/ m = InitMsg
    BY <2>2 DEF HelloMsg, InitMsg
  <2>3. CASE \E ring \in RingIds : m = AddRing(ring)
    BY <2>3 DEF AddRing
  <2>4. QED
    BY <2>1, <2>2, <2>3 DEF Messages
<1>5. QED
  BY <1>1, <1>2, <1>3, <1>4

LEMMA RingsFacts ==
  ASSUME NEW n \in Nat, n <= MaxRings, NEW ringType \in {"S2M", "M2S"}
  PROVE  Rings(ringType, n) \in Seq(RingIds)
<1>1. \A k \in 1 .. n : <<ringType, k - 1>> \in RingIds
  BY ControlAssumption DEF RingIds
<1>2. QED
  BY <1>1 DEF Rings

LEMMA AddRingsFacts ==
  ASSUME NEW rings \in Seq(RingIds)
  PROVE  AddRings(rings) \in Seq(Messages) /\ Only(AddRings(rings), ToMaster)
<1>1. \A k \in DOMAIN rings : AddRing(rings[k]) \in Messages
                              /\ AddRing(rings[k]).type = "AddRing"
  BY MessageKinds DEF AddRing
<1>2. DOMAIN rings = 1 .. Len(rings) /\ Len(rings) \in Nat
  OBVIOUS
<1>3. QED
  BY <1>1, <1>2 DEF AddRings, Only, ToMaster

\* The handshake begins with Init.
LEMMA HandshakeFacts ==
  ASSUME NEW i \in Interfaces
  PROVE  /\ Handshake(i) \in Seq(Messages) /\ Only(Handshake(i), ToMaster)
         /\ InitLeads(Handshake(i))
<1> DEFINE first == <<InitMsg>>
           regions == [r \in DOMAIN i.regions |-> Plain("AddRegion")]
           tx == AddRings(i.tx)
           rx == AddRings(i.rx)
           last == <<Plain("Connect")>>
<1>1. first \in Seq(Messages) /\ Only(first, ToMaster) /\ HasInit(first) /\ InitLeads(first)
  BY MessageKinds DEF InitMsg, Only, ToMaster, HasInit, InitLeads, Needy
<1>2. regions \in Seq(Messages) /\ Only(regions, ToMaster)
  <2>1. DOMAIN i.regions = 1 .. Len(i.regions) /\ Len(i.regions) \in Nat
    BY DEF Interfaces
  <2>2. Plain("AddRegion") \in Messages /\ Plain("AddRegion").type = "AddRegion"
    BY MessageKinds DEF Plain
  <2>3. QED
    BY <2>1, <2>2 DEF Only, ToMaster
<1>3. tx \in Seq(Messages) /\ Only(tx, ToMaster) /\ rx \in Seq(Messages) /\ Only(rx, ToMaster)
  BY AddRingsFacts DEF Interfaces
<1>4. last \in Seq(Messages) /\ Only(last, ToMaster)
  BY MessageKinds DEF Plain, Only, ToMaster
<1>5. Handshake(i) = (((first \o regions) \o tx) \o rx) \o last
  BY DEF Handshake
<1> HIDE DEF first, regions, tx, rx, last
<1> DEFINE a == first \o regions
           b == a \o tx
           d == b \o rx
<1>6. a \in Seq(Messages) /\ Only(a, ToMaster) /\ HasInit(a) /\ InitLeads(a)
  BY <1>1, <1>2, OnlyConcat, HasInitConcat, InitLeadsConcat
<1> HIDE DEF a
<1>7. b \in Seq(Messages) /\ Only(b, ToMaster) /\ HasInit(b) /\ InitLeads(b)
  BY <1>3, <1>6, OnlyConcat, HasInitConcat, InitLeadsConcat
<1> HIDE DEF b
<1>8. d \in Seq(Messages) /\ Only(d, ToMaster) /\ HasInit(d) /\ InitLeads(d)
  BY <1>3, <1>7, OnlyConcat, HasInitConcat, InitLeadsConcat
<1> HIDE DEF d
<1>9. Handshake(i) = d \o last
  BY <1>5 DEF a, b, d
<1>10. QED
  BY <1>4, <1>8, <1>9, OnlyConcat, InitLeadsConcat

\* One reply of the master, or of the slave.
LEMMA ReplyFacts ==
  ASSUME NEW t \in {"Ack", "Connected"}
  PROVE  <<Plain(t)>> \in Seq(Messages) /\ Only(<<Plain(t)>>, ToSlave)
BY MessageKinds DEF Plain, Only, ToSlave

LEMMA HelloStep ==
  ASSUME IInv, NEW c \in Conns, NEW side \in Sides, NEW good \in BOOLEAN,
         NEW done \in {"nothing", "region", "tx", "all"},
         RecvHello(c, side, done, good)
  PROVE  IInv'
<1> DEFINE t == Taken(c, side)
           e == end[c][side]
           p == Proc(c, side)
           n == MinOf(Pairs[p], Received(c, side).maxRingM2S)
           config == [t EXCEPT !.i.run = n]
           region == [config EXCEPT !.i.regions = Append(@, TRUE)]
           tx == [region EXCEPT !.i.tx = @ \o Rings("S2M", n)]
           rx == [tx EXCEPT !.i.rx = @ \o Rings("M2S", n)]
           v == CASE done = "nothing" -> Fail(config)
                  [] done = "region"  -> Fail(region)
                  [] done = "tx"      -> Fail(tx)
                  [] done = "all"     -> Enqueue(rx, Handshake(rx.i))
<1>2. Receives(c, side, "Hello") /\ FinishOn(c, side, v, good)
  BY DEF RecvHello
<1> HIDE DEF v
<1>1. /\ owner[c] # None /\ Received(c, side) \in Messages /\ Received(c, side).type = "Hello"
      /\ t \in Works /\ t.out = <<>> /\ t.i = iface[p]
      /\ t.e.open /\ t.e.bound = e.bound /\ t.e.gone = e.gone /\ t.e.msgQueue = e.msgQueue
      /\ t.e.inbox = Tail(e.inbox)
      /\ side = "slave" /\ e.bound
  BY <1>2, ReceivesFacts DEF ToMaster, Sides
<1>3. p \in Procs
  BY <1>1, SideFacts DEF IInv, StateInv
<1>4. n \in Nat /\ n <= MaxRings
  BY <1>1, <1>3, MessageKinds, ControlAssumption DEF MinOf
<1>5. Rings("S2M", n) \in Seq(RingIds) /\ Rings("M2S", n) \in Seq(RingIds)
  BY <1>4, RingsFacts
<1> DEFINE Same(x) == x \in Works /\ x.out = t.out /\ x.e = t.e /\ x.i.cc = t.i.cc
<1> HIDE DEF t, n, p
<1>6. Same(config)
  BY <1>1, <1>4 DEF Works, Interfaces
<1>7. Same(region)
  <2> HIDE DEF config
  <2>1. Append(config.i.regions, TRUE) \in Seq(BOOLEAN)
    BY <1>6 DEF Works, Interfaces
  <2>2. QED
    BY <1>6, <2>1 DEF Works, Interfaces
<1>8. Same(tx)
  <2> HIDE DEF region
  <2>1. region.i.tx \o Rings("S2M", n) \in Seq(RingIds)
    BY <1>5, <1>7 DEF Works, Interfaces
  <2>2. QED
    BY <1>7, <2>1 DEF Works, Interfaces
<1>9. Same(rx)
  <2> HIDE DEF tx
  <2>1. tx.i.rx \o Rings("M2S", n) \in Seq(RingIds)
    BY <1>5, <1>8 DEF Works, Interfaces
  <2>2. QED
    BY <1>8, <2>1 DEF Works, Interfaces
<1> HIDE DEF config, region, tx, rx
<1>10. e.msgQueue \in Seq(Messages) /\ Only(e.msgQueue, ToMaster)
  BY <1>1, ZenonT(60) DEF IInv, StateInv, MessageInv, Kinds, TypeOK, Ends
<1>11. /\ v \in Works /\ v.out = <<>> /\ v.i.cc = t.i.cc
       /\ v.e.open /\ v.e.bound /\ v.e.gone = e.gone /\ v.e.inbox = Tail(e.inbox)
       /\ Only(v.e.msgQueue, ToMaster)
       /\ InitLeads(e.msgQueue) => InitLeads(v.e.msgQueue)
  <2>1. CASE done # "all"
    <3>1. PICK x : Same(x) /\ v = Fail(x)
      BY <1>6, <1>7, <1>8, <2>1 DEF v
    <3>2. v \in Works /\ v.out = t.out /\ v.e = t.e /\ v.i.cc = t.i.cc
      BY <3>1, FailFacts
    <3>3. QED
      BY <1>1, <1>10, <3>2
  <2>2. CASE done = "all"
    <3> DEFINE h == Handshake(rx.i)
    <3>1. v = Enqueue(rx, h)
      BY <2>2 DEF v
    <3>2. rx.i \in Interfaces
      BY <1>9 DEF Works
    <3>3. h \in Seq(Messages) /\ Only(h, ToMaster) /\ InitLeads(h)
      BY <3>2, HandshakeFacts
    <3> HIDE DEF h
    <3>4. /\ v \in Works /\ v.i = rx.i /\ v.out = rx.out
          /\ v.e.msgQueue = rx.e.msgQueue \o h /\ v.e.inbox = rx.e.inbox
          /\ v.e.open = rx.e.open /\ v.e.bound = rx.e.bound /\ v.e.gone = rx.e.gone
      BY <1>9, <3>1, <3>3, EnqueueFacts
    <3>5. /\ Only(e.msgQueue \o h, ToMaster)
          /\ InitLeads(e.msgQueue) => InitLeads(e.msgQueue \o h)
      BY <1>10, <3>3, OnlyConcat, InitLeadsConcat
    <3>6. QED
      BY <1>1, <1>9, <3>4, <3>5
  <2>3. QED
    BY <2>1, <2>2
<1>12. Finish(c, side, v, good)
  BY <1>2, <1>11 DEF FinishOn
<1>13. v.i.cc = iface[Proc(c, side)].cc /\ Only(v.e.msgQueue, Speaks(side))
  BY <1>1, <1>11 DEF p, Speaks
<1>14. QED
  BY <1>1, <1>2, <1>11, <1>12, <1>13, BoundStep, SMTT(40)

LEMMA InitStep ==
  ASSUME IInv, NEW c \in Conns, NEW side \in Sides, NEW good \in BOOLEAN,
         RecvInit(c, side, good)
  PROVE  IInv'
<1> DEFINE t == Taken(c, side)
           e == end[c][side]
           p == Proc(c, side)
           v == [t EXCEPT !.i.cc = c, !.i.run = Pairs[p], !.e.bound = TRUE]
           fits == Fits(p, t.i, Received(c, side))
           w == IF fits THEN Enqueue(v, <<Plain("Ack")>>) ELSE Fail(t)
<1>2. Receives(c, side, "Init") /\ Finish(c, side, w, good)
  BY DEF RecvInit
<1> HIDE DEF w
<1>1. /\ owner[c] # None /\ e.open /\ ~PeerGone(c, side)
      /\ t \in Works /\ t.out = <<>> /\ t.i = iface[p]
      /\ t.e.open /\ t.e.bound = e.bound /\ t.e.gone = e.gone /\ t.e.msgQueue = e.msgQueue
      /\ e.inbox # <<>> /\ t.e.inbox = Tail(e.inbox)
      /\ side = "master"
  BY <1>2, ReceivesFacts DEF ToSlave, Sides
<1>3. p \in Procs
  BY <1>1, SideFacts DEF IInv, StateInv
<1>4. e.msgQueue \in Seq(Messages) /\ Only(e.msgQueue, ToSlave)
  BY <1>1 DEF IInv, StateInv, MessageInv, Kinds, TypeOK, Ends
<1>5. Pairs[p] \in Nat
  BY <1>3, ControlAssumption
<1> HIDE DEF t
<1>6. CASE fits
  <2>1. iface[p].cc = None
    BY <1>1, <1>6 DEF Fits
  <2>2. /\ v \in Works /\ v.out = t.out /\ v.i.cc = c /\ v.i.tx = t.i.tx /\ v.i.rx = t.i.rx
        /\ v.i.regions = t.i.regions /\ v.e.bound
        /\ v.e.open = t.e.open /\ v.e.gone = t.e.gone /\ v.e.msgQueue = t.e.msgQueue
        /\ v.e.inbox = t.e.inbox
    BY <1>1, <1>5 DEF Works, Interfaces, Ends
  <2>3. <<Plain("Ack")>> \in Seq(Messages) /\ Only(<<Plain("Ack")>>, ToSlave)
    BY ReplyFacts
  <2>4. w = Enqueue(v, <<Plain("Ack")>>)
    BY <1>6 DEF w
  <2> HIDE DEF v, w, p
  <2>5. /\ w \in Works /\ w.i = v.i /\ w.out = v.out
        /\ w.e.msgQueue = v.e.msgQueue \o <<Plain("Ack")>> /\ w.e.inbox = v.e.inbox
        /\ w.e.open = v.e.open /\ w.e.bound = v.e.bound /\ w.e.gone = v.e.gone
    BY <2>2, <2>3, <2>4, EnqueueFacts
  <2>6. Prepared(c, side, w)
    BY <1>1, <2>1, <2>2, <2>5 DEF Prepared, p
  <2>7. Only(e.msgQueue \o <<Plain("Ack")>>, ToSlave)
    BY <1>4, <2>3, OnlyConcat
  <2>8. w.e.msgQueue = e.msgQueue \o <<Plain("Ack")>>
    BY <1>1, <2>2, <2>5
  <2>9. Only(w.e.msgQueue, Speaks(side))
    BY <1>1, <2>7, <2>8 DEF Speaks
  <2>10. QED
    BY <1>1, <1>2, <2>2, <2>5, <2>6, <2>9, FinishInv
<1>7. CASE ~fits
  <2>1. w = Fail(t)
    BY <1>7 DEF w
  <2> HIDE DEF w, p
  <2>2. w \in Works /\ w.i = t.i /\ w.e = t.e /\ w.out = t.out /\ ~w.ok
    BY <1>1, <2>1, FailFacts
  <2>3. Prepared(c, side, w)
    BY <1>1, <2>2 DEF Prepared, p
  <2>4. Only(w.e.msgQueue, Speaks(side))
    BY <1>1, <1>4, <2>2, SMTT(40) DEF Speaks
  <2>5. QED
    BY <1>1, <1>2, <2>2, <2>3, <2>4, FinishInv
<1>8. QED
  BY <1>6, <1>7

\* What the handlers of a master's bound channel have in common.
LEMMA MasterStep ==
  ASSUME IInv, NEW c \in Conns, NEW side \in Sides, NEW type \in Needy, NEW good \in BOOLEAN,
         Receives(c, side, type),
         NEW w, FinishOn(c, side, w, good),
         w \in Works, w.out = <<>>, w.i.cc = iface[Proc(c, side)].cc,
         w.e.open = Taken(c, side).e.open, w.e.bound = Taken(c, side).e.bound,
         w.e.gone = Taken(c, side).e.gone, w.e.inbox = Taken(c, side).e.inbox,
         w.e.msgQueue \in {Taken(c, side).e.msgQueue,
                           Taken(c, side).e.msgQueue \o <<Plain("Ack")>>,
                           Taken(c, side).e.msgQueue \o <<Plain("Connected")>>}
  PROVE  IInv'
<1> DEFINE t == Taken(c, side)
           e == end[c][side]
<1>1. /\ t.e.open /\ t.e.bound = e.bound /\ t.e.gone = e.gone /\ t.e.msgQueue = e.msgQueue
      /\ t.e.inbox = Tail(e.inbox)
      /\ side = "master" /\ e.bound
  BY ReceivesFacts DEF Needy, ToSlave, Sides
<1> HIDE DEF t
<1>2. e.msgQueue \in Seq(Messages) /\ Only(e.msgQueue, ToSlave)
  BY <1>1 DEF IInv, StateInv, MessageInv, Kinds, TypeOK, Ends
<1>3. Only(w.e.msgQueue, Speaks(side))
  BY <1>1, <1>2, ReplyFacts, OnlyConcat DEF Speaks, t
<1>4. Finish(c, side, w, good)
  BY <1>1 DEF FinishOn, t
<1>5. QED
  BY <1>1, <1>3, <1>4, BoundStep DEF t

LEMMA AddRegionStep ==
  ASSUME IInv, NEW c \in Conns, NEW side \in Sides, NEW good \in BOOLEAN,
         RecvAddRegion(c, side, good)
  PROVE  IInv'
<1> DEFINE t == Taken(c, side)
           v == [t EXCEPT !.i.regions = Append(@, FALSE)]
           w == Enqueue(v, <<Plain("Ack")>>)
<1>1. Receives(c, side, "AddRegion") /\ FinishOn(c, side, w, good)
  BY DEF RecvAddRegion
<1>2. t \in Works /\ t.out = <<>> /\ t.i = iface[Proc(c, side)]
  BY <1>1, ReceivesFacts
<1> HIDE DEF t
<1>3. v \in Works /\ v.out = t.out /\ v.e = t.e /\ v.i.cc = t.i.cc
  <2>1. Append(t.i.regions, FALSE) \in Seq(BOOLEAN)
    BY <1>2 DEF Works, Interfaces
  <2>2. QED
    BY <1>2, <2>1 DEF Works, Interfaces
<1> HIDE DEF v
<1>4. /\ w \in Works /\ w.i = v.i /\ w.out = v.out
      /\ w.e.msgQueue = v.e.msgQueue \o <<Plain("Ack")>> /\ w.e.inbox = v.e.inbox
      /\ w.e.open = v.e.open /\ w.e.bound = v.e.bound /\ w.e.gone = v.e.gone
  BY <1>3, ReplyFacts, EnqueueFacts
<1> HIDE DEF w
<1>5. QED
  BY <1>1, <1>2, <1>3, <1>4, MasterStep DEF t, Needy

LEMMA AddRingStep ==
  ASSUME IInv, NEW c \in Conns, NEW side \in Sides, NEW good \in BOOLEAN,
         RecvAddRing(c, side, good)
  PROVE  IInv'
<1> DEFINE t == Taken(c, side)
           r == Received(c, side).ring
           v == [t EXCEPT !.i = AddQueue(@, r)]
           w == IF r[2] >= t.i.run THEN Fail(t) ELSE Enqueue(v, <<Plain("Ack")>>)
<1>1. Receives(c, side, "AddRing") /\ FinishOn(c, side, w, good)
  BY DEF RecvAddRing
<1>2. /\ t \in Works /\ t.out = <<>> /\ t.i = iface[Proc(c, side)]
      /\ r \in RingIds
  BY <1>1, ReceivesFacts, MessageKinds
<1> HIDE DEF t, r
<1>3. v \in Works /\ v.out = t.out /\ v.e = t.e /\ v.i.cc = t.i.cc
  <2>1. Append(t.i.rx, r) \in Seq(RingIds) /\ Append(t.i.tx, r) \in Seq(RingIds)
    BY <1>2 DEF Works, Interfaces
  <2>2. AddQueue(t.i, r) \in Interfaces /\ AddQueue(t.i, r).cc = t.i.cc
    BY <1>2, <2>1 DEF AddQueue, Works, Interfaces
  <2>3. QED
    BY <1>2, <2>2 DEF Works
<1> HIDE DEF v
<1> DEFINE x == Enqueue(v, <<Plain("Ack")>>)
<1>4. /\ x \in Works /\ x.i = v.i /\ x.out = v.out
      /\ x.e.msgQueue = v.e.msgQueue \o <<Plain("Ack")>> /\ x.e.inbox = v.e.inbox
      /\ x.e.open = v.e.open /\ x.e.bound = v.e.bound /\ x.e.gone = v.e.gone
  BY <1>3, ReplyFacts, EnqueueFacts
<1>5. /\ Fail(t) \in Works /\ Fail(t).i = t.i /\ Fail(t).e = t.e /\ Fail(t).out = t.out
  BY <1>2, FailFacts
<1>6. w \in {Fail(t), x}
  OBVIOUS
<1> HIDE DEF w, x
<1>7. QED
  BY <1>1, <1>2, <1>3, <1>4, <1>5, <1>6, MasterStep DEF t, Needy

\* Interface.connect keeps the channel.
LEMMA ConnectFacts ==
  ASSUME NEW w \in Works, NEW goodMap \in BOOLEAN, NEW good \in BOOLEAN
  PROVE  LET v == Connect(w, goodMap, good) IN
         /\ v \in Works /\ v.out = w.out /\ v.i.cc = w.i.cc
         /\ v.e.open = w.e.open /\ v.e.bound = w.e.bound /\ v.e.gone = w.e.gone
         /\ v.e.inbox = w.e.inbox /\ v.e.msgQueue = w.e.msgQueue
<1> DEFINE mapped == [r \in DOMAIN w.i.regions |-> TRUE]
           called == [w EXCEPT !.i.regions = [r \in DOMAIN @ |-> TRUE],
                               !.i.told = "up",
                               !.i.twice = @ \/ w.i.told = "up"]
           up == [called EXCEPT !.e.up = TRUE]
<1>1. mapped \in Seq(BOOLEAN)
  <2>1. DOMAIN w.i.regions = 1 .. Len(w.i.regions) /\ Len(w.i.regions) \in Nat
    BY DEF Works, Interfaces
  <2>2. QED
    BY <2>1
<1>2. called.i = [w.i EXCEPT !.regions = mapped, !.told = "up",
                             !.twice = w.i.twice \/ w.i.told = "up"]
  BY DEF Works, Interfaces
<1>3. called.i \in Interfaces /\ called.i.cc = w.i.cc
  <2> HIDE DEF mapped, called
  <2>1. (w.i.twice \/ w.i.told = "up") \in BOOLEAN
    OBVIOUS
  <2>2. QED
    BY <1>1, <1>2, <2>1 DEF Works, Interfaces
<1>4. called.e = w.e /\ called.out = w.out /\ called.ok = w.ok
      /\ called = [w EXCEPT !.i = called.i]
  BY DEF Works
<1> HIDE DEF called
<1>5. called \in Works
  BY <1>3, <1>4 DEF Works
<1>6. /\ up \in Works /\ up.out = w.out /\ up.i = called.i
      /\ up.e.open = w.e.open /\ up.e.bound = w.e.bound /\ up.e.gone = w.e.gone
      /\ up.e.inbox = w.e.inbox /\ up.e.msgQueue = w.e.msgQueue
  BY <1>4, <1>5 DEF Works, Ends
<1>7. Connect(w, goodMap, good) \in {Fail(w), up, Fail(called)}
  BY DEF Connect, called
<1> HIDE DEF up
<1>8. QED
  BY <1>3, <1>4, <1>5, <1>6, <1>7, FailFacts

LEMMA ConnectStep ==
  ASSUME IInv, NEW c \in Conns, NEW side \in Sides, NEW goodMap \in BOOLEAN,
         NEW goodUp \in BOOLEAN, NEW good \in BOOLEAN,
         RecvConnect(c, side, goodMap, goodUp, good)
  PROVE  IInv'
<1> DEFINE t == Taken(c, side)
           v == Connect(t, goodMap, goodUp)
           w == IF v.ok THEN Enqueue(v, <<Plain("Connected")>>) ELSE v
<1>1. Receives(c, side, "Connect") /\ FinishOn(c, side, w, good)
  BY DEF RecvConnect
<1>2. t \in Works /\ t.out = <<>> /\ t.i = iface[Proc(c, side)]
  BY <1>1, ReceivesFacts
<1> HIDE DEF t
<1>3. /\ v \in Works /\ v.out = t.out /\ v.i.cc = t.i.cc
      /\ v.e.open = t.e.open /\ v.e.bound = t.e.bound /\ v.e.gone = t.e.gone
      /\ v.e.inbox = t.e.inbox /\ v.e.msgQueue = t.e.msgQueue
  BY <1>2, ConnectFacts
<1> HIDE DEF v
<1> DEFINE x == Enqueue(v, <<Plain("Connected")>>)
<1>4. /\ x \in Works /\ x.i = v.i /\ x.out = v.out
      /\ x.e.msgQueue = v.e.msgQueue \o <<Plain("Connected")>> /\ x.e.inbox = v.e.inbox
      /\ x.e.open = v.e.open /\ x.e.bound = v.e.bound /\ x.e.gone = v.e.gone
  BY <1>3, ReplyFacts, EnqueueFacts
<1>5. w \in {v, x}
  OBVIOUS
<1> HIDE DEF w, x
<1>6. QED
  BY <1>1, <1>2, <1>3, <1>4, <1>5, MasterStep DEF t, Needy

LEMMA ConnectedStep ==
  ASSUME IInv, NEW c \in Conns, NEW side \in Sides, NEW goodMap \in BOOLEAN,
         NEW goodUp \in BOOLEAN, NEW good \in BOOLEAN,
         RecvConnected(c, side, goodMap, goodUp, good)
  PROVE  IInv'
<1> DEFINE t == Taken(c, side)
           e == end[c][side]
           w == Connect(t, goodMap, goodUp)
<1>1. Receives(c, side, "Connected") /\ FinishOn(c, side, w, good)
  BY DEF RecvConnected
<1>2. /\ t \in Works /\ t.out = <<>> /\ t.i = iface[Proc(c, side)]
      /\ t.e.open /\ t.e.bound = e.bound /\ t.e.gone = e.gone /\ t.e.msgQueue = e.msgQueue
      /\ t.e.inbox = Tail(e.inbox)
      /\ side = "slave" /\ e.bound
  BY <1>1, ReceivesFacts DEF ToMaster, Sides
<1> HIDE DEF t
<1>3. /\ w \in Works /\ w.out = t.out /\ w.i.cc = t.i.cc
      /\ w.e.open = t.e.open /\ w.e.bound = t.e.bound /\ w.e.gone = t.e.gone
      /\ w.e.inbox = t.e.inbox /\ w.e.msgQueue = t.e.msgQueue
  BY <1>2, ConnectFacts, ZenonT(60)
<1> HIDE DEF w
<1>4. Only(w.e.msgQueue, Speaks(side))
  BY <1>2, <1>3 DEF IInv, MessageInv, Kinds, Speaks
<1>5. Finish(c, side, w, good)
  BY <1>1, <1>2, <1>3 DEF FinishOn
<1>6. QED
  BY <1>1, <1>2, <1>3, <1>4, <1>5, BoundStep

\* parseDisconnect closes the channel without a message, so that handleEvent may
\* still send the next one.
LEMMA DisconnectStep ==
  ASSUME IInv, NEW c \in Conns, NEW side \in Sides, NEW good \in BOOLEAN,
         RecvDisconnect(c, side, good)
  PROVE  IInv'
<1> DEFINE t == Taken(c, side)
           e == end[c][side]
           gone == PeerGone(c, side)
           w == Close(t, FALSE, gone, good)
           r == Finished(c, side, w, good)
<1>1. Receives(c, side, "Disconnect") /\ Finish(c, side, w, good)
  BY DEF RecvDisconnect
<1>2. /\ owner[c] # None /\ e.open /\ ~gone
      /\ t \in Works /\ t.out = <<>> /\ t.ok /\ t.i = iface[Proc(c, side)]
      /\ t.e.open /\ t.e.bound = e.bound /\ t.e.gone = e.gone /\ t.e.msgQueue = e.msgQueue
      /\ e.inbox # <<>> /\ t.e.inbox = Tail(e.inbox)
      /\ side = "master" => ~InBacklog(c)
  BY <1>1, ReceivesFacts
<1>3. TypeOK /\ gone \in BOOLEAN
  BY DEF IInv, StateInv, TypeOK, PeerGone, Sides, Other, Ends
<1>4. Commit(c, side, r) /\ UNCHANGED <<alive, owner, backlog, pending, panics>>
  BY <1>1 DEF Finish, Finished
<1> HIDE DEF t, gone
<1>5. Outcome(t, w, gone) /\ Untold(t, w) /\ ~w.e.open
  BY <1>2, <1>3, CloseOutcome
<1> HIDE DEF w
<1>6. w \in Works /\ w.out = <<>>
  BY <1>2, <1>5 DEF Outcome, Untold
<1>7. Outcome(w, r, gone)
  BY <1>3, <1>6, FinishedOutcome DEF gone
<1> HIDE DEF r
<1>8. ~r.e.open /\ Kept(w, r)
  BY <1>5, <1>7 DEF Outcome, TakenDown
<1>9. Kept(t, r) \/ TakenDown(t, r)
  BY <1>5, <1>8 DEF Outcome, Kept, TakenDown, Empty
<1>10. Sent(t, r, gone)
  BY <1>5, <1>7 DEF Outcome, Sent, Untold
<1>11. Outcome(t, r, gone)
  BY <1>5, <1>7, <1>8, <1>9, <1>10 DEF Outcome
<1>12. Prepared(c, side, t)
  BY <1>2 DEF Prepared
<1>13. Carried(c, side, t, r)
  <2>1. Only(t.e.msgQueue, Speaks(side))
    BY <1>2 DEF IInv, MessageInv, Kinds, Speaks, Sides
  <2>2. QED
    BY <1>2, <1>8, <2>1 DEF Carried
<1>14. QED
  BY <1>2, <1>4, <1>11, <1>12, <1>13, CommitInv DEF gone

\* close on the user's or the poller's behalf, before anything has been read.
LEMMA CloseInv ==
  ASSUME IInv, NEW c \in Conns, NEW side \in Sides, owner[c] # None, NEW r,
         Outcome(Work(c, side), r, PeerGone(c, side)), Commit(c, side, r),
         UNCHANGED <<alive, owner, backlog, pending, panics>>
  PROVE  IInv'
<1> DEFINE w == Work(c, side)
<1>1. /\ w \in Works /\ w.out = <<>> /\ w.ok
      /\ w.i = iface[Proc(c, side)] /\ w.e = end[c][side]
  BY WorkFacts DEF IInv, StateInv
<1>2. Outcome(w, r, PeerGone(c, side))
  OBVIOUS
<1> HIDE DEF w
<1>3. Prepared(c, side, w)
  BY <1>1 DEF Prepared
<1>4. Only(w.e.msgQueue, Speaks(side))
  BY <1>1 DEF IInv, MessageInv, Kinds, Speaks, Sides
<1>5. Carried(c, side, w, r)
  BY <1>1, <1>4 DEF Carried
<1>6. QED
  BY <1>1, <1>2, <1>3, <1>5, CommitInv

LEMMA HangUpStep ==
  ASSUME IInv, NEW c \in Conns, NEW side \in Sides, NEW good \in BOOLEAN,
         HangUp(c, side, good)
  PROVE  IInv'
<1>1. TypeOK /\ OwnerInv /\ end[c][side].open /\ PeerGone(c, side)
  BY DEF HangUp, IInv, StateInv
<1>2. owner[c] # None
  BY <1>1, OpenIsOwned, ControlAssumption DEF Procs
<1>3. CASE end[c][side].bound
  <2> DEFINE w == Work(c, side)
             r == Close(w, FALSE, TRUE, good)
  <2>1. Commit(c, side, r) /\ UNCHANGED <<alive, owner, backlog, pending, panics>>
    BY <1>3 DEF HangUp
  <2>2. w \in Works /\ w.out = <<>>
    BY <1>1, <1>2, WorkFacts
  <2> HIDE DEF w
  <2>3. Outcome(w, r, TRUE)
    BY <2>2, CloseOutcome
  <2> HIDE DEF r
  <2>4. PeerGone(c, side) = TRUE
    BY <1>1, SideFacts, <1>2 DEF PeerGone, TypeOK, Ends
  <2>5. QED
    BY <1>2, <2>1, <2>3, <2>4, CloseInv DEF w
<1>4. CASE ~end[c][side].bound
  <2>1. Exit(Proc(c, side)) /\ panics' = panics \cup {"hang up"}
    BY <1>4 DEF HangUp
  <2>2. Proc(c, side) \in Procs
    BY <1>1, <1>2, SideFacts
  <2>3. QED
    BY <2>1, <2>2, ExitInv
<1>5. QED
  BY <1>3, <1>4

LEMMA HandleStep ==
  ASSUME IInv, NEW c \in Conns, NEW side \in Sides, Handle(c, side)
  PROVE  IInv'
<1>1. PICK good \in Results :
        \/ HangUp(c, side, good)
        \/ RecvAck(c, side, good)
        \/ \E done \in {"nothing", "region", "tx", "all"} : RecvHello(c, side, done, good)
        \/ RecvInit(c, side, good)
        \/ RecvAddRegion(c, side, good)
        \/ RecvAddRing(c, side, good)
        \/ RecvDisconnect(c, side, good)
        \/ \E goodMap, goodUp \in Results :
             \/ RecvConnect(c, side, goodMap, goodUp, good)
             \/ RecvConnected(c, side, goodMap, goodUp, good)
  BY DEF Handle
<1>2. good \in BOOLEAN /\ Results \subseteq BOOLEAN
  BY ControlAssumption
<1>3. QED
  BY <1>1, <1>2, HangUpStep, AckStep, HelloStep, InitStep, AddRegionStep, AddRingStep,
     DisconnectStep, ConnectStep, ConnectedStep

-----------------------------------------------------------------------------
(* The calls of the user, the listener, and applications that come and go. *)

\* Steps that change nothing the invariant speaks of.
LEMMA FrameInv ==
  ASSUME IInv, alive' \subseteq Procs, iface' \in [Procs -> Interfaces],
         \A p \in Procs : /\ iface'[p].cc = iface[p].cc
                          /\ iface'[p].tx = iface[p].tx /\ iface'[p].rx = iface[p].rx
                          /\ iface'[p].regions = iface[p].regions,
         UNCHANGED <<owner, end, backlog, pending, panics>>
  PROVE  IInv'
<1>1. StateInv /\ TypeOK /\ OwnerInv /\ GoneInv /\ BacklogInv /\ SlaveInv /\ MasterInv
      /\ OneChannelPerInterface /\ NothingLeaks /\ MessageInv
  BY DEF IInv, StateInv
<1>2. Master \in Procs /\ Slaves \subseteq Procs
  BY DEF Procs
<1>3. TypeOK' /\ OwnerInv' /\ GoneInv' /\ BacklogInv'
  BY <1>1 DEF TypeOK, OwnerInv, Owned, GoneInv, BacklogInv, InBacklog
<1>4. SlaveInv'
  <2>1. \A c \in Conns : end[c].slave.open => owner[c] \in Slaves
    BY <1>1, OpenIsOwned DEF Sides
  <2>2. QED
    BY <1>1, <1>2, <2>1 DEF SlaveInv
<1>5. MasterInv' /\ OneChannelPerInterface'
  BY <1>1, <1>2 DEF MasterInv, OneChannelPerInterface
<1>6. NothingLeaks'
  BY <1>1 DEF NothingLeaks, IsConnecting, Requesting
<1>7. MessageInv'
  BY <1>1 DEF MessageInv, Kinds, InitFirst, InBacklog, NoMessagePanic
<1>8. QED
  BY <1>3, <1>4, <1>5, <1>6, <1>7 DEF IInv, StateInv

\* The channel of an interface is at its own end of a connection.
LEMMA ChannelFacts ==
  ASSUME StateInv, NEW p \in Procs, iface[p].cc # None
  PROVE  LET c == iface[p].cc  side == SideOf(p) IN
         /\ c \in Conns /\ side \in Sides /\ owner[c] # None /\ Proc(c, side) = p
         /\ PeerGone(c, side) \in BOOLEAN
<1> DEFINE c == iface[p].cc
<1>1. TypeOK /\ SlaveInv /\ MasterInv
  BY DEF StateInv
<1>2. c \in Conns /\ SideOf(p) \in Sides
  BY <1>1 DEF TypeOK, Interfaces, SideOf, Sides
<1>3. None \notin Procs /\ (p # Master => p \in Slaves)
  BY ControlAssumption DEF Procs
<1>4. owner[c] # None /\ Proc(c, SideOf(p)) = p
  BY <1>1, <1>3 DEF SlaveInv, MasterInv, Proc, SideOf
<1>5. PeerGone(c, SideOf(p)) \in BOOLEAN
  BY <1>1, <1>2 DEF TypeOK, PeerGone, Sides, Other, Ends
<1>6. QED
  BY <1>2, <1>4, <1>5

LEMMA UserDisconnectStep ==
  ASSUME IInv, NEW p \in Procs, NEW good \in BOOLEAN, UserDisconnect(p, good)
  PROVE  IInv'
<1> DEFINE c == iface[p].cc
           side == SideOf(p)
           gone == PeerGone(c, side)
           w == Work(c, side)
           r == Close(w, TRUE, gone, good)
<1>1. c # None /\ Commit(c, side, r) /\ UNCHANGED <<alive, owner, backlog, pending, panics>>
  BY DEF UserDisconnect
<1>2. StateInv /\ TypeOK
  BY DEF IInv, StateInv
<1>3. c \in Conns /\ side \in Sides /\ owner[c] # None /\ gone \in BOOLEAN
  BY <1>1, <1>2, ChannelFacts
<1> HIDE DEF c, side
<1>4. w \in Works /\ w.out = <<>>
  BY <1>2, <1>3, WorkFacts
<1> HIDE DEF w, gone
<1>5. Outcome(w, r, gone)
  BY <1>3, <1>4, CloseOutcome
<1> HIDE DEF r
<1>6. QED
  BY <1>1, <1>3, <1>5, CloseInv DEF w, gone

LEMMA DeleteStep ==
  ASSUME IInv, NEW p \in Procs, NEW good \in BOOLEAN, Delete(p, good)
  PROVE  IInv'
<1> DEFINE c == iface[p].cc
           side == SideOf(p)
           gone == PeerGone(c, side)
           w == Work(c, side)
           x == Close(w, TRUE, gone, good)
           r == [x EXCEPT !.i.listed = FALSE]
<1>1. StateInv /\ TypeOK
  BY DEF IInv, StateInv
<1>2. CASE c = None
  <2>1. iface' = [iface EXCEPT ![p].listed = FALSE]
        /\ UNCHANGED <<alive, owner, end, backlog, pending, panics>>
    BY <1>2 DEF Delete
  <2> DEFINE i == [iface[p] EXCEPT !.listed = FALSE]
  <2>2. iface \in [Procs -> Interfaces] /\ iface[p] \in Interfaces
    BY <1>1 DEF TypeOK
  <2>3. /\ i \in Interfaces
        /\ i.cc = iface[p].cc /\ i.tx = iface[p].tx /\ i.rx = iface[p].rx
        /\ i.regions = iface[p].regions
    BY <2>2 DEF Interfaces
  <2>4. iface' = [iface EXCEPT ![p] = i]
    BY <2>1
  <2> HIDE DEF i
  <2>5. iface' \in [Procs -> Interfaces]
    BY <2>2, <2>3, <2>4
  <2>6. ASSUME NEW q \in Procs
        PROVE  /\ iface'[q].cc = iface[q].cc
               /\ iface'[q].tx = iface[q].tx /\ iface'[q].rx = iface[q].rx
               /\ iface'[q].regions = iface[q].regions
    <3>1. CASE q = p
      BY <2>2, <2>3, <2>4, <3>1
    <3>2. CASE q # p
      BY <2>2, <2>4, <3>2
    <3>3. QED
      BY <3>1, <3>2
  <2>7. QED
    BY <1>1, <2>1, <2>5, <2>6, FrameInv DEF TypeOK
<1>3. CASE c # None
  <2>1. Commit(c, side, r) /\ UNCHANGED <<alive, owner, backlog, pending, panics>>
    BY <1>3 DEF Delete
  <2>2. c \in Conns /\ side \in Sides /\ owner[c] # None /\ gone \in BOOLEAN
    BY <1>1, <1>3, ChannelFacts
  <2> HIDE DEF c, side
  <2>3. w \in Works /\ w.out = <<>>
    BY <1>1, <2>2, WorkFacts
  <2> HIDE DEF w, gone
  <2>4. Outcome(w, x, gone)
    BY <2>2, <2>3, CloseOutcome
  <2> HIDE DEF x
  <2>5. /\ r \in Works /\ r.e = x.e /\ r.out = x.out
        /\ r.i.cc = x.i.cc /\ r.i.tx = x.i.tx /\ r.i.rx = x.i.rx /\ r.i.regions = x.i.regions
    BY <2>4 DEF Outcome, Works, Interfaces
  <2> HIDE DEF r
  <2>6. Outcome(w, r, gone)
    BY <2>4, <2>5 DEF Outcome, Kept, TakenDown, Empty, Sent, Untold
  <2>7. QED
    BY <2>1, <2>2, <2>6, CloseInv DEF w, gone
<1>4. QED
  BY <1>2, <1>3

LEMMA RequestReturnsStep ==
  ASSUME IInv, NEW s \in Slaves, RequestReturns(s)
  PROVE  IInv'
<1>1. StateInv /\ TypeOK /\ OwnerInv /\ GoneInv /\ BacklogInv /\ SlaveInv /\ MasterInv
      /\ OneChannelPerInterface /\ NothingLeaks /\ MessageInv
  BY DEF IInv, StateInv
<1>2. /\ Master \in Procs /\ Slaves \subseteq Procs /\ Master # s /\ s \in Procs
      /\ None \notin Conns
  BY ControlAssumption DEF Procs
<1>3. /\ pending[s] # None /\ iface' = [iface EXCEPT ![s].cc = pending[s]]
      /\ pending' = [pending EXCEPT ![s] = None]
      /\ UNCHANGED <<alive, owner, end, backlog, panics>>
  BY DEF RequestReturns
<1>4. pending[s] \in Conns
  BY <1>1, <1>3 DEF TypeOK
<1>5. /\ iface' \in [Procs -> Interfaces] /\ iface'[s].cc = pending[s]
      /\ \A p \in Procs \ {s} : iface'[p] = iface[p]
  <2> DEFINE i == [iface[s] EXCEPT !.cc = pending[s]]
  <2>1. i \in Interfaces /\ i.cc = pending[s]
    BY <1>1, <1>2, <1>4, ZenonT(60) DEF TypeOK, Interfaces
  <2>2. iface' = [iface EXCEPT ![s] = i]
    BY <1>3
  <2> HIDE DEF i
  <2>3. QED
    BY <1>1, <1>2, <2>1, <2>2 DEF TypeOK
<1>6. pending' \in [Slaves -> Conns \cup {None}] /\ pending'[s] = None
      /\ \A t \in Slaves \ {s} : pending'[t] = pending[t]
  BY <1>1, <1>3 DEF TypeOK
<1>7. TypeOK' /\ OwnerInv' /\ GoneInv' /\ BacklogInv'
  BY <1>1, <1>3, <1>5, <1>6 DEF TypeOK, OwnerInv, Owned, GoneInv, BacklogInv, InBacklog
<1>8. SlaveInv'
  <2>1. \A c \in Conns : end[c].slave.open => owner[c] \in Slaves
    BY <1>1, OpenIsOwned DEF Sides
  <2>2. \A t \in Slaves :
          /\ iface'[t].cc # None => owner[iface'[t].cc] = t
          /\ pending'[t] # None => owner[pending'[t]] = t /\ iface'[t].cc = None
    BY <1>1, <1>2, <1>3, <1>5, <1>6 DEF SlaveInv
  <2>3. \A c \in Conns : end[c].slave.open =>
          iface'[owner[c]].cc = c \/ pending'[owner[c]] = c
    <3>1. TAKE c \in Conns
    <3>2. HAVE end[c].slave.open
    <3>3. iface[owner[c]].cc = c \/ pending[owner[c]] = c
      BY <1>1, <3>2 DEF SlaveInv
    <3>4. CASE owner[c] = s
      BY <1>1, <1>2, <1>3, <1>5, <3>3, <3>4 DEF SlaveInv
    <3>5. CASE owner[c] # s
      BY <1>2, <1>5, <1>6, <2>1, <3>2, <3>3, <3>5
    <3>6. QED
      BY <3>4, <3>5
  <2>4. QED
    BY <1>1, <1>3, <2>2, <2>3 DEF SlaveInv
<1>9. MasterInv' /\ OneChannelPerInterface'
  BY <1>1, <1>2, <1>3, <1>5 DEF MasterInv, OneChannelPerInterface
<1>10. NothingLeaks'
  <2>1. \A p \in Procs : p # s => (Requesting(p)' <=> Requesting(p))
    BY <1>6 DEF Requesting, Procs
  <2>2. iface'[s].cc # None
    BY <1>2, <1>4, <1>5
  <2>3. QED
    BY <1>1, <1>5, <2>1, <2>2 DEF NothingLeaks, IsConnecting
<1>11. MessageInv'
  BY <1>1, <1>3 DEF MessageInv, Kinds, InitFirst, InBacklog, NoMessagePanic
<1>12. QED
  BY <1>7, <1>8, <1>9, <1>10, <1>11 DEF IInv, StateInv

LEMMA OneMore ==
  ASSUME NEW S, NEW q \in Seq(S), NEW x \in S
  PROVE  LET a == Append(q, x) IN
         /\ a \in Seq(S) /\ DOMAIN a = 1 .. Len(q) + 1 /\ DOMAIN q = 1 .. Len(q)
         /\ Len(q) \in Nat /\ a[Len(q) + 1] = x
         /\ \A k \in DOMAIN q : a[k] = q[k]
OBVIOUS

LEMMA OneLess ==
  ASSUME NEW S, NEW q \in Seq(S), q # <<>>
  PROVE  LET t == Tail(q) IN
         /\ Head(q) \in S /\ q[1] = Head(q) /\ 1 \in DOMAIN q
         /\ t \in Seq(S) /\ DOMAIN t = 1 .. Len(q) - 1
         /\ DOMAIN q = 1 .. Len(q) /\ Len(q) \in Nat
         /\ \A k \in DOMAIN t : t[k] = q[k + 1]
OBVIOUS

\* The number of a new connection has not been used.
LEMMA NextConnection ==
  ASSUME OwnerInv, NEW c \in Conns, c = Cardinality({d \in Conns : owner[d] # None}) + 1
  PROVE  owner[c] = None /\ \E n \in 0 .. MaxConns : Owned = 1 .. n /\ c = n + 1
<1>1. PICK n \in 0 .. MaxConns : Owned = 1 .. n
  BY DEF OwnerInv
<1>2. Cardinality(1 .. n) = n
  BY <1>1, FS_Interval, ControlAssumption
<1>3. c = n + 1
  BY <1>1, <1>2 DEF Owned
<1>4. c \notin Owned
  BY <1>1, <1>3
<1>5. QED
  BY <1>1, <1>3, <1>4 DEF Owned

\* The slave's end of a connection that has just been made.
Opened == [NewEnd EXCEPT !.open = TRUE, !.bound = TRUE]

\* RequestConnection makes a connection of its own and leaves the others alone.
LEMMA RequestView ==
  ASSUME StateInv, NEW s \in Slaves, NEW c \in Conns, RequestConnection(s, c)
  PROVE  /\ iface[s].cc = None /\ pending[s] = None /\ owner[c] = None
         /\ \E n \in 0 .. MaxConns : Owned = 1 .. n /\ c = n + 1
         /\ UNCHANGED <<alive, iface, panics>>
         /\ Opened \in Ends /\ Opened.open /\ Opened.bound /\ ~Opened.gone
         /\ Opened.inbox = <<>> /\ Opened.msgQueue = <<>>
         /\ end'[c] = [side \in Sides |-> IF side = "slave" THEN Opened ELSE NewEnd]
         /\ end'[c].slave = Opened /\ end'[c].master = NewEnd
         /\ \A d \in Conns \ {c} : end'[d] = end[d]
         /\ end' \in [Conns -> [Sides -> Ends]]
         /\ owner' \in [Conns -> Slaves \cup {None}] /\ owner'[c] = s
         /\ \A d \in Conns \ {c} : owner'[d] = owner[d]
         /\ pending' \in [Slaves -> Conns \cup {None}] /\ pending'[s] = c
         /\ \A t \in Slaves \ {s} : pending'[t] = pending[t]
         /\ backlog' \in Seq(Conns) /\ DOMAIN backlog' = 1 .. Len(backlog) + 1
         /\ DOMAIN backlog = 1 .. Len(backlog) /\ Len(backlog) \in Nat
         /\ backlog'[Len(backlog) + 1] = c
         /\ \A k \in DOMAIN backlog : backlog'[k] = backlog[k]
         /\ ~InBacklog(c) /\ InBacklog(c)'
         /\ \A d \in Conns \ {c} : InBacklog(d)' <=> InBacklog(d)
<1>1. TypeOK /\ OwnerInv /\ BacklogInv
  BY DEF StateInv
<1>2. /\ Master \in Procs /\ Slaves \subseteq Procs /\ Master # s /\ s \in Procs
      /\ None \notin Conns /\ None \notin Slaves
  BY ControlAssumption DEF Procs
<1>3. /\ iface[s].cc = None /\ pending[s] = None
      /\ owner' = [owner EXCEPT ![c] = s]
      /\ backlog' = Append(backlog, c)
      /\ pending' = [pending EXCEPT ![s] = c]
      /\ UNCHANGED <<alive, iface, panics>>
  BY DEF RequestConnection
<1>4. c = Cardinality({d \in Conns : owner[d] # None}) + 1
      /\ end' = [end EXCEPT ![c].slave.open = TRUE, ![c].slave.bound = TRUE]
  BY DEF RequestConnection
<1>5. owner[c] = None /\ \E n \in 0 .. MaxConns : Owned = 1 .. n /\ c = n + 1
  BY <1>1, <1>4, NextConnection
<1>6. end[c] = [side \in Sides |-> NewEnd]
  BY <1>1, <1>5 DEF OwnerInv
<1>7. /\ NewEnd \in Ends /\ ~NewEnd.open /\ ~NewEnd.bound /\ ~NewEnd.gone
      /\ NewEnd.inbox = <<>> /\ NewEnd.msgQueue = <<>>
  BY NoMessages DEF NewEnd, Ends
<1>8. /\ Opened \in Ends /\ Opened.open /\ Opened.bound /\ ~Opened.gone
      /\ Opened.inbox = <<>> /\ Opened.msgQueue = <<>>
  BY <1>7 DEF Ends, Opened
<1>9. /\ end'[c] = [side \in Sides |-> IF side = "slave" THEN Opened ELSE NewEnd]
      /\ \A d \in Conns \ {c} : end'[d] = end[d]
      /\ end' = [d \in Conns |-> end'[d]]
  <2>1. /\ end' = [end EXCEPT ![c] = [end[c] EXCEPT !["slave"] =
                     [end[c]["slave"] EXCEPT !.open = TRUE, !.bound = TRUE]]]
    BY <1>1, <1>4, ZenonT(60) DEF TypeOK, Sides, Ends
  <2>2. end[c]["slave"] = NewEnd
    BY <1>6 DEF Sides
  <2>3. end' = [end EXCEPT ![c] = [end[c] EXCEPT !["slave"] = Opened]]
    BY <2>1, <2>2 DEF Opened
  <2>4. [end[c] EXCEPT !["slave"] = Opened]
          = [side \in Sides |-> IF side = "slave" THEN Opened ELSE NewEnd]
    BY <1>6 DEF Sides
  <2>5. QED
    BY <1>1, <2>3, <2>4 DEF TypeOK
<1>10. end'[c].slave = Opened /\ end'[c].master = NewEnd
  BY <1>9 DEF Sides
<1>11. end' \in [Conns -> [Sides -> Ends]]
  <2>1. end'[c] \in [Sides -> Ends]
    BY <1>7, <1>8, <1>9
  <2>2. QED
    BY <1>1, <1>9, <2>1 DEF TypeOK
<1>12. /\ owner' \in [Conns -> Slaves \cup {None}] /\ owner'[c] = s
       /\ \A d \in Conns \ {c} : owner'[d] = owner[d]
  BY <1>1, <1>3 DEF TypeOK
<1>13. /\ pending' \in [Slaves -> Conns \cup {None}] /\ pending'[s] = c
       /\ \A t \in Slaves \ {s} : pending'[t] = pending[t]
  BY <1>1, <1>3 DEF TypeOK
<1>14. backlog \in Seq(Conns) /\ backlog' \in Seq(Conns)
       /\ DOMAIN backlog' = 1 .. Len(backlog) + 1 /\ DOMAIN backlog = 1 .. Len(backlog)
       /\ Len(backlog) \in Nat /\ backlog'[Len(backlog) + 1] = c
       /\ \A k \in DOMAIN backlog : backlog'[k] = backlog[k]
  <2>1. backlog \in Seq(Conns)
    BY <1>1 DEF TypeOK
  <2>2. QED
    BY <1>3, <2>1, OneMore
<1>15. /\ ~InBacklog(c) /\ InBacklog(c)'
       /\ \A d \in Conns \ {c} : InBacklog(d)' <=> InBacklog(d)
  BY <1>1, <1>5, <1>14 DEF BacklogInv, InBacklog
<1>16. QED
  BY <1>3, <1>5, <1>8, <1>9, <1>10, <1>11, <1>12, <1>13, <1>14, <1>15

LEMMA RequestStep ==
  ASSUME IInv, NEW s \in Slaves, NEW c \in Conns, RequestConnection(s, c)
  PROVE  IInv'
<1>1. StateInv /\ TypeOK /\ OwnerInv /\ GoneInv /\ BacklogInv /\ SlaveInv /\ MasterInv
      /\ OneChannelPerInterface /\ NothingLeaks /\ MessageInv
  BY DEF IInv, StateInv
<1>2. /\ Master \in Procs /\ Slaves \subseteq Procs /\ Master # s /\ s \in Procs
      /\ None \notin Conns /\ None \notin Slaves
  BY ControlAssumption DEF Procs
<1>3. /\ iface[s].cc = None /\ pending[s] = None
      /\ UNCHANGED <<alive, iface, panics>>
  BY <1>1, RequestView
<1>5. owner[c] = None /\ \E n \in 0 .. MaxConns : Owned = 1 .. n /\ c = n + 1
  BY <1>1, RequestView, ZenonT(60)
<1>7. /\ NewEnd \in Ends /\ ~NewEnd.open /\ ~NewEnd.bound /\ ~NewEnd.gone
      /\ NewEnd.inbox = <<>> /\ NewEnd.msgQueue = <<>>
  BY NoMessages DEF NewEnd, Ends
<1>8. /\ Opened.open /\ Opened.bound /\ ~Opened.gone
      /\ Opened.inbox = <<>> /\ Opened.msgQueue = <<>>
  BY <1>1, RequestView
<1>9. /\ end'[c] = [side \in Sides |-> IF side = "slave" THEN Opened ELSE NewEnd]
      /\ end'[c].slave = Opened /\ end'[c].master = NewEnd
      /\ \A d \in Conns \ {c} : end'[d] = end[d]
      /\ end' \in [Conns -> [Sides -> Ends]]
  BY <1>1, RequestView, ZenonT(60)
<1>10. end'[c].slave = Opened /\ end'[c].master = NewEnd
  BY <1>9
<1>12. /\ owner' \in [Conns -> Slaves \cup {None}] /\ owner'[c] = s
       /\ \A d \in Conns \ {c} : owner'[d] = owner[d]
  BY <1>1, RequestView, ZenonT(60)
<1>13. /\ pending' \in [Slaves -> Conns \cup {None}] /\ pending'[s] = c
       /\ \A t \in Slaves \ {s} : pending'[t] = pending[t]
  BY <1>1, RequestView
<1>14. /\ backlog' \in Seq(Conns)
       /\ DOMAIN backlog' = 1 .. Len(backlog) + 1 /\ DOMAIN backlog = 1 .. Len(backlog)
       /\ Len(backlog) \in Nat /\ backlog'[Len(backlog) + 1] = c
       /\ \A k \in DOMAIN backlog : backlog'[k] = backlog[k]
  BY <1>1, RequestView
<1>15. /\ ~InBacklog(c) /\ InBacklog(c)'
       /\ \A d \in Conns \ {c} : InBacklog(d)' <=> InBacklog(d)
  BY <1>1, RequestView
<1>16. TypeOK'
  BY <1>1, <1>3, <1>9, <1>12, <1>13, <1>14 DEF TypeOK
<1>17. OwnerInv'
  <2>1. PICK n \in 0 .. MaxConns : Owned = 1 .. n /\ c = n + 1
    BY <1>5
  <2>2. Owned' = Owned \cup {c}
    BY <1>2, <1>12 DEF Owned
  <2>3. Owned' = 1 .. n + 1 /\ n + 1 \in 0 .. MaxConns
    BY <2>1, <2>2, ControlAssumption DEF Conns
  <2>4. \A d \in Conns : owner'[d] = None => end'[d] = [side \in Sides |-> NewEnd]
    BY <1>1, <1>2, <1>9, <1>12 DEF OwnerInv
  <2>5. QED
    BY <2>3, <2>4 DEF OwnerInv
<1>18. GoneInv'
  BY <1>1, <1>7, <1>8, <1>9 DEF GoneInv
<1>19. BacklogInv'
  <2>1. \A d \in Conns : InBacklog(d)' =>
          /\ owner'[d] # None
          /\ ~end'[d].master.open /\ ~end'[d].master.bound /\ ~end'[d].master.gone
    BY <1>1, <1>2, <1>7, <1>9, <1>10, <1>12, <1>15 DEF BacklogInv
  <2>2. \A k \in DOMAIN backlog : backlog[k] # c
    BY <1>15 DEF InBacklog
  <2>3. \A j, k \in DOMAIN backlog' : backlog'[j] = backlog'[k] => j = k
    BY <1>1, <1>14, <2>2 DEF BacklogInv
  <2>4. QED
    BY <2>1, <2>3 DEF BacklogInv
<1>20. SlaveInv'
  <2>1. \A t \in Slaves :
          /\ iface'[t].cc # None => iface[t].cc \in Conns \ {c} /\ owner'[iface'[t].cc] = t
          /\ pending'[t] # None => owner'[pending'[t]] = t /\ iface'[t].cc = None
    <3>1. TAKE t \in Slaves
    <3>2. iface[t].cc # None => iface[t].cc \in Conns \ {c}
      <4>1. iface[t] \in Interfaces /\ (iface[t].cc # None => owner[iface[t].cc] = t)
        BY <1>1, <1>2 DEF SlaveInv, TypeOK
      <4>2. owner[c] # t
        BY <1>2, <1>5
      <4>3. QED
        BY <4>1, <4>2 DEF Interfaces
    <3>3. pending[t] # None => pending[t] \in Conns \ {c}
      <4>1. pending[t] \in Conns \cup {None} /\ (pending[t] # None => owner[pending[t]] = t)
        BY <1>1 DEF SlaveInv, TypeOK
      <4>2. owner[c] # t
        BY <1>2, <1>5
      <4>3. QED
        BY <4>1, <4>2
    <3>4. QED
      BY <1>1, <1>3, <1>12, <1>13, <3>2, <3>3 DEF SlaveInv
  <2>2. \A d \in Conns : end'[d].slave.open =>
          /\ end'[d].slave.bound
          /\ iface'[owner'[d]].cc = d \/ pending'[owner'[d]] = d
    <3>1. TAKE d \in Conns
    <3>2. HAVE end'[d].slave.open
    <3>3. CASE d = c
      BY <1>8, <1>10, <1>12, <1>13, <3>3
    <3>4. CASE d # c
      <4>1. end[d].slave.open /\ end'[d] = end[d] /\ owner'[d] = owner[d]
        BY <1>9, <1>12, <3>2, <3>4
      <4>2. owner[d] \in Slaves
        BY <1>1, <4>1, OpenIsOwned DEF Sides
      <4>3. iface[owner[d]].cc = d \/ pending[owner[d]] = d
        BY <1>1, <4>1 DEF SlaveInv
      <4>4. CASE owner[d] = s
        BY <1>2, <1>3, <4>3, <4>4
      <4>5. CASE owner[d] # s
        BY <1>1, <1>3, <1>13, <4>1, <4>2, <4>3, <4>5 DEF SlaveInv
      <4>6. QED
        BY <4>4, <4>5
    <3>5. QED
      BY <3>3, <3>4
  <2>3. QED
    BY <2>1, <2>2 DEF SlaveInv
<1>21. MasterInv'
  <2>1. iface[Master].cc # None => iface[Master].cc \in Conns \ {c}
    BY <1>1, <1>2, <1>5 DEF MasterInv, TypeOK, Interfaces
  <2>2. QED
    BY <1>1, <1>2, <1>3, <1>9, <1>12, <2>1 DEF MasterInv
<1>22. OneChannelPerInterface'
  BY <1>1, <1>3, <1>7, <1>9, <1>10 DEF OneChannelPerInterface
<1>23. NothingLeaks'
  <2>1. \A p \in Procs : p # s => (Requesting(p)' <=> Requesting(p))
    BY <1>13 DEF Requesting, Procs
  <2>2. Requesting(s)'
    BY <1>2, <1>13 DEF Requesting
  <2>3. QED
    BY <1>1, <1>3, <2>1, <2>2 DEF NothingLeaks, IsConnecting
<1>24. ASSUME NEW d \in Conns
       PROVE  Kinds(d)' /\ InitFirst(d)'
  <2>1. CASE d = c
    <3>1. Kinds(c)'
      BY <1>7, <1>8, <1>10, OnlyEmpty DEF Kinds
    <3>2. InitFirst(c)'
      BY <1>7, <1>8, <1>10, InitLeadsEmpty DEF InitFirst
    <3>3. QED
      BY <2>1, <3>1, <3>2
  <2>2. CASE d # c
    <3>1. Kinds(d) /\ InitFirst(d) /\ end'[d] = end[d] /\ (InBacklog(d)' <=> InBacklog(d))
      BY <1>1, <1>9, <1>15, <2>2 DEF MessageInv
    <3>2. Kinds(d)'
      BY <3>1 DEF Kinds
    <3>3. InitFirst(d)'
      BY <3>1 DEF InitFirst
    <3>4. QED
      BY <3>2, <3>3
  <2>3. QED
    BY <2>1, <2>2
<1>25. MessageInv'
  BY <1>1, <1>3, <1>24 DEF MessageInv, NoMessagePanic
<1>26. QED
  BY <1>16, <1>17, <1>18, <1>19, <1>20, <1>21, <1>22, <1>23, <1>25 DEF IInv, StateInv

LEMMA AcceptStep ==
  ASSUME IInv, Accept, NEW c \in Conns, c = Head(backlog)
  PROVE  IInv'
<1> DEFINE side == "master"
           w == [Work(c, "master") EXCEPT !.e.open = TRUE]
           v == Enqueue(w, <<HelloMsg>>)
           r == SendMsg(v, PeerGone(c, "master"))
<1>1. StateInv /\ TypeOK /\ OwnerInv /\ GoneInv /\ BacklogInv /\ MessageInv
  BY DEF IInv, StateInv
<1>2. /\ backlog # <<>> /\ backlog' = Tail(backlog)
      /\ Commit(c, "master", r) /\ UNCHANGED <<alive, owner, pending, panics>>
  BY DEF Accept
<1>3. backlog \in Seq(Conns)
  BY <1>1 DEF TypeOK
<1>4. /\ c \in Conns /\ backlog[1] = c /\ 1 \in DOMAIN backlog
      /\ backlog' \in Seq(Conns) /\ DOMAIN backlog' = 1 .. Len(backlog) - 1
      /\ DOMAIN backlog = 1 .. Len(backlog) /\ Len(backlog) \in Nat
      /\ \A k \in DOMAIN backlog' : backlog'[k] = backlog[k + 1]
  BY <1>2, <1>3, OneLess
<1>5. InBacklog(c)
  BY <1>4 DEF InBacklog
<1>6. ~InBacklog(c)' /\ \A d \in Conns : InBacklog(d)' => InBacklog(d)
  <2>1. \A k \in DOMAIN backlog' : backlog'[k] # c
    <3>1. TAKE k \in DOMAIN backlog'
    <3>2. k + 1 \in DOMAIN backlog /\ k + 1 # 1 /\ backlog'[k] = backlog[k + 1]
      BY <1>4
    <3>3. QED
      BY <1>1, <1>4, <3>2 DEF BacklogInv
  <2>2. \A k \in DOMAIN backlog' : \E j \in DOMAIN backlog : backlog'[k] = backlog[j]
    BY <1>4
  <2>3. ~InBacklog(c)'
    BY <2>1 DEF InBacklog
  <2>4. ASSUME NEW d \in Conns, InBacklog(d)'
        PROVE  InBacklog(d)
    <3>1. PICK k \in DOMAIN backlog' : backlog'[k] = d
      BY <2>4 DEF InBacklog
    <3>2. QED
      BY <2>2, <3>1 DEF InBacklog
  <2>5. QED
    BY <2>3, <2>4
<1>7. owner[c] # None
      /\ ~end[c].master.open /\ ~end[c].master.bound /\ ~end[c].master.gone
  BY <1>1, <1>4, <1>5 DEF BacklogInv
<1> DEFINE e == end[c].master
           u == Work(c, "master")
<1>8. /\ u \in Works /\ u.out = <<>> /\ u.i = iface[Proc(c, "master")] /\ u.e = e
  BY <1>1, <1>4, <1>7, WorkFacts DEF Sides
<1> HIDE DEF u
<1>9. /\ w \in Works /\ w.out = <<>> /\ w.i = u.i /\ w.e.open
      /\ w.e.bound = e.bound /\ w.e.gone = e.gone /\ w.e.inbox = e.inbox
      /\ w.e.msgQueue = e.msgQueue
  BY <1>8 DEF u, Works, Ends
<1> HIDE DEF w, e
<1>10. <<HelloMsg>> \in Seq(Messages) /\ Only(<<HelloMsg>>, ToSlave)
  BY MessageKinds DEF HelloMsg, Only, ToSlave
<1>11. /\ v \in Works /\ v.i = w.i /\ v.out = w.out
       /\ v.e.msgQueue = w.e.msgQueue \o <<HelloMsg>> /\ v.e.inbox = w.e.inbox
       /\ v.e.open = w.e.open /\ v.e.bound = w.e.bound /\ v.e.gone = w.e.gone
  BY <1>9, <1>10, EnqueueFacts
<1> HIDE DEF v
<1>12. PeerGone(c, side) \in BOOLEAN
  BY <1>1, <1>4 DEF TypeOK, PeerGone, Sides, Other, Ends
<1>13. /\ r \in Works /\ Sent(v, r, PeerGone(c, side)) /\ r.i = v.i
       /\ r.e = [v.e EXCEPT !.msgQueue = r.e.msgQueue]
  BY <1>9, <1>11, <1>12, SendMsgOutcome
<1> HIDE DEF r
<1>14. /\ r.e.open = v.e.open /\ r.e.bound = v.e.bound /\ r.e.inbox = v.e.inbox
       /\ r.e.gone = v.e.gone
  BY <1>11, <1>13 DEF Works, Ends
<1>15. Outcome(v, r, PeerGone(c, side))
  BY <1>13, <1>14 DEF Outcome, Kept
<1>16. Prepared(c, side, v)
  BY <1>4, <1>5, <1>7, <1>8, <1>9, <1>11, SMTT(40) DEF Prepared, Sides, e
<1>17. Carried(c, side, v, r)
  <2>1. w.e.msgQueue \in Seq(Messages) /\ Only(w.e.msgQueue, ToSlave)
    BY <1>1, <1>4, <1>9 DEF MessageInv, Kinds, e, Works, Ends
  <2>2. Only(v.e.msgQueue, Speaks(side))
    BY <1>10, <1>11, <2>1, OnlyConcat DEF Speaks
  <2>3. QED
    BY <1>9, <1>11, <2>2 DEF Carried, e
<1>18. /\ iface' \in [Procs -> Interfaces] /\ end' \in [Conns -> [Sides -> Ends]]
       /\ OwnerInv' /\ GoneInv' /\ SlaveInv' /\ MasterInv'
       /\ OneChannelPerInterface' /\ NothingLeaks'
  BY <1>1, <1>2, <1>15, <1>16, CommitState
<1>19. \A d \in Conns : Kinds(d)' /\ InitFirst(d)'
  BY <1>1, <1>2, <1>6, <1>15, <1>16, <1>17, CommitMessages DEF MessageInv
<1>20. BacklogInv'
  <2>1. \A d \in Conns \ {c} : end'[d] = end[d]
    BY <1>1, <1>2, <1>4, <1>7, <1>13, CommitView DEF Sides
  <2>2. \A d \in Conns : InBacklog(d)' =>
          /\ owner'[d] # None
          /\ ~end'[d].master.open /\ ~end'[d].master.bound /\ ~end'[d].master.gone
    <3>1. TAKE d \in Conns
    <3>2. HAVE InBacklog(d)'
    <3>3. InBacklog(d) /\ d # c
      BY <1>6, <3>2
    <3>4. /\ owner[d] # None
          /\ ~end[d].master.open /\ ~end[d].master.bound /\ ~end[d].master.gone
      BY <1>1, <3>3 DEF BacklogInv
    <3>5. end'[d] = end[d] /\ owner' = owner
      BY <1>2, <2>1, <3>3
    <3>6. QED
      BY <3>4, <3>5
  <2>3. \A j, k \in DOMAIN backlog' : backlog'[j] = backlog'[k] => j = k
    <3>1. TAKE j, k \in DOMAIN backlog'
    <3>2. HAVE backlog'[j] = backlog'[k]
    <3>3. j + 1 \in DOMAIN backlog /\ k + 1 \in DOMAIN backlog
          /\ backlog[j + 1] = backlog[k + 1]
      BY <1>4, <3>2
    <3>4. j + 1 = k + 1
      BY <1>1, <3>3 DEF BacklogInv
    <3>5. QED
      BY <1>4, <3>4
  <2>4. QED
    BY <2>2, <2>3 DEF BacklogInv
<1>21. TypeOK'
  BY <1>1, <1>2, <1>4, <1>18 DEF TypeOK
<1>22. NoMessagePanic'
  BY <1>1, <1>2 DEF MessageInv, NoMessagePanic
<1>23. QED
  BY <1>18, <1>19, <1>20, <1>21, <1>22 DEF IInv, StateInv, MessageInv

LEMMA InitInv == Init => IInv
<1> SUFFICES ASSUME Init PROVE IInv
  OBVIOUS
<1>1. /\ NewInterface \in Interfaces /\ NewInterface.cc = None
      /\ NewInterface.tx = <<>> /\ NewInterface.rx = <<>> /\ NewInterface.regions = <<>>
  BY NoMessages DEF NewInterface, Interfaces
<1>2. /\ NewEnd \in Ends /\ ~NewEnd.open /\ ~NewEnd.bound /\ ~NewEnd.gone
      /\ NewEnd.inbox = <<>> /\ NewEnd.msgQueue = <<>>
  BY NoMessages DEF NewEnd, Ends
<1>3. /\ \A p \in Procs : iface[p] = NewInterface
      /\ \A c \in Conns, side \in Sides : end[c][side] = NewEnd
      /\ \A c \in Conns : owner[c] = None
      /\ \A s \in Slaves : pending[s] = None
      /\ backlog = <<>> /\ panics = {}
  BY DEF Init
<1>4. \A c \in Conns : ~InBacklog(c)
  BY <1>3, NoMessages DEF InBacklog
<1>5. TypeOK
  BY <1>1, <1>2, NoMessages DEF Init, TypeOK
<1>6. OwnerInv
  <2>1. Owned = 1 .. 0 /\ 0 \in 0 .. MaxConns
    BY <1>3, ControlAssumption DEF Owned
  <2>2. \A c \in Conns : end[c] = [side \in Sides |-> NewEnd]
    BY DEF Init
  <2>3. QED
    BY <2>1, <2>2 DEF OwnerInv
<1>7. BacklogInv
  <2>1. DOMAIN backlog = {}
    BY <1>3, NoMessages
  <2>2. QED
    BY <1>4, <2>1 DEF BacklogInv
<1>8. GoneInv /\ SlaveInv /\ MasterInv /\ OneChannelPerInterface /\ NothingLeaks
  BY <1>1, <1>2, <1>3 DEF GoneInv, SlaveInv, MasterInv, OneChannelPerInterface, NothingLeaks,
                          IsConnecting, Requesting, Sides, Procs
<1>9. MessageInv
  BY <1>2, <1>3, <1>4, OnlyEmpty, InitLeadsEmpty
  DEF MessageInv, Kinds, InitFirst, NoMessagePanic, Sides
<1>10. QED
  BY <1>5, <1>6, <1>7, <1>8, <1>9 DEF IInv, StateInv

LEMMA NextInv == IInv /\ [Next]_vars => IInv'
<1> SUFFICES ASSUME IInv, [Next]_vars PROVE IInv'
  OBVIOUS
<1>1. alive \subseteq Procs /\ iface \in [Procs -> Interfaces]
  BY DEF IInv, StateInv, TypeOK
<1>2. CASE User
  <2>1. Results \subseteq BOOLEAN
    BY ControlAssumption
  <2>2. QED
    BY <1>2, <2>1, RequestStep, RequestReturnsStep, UserDisconnectStep, DeleteStep DEF User
<1>3. CASE Accept
  <2>1. Head(backlog) \in Conns
    BY <1>3, OneLess DEF Accept, IInv, StateInv, TypeOK
  <2>2. QED
    BY <1>3, <2>1, AcceptStep
<1>4. CASE \E c \in Conns, side \in Sides : Handle(c, side)
  BY <1>4, HandleStep
<1>5. CASE \E p \in Procs : Crash(p)
  <2>1. PICK p \in Procs : Crash(p)
    BY <1>5
  <2>2. Exit(p) /\ panics' = panics
    BY <2>1 DEF Crash
  <2>3. QED
    BY <2>2, ExitInv
<1>6. CASE \E s \in Slaves : Restart(s)
  <2>1. PICK s \in Slaves : Restart(s)
    BY <1>6
  <2>2. /\ alive' \subseteq Procs /\ iface' = iface
        /\ UNCHANGED <<owner, end, backlog, pending, panics>>
    BY <1>1, <2>1 DEF Restart, Procs
  <2>3. QED
    BY <1>1, <2>2, FrameInv
<1>7. CASE UNCHANGED vars
  <2>1. alive' \subseteq Procs /\ iface' = iface
        /\ UNCHANGED <<owner, end, backlog, pending, panics>>
    BY <1>1, <1>7 DEF vars
  <2>2. QED
    BY <1>1, <2>1, FrameInv
<1>8. QED
  BY <1>2, <1>3, <1>4, <1>5, <1>6, <1>7 DEF Next

LEMMA Invariant == Spec => []IInv
<1>1. QED
  BY InitInv, NextInv, PTL DEF Spec

-----------------------------------------------------------------------------
(* Theorems. *)

\* Every variable of the control plane keeps to the values its Go counterpart
\* can hold, however many slaves, connections and rings there are.
THEOREM ControlTypeCorrect == Spec => []TypeOK
<1>1. IInv => TypeOK
  BY DEF IInv, StateInv
<1>2. QED
  BY <1>1, Invariant, PTL

\* parseInit never lets two slaves share the master interface: an open channel
\* bound to it is the one it works for.
THEOREM OneChannelAlways == Spec => []OneChannelPerInterface
<1>1. IInv => OneChannelPerInterface
  BY DEF IInv, StateInv
<1>2. QED
  BY <1>1, Invariant, PTL

\* parseMsg never finds cc.i nil: a message about the interface arrives behind
\* the Init that has bound the channel to it, or on a channel that is closed.
THEOREM MessagesFindInterface == Spec => []NoMessagePanic
<1>1. IInv => NoMessagePanic
  BY DEF IInv, MessageInv
<1>2. QED
  BY <1>1, Invariant, PTL

\* disconnect leaves queues and regions only to an interface that keeps its
\* channel, whichever callback or system call fails.
THEOREM NothingEverLeaks == Spec => []NothingLeaks
<1>1. IInv => NothingLeaks
  BY DEF IInv, StateInv
<1>2. QED
  BY <1>1, Invariant, PTL
=============================================================================
