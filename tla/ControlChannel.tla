--------------------------- MODULE ControlChannel ---------------------------
(***************************************************************************)
(* The control plane of memif: one application with a master interface     *)
(* (and the listener of its socket), and applications with one slave       *)
(* interface each, all of them with the id of the master interface.        *)
(*                                                                         *)
(* A slave connects to the listener; the two control channels then run the *)
(* handshake Hello, Init, AddRegion, AddRing ..., Connect, Connected, one  *)
(* message per handled event, and either side ends it with Disconnect.     *)
(*                                                                         *)
(* Events of one socket are handled one after the other by its polling     *)
(* goroutine, so a handler is one step.  Calls of the user's goroutine are *)
(* steps too, except RequestConnection, which registers the new channel    *)
(* before it stores it in the interface.  A closed channel's descriptor is *)
(* not closed by the code, so the peer sees a hang up only when a process  *)
(* ends.                                                                   *)
(***************************************************************************)
EXTENDS Integers, Sequences, FiniteSets, SequencesExt

CONSTANTS
  Master,              \* the application with the master interface
  Slaves,              \* the applications with a slave interface
  MaxConns,            \* bound: connections made in one behaviour
  None,                \* nil
  Pairs,               \* args.MemoryConfig.NumQueuePairs of each interface
  Secret,              \* args.Secret of each interface
  ZeroSecret,          \* [24]byte{}
  MaxRings,            \* MaxRingM2S of Hello
  Crashers,            \* applications that may exit at any time
  Disconnecters,       \* applications whose user calls Disconnect or Delete
  Results,             \* whether callbacks and system calls succeed: part of BOOLEAN
  ConcurrentRequests,  \* is polling under way while RequestConnection runs
  MaxUnread            \* bound: see MayRepeat

Procs == {Master} \cup Slaves
Conns == 1 .. MaxConns

ASSUME ControlAssumption ==
  /\ Master \notin Slaves
  /\ MaxConns \in Nat
  /\ None \notin Conns \cup Procs
  /\ Pairs \in [Procs -> Nat \ {0}]
  /\ MaxRings \in Nat \ {0}
  /\ Crashers \subseteq Procs
  /\ Disconnecters \subseteq Procs
  /\ Results \subseteq BOOLEAN
  /\ ConcurrentRequests \in BOOLEAN
  /\ MaxUnread \in Nat

VARIABLES
  alive,    \* the running applications
  iface,    \* the interface of each application
  owner,    \* the slave that made a connection
  end,      \* the two ends of a connection, a control channel each
  backlog,  \* connections the listener has not accepted yet
  pending,  \* the channel a RequestConnection under way has registered
  panics    \* history: what made a polling goroutine panic

vars == <<alive, iface, owner, end, backlog, pending, panics>>

-----------------------------------------------------------------------------
(* Data. *)

Sides == {"master", "slave"}

Other(side) == IF side = "master" THEN "slave" ELSE "master"

SideOf(p) == IF p = Master THEN "master" ELSE "slave"

Proc(c, side) == IF side = "master" THEN Master ELSE owner[c]

\* Interface: cc, regions (whether data is mapped), the rings of its queues;
\* told and twice are history: the last callback, and whether ConnectedFunc was
\* called twice in a row.
NewInterface ==
  [listed |-> TRUE, cc |-> None, run |-> 0, regions |-> <<>>,
   tx |-> <<>>, rx |-> <<>>, told |-> "down", twice |-> FALSE]

\* controlChannel: open while it is in ccList and registered with epoll, bound
\* when cc.i is set, up is isConnected; inbox is the socket's receive buffer,
\* gone tells that the process that held this end has exited.
NewEnd ==
  [open |-> FALSE, bound |-> FALSE, up |-> FALSE, gone |-> FALSE,
   msgQueue |-> <<>>, inbox |-> <<>>]

GoneEnd == [NewEnd EXCEPT !.gone = TRUE]

Plain(type)    == [type |-> type]
HelloMsg       == [type |-> "Hello", maxRingM2S |-> MaxRings]
InitMsg        == [type |-> "Init", secret |-> ZeroSecret]
AddRing(ring)  == [type |-> "AddRing", ring |-> ring]

\* Mutant of Rings: indices count from 1.
RingsFromOne(ringType, n) == [k \in 1 .. n |-> <<ringType, k>>]

\* The rings of one direction, in the order of their index.
Rings(ringType, n) == [k \in 1 .. n |-> <<ringType, k - 1>>]

AddRings(rings) == [k \in DOMAIN rings |-> AddRing(rings[k])]

\* Mutant of Handshake: the regions are announced before the interface.
HandshakeRegionsFirst(i) ==
  [r \in DOMAIN i.regions |-> Plain("AddRegion")] \o <<InitMsg>>
    \o AddRings(i.tx) \o AddRings(i.rx) \o <<Plain("Connect")>>

\* Mutant of Handshake: Connect follows the rings of each direction.
HandshakeConnectTwice(i) ==
  <<InitMsg>> \o [r \in DOMAIN i.regions |-> Plain("AddRegion")]
    \o AddRings(i.tx) \o <<Plain("Connect")>> \o AddRings(i.rx) \o <<Plain("Connect")>>

\* What the slave enqueues when Hello has come, to be sent one by one.
Handshake(i) ==
  <<InitMsg>> \o [r \in DOMAIN i.regions |-> Plain("AddRegion")]
    \o AddRings(i.tx) \o AddRings(i.rx) \o <<Plain("Connect")>>

CarriesFd(m) == m.type \in {"AddRegion", "AddRing"}

MinOf(a, b) == IF a < b THEN a ELSE b

-----------------------------------------------------------------------------
(* What handlers do, on a record w of the interface i and the end e they    *)
(* work on, the messages out they send and whether they are still ok.       *)

Work(c, side) ==
  [i |-> iface[Proc(c, side)], e |-> end[c][side], out |-> <<>>, ok |-> TRUE]

Enqueue(w, msgs) == [w EXCEPT !.e.msgQueue = @ \o msgs]

Fail(w) == [w EXCEPT !.ok = FALSE]

\* Mutant of SendMsg: the whole queue is sent.
SendAll(w, peerGone) ==
  IF peerGone THEN Fail(w)
              ELSE [w EXCEPT !.out = @ \o w.e.msgQueue, !.e.msgQueue = <<>>]

\* sendMsg: one message leaves the queue; sending fails when the peer's
\* process has exited or the message's descriptor was closed meanwhile.
SendMsg(w, peerGone) ==
  IF w.e.msgQueue = <<>> THEN w
  ELSE LET m == Head(w.e.msgQueue)
           v == [w EXCEPT !.e.msgQueue = Tail(@)]
       IN  IF peerGone \/ (CarriesFd(m) /\ w.i.regions = <<>>)
             THEN Fail(v)
             ELSE [v EXCEPT !.out = Append(@, m)]

\* Mutant of Cleared: the regions are kept.
ClearedOfChannel(i) == [i EXCEPT !.cc = None]

\* The end of Interface.disconnect.
Cleared(i) == [i EXCEPT !.regions = <<>>, !.cc = None]

\* Interface.disconnect; good is the result of DisconnectedFunc.  Munmap
\* refuses a region that was never mapped, and everything after it is skipped.
Disconnect(w, good) ==
  LET told     == [w EXCEPT !.i.told = "down"]
      noQueues == [told EXCEPT !.i.tx = <<>>, !.i.rx = <<>>]
  IN  CASE w.i.cc = None                    -> w
        [] w.i.cc # None /\ ~good           -> Fail(told)
        [] w.i.cc # None /\ good /\ \E r \in DOMAIN w.i.regions : ~w.i.regions[r]
                                            -> Fail(noQueues)
        [] OTHER -> [noQueues EXCEPT !.i = Cleared(@)]

\* Mutant of Close: only a connected interface is disconnected.
CloseConnected(w, sendMsg, peerGone, good) ==
  LET sent   == IF sendMsg
                  THEN SendMsg([w EXCEPT !.e.msgQueue = <<Plain("Disconnect")>>], peerGone)
                  ELSE w
      closed == [sent EXCEPT !.e.open = FALSE]
  IN  CASE ~sent.ok                              -> sent
        [] sent.ok /\ ~sent.e.open               -> Fail(sent)
        [] sent.ok /\ sent.e.open /\ ~w.e.up     -> closed
        [] OTHER                                 -> Disconnect(closed, good)

\* controlChannel.close: each step that fails skips the ones after it.
Close(w, sendMsg, peerGone, good) ==
  LET sent   == IF sendMsg
                  THEN SendMsg([w EXCEPT !.e.msgQueue = <<Plain("Disconnect")>>], peerGone)
                  ELSE w
      closed == [sent EXCEPT !.e.open = FALSE]
  IN  CASE ~sent.ok                              -> sent
        [] sent.ok /\ ~sent.e.open               -> Fail(sent)   \* delEvent
        [] sent.ok /\ sent.e.open /\ ~w.e.bound  -> closed
        [] OTHER                                 -> Disconnect(closed, good)

\* Interface.connect; goodMap is the result of Mmap, called for regions that are
\* not mapped yet, good that of ConnectedFunc.
Connect(w, goodMap, good) ==
  LET called == [w EXCEPT !.i.regions = [r \in DOMAIN @ |-> TRUE],
                          !.i.told = "up",
                          !.i.twice = @ \/ w.i.told = "up"]
  IN  CASE ~goodMap /\ \E r \in DOMAIN w.i.regions : ~w.i.regions[r] -> Fail(w)
        [] good  -> [called EXCEPT !.e.up = TRUE]
        [] OTHER -> Fail(called)

Commit(c, side, w) ==
  /\ iface' = [iface EXCEPT ![Proc(c, side)] = w.i]
  /\ end' = [end EXCEPT ![c] = [s \in Sides |->
               IF s = side THEN w.e
                           ELSE [end[c][s] EXCEPT !.inbox = @ \o w.out]]]

PeerGone(c, side) == end[c][Other(side)].gone

-----------------------------------------------------------------------------
(* Processes come and go. *)

\* The kernel closes all descriptors of an application that ends.
Exit(p) ==
  /\ alive' = alive \ {p}
  /\ iface' = [iface EXCEPT ![p] = NewInterface]
  /\ pending' = IF p = Master THEN pending ELSE [pending EXCEPT ![p] = None]
  /\ backlog' = IF p = Master THEN <<>> ELSE backlog
  /\ end' = [c \in Conns |-> [side \in Sides |->
               IF owner[c] # None /\ Proc(c, side) = p THEN GoneEnd ELSE end[c][side]]]
  /\ UNCHANGED owner

Crash(p) ==
  /\ p \in alive \cap Crashers
  /\ Exit(p)
  /\ UNCHANGED panics

\* A slave application starts anew.  (A master that does finds its socket's
\* file in the way: Bind fails.)
Restart(s) ==
  /\ s \in Slaves \ alive
  /\ alive' = alive \cup {s}
  /\ UNCHANGED <<iface, owner, end, backlog, pending, panics>>

-----------------------------------------------------------------------------
(* Calls of the user. *)

\* The user's goroutine is inside RequestConnection.
Requesting(p) == p # Master /\ pending[p] # None

\* RequestConnection up to addControlChannel, called as the examples do:
\* while the interface is not connecting.
RequestConnection(s, c) ==
  /\ s \in alive /\ Master \in alive
  /\ iface[s].listed /\ iface[s].cc = None /\ pending[s] = None
  /\ c = Cardinality({d \in Conns : owner[d] # None}) + 1
  /\ owner' = [owner EXCEPT ![c] = s]
  /\ end' = [end EXCEPT ![c].slave.open = TRUE, ![c].slave.bound = TRUE]
  /\ backlog' = Append(backlog, c)
  /\ pending' = [pending EXCEPT ![s] = c]
  /\ UNCHANGED <<alive, iface, panics>>

\* i.cc = the new channel, whatever became of it in between.
RequestReturns(s) ==
  /\ s \in alive /\ pending[s] # None
  /\ iface' = [iface EXCEPT ![s].cc = pending[s]]
  /\ pending' = [pending EXCEPT ![s] = None]
  /\ UNCHANGED <<alive, owner, end, backlog, panics>>

\* A bound, not the code's: on a channel that is closed but has stayed with its
\* interface each call sends one more message, which nobody may ever read.
MayRepeat(c, side) ==
  end[c][side].open \/ Len(end[c][Other(side)].inbox) < MaxUnread

\* Mutant of UserDisconnect: the peer is not told.
UserDisconnectSilent(p, good) ==
  LET c == iface[p].cc IN
  /\ p \in alive \cap Disconnecters
  /\ c # None
  /\ ~Requesting(p)
  /\ Commit(c, SideOf(p), Close(Work(c, SideOf(p)), FALSE, TRUE, good))
  /\ UNCHANGED <<alive, owner, backlog, pending, panics>>

\* Interface.Disconnect of a connecting or connected interface.
UserDisconnect(p, good) ==
  LET c == iface[p].cc IN
  /\ p \in alive \cap Disconnecters
  /\ c # None
  /\ ~Requesting(p)
  /\ MayRepeat(c, SideOf(p))
  /\ Commit(c, SideOf(p),
            Close(Work(c, SideOf(p)), TRUE, PeerGone(c, SideOf(p)), good))
  /\ UNCHANGED <<alive, owner, backlog, pending, panics>>

\* Interface.Delete ignores what became of the disconnection.
Delete(p, good) ==
  LET c == iface[p].cc
      w == Close(Work(c, SideOf(p)), TRUE, PeerGone(c, SideOf(p)), good)
  IN
  /\ p \in alive \cap Disconnecters
  /\ iface[p].listed
  /\ ~Requesting(p)
  /\ IF c = None
       THEN /\ iface' = [iface EXCEPT ![p].listed = FALSE]
            /\ UNCHANGED end
       ELSE /\ MayRepeat(c, SideOf(p))
            /\ Commit(c, SideOf(p), [w EXCEPT !.i.listed = FALSE])
  /\ UNCHANGED <<alive, owner, backlog, pending, panics>>

-----------------------------------------------------------------------------
(* Events handled by the polling goroutines. *)

Polls(p) ==
  /\ p \in alive
  /\ Requesting(p) => ConcurrentRequests

\* Mutant of Finish: after an error the channel is closed without a message.
FinishSilent(c, side, w, good) ==
  /\ Commit(c, side,
            IF w.ok THEN SendMsg(w, PeerGone(c, side))
                    ELSE Close([w EXCEPT !.ok = TRUE], FALSE, PeerGone(c, side), good))
  /\ UNCHANGED <<alive, owner, backlog, pending, panics>>

\* The end of parseMsg and of handleEvent: send the next message, or after an
\* error close the channel with a Disconnect message.
Finish(c, side, w, good) ==
  /\ Commit(c, side,
            IF w.ok THEN SendMsg(w, PeerGone(c, side))
                    ELSE Close([w EXCEPT !.ok = TRUE], TRUE, PeerGone(c, side), good))
  /\ UNCHANGED <<alive, owner, backlog, pending, panics>>

\* A message for the channel's interface, on a channel that has none: cc.i is
\* nil.
FinishOn(c, side, w, good) ==
  IF w.e.bound
    THEN Finish(c, side, w, good)
    ELSE /\ Exit(Proc(c, side))
         /\ panics' = panics \cup {"message"}

\* The listener accepts a connection, adds a channel and sends Hello.
Accept ==
  /\ Polls(Master)
  /\ backlog # <<>>
  /\ backlog' = Tail(backlog)
  /\ LET c == Head(backlog)
         w == [Work(c, "master") EXCEPT !.e.open = TRUE]
     IN  Commit(c, "master", SendMsg(Enqueue(w, <<HelloMsg>>), PeerGone(c, "master")))
  /\ UNCHANGED <<alive, owner, pending, panics>>

\* EPOLLHUP or EPOLLERR, looked at before EPOLLIN: unread messages are lost.
\* The message of the returned error takes the name of cc.i.
HangUp(c, side, good) ==
  /\ end[c][side].open
  /\ Polls(Proc(c, side))
  /\ PeerGone(c, side)
  /\ IF end[c][side].bound
       THEN /\ Commit(c, side, Close(Work(c, side), FALSE, TRUE, good))
            /\ UNCHANGED <<alive, owner, backlog, pending, panics>>
       ELSE /\ Exit(Proc(c, side))
            /\ panics' = panics \cup {"hang up"}

\* EPOLLIN with a message of the given type, and the state without it.
Receives(c, side, type) ==
  /\ end[c][side].open
  /\ Polls(Proc(c, side))
  /\ ~PeerGone(c, side)
  /\ end[c][side].inbox # <<>>
  /\ Head(end[c][side].inbox).type = type

Received(c, side) == Head(end[c][side].inbox)

Taken(c, side) == [Work(c, side) EXCEPT !.e.inbox = Tail(@)]

RecvAck(c, side, good) ==
  /\ Receives(c, side, "Ack")
  /\ Finish(c, side, Taken(c, side), good)

\* The slave configures itself, creates region and queues and enqueues the
\* whole handshake.  done is how far it gets before a system call fails.
RecvHello(c, side, done, good) ==
  LET n      == MinOf(Pairs[Proc(c, side)], Received(c, side).maxRingM2S)
      config == [Taken(c, side) EXCEPT !.i.run = n]
      region == [config EXCEPT !.i.regions = Append(@, TRUE)]
      tx     == [region EXCEPT !.i.tx = @ \o Rings("S2M", n)]
      rx     == [tx EXCEPT !.i.rx = @ \o Rings("M2S", n)]
  IN
  /\ Receives(c, side, "Hello")
  /\ FinishOn(c, side,
              CASE done = "nothing" -> Fail(config)
                [] done = "region"  -> Fail(region)
                [] done = "tx"      -> Fail(tx)
                [] done = "all"     -> Enqueue(rx, Handshake(rx.i)),
              good)

\* Mutant of Fits: an interface that has a channel gets another one.
FitsConnected(p, i, init) == p = Master /\ i.listed /\ Secret[p] = init.secret

\* parseInit looks for a listed master interface of that id; it must have no
\* channel yet, and its secret must be the one in the message.
Fits(p, i, init) ==
  p = Master /\ i.listed /\ i.cc = None /\ Secret[p] = init.secret

RecvInit(c, side, good) ==
  LET w == Taken(c, side)
      p == Proc(c, side)
      v == [w EXCEPT !.i.cc = c, !.i.run = Pairs[p], !.e.bound = TRUE]
  IN
  /\ Receives(c, side, "Init")
  /\ Finish(c, side,
            IF Fits(p, w.i, Received(c, side)) THEN Enqueue(v, <<Plain("Ack")>>)
                                               ELSE Fail(w),
            good)

RecvAddRegion(c, side, good) ==
  LET w == Taken(c, side)
      v == [w EXCEPT !.i.regions = Append(@, FALSE)]
  IN
  /\ Receives(c, side, "AddRegion")
  /\ FinishOn(c, side, Enqueue(v, <<Plain("Ack")>>), good)

\* Mutant of AddQueue: the directions are mixed up.
AddQueueReversed(i, r) ==
  IF r[1] = "S2M" THEN [i EXCEPT !.tx = Append(@, r)]
                  ELSE [i EXCEPT !.rx = Append(@, r)]

\* The slave's tx rings are the master's rx rings.
AddQueue(i, r) ==
  IF r[1] = "S2M" THEN [i EXCEPT !.rx = Append(@, r)]
                  ELSE [i EXCEPT !.tx = Append(@, r)]

RecvAddRing(c, side, good) ==
  LET w == Taken(c, side)
      r == Received(c, side).ring
      v == [w EXCEPT !.i = AddQueue(@, r)]
  IN
  /\ Receives(c, side, "AddRing")
  /\ FinishOn(c, side,
              IF r[2] >= w.i.run THEN Fail(w) ELSE Enqueue(v, <<Plain("Ack")>>),
            good)

RecvConnect(c, side, goodMap, goodUp, good) ==
  LET v == Connect(Taken(c, side), goodMap, goodUp) IN
  /\ Receives(c, side, "Connect")
  /\ FinishOn(c, side, IF v.ok THEN Enqueue(v, <<Plain("Connected")>>) ELSE v, good)

RecvConnected(c, side, goodMap, goodUp, good) ==
  /\ Receives(c, side, "Connected")
  /\ FinishOn(c, side, Connect(Taken(c, side), goodMap, goodUp), good)

\* parseDisconnect closes the channel; handleEvent then still sends the next
\* message in the queue.
RecvDisconnect(c, side, good) ==
  /\ Receives(c, side, "Disconnect")
  /\ Finish(c, side, Close(Taken(c, side), FALSE, PeerGone(c, side), good), good)

-----------------------------------------------------------------------------
Handle(c, side) ==
  \E good \in Results :
    \/ HangUp(c, side, good)
    \/ RecvAck(c, side, good)
    \/ \E done \in IF FALSE \in Results THEN {"nothing", "region", "tx", "all"} ELSE {"all"} :
         RecvHello(c, side, done, good)
    \/ RecvInit(c, side, good)
    \/ RecvAddRegion(c, side, good)
    \/ RecvAddRing(c, side, good)
    \/ RecvDisconnect(c, side, good)
    \/ \E goodMap, goodUp \in Results :
         \/ RecvConnect(c, side, goodMap, goodUp, good)
         \/ RecvConnected(c, side, goodMap, goodUp, good)

User ==
  \/ \E s \in Slaves : \/ \E c \in Conns : RequestConnection(s, c)
                       \/ RequestReturns(s)
  \/ \E p \in Procs, good \in Results :
       UserDisconnect(p, good) \/ Delete(p, good)

Next ==
  \/ User
  \/ Accept
  \/ \E c \in Conns, side \in Sides : Handle(c, side)
  \/ \E p \in Procs : Crash(p)
  \/ \E s \in Slaves : Restart(s)

Init ==
  /\ alive = Procs
  /\ iface = [p \in Procs |-> NewInterface]
  /\ owner = [c \in Conns |-> None]
  /\ end = [c \in Conns |-> [side \in Sides |-> NewEnd]]
  /\ backlog = <<>>
  /\ pending = [s \in Slaves |-> None]
  /\ panics = {}

Spec == Init /\ [][Next]_vars

\* The polling goroutines run and epoll serves every ready descriptor in turn;
\* RequestConnection returns.  Nobody has to call, crash or restart anything.
FairSpec ==
  /\ Spec
  /\ WF_vars(Accept)
  /\ \A c \in Conns, side \in Sides : WF_vars(Handle(c, side))
  /\ \A s \in Slaves : WF_vars(RequestReturns(s))

-----------------------------------------------------------------------------
(* Properties. *)

IsConnecting(p) == iface[p].cc # None
IsConnected(p)  == iface[p].cc # None /\ end[iface[p].cc][SideOf(p)].up

\* Every variable keeps to the values its Go counterpart can hold.
RingIds == {"S2M", "M2S"} \X (0 .. MaxRings - 1)

Messages ==
  {Plain(t) : t \in {"Ack", "AddRegion", "Connect", "Connected", "Disconnect"}}
    \cup {HelloMsg, InitMsg}
    \cup {AddRing(r) : r \in RingIds}

Interfaces ==
  [listed : BOOLEAN, cc : Conns \cup {None}, run : Nat, regions : Seq(BOOLEAN),
   tx : Seq(RingIds), rx : Seq(RingIds), told : {"up", "down"}, twice : BOOLEAN]

Ends ==
  [open : BOOLEAN, bound : BOOLEAN, up : BOOLEAN, gone : BOOLEAN,
   msgQueue : Seq(Messages), inbox : Seq(Messages)]

TypeOK ==
  /\ alive \subseteq Procs
  /\ iface \in [Procs -> Interfaces]
  /\ owner \in [Conns -> Slaves \cup {None}]
  /\ end \in [Conns -> [Sides -> Ends]]
  /\ backlog \in Seq(Conns)
  /\ pending \in [Slaves -> Conns \cup {None}]
  /\ panics \subseteq {"hang up", "message"}

\* However many slaves ask for it, the master interface works for one channel
\* at a time: an open channel bound to it is the one it has in cc.
OneChannelPerInterface ==
  \A c \in Conns :
    end[c].master.open /\ end[c].master.bound => iface[Master].cc = c

\* parseMsg never dereferences a nil cc.i: region, ring and connect messages
\* only arrive on channels that Init has bound.
NoMessagePanic == "message" \notin panics

\* One message is sent per handled event, so at most one message of the
\* handshake is under way on a connection; only Disconnect can overtake it.
LockStep ==
  \A c \in Conns :
    LET waiting(side) ==
          {k \in DOMAIN end[c][side].inbox : end[c][side].inbox[k].type # "Disconnect"}
    IN  end[c].slave.open /\ end[c].master.open =>
          Cardinality(waiting("slave")) + Cardinality(waiting("master")) <= 1

\* When the slave has come up and the master has not closed, the master is up
\* too, and the two have paired the same rings: each tx queue of one is the rx
\* queue with that index of the other, on mapped memory.
QueuesPaired ==
  \A c \in Conns :
    LET s == iface[owner[c]]
        m == iface[Master]
    IN  owner[c] # None /\ s.cc = c /\ end[c].slave.up /\ end[c].master.open =>
          /\ end[c].master.up /\ m.cc = c
          /\ s.tx = m.rx /\ s.rx = m.tx /\ Len(s.tx) = s.run
          /\ s.regions = <<TRUE>> /\ m.regions = <<TRUE>>

\* An interface without a channel holds no queue and no memory region.
NothingLeaks ==
  \A p \in Procs :
    ~IsConnecting(p) /\ ~Requesting(p) =>
      iface[p].tx = <<>> /\ iface[p].rx = <<>> /\ iface[p].regions = <<>>

\* ConnectedFunc is never called twice without DisconnectedFunc in between.
NeverUpTwice == \A p \in Procs : ~iface[p].twice

\* A handshake never hangs half way: a slave's channel comes up or is closed,
\* whatever the master, its user and the other slaves do.
HandshakeSettles ==
  \A c \in Conns :
    (end[c].slave.open /\ ~end[c].slave.up)
      ~> (end[c].slave.up \/ ~end[c].slave.open)

\* An interface that is connected when its peer closes the channel or exits
\* finds out.
PeerLossNoticed ==
  \A p \in Procs, c \in Conns :
    (/\ IsConnected(p) /\ iface[p].cc = c
     /\ ~end[c][Other(SideOf(p))].open)
      ~> (iface[p].cc # c)

\* Where callbacks and system calls succeed and polling waits for
\* RequestConnection, an interface is left with a closed channel in one case
\* only: a master's whose region was never mapped.
ClosedOnlyUnmapped ==
  \A p \in Procs :
    IsConnecting(p) /\ ~end[iface[p].cc][SideOf(p)].open =>
      /\ p = Master
      /\ \E r \in DOMAIN iface[p].regions : ~iface[p].regions[r]

\* "close closes a control channel, if the control channel is assigned an
\* interface, the interface is disconnected" (control_channel.go).
ClosedIsDisconnected ==
  \A p \in Procs : IsConnecting(p) => end[iface[p].cc][SideOf(p)].open

\* "close cc, don't send msg" (control_channel.go): a hang up closes the one
\* channel and the application goes on.
HangUpIsHandled == "hang up" \notin panics
=============================================================================
