-------------------------------- MODULE Socket --------------------------------
(***************************************************************************)
(* A Socket of one application and the two goroutines that work on it: the *)
(* polling goroutine, which handles events, and the user's, which creates  *)
(* and deletes interfaces, connects and disconnects them and deletes the   *)
(* socket.  (How polling is started and stopped: PollLoop.)                *)
(*                                                                         *)
(* Nothing is locked.  A step of a goroutine makes one access to what the  *)
(* two share: the epoll instance, interfaceList, ccList, Interface.cc.     *)
(* PushBack and Remove of ccList write several pointers and take time, so  *)
(* each begins in one step and ends in another; when both goroutines are   *)
(* inside of one, the list is torn: a pointer may be nil, and a walk may   *)
(* from then on meet any channel that ever was in it, or miss it.          *)
(* interfaceList is written by the user's goroutine alone.                 *)
(* controlChannel.close is entered by both, so its steps are labels and    *)
(* ret is where it returns to.  What a handshake message does is the       *)
(* subject of ControlChannel: here it binds the channel, or is handled or  *)
(* refused; and a disconnection may fail, at its callback or at Munmap.    *)
(***************************************************************************)
EXTENDS Integers, SequencesExt

CONSTANTS
  Masters,    \* the master interfaces the user may create
  Slaves,     \* the slave interfaces the user may create
  Id,         \* args.Id of each
  Chans,      \* the control channels there may be
  None        \* nil

Ifaces == Masters \cup Slaves

ASSUME SocketAssumption ==
  /\ Masters \cap Slaves = {}
  /\ None \notin Ifaces \cup Chans
  /\ {"wake", "listener"} \cap Chans = {}

VARIABLES
  interfaceList, \* Socket.interfaceList
  created,       \* interfaces that NewInterface has returned to the user
  listener,      \* is Socket.listener set
  ccList,        \* Socket.ccList; <<>> when it is torn
  torn,          \* have two operations on ccList overlapped
  used,          \* channels created so far
  epoll,         \* what is registered with epfd: channels, "wake", "listener"
  cc,            \* Interface.cc
  ci,            \* controlChannel.i
  backlog,       \* is a connection waiting to be accepted
  inbox,         \* channels with a message to be read
  hungUp,        \* channels whose peer is gone
  pc,            \* where each goroutine is
  call,          \* arguments and return label of its call
  dead           \* has the program panicked

lists   == <<interfaceList, created, listener>>
chans   == <<ccList, torn, used, epoll>>
links   == <<cc, ci>>
peers   == <<backlog, inbox, hungUp>>
vars    == <<lists, chans, links, peers, pc, call, dead>>

-----------------------------------------------------------------------------
Gs == {"poller", "user"}

Other(g) == CHOOSE h \in Gs : h # g

\* List.Remove takes one element out, and none if it is not in the list.
Without(list, x) ==
  LET at == {k \in DOMAIN list : list[k] = x} IN
  IF at = {} THEN list ELSE RemoveAt(list, CHOOSE k \in at : TRUE)

NoCall == [ch |-> None, i |-> None, send |-> FALSE, ret |-> "none"]

Goto(g, label) == pc' = [pc EXCEPT ![g] = label]

\* Inside of PushBack, with the assignment of listRef, or of Remove.
Busy(g) == pc[g] \in {"pushing", "removing"}

\* What the operation of g makes of ccList.
After(g) ==
  CASE pc[g] = "pushing"  -> Append(ccList, call[g].ch)
    [] pc[g] = "removing" -> Without(ccList, call[g].ch)
    [] OTHER              -> ccList

\* The channels that PushBack has been called with.
Pushed == used \ {call[g].ch : g \in {h \in Gs : pc[h] = "push"}}

BeginList(g, label) ==
  /\ Goto(g, label)
  /\ torn' = (torn \/ Busy(Other(g)))
  /\ ccList' = IF torn' THEN <<>> ELSE ccList

EndList(list) ==
  /\ ccList' = IF torn THEN <<>> ELSE list
  /\ UNCHANGED torn

\* The channels that a walk may meet while g is at the list, and may miss.
Met(g) == IF torn THEN Pushed ELSE ToSet(ccList) \cup ToSet(After(g))

Missed(g) == {c \in Chans : c \notin ToSet(ccList) \/ pc[g] = "removing"}

\* Back in the loop of the poller, or of the user, with no call under way.
Leave(g, label) ==
  /\ Goto(g, label)
  /\ call' = [call EXCEPT ![g] = NoCall]

\* Enter close(send) of channel c, for interface i when the user closes it.
Enter(g, c, i, send, ret) ==
  /\ Goto(g, "close")
  /\ call' = [call EXCEPT ![g] = [ch |-> c, i |-> i, send |-> send, ret |-> ret]]

-----------------------------------------------------------------------------
(* controlChannel.close and Interface.disconnect. *)

\* What the caller of close does with its result.  GetName of a nil interface
\* panics; a failed parseDisconnect closes again.
Return(g, ok) ==
  LET c   == call[g].ch
      ret == call[g].ret
  IN
  /\ \/ ret \in {"error", "hang up"} /\ Leave(g, "wait")
     \/ ret = "bye" /\ ok /\ Leave(g, "wait")
     \/ ret = "bye" /\ ~ok /\ Enter(g, c, None, TRUE, "error")
     \/ ret = "disconnect" /\ Leave(g, "idle")
     \/ ret = "delete" /\ Goto(g, "unlist") /\ UNCHANGED call
     \/ ret = "socket" /\ Leave(g, IF ok THEN "interfaces" ELSE "deleted")
     \/ ret = "interface" /\ Goto(g, "unlist") /\ UNCHANGED call
  /\ dead' = (ret = "hang up" /\ ok /\ ci[c] = None)

\* From here on nobody sees what the peer does.
DelEvent(c) ==
  /\ epoll' = epoll \ {c}
  /\ inbox' = inbox \ {c}
  /\ hungUp' = hungUp \ {c}

\* Mutant of CloseEvent: an error of delEvent is ignored.
CloseEventAlways(g) ==
  LET c == call[g].ch IN
  /\ pc[g] = "close"
  /\ IF call[g].send /\ c \in hungUp
       THEN Return(g, FALSE) /\ UNCHANGED <<epoll, inbox, hungUp>>
       ELSE DelEvent(c) /\ Goto(g, "remove") /\ UNCHANGED <<call, dead>>
  /\ UNCHANGED <<lists, ccList, torn, used, links, backlog>>

\* The Disconnect message, then delEvent; an error of either ends close.
CloseEvent(g) ==
  LET c == call[g].ch IN
  /\ pc[g] = "close"
  /\ IF (call[g].send /\ c \in hungUp) \/ c \notin epoll
       THEN Return(g, FALSE) /\ UNCHANGED <<epoll, inbox, hungUp>>
       ELSE DelEvent(c) /\ Goto(g, "remove") /\ UNCHANGED <<call, dead>>
  /\ UNCHANGED <<lists, ccList, torn, used, links, backlog>>

\* Remove of listRef, which PushBack in the other goroutine may not have returned
\* yet: Remove of nil panics.
RemoveBegins(g) ==
  LET h == Other(g) IN
  /\ pc[g] = "remove"
  /\ IF pc[h] = "pushing" /\ call[h].ch = call[g].ch
       THEN dead' = TRUE /\ UNCHANGED <<pc, ccList, torn>>
       ELSE BeginList(g, "removing") /\ UNCHANGED dead
  /\ UNCHANGED <<lists, used, epoll, links, peers, call>>

\* Mutant of CloseRemove: only a channel with an interface leaves the list.
CloseRemoveBound(g) ==
  LET i == ci[call[g].ch] IN
  /\ pc[g] = "removing"
  /\ IF i # None /\ cc[i] # None
       THEN EndList(After(g)) /\ Goto(g, "callback") /\ UNCHANGED <<call, dead>>
       ELSE EndList(ccList) /\ Return(g, TRUE)
  /\ UNCHANGED <<lists, used, epoll, links, peers>>

\* Mutant of CloseRemove: the interface gives up its channel at once.
CloseRemoveClearing(g) ==
  LET i == ci[call[g].ch] IN
  /\ pc[g] = "removing"
  /\ EndList(After(g))
  /\ IF i # None /\ cc[i] # None
       THEN /\ cc' = [cc EXCEPT ![i] = None]
            /\ Goto(g, "callback")
            /\ UNCHANGED <<call, dead>>
       ELSE Return(g, TRUE) /\ UNCHANGED cc
  /\ UNCHANGED <<lists, used, epoll, ci, peers>>

\* The channel has left the list; disconnect returns at once if its interface
\* has no channel.
CloseRemove(g) ==
  LET i == ci[call[g].ch] IN
  /\ pc[g] = "removing"
  /\ EndList(After(g))
  /\ IF i # None /\ cc[i] # None
       THEN Goto(g, "callback") /\ UNCHANGED <<call, dead>>
       ELSE Return(g, TRUE)
  /\ UNCHANGED <<lists, used, epoll, links, peers>>

\* DisconnectedFunc, the queues and the regions; the callback or Munmap may
\* fail.
DisconnectCallback(g) ==
  /\ pc[g] = "callback"
  /\ \/ Goto(g, "clear") /\ UNCHANGED <<call, dead>>
     \/ Return(g, FALSE)
  /\ UNCHANGED <<lists, chans, links, peers>>

DisconnectClear(g) ==
  /\ pc[g] = "clear"
  /\ cc' = [cc EXCEPT ![ci[call[g].ch]] = None]
  /\ Return(g, TRUE)
  /\ UNCHANGED <<lists, chans, ci, peers>>

Close(g) ==
  \/ CloseEvent(g) \/ RemoveBegins(g) \/ CloseRemove(g)
  \/ DisconnectCallback(g) \/ DisconnectClear(g)

\* PushBack or Remove of a torn list meets a pointer that is nil.
Panic(g) ==
  /\ torn /\ Busy(g)
  /\ dead' = TRUE
  /\ UNCHANGED <<lists, chans, links, peers, pc, call>>

-----------------------------------------------------------------------------
(* addControlChannel, called by RequestConnection and by the listener. *)

\* The bound on channels leaves one for a connection that waits.
Room == \E c \in Chans \ used : backlog => Chans \ used # {c}

\* Which of the unused channels is the next one is of no matter.
AddEvent(g, i) ==
  LET c == CHOOSE x \in Chans \ used : TRUE IN
  /\ used' = used \cup {c}
  /\ epoll' = epoll \cup {c}
  /\ ci' = [ci EXCEPT ![c] = i]
  /\ Goto(g, "push")
  /\ call' = [call EXCEPT ![g].ch = c, ![g].i = i]

PushBegins(g) ==
  /\ pc[g] = "push"
  /\ BeginList(g, "pushing")
  /\ UNCHANGED <<lists, used, epoll, links, peers, call, dead>>

\* Back in the caller of addControlChannel: the listener sends Hello,
\* RequestConnection stores the channel.
AfterPush(g) ==
  \/ g = "user" /\ Goto(g, "store") /\ UNCHANGED call
  \/ g = "poller" /\ Leave(g, "wait")

\* Mutant of PushBack: what goes into the list is the interface.
PushBackInterface(g) ==
  /\ pc[g] = "pushing"
  /\ EndList(Append(ccList, call[g].i))
  /\ AfterPush(g)
  /\ UNCHANGED <<lists, used, epoll, links, peers, dead>>

\* Mutant of PushBack: an accepted channel is not put into the list.
PushBackRequested(g) ==
  /\ pc[g] = "pushing"
  /\ EndList(IF g = "user" THEN After(g) ELSE ccList)
  /\ AfterPush(g)
  /\ UNCHANGED <<lists, used, epoll, links, peers, dead>>

\* The channel is in the list, and has its listRef.
PushBack(g) ==
  /\ pc[g] = "pushing"
  /\ EndList(After(g))
  /\ AfterPush(g)
  /\ UNCHANGED <<lists, used, epoll, links, peers, dead>>

-----------------------------------------------------------------------------
(* The polling goroutine.  EpollWait reports one event at a time; errors go  *)
(* to the user's errChan and change nothing here.                            *)

WaitListener ==
  /\ pc["poller"] = "wait" /\ backlog /\ "listener" \in epoll
  /\ Goto("poller", "accept")
  /\ UNCHANGED <<lists, chans, links, peers, call, dead>>

Ready(c) == c \in epoll \cap (inbox \cup hungUp)

WaitChannel(c) ==
  /\ pc["poller"] = "wait" /\ Ready(c)
  /\ Goto("poller", IF c \in hungUp THEN "hung up" ELSE "lookup")
  /\ call' = [call EXCEPT !["poller"].ch = c]
  /\ UNCHANGED <<lists, chans, links, peers, dead>>

\* EpollWait fails after Delete, whose last event is the wake event.
WaitError ==
  /\ pc["poller"] = "wait" /\ "wake" \notin epoll
  /\ Goto("poller", "off")
  /\ UNCHANGED <<lists, chans, links, peers, call, dead>>

\* Accept fails when the listener has been closed since.
Accept ==
  /\ pc["poller"] = "accept"
  /\ backlog' = FALSE
  /\ IF "listener" \in epoll
       THEN AddEvent("poller", None)
       ELSE Goto("poller", "wait") /\ UNCHANGED <<used, epoll, ci, call>>
  /\ UNCHANGED <<lists, ccList, torn, cc, inbox, hungUp, dead>>

\* Socket.handleEvent looks for the channel of the descriptor; a hang up is
\* looked at before a message.  The walk may meet a channel that the user is
\* pushing, and may end early at one that the user is removing.
Lookup ==
  LET c == call["poller"].ch IN
  /\ pc["poller"] \in {"lookup", "hung up"}
  /\ \/ c \in Missed("user") /\ Leave("poller", "wait")
     \/ c \in Met("user") /\ pc["poller"] = "lookup"
          /\ Goto("poller", "receive") /\ UNCHANGED call
     \/ c \in Met("user") /\ pc["poller"] = "hung up"
          /\ Enter("poller", c, None, FALSE, "hang up")
  /\ UNCHANGED <<lists, chans, links, peers, dead>>

\* parseInit finds a master interface that has no channel, if the peer asks for
\* one.
Finds(c, i) ==
  /\ ci[c] = None
  /\ i \in Masters \cap ToSet(interfaceList)
  /\ cc[i] = None
  /\ Goto("poller", "bind")
  /\ call' = [call EXCEPT !["poller"].i = i]

\* i.cc = cc, and then cc.i = i.
BindInterface ==
  /\ pc["poller"] = "bind"
  /\ cc' = [cc EXCEPT ![call["poller"].i] = call["poller"].ch]
  /\ Goto("poller", "bound")
  /\ UNCHANGED <<lists, chans, ci, peers, call, dead>>

BindChannel ==
  /\ pc["poller"] = "bound"
  /\ ci' = [ci EXCEPT ![call["poller"].ch] = call["poller"].i]
  /\ Leave("poller", "wait")
  /\ UNCHANGED <<lists, chans, cc, peers, dead>>

\* The next message of the handshake (Init on a channel without interface) is
\* handled, or refused and the channel closed; Disconnect closes it too.
Receive ==
  LET c == call["poller"].ch IN
  /\ pc["poller"] = "receive"
  /\ inbox' = inbox \ {c}
  /\ \/ \E i \in Ifaces : Finds(c, i)
     \/ ci[c] # None /\ Leave("poller", "wait")
     \/ Enter("poller", c, None, TRUE, "error")
     \/ Enter("poller", c, None, FALSE, "bye")
  /\ UNCHANGED <<lists, chans, links, backlog, hungUp, dead>>

Poller ==
  \/ WaitListener \/ (\E c \in Chans : WaitChannel(c)) \/ WaitError
  \/ Accept \/ PushBegins("poller") \/ PushBack("poller") \/ Lookup \/ Receive
  \/ BindInterface \/ BindChannel \/ Close("poller") \/ Panic("poller")

-----------------------------------------------------------------------------
(* Calls of the user's goroutine. *)

Idle == pc["user"] = "idle"

\* The interfaces the user has and has not deleted.
Known == created \cap ToSet(interfaceList)

\* addListener; Bind fails when the file exists.
AddListener(ok) ==
  /\ listener' = ok
  /\ epoll' = IF ok THEN epoll \cup {"listener"} ELSE epoll

\* An interface whose listener cannot be made stays in the list, with its id.
NewInterface(i) ==
  /\ Idle
  /\ i \notin created
  /\ \A j \in ToSet(interfaceList) :
       ~(Id[j] = Id[i] /\ (j \in Masters <=> i \in Masters))
  /\ interfaceList' = Append(interfaceList, i)
  /\ \/ /\ i \in Slaves \/ listener
        /\ created' = created \cup {i}
        /\ UNCHANGED <<listener, epoll>>
     \/ /\ i \in Masters /\ ~listener
        /\ \E ok \in BOOLEAN :
             /\ AddListener(ok)
             /\ created' = IF ok THEN created \cup {i} ELSE created
  /\ UNCHANGED <<ccList, torn, used, links, peers, pc, call, dead>>

\* RequestConnection, called as the examples do: while IsConnecting is false.
RequestConnection(i) ==
  /\ Idle
  /\ i \in Known \cap Slaves
  /\ cc[i] = None /\ Room
  /\ AddEvent("user", i)
  /\ UNCHANGED <<lists, ccList, torn, cc, peers, dead>>

RequestStore ==
  /\ pc["user"] = "store"
  /\ cc' = [cc EXCEPT ![call["user"].i] = call["user"].ch]
  /\ Leave("user", "idle")
  /\ UNCHANGED <<lists, chans, ci, peers, dead>>

\* Interface.Disconnect looks whether i.cc is nil; Delete of i disconnects,
\* whatever comes of it, and then unlists.
LookAtChannel(i, ret) ==
  /\ Goto("user", IF cc[i] # None THEN "load" ELSE "unlist")
  /\ call' = [call EXCEPT !["user"] = [ch |-> cc[i], i |-> i, send |-> TRUE, ret |-> ret]]

\* Then it loads i.cc again, or goes by the one it has: the compiler may do either.
\* A channel that is nil by now panics.
LoadChannel ==
  /\ pc["user"] = "load"
  /\ \E c \in {call["user"].ch, cc[call["user"].i]} :
       IF c = None
         THEN dead' = TRUE /\ UNCHANGED <<pc, call>>
         ELSE Enter("user", c, call["user"].i, TRUE, call["user"].ret) /\ UNCHANGED dead
  /\ UNCHANGED <<lists, chans, links, peers>>

Disconnect(i) ==
  /\ Idle
  /\ i \in Known
  /\ cc[i] # None
  /\ LookAtChannel(i, "disconnect")
  /\ UNCHANGED <<lists, chans, links, peers, dead>>

Delete(i) ==
  /\ Idle
  /\ i \in Known
  /\ LookAtChannel(i, "delete")
  /\ UNCHANGED <<lists, chans, links, peers, dead>>

Unlist ==
  LET i == call["user"].i IN
  /\ pc["user"] = "unlist"
  /\ interfaceList' = Without(interfaceList, i)
  /\ Leave("user", IF call["user"].ret = "delete" THEN "idle" ELSE "listener")
  /\ UNCHANGED <<created, listener, chans, links, peers, dead>>

\* Socket.Delete closes the first channel.  Remove has cleared the element's
\* links, so the walk is over after it, and after an error as well.  Front may
\* see the list before or after what the poller is at.
Fronts ==
  IF torn THEN Pushed
  ELSE {Head(list) : list \in {ccList, After("poller")} \ {<<>>}}

DeleteSocket ==
  /\ Idle
  /\ \/ <<>> \in {ccList, After("poller")} /\ Goto("user", "interfaces") /\ UNCHANGED call
     \/ \E c \in Fronts : Enter("user", c, None, TRUE, "socket")
  /\ UNCHANGED <<lists, chans, links, peers, dead>>

\* The same holds for the list of interfaces, which nobody else changes.
DeleteInterfaces ==
  /\ pc["user"] = "interfaces"
  /\ IF interfaceList = <<>> THEN Goto("user", "listener") /\ UNCHANGED call
                             ELSE LookAtChannel(Head(interfaceList), "interface")
  /\ UNCHANGED <<lists, chans, links, peers, dead>>

\* listener.close and the removal of its file.
DeleteListener ==
  /\ pc["user"] = "listener"
  /\ epoll' = epoll \ {"listener"}
  /\ Goto("user", "events")
  /\ UNCHANGED <<lists, ccList, torn, used, links, peers, call, dead>>

\* The wake event is the last one; then epfd is closed.
DeleteEvents ==
  /\ pc["user"] = "events"
  /\ epoll' = epoll \ {"wake"}
  /\ Goto("user", "deleted")
  /\ UNCHANGED <<lists, ccList, torn, used, links, peers, call, dead>>

UserStep ==
  \/ PushBegins("user") \/ PushBack("user") \/ RequestStore \/ LoadChannel
  \/ Close("user") \/ Panic("user") \/ Unlist
  \/ DeleteInterfaces \/ DeleteListener \/ DeleteEvents

User ==
  \/ UserStep \/ DeleteSocket
  \/ \E i \in Ifaces :
       NewInterface(i) \/ RequestConnection(i) \/ Disconnect(i) \/ Delete(i)

-----------------------------------------------------------------------------
(* The other applications. *)

PeerConnects ==
  /\ "listener" \in epoll /\ ~backlog /\ Room
  /\ backlog' = TRUE
  /\ UNCHANGED <<lists, chans, links, inbox, hungUp, pc, call, dead>>

\* A peer waits for the answer to its last message.
PeerSends(c) ==
  /\ c \in epoll \ (hungUp \cup inbox)
  /\ inbox' = inbox \cup {c}
  /\ UNCHANGED <<lists, chans, links, backlog, hungUp, pc, call, dead>>

\* From then on nobody looks at what it has sent.
PeerHangsUp(c) ==
  /\ c \in epoll \ hungUp
  /\ hungUp' = hungUp \cup {c}
  /\ inbox' = inbox \ {c}
  /\ UNCHANGED <<lists, chans, links, backlog, pc, call, dead>>

Peers ==
  \/ PeerConnects
  \/ \E c \in Chans : PeerHangsUp(c) \/ PeerSends(c)

Init ==
  /\ interfaceList = <<>> /\ created = {} /\ listener = FALSE
  /\ ccList = <<>> /\ torn = FALSE /\ used = {} /\ epoll = {"wake"}
  /\ cc = [i \in Ifaces |-> None]
  /\ ci = [c \in Chans |-> None]
  /\ backlog = FALSE /\ inbox = {} /\ hungUp = {}
  /\ pc = [g \in Gs |-> IF g = "user" THEN "idle" ELSE "wait"]
  /\ call = [g \in Gs |-> NoCall]
  /\ dead = FALSE

Next == ~dead /\ (Poller \/ User \/ Peers)

Spec == Init /\ [][Next]_vars

\* Goroutines run, calls of the user go on, and the kernel reports the ready
\* descriptors in turn.
FairSpec ==
  /\ Spec
  /\ WF_vars(~dead /\ Poller)
  /\ WF_vars(~dead /\ UserStep)
  /\ SF_vars(~dead /\ WaitListener)
  /\ \A c \in Chans : SF_vars(~dead /\ WaitChannel(c))

-----------------------------------------------------------------------------
(* Properties. *)

Labels ==
  {"off", "wait", "accept", "lookup", "hung up", "receive", "bind", "bound",
   "push", "pushing", "store", "load", "close", "remove", "removing", "callback",
   "clear", "idle", "unlist", "interfaces", "listener", "events", "deleted"}

Calls ==
  [ch : Chans \cup {None}, i : Ifaces \cup {None}, send : BOOLEAN,
   ret : {"none", "error", "hang up", "bye", "disconnect", "delete", "socket",
         "interface"}]

\* Every variable keeps to its values.
TypeOK ==
  /\ interfaceList \in Seq(Ifaces) /\ created \subseteq Ifaces
  /\ listener \in BOOLEAN
  /\ ccList \in Seq(Chans) /\ torn \in BOOLEAN /\ used \subseteq Chans
  /\ epoll \subseteq Chans \cup {"wake", "listener"}
  /\ cc \in [Ifaces -> Chans \cup {None}] /\ ci \in [Chans -> Ifaces \cup {None}]
  /\ backlog \in BOOLEAN /\ inbox \subseteq Chans /\ hungUp \subseteq Chans
  /\ pc \in [Gs -> Labels] /\ call \in [Gs -> Calls]
  /\ dead \in BOOLEAN

\* As long as no two operations on ccList have overlapped, the epoll instance and
\* ccList hold the same channels, except for a channel that a goroutine is adding
\* or removing at the moment: otherwise an event would have no channel, or a
\* channel no events.  (Once two have, the list may have lost a channel.)
ListsAgree ==
  ~torn =>
    \A c \in Chans :
      /\ c \in epoll \ ToSet(ccList) =>
           \E g \in Gs : pc[g] \in {"push", "pushing"} /\ call[g].ch = c
      /\ c \in ToSet(ccList) \ epoll =>
           \E g \in Gs : pc[g] \in {"remove", "removing"} /\ call[g].ch = c

\* However the user's Disconnect and Delete race with the poller's hang ups and
\* errors, one goroutine at a time takes an interface down: DisconnectedFunc is
\* not called twice, regions are not unmapped twice.
TakingDown(g, i) ==
  pc[g] \in {"callback", "clear"} /\ ci[call[g].ch] = i

OneTakesDown ==
  \A i \in Ifaces : ~(TakingDown("poller", i) /\ TakingDown("user", i))

\* While its DisconnectedFunc runs and its memory is unmapped, an interface
\* still has its channel, so nobody binds or connects it anew meanwhile.
HeldWhileDown ==
  \A g \in Gs, i \in Ifaces : TakingDown(g, i) => cc[i] # None

\* A hang up, a message or a connection does not wait forever: it is handled, or
\* its channel or the socket is closed, whatever the user does meanwhile; unless
\* its channel is lost, of which the code can give no promise: ListsAgree.
EventsHandled ==
  /\ \A c \in Chans : Ready(c) ~> (~Ready(c) \/ "wake" \notin epoll \/ dead \/ torn)
  /\ backlog ~> (~backlog \/ "listener" \notin epoll \/ dead)
=============================================================================
