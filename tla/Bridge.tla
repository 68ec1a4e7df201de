------------------------------- MODULE Bridge -------------------------------
(***************************************************************************)
(* The two example programs: the responder, which sends every packet back, *)
(* and the bridge, which writes what it reads from one interface to the    *)
(* other.                                                                  *)
(*                                                                         *)
(* Connected starts a goroutine that moves an interface's packets;         *)
(* Disconnected, called by whoever disconnects the interface, tells it to  *)
(* stop and waits for it, and then the queues and their memory go away.    *)
(* Besides there are the polling goroutine, the goroutine that reads the   *)
(* user's commands, and main, which receives errors until the exit command *)
(* and then deletes the socket.                                            *)
(*                                                                         *)
(* The peers connect and go away as they like.  What a queue does is the   *)
(* subject of MemifRing; here it matters that its memory is there.         *)
(***************************************************************************)
EXTENDS PollLoop

CONSTANTS
  i0, i1,  \* the interfaces, in the order of their creation
  None     \* no interface

ASSUME BridgeAssumption == i0 # i1 /\ None \notin {i0, i1}

VARIABLES
  isMaster,  \* the role on the command line
  bri,       \* interfaceData.bri; of itself in the responder
  link,      \* "down", "connecting" (Interface.cc is set) or "up"
  mapped,    \* interfaces with queues and regions in use
  quitChan,  \* interfaceData.quitChan: "nil", "open" or "closed"
  errChan,   \* interfaceData.errChan
  data,      \* where the goroutine of an interface is
  closing,   \* the interface being disconnected, or None
  step,      \* how far Interface.disconnect is
  main,      \* where main is
  shown,     \* the interface whose channel the show command has seen, or None
  over       \* why the program has ended, or "no"

program == <<isMaster, bri>>
chans   == <<quitChan, errChan>>
down    == <<closing, step>>
vars    == <<polling, program, link, mapped, chans, data, down, main, shown, over>>

Ifaces == DOMAIN bri

-----------------------------------------------------------------------------
(* The goroutine that Connected starts. *)

DataGoto(i, label) == data' = [data EXCEPT ![i] = label]

\* GetRxQueue; then the bridge waits for its other interface.
DataStart(i) ==
  /\ data[i] = "start"
  /\ DataGoto(i, IF i \notin mapped THEN "error"
                 ELSE IF bri[i] # i THEN "bridge" ELSE "get")
  /\ UNCHANGED <<polling, program, link, mapped, chans, down, main, over>>

\* IsConnected of the other interface, until that is up, whatever becomes of its
\* own.  First it finds i.cc set, to a channel that is connected or not yet.
DataBridge(i) ==
  /\ data[i] = "bridge"
  /\ link[bri[i]] # "down"
  /\ DataGoto(i, IF link[bri[i]] = "up" THEN "again" ELSE "early")
  /\ UNCHANGED <<polling, program, link, mapped, chans, down, main, over>>

\* Then it loads i.cc again for isConnected, or goes by the channel it has: the
\* compiler may do either.
DataAgain(i) ==
  /\ data[i] \in {"again", "early"}
  /\ \/ /\ data[i] = "again" \/ link[bri[i]] = "up"
        /\ DataGoto(i, "get") /\ UNCHANGED over
     \/ /\ data[i] = "early" \/ link[bri[i]] = "connecting"
        /\ DataGoto(i, "bridge") /\ UNCHANGED over
     \/ link[bri[i]] = "down" /\ over' = "nil channel" /\ UNCHANGED data
  /\ UNCHANGED <<polling, program, link, mapped, chans, down, main>>

\* GetTxQueue compares the length of txQueues, and then indexes it.
DataGet(i) ==
  /\ data[i] = "get"
  /\ DataGoto(i, IF bri[i] \in mapped THEN "index" ELSE "error")
  /\ UNCHANGED <<polling, program, link, mapped, chans, down, main, over>>

\* Again with what it has loaded before, or with the list as it is.
DataIndex(i) ==
  /\ data[i] = "index"
  /\ \/ DataGoto(i, "loop") /\ UNCHANGED over
     \/ bri[i] \notin mapped /\ over' = "index out of range" /\ UNCHANGED data
  /\ UNCHANGED <<polling, program, link, mapped, chans, down, main>>

\* The goroutine returns, and with it defer wg.Done().
DataEnds(i) == DataGoto(i, "none")

DataLoop(i) ==
  /\ data[i] = "loop"
  /\ IF quitChan[i] = "closed" THEN DataEnds(i) ELSE DataGoto(i, "read")
  /\ UNCHANGED <<polling, program, link, mapped, chans, down, main, over>>

\* ReadPacket finds a packet, nothing, or an incomplete chain.
DataRead(i) ==
  /\ data[i] = "read"
  /\ \E label \in {"write", "loop", "error"} : DataGoto(i, label)
  /\ UNCHANGED <<polling, program, link, mapped, chans, down, main, over>>

\* WritePacket reaches the memory through the regions of the queue's interface,
\* those of its present connection, however old the queue is.  Without them it
\* is a fault.
DataWrite(i) ==
  /\ data[i] = "write"
  /\ IF bri[i] \in mapped
       THEN DataGoto(i, "loop") /\ UNCHANGED over
       ELSE over' = "fault" /\ UNCHANGED data
  /\ UNCHANGED <<polling, program, link, mapped, chans, down, main>>

\* errChan <- err; the channel has room for one error, but may be closed.
DataError(i) ==
  /\ data[i] = "error"
  /\ IF errChan[i] = "closed"
       THEN over' = "send on closed channel" /\ UNCHANGED data
       ELSE DataEnds(i) /\ UNCHANGED over
  /\ UNCHANGED <<polling, program, link, mapped, chans, down, main>>

Data(i) ==
  /\ \/ DataStart(i) \/ DataBridge(i) \/ DataAgain(i) \/ DataGet(i) \/ DataIndex(i)
     \/ DataLoop(i) \/ DataRead(i) \/ DataWrite(i) \/ DataError(i)
  /\ UNCHANGED shown

-----------------------------------------------------------------------------
(* Interface.disconnect, beginning with Disconnected. *)

BeginDown(i) == closing' = i /\ step' = "quit"

\* Mutant of CloseQuit: the goroutine is not told to stop.
CloseQuitSilent ==
  /\ step = "quit"
  /\ IF quitChan[closing] = "open"
       THEN step' = "err" /\ UNCHANGED <<quitChan, over>>
       ELSE over' = "close of nil or closed channel" /\ UNCHANGED <<quitChan, step>>
  /\ UNCHANGED <<polling, program, link, mapped, errChan, data, closing, main>>

\* close(data.quitChan) panics for an interface that never was connected, or
\* not since its last disconnection.
CloseQuit ==
  /\ step = "quit"
  /\ IF quitChan[closing] = "open"
       THEN /\ quitChan' = [quitChan EXCEPT ![closing] = "closed"]
            /\ step' = "err"
            /\ UNCHANGED over
       ELSE over' = "close of nil or closed channel" /\ UNCHANGED <<quitChan, step>>
  /\ UNCHANGED <<polling, program, link, mapped, errChan, data, closing, main>>

\* Mutant of CloseErr: nothing is left of the channel.
CloseErrForgets ==
  /\ step = "err"
  /\ errChan' = [errChan EXCEPT ![closing] = None]
  /\ step' = "join"
  /\ UNCHANGED <<polling, program, link, mapped, quitChan, data, closing, main, over>>

CloseErr ==
  /\ step = "err"
  /\ errChan' = [errChan EXCEPT ![closing] = "closed"]
  /\ step' = "join"
  /\ UNCHANGED <<polling, program, link, mapped, quitChan, data, closing, main, over>>

\* Mutant of JoinData: the goroutine is not waited for.
JoinNobody ==
  /\ step = "join"
  /\ step' = "unmap"
  /\ UNCHANGED <<polling, program, link, mapped, chans, data, closing, main, over>>

\* data.wg.Wait()
JoinData ==
  /\ step = "join" /\ data[closing] = "none"
  /\ step' = "unmap"
  /\ UNCHANGED <<polling, program, link, mapped, chans, data, closing, main, over>>

\* Queues and regions.  Who holds a queue keeps it.
Unmap ==
  /\ step = "unmap"
  /\ mapped' = mapped \ {closing}
  /\ step' = "clear"
  /\ UNCHANGED <<polling, program, link, chans, data, closing, main, over>>

\* i.cc = nil, which is also the end of IsConnected.
ClearLink ==
  /\ link' = [link EXCEPT ![closing] = "down"]
  /\ closing' = None /\ step' = "none"

Down ==
  /\ CloseQuit \/ CloseErr \/ JoinData \/ Unmap
  /\ UNCHANGED shown

-----------------------------------------------------------------------------
(* Events handled by the polling goroutine. *)

\* A peer asks for a master interface: parseInit.
EventBind(i) ==
  /\ BeginEvent
  /\ isMaster /\ link[i] = "down"
  /\ link' = [link EXCEPT ![i] = "connecting"]
  /\ UNCHANGED <<program, mapped, chans, data, down, main, over>>

\* Mutant of EventConnect: quitChan is made once.
EventConnectReusing(i) ==
  /\ BeginEvent
  /\ link[i] = "connecting"
  /\ link' = [link EXCEPT ![i] = "up"]
  /\ mapped' = mapped \cup {i}
  /\ quitChan' = [quitChan EXCEPT ![i] = IF @ = "nil" THEN "open" ELSE @]
  /\ errChan' = [errChan EXCEPT ![i] = "open"]
  /\ DataGoto(i, "start")
  /\ UNCHANGED <<program, down, main, over>>

\* Interface.connect, with Connected.
EventConnect(i) ==
  /\ BeginEvent
  /\ link[i] = "connecting"
  /\ link' = [link EXCEPT ![i] = "up"]
  /\ mapped' = mapped \cup {i}
  /\ quitChan' = [quitChan EXCEPT ![i] = "open"]
  /\ errChan' = [errChan EXCEPT ![i] = "open"]
  /\ DataGoto(i, "start")
  /\ UNCHANGED <<program, down, main, over>>

\* A hang up, a Disconnect message or an error of the handshake.
EventDown(i) ==
  /\ BeginEvent
  /\ link[i] # "down"
  /\ BeginDown(i)
  /\ UNCHANGED <<program, link, mapped, chans, data, main, over>>

\* A peer of a master hangs up before its Init is handled, so that its channel
\* has no interface: GetName of nil.
EventUnbound ==
  /\ BeginEvent
  /\ isMaster
  /\ over' = "nil interface"
  /\ UNCHANGED <<program, link, mapped, chans, data, down, main>>

\* An event that changes nothing of the above: a connection is accepted, or a
\* message of the handshake is handled or refused on a channel of no interface.
EventOther ==
  /\ BeginEvent
  /\ UNCHANGED <<program, link, mapped, chans, data, down, main, over>>

EventEnds ==
  /\ closing = None
  /\ \E ok \in BOOLEAN : EndEvent(ok)
  /\ UNCHANGED <<program, link, mapped, chans, data, down, main, over>>

EventClear ==
  /\ poller = "handle" /\ step = "clear"
  /\ ClearLink
  /\ UNCHANGED <<polling, program, mapped, chans, data, main, over>>

Event(i) ==
  /\ EventBind(i) \/ EventConnect(i) \/ EventDown(i) \/ EventUnbound \/ EventOther
  /\ UNCHANGED shown

PollerLoop ==
  /\ \/ Select \/ WakeUp
     \/ main = "loop" /\ Report
  /\ UNCHANGED <<program, link, mapped, chans, data, down, main, over>>

PollerStep ==
  /\ \/ PollerLoop \/ EventEnds \/ EventClear
     \/ poller = "handle" /\ Down
  /\ UNCHANGED shown

Signal ==
  /\ Interrupted
  /\ UNCHANGED <<program, link, mapped, chans, data, down, main, shown, over>>

-----------------------------------------------------------------------------
(* The commands of the user. *)

Command ==
  /\ shown = None
  /\ StartPolling \/ StopPolling
  /\ UNCHANGED <<program, link, mapped, chans, data, down, main, shown, over>>

\* show calls IsConnected as well, in two steps as above; it only prints.
Show(i) ==
  /\ stopper = "none" /\ shown = None
  /\ link[i] # "down"
  /\ shown' = i
  /\ UNCHANGED <<polling, program, link, mapped, chans, data, down, main, over>>

ShowAgain ==
  /\ shown # None
  /\ \/ shown' = None /\ UNCHANGED over
     \/ link[shown] = "down" /\ over' = "nil channel" /\ UNCHANGED shown
  /\ UNCHANGED <<polling, program, link, mapped, chans, data, down, main>>

StopStep ==
  /\ StopWakes \/ StopJoins
  /\ UNCHANGED <<program, link, mapped, chans, data, down, main, shown, over>>

-----------------------------------------------------------------------------
(* main: after the exit command socket.Delete closes the first channel and   *)
(* deletes the first interface.                                              *)

\* Whose channel is the first: a slave's channels are in the order of creation,
\* a master's in the order of arrival, and may have no interface.
FirstChannels ==
  LET open == {i \in Ifaces : link[i] # "down"} IN
  IF isMaster THEN open \cup {None}
  ELSE IF i0 \in open THEN {i0}
  ELSE IF open = {} THEN {None} ELSE open

MainGoto(label) == main' = label

\* close(true) fails when the Disconnect message cannot be sent.
MainExit ==
  /\ main = "loop" /\ stopper = "done"
  /\ \E i \in FirstChannels :
       \/ i = None /\ MainGoto("interfaces") /\ UNCHANGED down
       \/ i # None /\ MainGoto("channel") /\ BeginDown(i)
       \/ i # None /\ MainGoto("deleted") /\ UNCHANGED down
  /\ UNCHANGED <<polling, program, link, mapped, chans, data, over>>

MainInterfaces ==
  /\ main = "interfaces"
  /\ \/ link[i0] # "down" /\ MainGoto("interface") /\ BeginDown(i0)
     \/ MainGoto("deleted") /\ UNCHANGED down
  /\ UNCHANGED <<polling, program, link, mapped, chans, data, over>>

MainClear ==
  /\ main \in {"channel", "interface"} /\ step = "clear"
  /\ ClearLink
  /\ MainGoto(IF main = "channel" THEN "interfaces" ELSE "deleted")
  /\ UNCHANGED <<polling, program, mapped, chans, data, over>>

MainReturns ==
  /\ main = "deleted"
  /\ over' = "returned"
  /\ UNCHANGED <<polling, program, link, mapped, chans, data, down, main>>

Main ==
  /\ \/ MainExit \/ MainInterfaces \/ MainClear \/ MainReturns
     \/ main \in {"channel", "interface"} /\ Down
  /\ UNCHANGED shown

-----------------------------------------------------------------------------
\* The responder has one interface.  A slave's RequestConnection comes before
\* the first command.
Init ==
  /\ PollInit
  /\ isMaster \in BOOLEAN
  /\ bri \in {[i \in {i0} |-> i0], [i \in {i0, i1} |-> IF i = i0 THEN i1 ELSE i0]}
  /\ link = [i \in Ifaces |-> IF isMaster THEN "down" ELSE "connecting"]
  /\ mapped = {}
  /\ quitChan = [i \in Ifaces |-> "nil"] /\ errChan = [i \in Ifaces |-> "nil"]
  /\ data = [i \in Ifaces |-> "none"]
  /\ closing = None /\ step = "none"
  /\ main = "loop" /\ shown = None /\ over = "no"

Next ==
  /\ over = "no"
  /\ \/ PollerStep \/ Signal \/ Command \/ ShowAgain \/ StopStep \/ Main
     \/ \E i \in Ifaces : Event(i) \/ Data(i) \/ Show(i)

Spec == Init /\ [][Next]_vars

\* Goroutines run.  No command has to be given, and no peer has to do anything.
FairSpec ==
  /\ Spec
  /\ WF_vars(over = "no" /\ PollerStep)
  /\ WF_vars(over = "no" /\ StopStep)
  /\ WF_vars(over = "no" /\ Main)
  /\ \A i \in {i0, i1} : WF_vars(over = "no" /\ i \in Ifaces /\ Data(i))

-----------------------------------------------------------------------------
(* Properties. *)

ChanStates == {"nil", "open", "closed"}

DataLabels ==
  {"none", "start", "bridge", "again", "early", "get", "index", "loop", "read", "write", "error"}

Endings ==
  {"no", "returned", "fault", "send on closed channel", "close of nil or closed channel",
   "nil interface", "nil channel", "index out of range"}

\* Every variable keeps to its values.
TypeOK ==
  /\ PollTypeOK
  /\ isMaster \in BOOLEAN
  /\ bri \in [Ifaces -> Ifaces]
  /\ link \in [Ifaces -> {"down", "connecting", "up"}]
  /\ mapped \subseteq Ifaces
  /\ quitChan \in [Ifaces -> ChanStates] /\ errChan \in [Ifaces -> ChanStates]
  /\ data \in [Ifaces -> DataLabels]
  /\ closing \in Ifaces \cup {None}
  /\ step \in {"none", "quit", "err", "join", "unmap", "clear"}
  /\ main \in {"loop", "channel", "interfaces", "interface", "deleted"}
  /\ shown \in Ifaces \cup {None}
  /\ over \in Endings

\* "If the interface is disconnected queue.ReadPacket() and queue.WritePacket()
\* MUST not be called" (interface.go): a goroutine reads from its interface, and
\* the responder writes to it, only as long as its memory is mapped.
OwnQueuesMapped ==
  \A i \in Ifaces :
    /\ data[i] = "read" => i \in mapped
    /\ data[i] = "write" /\ bri[i] = i => i \in mapped

\* What can end the program otherwise than by its exit: Disconnected of an
\* interface that is not connected; an error of ReadPacket or GetTxQueue while
\* the interface is being disconnected; the bridge writing to an interface that
\* is gone, or getting its queue while it goes; IsConnected of an interface whose
\* channel goes between its two looks at it; and a peer of a master that hangs
\* up on a channel without interface.  In particular each connection has channels
\* of its own, a slave is not exposed to the last, and the responder's packets
\* never end it.
CrashesKnown ==
  /\ over = "close of nil or closed channel" => link[closing] # "up"
  /\ over = "send on closed channel" =>
       \E i \in Ifaces : data[i] = "error" /\ closing = i /\ link[i] = "up"
  /\ over = "fault" =>
       \E i \in Ifaces : data[i] = "write" /\ bri[i] # i /\ bri[i] \notin mapped
  /\ over = "index out of range" =>
       \E i \in Ifaces : data[i] = "index" /\ bri[i] # i /\ bri[i] \notin mapped
  /\ over = "nil channel" =>
       \/ \E i \in Ifaces : data[i] \in {"again", "early"} /\ bri[i] # i /\ link[bri[i]] = "down"
       \/ shown # None /\ link[shown] = "down"
  /\ over = "nil interface" => isMaster

\* What is being disconnected waits for a goroutine that waits for an interface
\* which nobody can connect meanwhile.
Stuck ==
  /\ step = "join"
  /\ data[closing] = "bridge"
  /\ link[bri[closing]] # "up"

\* "wait until polling stops, then continue disconnect" (bridge.go:42): the polling
\* goroutine gets through every disconnection, and main through those of Delete,
\* except in that one case, which the responder does not know.
DisconnectReturns == (closing # None) ~> (closing = None \/ over # "no" \/ Stuck)

\* The exit command ends the program, with the same exception as DisconnectReturns.
ExitEnds == (stopper # "none") ~> (over # "no" \/ Stuck)

\* Between StartPolling and StopPolling the program gets the service that
\* Polling describes: once StopPolling has returned no event is handled, and
\* main is alone with the socket.
P == INSTANCE Polling WITH
       phase <- IF over # "no" THEN "dead"
                ELSE IF stopper \in {"wake", "join"} THEN "stopping"
                ELSE IF poller # "none" THEN "on" ELSE "off",
       busy  <- over = "no" /\ poller = "handle"

PollingSpec == P!Spec
=============================================================================
