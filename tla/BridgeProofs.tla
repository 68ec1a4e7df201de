---------------------------- MODULE BridgeProofs ----------------------------
(***************************************************************************)
(* Theorems about the two example programs, for both of them and in both   *)
(* roles: what their goroutines may touch, what may end them, and that the *)
(* polling loop provides the service of Polling.                           *)
(***************************************************************************)
EXTENDS Bridge, TLAPS

-----------------------------------------------------------------------------
(* Refinement.                                                             *)

\* Every step of a program is a step of the polling service or none of it.
LEMMA PollingStep == [Next]_vars => [P!Next]_P!vars
<1> SUFFICES ASSUME [Next]_vars PROVE [P!Next]_P!vars
  OBVIOUS
<1> USE DEF P!vars, P!Next
<1>1. CASE UNCHANGED vars
  BY <1>1 DEF vars, polling
<1>2. ASSUME over = "no", over' # "no"
      PROVE  P!Die
  BY <1>2 DEF P!Die
<1>3. ASSUME over = "no", UNCHANGED <<over, poller, stopper>>
      PROVE  UNCHANGED P!vars
  BY <1>3
<1>4. ASSUME over = "no", UNCHANGED over, Select \/ WakeUp \/ Report
      PROVE  P!End \/ UNCHANGED P!vars
  BY <1>4 DEF P!End, Select, WakeUp, Report
<1>5. ASSUME over = "no", UNCHANGED over, BeginEvent
      PROVE  P!BeginEvent
  BY <1>5 DEF P!BeginEvent, BeginEvent
<1>6. ASSUME over = "no", UNCHANGED over, NEW ok \in BOOLEAN, EndEvent(ok)
      PROVE  P!EndEvent
  BY <1>6 DEF P!EndEvent, EndEvent
<1>7. ASSUME over = "no", UNCHANGED over, Interrupted
      PROVE  UNCHANGED P!vars
  BY <1>7 DEF Interrupted
<1>8. ASSUME over = "no", UNCHANGED over, StartPolling \/ StopPolling
      PROVE  P!Start \/ P!Stop \/ UNCHANGED P!vars
  BY <1>8 DEF P!Start, P!Stop, StartPolling, StopPolling
<1>9. ASSUME over = "no", UNCHANGED over, StopWakes \/ StopJoins
      PROVE  P!End \/ UNCHANGED P!vars
  BY <1>9 DEF P!End, StopWakes, StopJoins
<1>10. CASE Next
  <2> USE <1>10
  <2>1. over = "no"
    BY DEF Next
  <2>2. CASE PollerLoop
    BY <1>4, <2>1, <2>2 DEF PollerLoop
  <2>3. CASE EventEnds
    BY <1>6, <2>1, <2>3 DEF EventEnds
  <2>4. CASE EventClear \/ Main \/ (poller = "handle" /\ Down)
    BY <1>2, <1>3, <2>1, <2>4
    DEF EventClear, Main, MainExit, MainInterfaces, MainClear, MainReturns,
        Down, CloseQuit, CloseErr, JoinData, Unmap, polling
  <2>5. CASE Signal
    BY <1>7, <2>1, <2>5 DEF Signal
  <2>6. CASE Command
    BY <1>8, <2>1, <2>6 DEF Command
  <2>7. CASE StopStep
    BY <1>9, <2>1, <2>7 DEF StopStep
  <2>8. ASSUME NEW i \in Ifaces, Event(i)
        PROVE  P!BeginEvent \/ P!Die
    <3>1. CASE EventUnbound
      BY <1>2, <2>1, <3>1 DEF EventUnbound
    <3>2. CASE EventBind(i) \/ EventConnect(i) \/ EventDown(i) \/ EventOther
      BY <1>5, <2>1, <3>2 DEF EventBind, EventConnect, EventDown, EventOther
    <3>3. QED
      BY <2>8, <3>1, <3>2 DEF Event
  <2>9. ASSUME NEW i \in Ifaces, Data(i)
        PROVE  P!Die \/ UNCHANGED P!vars
    BY <1>2, <1>3, <2>1, <2>9
    DEF Data, DataStart, DataBridge, DataAgain, DataGet, DataIndex, DataLoop, DataRead,
        DataWrite, DataError, polling
  <2>10. ASSUME ShowAgain \/ \E i \in Ifaces : Show(i)
         PROVE  P!Die \/ UNCHANGED P!vars
    BY <1>2, <1>3, <2>1, <2>10 DEF Show, ShowAgain, polling
  <2>11. QED
    BY <2>2, <2>3, <2>4, <2>5, <2>6, <2>7, <2>8, <2>9, <2>10 DEF Next, PollerStep
<1>11. QED
  BY <1>1, <1>10

\* The goroutine of StartPolling and the calls of StopPolling implement Polling:
\* when StopPolling has returned, no event is handled.
THEOREM PollingRefined == Spec => PollingSpec
<1>1. Init => P!Init
  BY DEF Init, PollInit, P!Init
<1>2. QED
  BY <1>1, PollingStep, PTL DEF Spec, PollingSpec, P!Spec
-----------------------------------------------------------------------------
(* The inductive invariant.                                                *)

\* One disconnection at a time, by the poller or, when it is gone, by main.
DownInv ==
  /\ i0 \in Ifaces /\ None \notin Ifaces
  /\ closing = None <=> step = "none"
  /\ closing # None => \/ poller = "handle" /\ main = "loop"
                       \/ poller = "none" /\ main \in {"channel", "interface"}
  /\ main # "loop" => stopper = "done"
  /\ stopper = "done" => poller = "none"
  /\ stopPollChan = "nil" => poller = "none"

\* A goroutine runs while its interface is up and Disconnected has not passed
\* its wait; the channels made by Connected are open until they are closed.
DataInv ==
  \A i \in Ifaces :
    /\ data[i] # "none" =>
         /\ link[i] = "up" /\ i \in mapped
         /\ closing = i => step \in {"quit", "err", "join"}
    /\ link[i] = "up" =>
         /\ (closing = i => step = "quit") => quitChan[i] = "open"
         /\ (closing = i => step \in {"quit", "err"}) => errChan[i] = "open"

IInv == TypeOK /\ DownInv /\ DataInv /\ CrashesKnown

LEMMA InitInv == Init => IInv
<1> SUFFICES ASSUME Init PROVE IInv
  OBVIOUS
<1>1. bri \in [Ifaces -> Ifaces]
  <2>1. CASE bri = [i \in {i0} |-> i0]
    BY <2>1 DEF Ifaces
  <2>2. CASE bri = [i \in {i0, i1} |-> IF i = i0 THEN i1 ELSE i0]
    BY <2>2 DEF Ifaces
  <2>3. QED
    BY <2>1, <2>2 DEF Init
<1>2. PollInit /\ PollTypeOK
  BY DEF Init, PollInit, PollTypeOK
<1>3. TypeOK
  BY <1>1, <1>2 DEF Init, TypeOK, ChanStates, DataLabels, Endings
<1>4. DownInv /\ CrashesKnown
  <2>1. i0 \in Ifaces /\ None \notin Ifaces
    BY BridgeAssumption DEF Init, Ifaces
  <2>2. QED
    BY <2>1 DEF Init, PollInit, DownInv, CrashesKnown
<1>5. DataInv
  BY DEF Init, DataInv
<1>6. QED
  BY <1>3, <1>4, <1>5 DEF IInv

\* The steps that only concern the polling loop and its commands.
LEMMA PollingSteps ==
  ASSUME IInv, PollerLoop \/ Signal \/ Command \/ StopStep, UNCHANGED shown
  PROVE  IInv'
<1> USE DEF IInv
<1>1. UNCHANGED <<program, link, mapped, chans, data, down, main, shown, over>> /\ Ifaces' = Ifaces
  BY DEF PollerLoop, Signal, Command, StopStep, Ifaces, program
<1>2. PollTypeOK'
  BY DEF TypeOK, PollTypeOK, PollerLoop, Signal, Command, StopStep,
         Select, WakeUp, Report, Interrupted, StartPolling, StopPolling,
         StopWakes, StopJoins
<1>3. TypeOK'
  BY <1>1, <1>2 DEF TypeOK, program, chans, down
<1>4. DownInv'
  BY <1>1 DEF DownInv, TypeOK, PollTypeOK, down, PollerLoop, Signal, Command, StopStep,
              Select, WakeUp, Report, Interrupted, StartPolling, StopPolling,
              StopWakes, StopJoins
<1>5. DataInv' /\ CrashesKnown'
  BY <1>1 DEF DataInv, CrashesKnown, program, chans, down
<1>6. QED
  BY <1>3, <1>4, <1>5

\* A goroutine keeps to its interface.
LEMMA DataSteps ==
  ASSUME IInv, over = "no", NEW i \in Ifaces, Data(i)
  PROVE  IInv'
<1> USE DEF IInv
<1>1. UNCHANGED <<polling, program, link, mapped, chans, down, main, shown>> /\ Ifaces' = Ifaces
  BY DEF Data, DataStart, DataBridge, DataAgain, DataGet, DataIndex, DataLoop, DataRead,
         DataWrite, DataError, Ifaces, program
<1>2. data' \in [Ifaces -> DataLabels]
  <2>1. \E label \in DataLabels : data' = [data EXCEPT ![i] = label] \/ data' = data
    BY DEF Data, DataStart, DataBridge, DataAgain, DataGet, DataIndex, DataLoop, DataRead,
           DataWrite, DataError, DataEnds, DataGoto, DataLabels
  <2>2. QED
    BY <2>1 DEF TypeOK
<1>3. over' \in Endings
  BY DEF Data, DataStart, DataBridge, DataAgain, DataGet, DataIndex, DataLoop, DataRead,
         DataWrite, DataError, Endings
<1>4. TypeOK'
  <2>1. PollTypeOK'
    BY <1>1 DEF TypeOK, PollTypeOK, polling
  <2>2. over' \in Endings
    BY <1>3
  <2>3. QED
    BY <1>1, <1>2, <2>1, <2>2 DEF TypeOK, program, chans, down
<1>5. DownInv'
  BY <1>1 DEF DownInv, polling, down
<1>6. data[i] # "none" /\ \A j \in Ifaces \ {i} : data'[j] = data[j]
  BY DEF TypeOK, Data, DataStart, DataBridge, DataAgain, DataGet, DataIndex, DataLoop,
         DataRead, DataWrite, DataError, DataEnds, DataGoto
<1>7. DataInv'
  BY <1>1, <1>6 DEF DataInv, program, chans, down
<1>8. CASE over' = "no"
  <2>1. CrashesKnown'
    BY <1>8 DEF CrashesKnown
  <2>2. QED
    BY <1>4, <1>5, <1>7, <2>1
<1>9. CASE over' # "no"
  <2>1. link[i] = "up" /\ i \in mapped
    BY <1>6 DEF DataInv
  <2>2. data' = data
    BY <1>9 DEF Data, DataStart, DataBridge, DataAgain, DataGet, DataIndex, DataLoop,
                DataRead, DataWrite, DataError
  <2>3. CASE DataWrite(i)
    <3>1. over' = "fault" /\ data[i] = "write" /\ bri[i] \notin mapped
      BY <1>9, <2>3 DEF DataWrite
    <3>2. CrashesKnown'
      BY <1>1, <2>1, <2>2, <3>1 DEF CrashesKnown, program
    <3>3. QED
      BY <1>4, <1>5, <1>7, <3>2
  <2>4. CASE DataIndex(i)
    <3>1. over' = "index out of range" /\ data[i] = "index" /\ bri[i] \notin mapped
      BY <1>9, <2>4 DEF DataIndex
    <3>2. CrashesKnown'
      BY <1>1, <2>1, <2>2, <3>1 DEF CrashesKnown, program
    <3>3. QED
      BY <1>4, <1>5, <1>7, <3>2
  <2>5. CASE DataAgain(i)
    <3>1. over' = "nil channel" /\ data[i] \in {"again", "early"} /\ link[bri[i]] = "down"
      BY <1>9, <2>5 DEF DataAgain
    <3>2. CrashesKnown'
      BY <1>1, <2>1, <2>2, <3>1 DEF CrashesKnown, program
    <3>3. QED
      BY <1>4, <1>5, <1>7, <3>2
  <2>6. CASE DataError(i)
    <3>1. over' = "send on closed channel" /\ data[i] = "error" /\ errChan[i] = "closed"
      BY <1>9, <2>6 DEF DataError
    <3>2. closing = i
      BY <2>1, <3>1 DEF DataInv
    <3>3. CrashesKnown'
      BY <1>1, <2>1, <2>2, <3>1, <3>2 DEF CrashesKnown, down
    <3>4. QED
      BY <1>4, <1>5, <1>7, <3>3
  <2>7. QED
    BY <1>9, <2>3, <2>4, <2>5, <2>6
    DEF Data, DataStart, DataBridge, DataGet, DataLoop, DataRead
<1>10. QED
  BY <1>8, <1>9

\* A disconnection on its way.
LEMMA DownSteps ==
  ASSUME IInv, over = "no", Down
  PROVE  IInv'
<1> USE DEF IInv
<1>1. UNCHANGED <<polling, program, link, data, closing, main, shown>> /\ Ifaces' = Ifaces
  BY DEF Down, CloseQuit, CloseErr, JoinData, Unmap, chans, Ifaces, program
<1>2. closing \in Ifaces
  BY DEF Down, CloseQuit, CloseErr, JoinData, Unmap, DownInv, TypeOK
<1>3. /\ mapped' \subseteq Ifaces
      /\ quitChan' \in [Ifaces -> ChanStates] /\ errChan' \in [Ifaces -> ChanStates]
      /\ step' \in {"none", "quit", "err", "join", "unmap", "clear"}
      /\ over' \in {"no", "close of nil or closed channel"}
  BY <1>2 DEF TypeOK, Down, CloseQuit, CloseErr, JoinData, Unmap, chans, ChanStates
<1>4. TypeOK'
  <2>1. PollTypeOK'
    BY <1>1 DEF TypeOK, PollTypeOK, polling
  <2>2. over' \in Endings
    BY <1>3 DEF Endings
  <2>3. QED
    BY <1>1, <1>3, <2>1, <2>2 DEF TypeOK, program
<1>5. DownInv'
  BY <1>1, <1>2 DEF DownInv, polling, Down, CloseQuit, CloseErr, JoinData, Unmap
<1>6. CASE CloseQuit
  <2>1. DataInv'
    <3>1. UNCHANGED <<mapped, errChan>> /\ step = "quit"
      BY <1>6 DEF CloseQuit
    <3>2. \/ step' = "err" /\ \A i \in Ifaces \ {closing} : quitChan'[i] = quitChan[i]
          \/ step' = "quit" /\ UNCHANGED quitChan
      BY <1>6 DEF CloseQuit, TypeOK
    <3>3. QED
      BY <1>1, <1>2, <3>1, <3>2 DEF DataInv, program
  <2>2. CASE over' = "no"
    BY <1>4, <1>5, <2>1, <2>2 DEF CrashesKnown
  <2>3. CASE over' # "no"
    <3>1. over' = "close of nil or closed channel" /\ quitChan[closing] # "open" /\ step = "quit"
      BY <1>6, <2>3 DEF CloseQuit
    <3>2. link[closing] # "up"
      BY <1>2, <3>1 DEF DataInv
    <3>3. CrashesKnown'
      BY <1>1, <3>1, <3>2 DEF CrashesKnown
    <3>4. QED
      BY <1>4, <1>5, <2>1, <3>3
  <2>4. QED
    BY <2>2, <2>3
<1>7. CASE CloseErr
  BY <1>1, <1>2, <1>4, <1>5, <1>7
  DEF CloseErr, DataInv, CrashesKnown, TypeOK, program
<1>8. CASE JoinData
  BY <1>1, <1>2, <1>4, <1>5, <1>8
  DEF JoinData, DataInv, CrashesKnown, chans, program
<1>9. CASE Unmap
  <2>1. data[closing] = "none"
    BY <1>2, <1>9 DEF Unmap, DataInv
  <2>2. DataInv'
    BY <1>1, <1>2, <1>9, <2>1 DEF Unmap, DataInv, TypeOK, chans, program
  <2>3. CrashesKnown'
    BY <1>1, <1>9 DEF Unmap, CrashesKnown
  <2>4. QED
    BY <1>4, <1>5, <2>2, <2>3
<1>10. QED
  BY <1>6, <1>7, <1>8, <1>9 DEF Down

\* The end of a disconnection: the interface is down and its goroutine gone.
LEMMA ClearSteps ==
  ASSUME IInv, over = "no", EventClear \/ MainClear, UNCHANGED shown
  PROVE  IInv'
<1> USE DEF IInv
<1>1. UNCHANGED <<polling, program, mapped, chans, data, over>> /\ Ifaces' = Ifaces
  BY DEF EventClear, MainClear, Ifaces, program
<1>2. /\ step = "clear" /\ closing \in Ifaces
      /\ link' = [link EXCEPT ![closing] = "down"]
      /\ closing' = None /\ step' = "none"
  BY DEF EventClear, MainClear, ClearLink, DownInv, TypeOK
<1>3. main' \in {"loop", "channel", "interfaces", "interface", "deleted"}
  BY DEF EventClear, MainClear, MainGoto, TypeOK
<1>4. TypeOK'
  <2>1. PollTypeOK'
    BY <1>1 DEF TypeOK, PollTypeOK, polling
  <2>2. QED
    BY <1>1, <1>2, <1>3, <2>1 DEF TypeOK, program, chans
<1>5. DownInv'
  BY <1>1, <1>2 DEF DownInv, EventClear, MainClear, MainGoto, polling
<1>6. data[closing] = "none"
  BY <1>2 DEF DataInv
<1>7. DataInv'
  BY <1>1, <1>2, <1>6 DEF DataInv, DownInv, TypeOK, program, chans
<1>8. CrashesKnown'
  BY <1>1 DEF CrashesKnown
<1>9. QED
  BY <1>4, <1>5, <1>7, <1>8

\* Events begin while nothing is being disconnected, and a connection begins
\* while the interface has no goroutine.
LEMMA EventSteps ==
  ASSUME IInv, over = "no", NEW i \in Ifaces, Event(i)
  PROVE  IInv'
<1> USE DEF IInv
<1>1. UNCHANGED <<program, main, shown, stopPollChan, woken, stopper>> /\ Ifaces' = Ifaces
  BY DEF Event, EventBind, EventConnect, EventDown, EventUnbound, EventOther, BeginEvent,
         Ifaces, program
<1>2. poller = "wait" /\ poller' = "handle" /\ closing = None /\ main = "loop"
      /\ step = "none" /\ stopper # "done"
  BY DEF Event, EventBind, EventConnect, EventDown, EventUnbound, EventOther, BeginEvent,
         DownInv
<1>3. PollTypeOK'
  BY <1>1, <1>2 DEF TypeOK, PollTypeOK
<1>4. over' \in {"no", "nil interface"} /\ (over' = "nil interface" => isMaster)
  BY DEF Event, EventBind, EventConnect, EventDown, EventUnbound, EventOther
<1> over' \in Endings
  BY <1>4 DEF Endings
<1> CrashesKnown'
  BY <1>1, <1>4 DEF CrashesKnown, program
<1>5. CASE EventBind(i)
  <2>1. TypeOK'
    BY <1>1, <1>3, <1>5 DEF TypeOK, EventBind, program, chans, down
  <2>2. DownInv'
    BY <1>1, <1>2, <1>5 DEF DownInv, EventBind, down
  <2>3. DataInv'
    BY <1>1, <1>2, <1>5 DEF DataInv, TypeOK, EventBind, program, chans, down
  <2>4. QED
    BY <2>1, <2>2, <2>3
<1>6. CASE EventConnect(i)
  <2>1. TypeOK'
    BY <1>1, <1>3, <1>6
    DEF TypeOK, EventConnect, DataGoto, ChanStates, DataLabels, program, down
  <2>2. DownInv'
    BY <1>1, <1>2, <1>6 DEF DownInv, EventConnect, down
  <2>3. data[i] = "none"
    BY <1>6 DEF EventConnect, DataInv
  <2>4. DataInv'
    BY <1>1, <1>2, <1>6, <2>3
    DEF DataInv, DownInv, TypeOK, EventConnect, DataGoto, program, down
  <2>5. QED
    BY <2>1, <2>2, <2>4
<1>7. CASE EventDown(i)
  <2>1. UNCHANGED <<link, mapped, chans, data>> /\ closing' = i /\ step' = "quit"
    BY <1>7 DEF EventDown, BeginDown
  <2>2. TypeOK'
    BY <1>1, <1>3, <2>1 DEF TypeOK, program, chans
  <2>3. DownInv'
    BY <1>1, <1>2, <2>1 DEF DownInv, TypeOK
  <2>4. DataInv'
    BY <1>1, <1>2, <2>1 DEF DataInv, DownInv, program, chans
  <2>5. QED
    BY <2>2, <2>3, <2>4
<1>8. CASE EventUnbound \/ EventOther
  <2>1. UNCHANGED <<link, mapped, chans, data, down>>
    BY <1>8 DEF EventUnbound, EventOther
  <2>2. TypeOK'
    BY <1>1, <1>3, <2>1 DEF TypeOK, program, chans, down
  <2>3. DownInv'
    BY <1>1, <1>2, <2>1 DEF DownInv, down
  <2>4. DataInv'
    BY <1>1, <2>1 DEF DataInv, program, chans, down
  <2>5. QED
    BY <2>2, <2>3, <2>4
<1>9. QED
  BY <1>5, <1>6, <1>7, <1>8 DEF Event

\* main's own steps.
LEMMA MainSteps ==
  ASSUME IInv, over = "no", MainExit \/ MainInterfaces \/ MainReturns,
         UNCHANGED shown
  PROVE  IInv'
<1> USE DEF IInv
<1>1. UNCHANGED <<polling, program, link, mapped, chans, data>> /\ Ifaces' = Ifaces
  BY DEF MainExit, MainInterfaces, MainReturns, Ifaces, program
<1>2. closing = None /\ step = "none" /\ stopper = "done" /\ poller = "none"
  BY DEF MainExit, MainInterfaces, MainReturns, DownInv
<1>3. \/ /\ closing' = None /\ step' = "none"
         /\ main' \in {"interfaces", "deleted"} /\ over' \in {"no", "returned"}
      \/ /\ closing' \in Ifaces /\ step' = "quit"
         /\ main' \in {"channel", "interface"} /\ over' = "no"
  <2>1. CASE MainExit
    BY <1>2, <2>1 DEF MainExit, MainGoto, BeginDown, FirstChannels, down
  <2>2. CASE MainInterfaces
    BY <1>2, <2>2 DEF MainInterfaces, MainGoto, BeginDown, DownInv, down
  <2>3. CASE MainReturns
    BY <1>2, <2>3 DEF MainReturns, down
  <2>4. QED
    BY <2>1, <2>2, <2>3
<1>4. TypeOK'
  <2>1. PollTypeOK'
    BY <1>1 DEF TypeOK, PollTypeOK, polling
  <2>2. /\ closing' \in Ifaces \cup {None}
        /\ step' \in {"none", "quit", "err", "join", "unmap", "clear"}
        /\ main' \in {"loop", "channel", "interfaces", "interface", "deleted"}
        /\ over' \in Endings
    BY <1>3 DEF Endings
  <2>3. QED
    BY <1>1, <2>1, <2>2 DEF TypeOK, program, chans
<1>5. DownInv'
  BY <1>1, <1>2, <1>3 DEF DownInv, polling
<1>6. DataInv'
  BY <1>1, <1>2, <1>3 DEF DataInv, DownInv, program, chans
<1>7. CrashesKnown'
  BY <1>3 DEF CrashesKnown
<1>8. QED
  BY <1>4, <1>5, <1>6, <1>7

\* The end of an event that is not a disconnection, or no longer.
LEMMA EndSteps ==
  ASSUME IInv, EventEnds, UNCHANGED shown
  PROVE  IInv'
<1> USE DEF IInv
<1>1. UNCHANGED <<program, link, mapped, chans, data, down, main, shown, over>> /\ Ifaces' = Ifaces
  BY DEF EventEnds, Ifaces, program
<1>2. PollTypeOK'
  BY DEF TypeOK, PollTypeOK, EventEnds, EndEvent
<1>3. TypeOK'
  BY <1>1, <1>2 DEF TypeOK, program, chans, down
<1>4. DownInv'
  BY <1>1 DEF DownInv, EventEnds, EndEvent, down
<1>5. DataInv' /\ CrashesKnown'
  BY <1>1 DEF DataInv, CrashesKnown, program, chans, down
<1>6. QED
  BY <1>3, <1>4, <1>5

\* The show command looks only, and sees what may be gone.
LEMMA ShowSteps ==
  ASSUME IInv, over = "no", ShowAgain \/ \E i \in Ifaces : Show(i)
  PROVE  IInv'
<1> USE DEF IInv
<1>1. UNCHANGED <<polling, program, link, mapped, chans, data, down, main>> /\ Ifaces' = Ifaces
  BY DEF Show, ShowAgain, Ifaces, program
<1>2. \/ over' = "no" /\ shown' \in Ifaces \cup {None}
      \/ over' = "nil channel" /\ shown' # None /\ link[shown'] = "down" /\ shown' = shown
  BY DEF Show, ShowAgain
<1>3. TypeOK'
  <2>1. PollTypeOK'
    BY <1>1 DEF TypeOK, PollTypeOK, polling
  <2>2. shown' \in Ifaces \cup {None} /\ over' \in Endings
    BY <1>2 DEF TypeOK, Endings
  <2>3. QED
    BY <1>1, <2>1, <2>2 DEF TypeOK, program, chans, down
<1>4. DownInv' /\ DataInv'
  BY <1>1 DEF DownInv, DataInv, polling, program, chans, down
<1>5. CrashesKnown'
  BY <1>1, <1>2 DEF CrashesKnown
<1>6. QED
  BY <1>3, <1>4, <1>5

LEMMA NextInv == IInv /\ [Next]_vars => IInv'
<1> SUFFICES ASSUME IInv, [Next]_vars PROVE IInv'
  OBVIOUS
<1>1. CASE UNCHANGED vars
  <2>1. Ifaces' = Ifaces /\ UNCHANGED <<polling, program, link, mapped, chans, data, down, main, shown, over>>
    BY <1>1 DEF vars, program, Ifaces
  <2>2. TypeOK'
    <3>1. PollTypeOK'
      BY <2>1 DEF IInv, TypeOK, PollTypeOK, polling
    <3>2. QED
      BY <2>1, <3>1 DEF IInv, TypeOK, program, chans, down
  <2>3. DownInv'
    BY <2>1 DEF IInv, DownInv, polling, down
  <2>4. DataInv' /\ CrashesKnown'
    BY <2>1 DEF IInv, DataInv, CrashesKnown, program, chans, down
  <2>5. QED
    BY <2>2, <2>3, <2>4 DEF IInv
<1>2. CASE Next
  <2>1. over = "no"
    BY <1>2 DEF Next
  <2>2. CASE (PollerLoop \/ Signal \/ Command \/ StopStep) /\ UNCHANGED shown
    BY <2>2, PollingSteps
  <2>3. CASE \E i \in Ifaces : Data(i)
    BY <2>1, <2>3, DataSteps
  <2>4. CASE \E i \in Ifaces : Event(i)
    BY <2>1, <2>4, EventSteps
  <2>5. CASE EventEnds /\ UNCHANGED shown
    BY <2>5, EndSteps
  <2>6. CASE ShowAgain \/ \E i \in Ifaces : Show(i)
    BY <2>1, <2>6, ShowSteps
  <2>7. QED
    BY <1>2, <2>1, <2>2, <2>3, <2>4, <2>5, <2>6, DownSteps, ClearSteps, MainSteps
    DEF Next, PollerStep, Main, Signal, Command, StopStep
<1>3. QED
  BY <1>1, <1>2

LEMMA Inductive == Spec => []IInv
<1>1. Init => IInv
  BY InitInv
<1>2. IInv /\ [Next]_vars => IInv'
  BY NextInv
<1>3. QED
  BY <1>1, <1>2, PTL DEF Spec

\* Every variable of the example programs keeps to its values.
THEOREM BridgeTypeCorrect == Spec => []TypeOK
<1>1. IInv => TypeOK
  BY DEF IInv
<1>2. QED
  BY <1>1, Inductive, PTL

\* A goroutine reads from its interface, and the responder writes to it, only
\* while the memory of its queues is mapped: Disconnected waits for it first.
THEOREM QueuesStayMapped == Spec => []OwnQueuesMapped
<1>1. IInv => OwnQueuesMapped
  BY DEF IInv, DataInv, OwnQueuesMapped
<1>2. QED
  BY <1>1, Inductive, PTL

\* Nothing but the causes that CrashesKnown names ends a program otherwise than by
\* its exit; the hang up on a channel without interface is one of them.
THEOREM OnlyKnownCrashes == Spec => []CrashesKnown
<1>1. IInv => CrashesKnown
  BY DEF IInv
<1>2. QED
  BY <1>1, Inductive, PTL
=============================================================================
