------------------------------ MODULE PollLoop ------------------------------
(***************************************************************************)
(* The polling goroutine of a Socket and the goroutine that stops it.      *)
(* What handling an event means is left to the module that extends this    *)
(* one: it says when an event begins and takes the poller back from        *)
(* "handle".                                                               *)
(*                                                                         *)
(* Polling is started while no polling goroutine runs and stopped once, as *)
(* the examples do: a second StopPolling would close a closed channel.     *)
(***************************************************************************)
VARIABLES
  stopPollChan,  \* Socket.stopPollChan: "nil", "open" or "closed"
  woken,         \* has wakeEvent been written
  poller,        \* where the polling goroutine is, "none" if there is none
  stopper        \* where the call of StopPolling is

polling == <<stopPollChan, woken, poller, stopper>>

PollInit ==
  /\ stopPollChan = "nil"
  /\ woken = FALSE
  /\ poller = "none"
  /\ stopper = "none"

PollTypeOK ==
  /\ stopPollChan \in {"nil", "open", "closed"}
  /\ woken \in BOOLEAN
  /\ poller \in {"none", "select", "wait", "handle", "report", "fail"}
  /\ stopper \in {"none", "wake", "join", "done"}

-----------------------------------------------------------------------------
(* StartPolling and its goroutine. *)

StartPolling ==
  /\ poller = "none" /\ stopper = "none"
  /\ stopPollChan' = "open"
  /\ poller' = "select"
  /\ UNCHANGED <<woken, stopper>>

Select ==
  /\ poller = "select"
  /\ poller' = IF stopPollChan = "closed" THEN "none" ELSE "wait"
  /\ UNCHANGED <<stopPollChan, woken, stopper>>

\* EpollWait returns the wake event.  Nobody reads it, so it stays ready.
WakeUp ==
  /\ poller = "wait" /\ woken
  /\ poller' = "select"
  /\ UNCHANGED <<stopPollChan, woken, stopper>>

\* EpollWait fails, interrupted by a signal.
Interrupted ==
  /\ poller = "wait"
  /\ poller' = "fail"
  /\ UNCHANGED <<stopPollChan, woken, stopper>>

\* EpollWait returns another event.
BeginEvent ==
  /\ poller = "wait"
  /\ poller' = "handle"
  /\ UNCHANGED <<stopPollChan, woken, stopper>>

\* handleEvent returns, with an error or without.
EndEvent(ok) ==
  /\ poller = "handle"
  /\ poller' = IF ok THEN "select" ELSE "report"
  /\ UNCHANGED <<stopPollChan, woken, stopper>>

\* The error is received from errChan, which has no buffer; an error of
\* EpollWait is the goroutine's last.
Report ==
  /\ poller \in {"report", "fail"}
  /\ poller' = IF poller = "report" THEN "select" ELSE "none"
  /\ UNCHANGED <<stopPollChan, woken, stopper>>

-----------------------------------------------------------------------------
(* StopPolling. *)

StopPolling ==
  /\ stopper = "none"
  /\ IF stopPollChan = "nil"
       THEN stopper' = "done" /\ UNCHANGED stopPollChan
       ELSE stopper' = "wake" /\ stopPollChan' = "closed"
  /\ UNCHANGED <<woken, poller>>

\* Mutant of StopWakes: nothing is written.
StopWakesNobody ==
  /\ stopper = "wake"
  /\ stopper' = "join"
  /\ UNCHANGED <<stopPollChan, woken, poller>>

StopWakes ==
  /\ stopper = "wake"
  /\ woken' = TRUE
  /\ stopper' = "join"
  /\ UNCHANGED <<stopPollChan, poller>>

\* Mutant of StopJoins: the polling goroutine is not waited for.
StopReturns ==
  /\ stopper = "join"
  /\ stopper' = "done"
  /\ UNCHANGED <<stopPollChan, woken, poller>>

\* wg.Wait
StopJoins ==
  /\ stopper = "join" /\ poller = "none"
  /\ stopper' = "done"
  /\ UNCHANGED <<stopPollChan, woken, poller>>
=============================================================================
