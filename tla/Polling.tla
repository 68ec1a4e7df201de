------------------------------- MODULE Polling -------------------------------
(***************************************************************************)
(* What StartPolling and StopPolling of a Socket promise its program:      *)
(* events are handled one at a time while polling is on, and when          *)
(* StopPolling returns no event is being handled, nor will one be until    *)
(* polling is started again.                                               *)
(***************************************************************************)
VARIABLES
  phase,  \* "off", "on", "stopping" until StopPolling returns, "dead"
  busy    \* is an event being handled

vars == <<phase, busy>>

Phases == {"off", "on", "stopping", "dead"}

Init == phase = "off" /\ busy = FALSE

Start ==
  /\ phase = "off"
  /\ phase' = "on"
  /\ UNCHANGED busy

BeginEvent ==
  /\ phase \in {"on", "stopping"}
  /\ ~busy
  /\ busy' = TRUE
  /\ UNCHANGED phase

EndEvent ==
  /\ busy
  /\ busy' = FALSE
  /\ UNCHANGED phase

\* StopPolling is called, also when nothing polls (any more).
Stop ==
  /\ phase \in {"off", "on"}
  /\ phase' = "stopping"
  /\ UNCHANGED busy

\* StopPolling returns, or polling ends by itself (an error of EpollWait).
End ==
  /\ phase \in {"on", "stopping"}
  /\ ~busy
  /\ phase' = "off"
  /\ UNCHANGED busy

\* A goroutine panics and the program ends.
Die ==
  /\ phase # "dead"
  /\ phase' = "dead"
  /\ busy' = FALSE

Next == Start \/ BeginEvent \/ EndEvent \/ Stop \/ End \/ Die

Spec == Init /\ [][Next]_vars

\* A call of StopPolling returns, provided each event's handler does.
FairSpec == Spec /\ WF_vars(EndEvent) /\ WF_vars(phase = "stopping" /\ End)
=============================================================================
