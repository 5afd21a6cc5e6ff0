------------------------------ MODULE MCWaiting ------------------------------
(***************************************************************************)
(* The objects built on a condition variable, and two programs of the      *)
(* examples that put sockets, threads, pools and slots together, side by   *)
(* side: in each behaviour one part moves, chosen at the start, and the    *)
(* others rest.  The fairness of a part is that of its own module, asked   *)
(* of it only in the behaviours in which it moves.                         *)
(***************************************************************************)
EXTENDS OSEvent, RecursiveMutex, ConditionData, ThreadTimer,
        EchoServer, DevForward

VARIABLE part

Parts == {"event", "mutex", "data", "timer", "echo", "forward"}

\* Where a resting part has several initial states it takes one of them.
AtRest == /\ part # "event" => ~manualReset_ /\ ~signaled_
          /\ part # "mutex" => owner_ = RmNobody
          /\ part # "data" => cdStyles = CdWakers /\ val_ = CdAnyValue
          /\ part # "timer" => ~initDelay_ /\ ~period_
          /\ part # "echo" => EcUp = {}

MCInit == /\ part \in Parts
          /\ Init /\ RmInit /\ CdInit /\ TtInit /\ EcInit /\ FwInit
          /\ AtRest

MCNext ==
  /\ UNCHANGED part
  /\ IF part = "event" THEN Next ELSE UNCHANGED vars
  /\ IF part = "mutex" THEN RmNext ELSE UNCHANGED rmVars
  /\ IF part = "data" THEN CdNext ELSE UNCHANGED cdVars
  /\ IF part = "timer" THEN TtNext ELSE UNCHANGED ttVars
  /\ IF part = "echo" THEN EcNext ELSE UNCHANGED ecVars
  /\ IF part = "forward" THEN FwNext ELSE UNCHANGED fwVars

EventFair == \A t \in Threads : /\ WF_vars(part = "event" /\ Step(t))
                                /\ SF_vars(part = "event" /\ Enter(t))

DataFair == \A t \in CdThreads : /\ WF_cdVars(part = "data" /\ CdLook(t))
                                 /\ WF_cdVars(part = "data" /\ CdGiveUp(t))

TimerFair == /\ WF_ttVars(part = "timer" /\ Run)
             /\ WF_ttVars(part = "timer" /\ TtTimeout)

\* A client of the echo server closes some time.
EchoFair ==
  /\ \A c \in EcConns : WF_ecVars(part = "echo" /\ EcShut(c))
  /\ WF_ecVars(part = "echo" /\ EcPoolGet) /\ WF_ecVars(part = "echo" /\ EcHandleConn)
  /\ \A t \in EcThreads :
       /\ WF_ecVars(part = "echo" /\ EcGet(t)) /\ WF_ecVars(part = "echo" /\ EcRead(t))
       /\ WF_ecVars(part = "echo" /\ EcWrite(t)) /\ WF_ecVars(part = "echo" /\ EcReadEnds(t))
       /\ WF_ecVars(part = "echo" /\ EcPutBack(t)) /\ WF_ecVars(part = "echo" /\ EcClose(t))

ForwardFair ==
  /\ WF_fwVars(part = "forward" /\ FwStart) /\ WF_fwVars(part = "forward" /\ FwRead)
  /\ WF_fwVars(part = "forward" /\ FwWrite) /\ WF_fwVars(part = "forward" /\ FwReadEnds)
  /\ WF_fwVars(part = "forward" /\ FwQuit) /\ WF_fwVars(part = "forward" /\ FwWaited)
  /\ WF_fwVars(part = "forward" /\ FwClose) /\ WF_fwVars(part = "forward" /\ FwOpen)
  /\ WF_fwVars(part = "forward" /\ FwOver) /\ WF_fwVars(part = "forward" /\ FwPollEmpty)
  /\ WF_fwVars(part = "forward" /\ FwSlept) /\ WF_fwVars(part = "forward" /\ FwPoll)
  /\ WF_fwVars(part = "forward" /\ FwSend) /\ WF_fwVars(part = "forward" /\ FwExit)
  /\ WF_fwVars(part = "forward" /\ (FwDeviceOpens \/ FwDeviceFails))

MCSpec == /\ MCInit /\ [][MCNext]_<<part, vars, rmVars, cdVars, ttVars, ecVars, fwVars>>
          /\ EventFair /\ DataFair /\ TimerFair /\ EchoFair /\ ForwardFair

-----------------------------------------------------------------------------

\* A waiter on an event, or on a value, hears what it waits for, and returns only
\* then; a timer that is started fires, and one that is told to quit ends.
Heard == /\ EventDelivered
         /\ CdReturns /\ []CdNotStranded /\ CdArrives
         /\ StartedFires /\ QuitTerminates

\* The server programs: an idle thread is idle, a connection has one holder, the
\* thread beside it does not outlive it as long as main() runs, and data stays
\* with it and in order.
ServersHold == EcIdleInPool /\ EcOneHolder /\ EcEchoes /\ FwThreadWithin /\ FwInOrder

\* Main finds a thread for every connection, and is ready again after each.
ServersReady == EcPlaced /\ FwReady
=============================================================================
