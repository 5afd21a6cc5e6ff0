---------------------------- MODULE QueueThread ----------------------------
(***************************************************************************)
(* QueueThread of src/CtrlrFx/os/generic/CtrlrFx/QueueThread.h: a Thread   *)
(* with a MsgQueue, which producers fill and run() empties. The queue is   *)
(* the bounded FIFO that MsgQueue implements; of Thread, activation and    *)
(* join. run() is a derived class's: as the header asks, it gets a message,*)
(* looks at quit_, and handles the message or returns.                     *)
(*                                                                         *)
(* The owner activates, quits and joins, in any order a Thread allows, and *)
(* again; POSIX's activate() does not reset quit_.                         *)
(***************************************************************************)
EXTENDS Integers, Sequences

CONSTANTS QtProducers,
          QtCap,       \* queCap
          QtMaxMsgs,   \* bound: messages put by producers
          QtMaxQuits,  \* bound: calls of quit()
          QtMaxRuns    \* bound: activations

ASSUME QtBounds == {QtCap, QtMaxMsgs, QtMaxQuits, QtMaxRuns} \subseteq Nat

VARIABLES que_,        \* messages; T() is 0
          qtQuit,      \* quit_
          qtThread,    \* the OS thread: "none", or run()'s place, or "exited"
          qtMsg,       \* the message run() has got
          qtOwner,     \* the owner's place
          qtBusy,      \* producers inside put()
          qtSent, qtHandled,   \* messages put; messages handled, in order
          qtQuits, qtRuns,     \* calls of quit(); activations
          qtCrowded    \* when quit() set quit_, the queue was full and the thread
                       \* had a message in hand; or a producer has put since

qtVars == <<que_, qtQuit, qtThread, qtMsg, qtOwner, qtBusy, qtSent, qtHandled,
            qtQuits, qtRuns, qtCrowded>>

QtInit == /\ que_ = << >> /\ qtQuit = FALSE
          /\ qtThread = "none" /\ qtMsg = 0
          /\ qtOwner = "idle" /\ qtBusy = {}
          /\ qtSent = 0 /\ qtHandled = << >>
          /\ qtQuits = 0 /\ qtRuns = 0 /\ qtCrowded = FALSE

QtRoom == Len(que_) < QtCap

-----------------------------------------------------------------------------
(* Producers: put() blocks, tryput() and the bounded put() may give up.    *)

QtCall(p) == /\ p \notin qtBusy
             /\ qtBusy' = qtBusy \cup {p}
             /\ UNCHANGED <<que_, qtQuit, qtThread, qtMsg, qtOwner, qtSent, qtHandled,
                            qtQuits, qtRuns, qtCrowded>>

QtPut(p) == /\ p \in qtBusy /\ QtRoom
            /\ qtSent < QtMaxMsgs
            /\ que_' = Append(que_, qtSent + 1)
            /\ qtSent' = qtSent + 1
            /\ qtCrowded' = (qtCrowded \/ qtOwner = "quit.put")
            /\ qtBusy' = qtBusy \ {p}
            /\ UNCHANGED <<qtQuit, qtThread, qtMsg, qtOwner, qtHandled, qtQuits, qtRuns>>

QtGiveUp(p) == /\ p \in qtBusy /\ ~QtRoom
               /\ qtBusy' = qtBusy \ {p}
               /\ UNCHANGED <<que_, qtQuit, qtThread, qtMsg, qtOwner, qtSent, qtHandled,
                              qtQuits, qtRuns, qtCrowded>>

-----------------------------------------------------------------------------
(* run().                                                                  *)

\* Bug seeded: the loop looks at quit_ before it gets a message.
QtGetUnlessQuit ==
  /\ qtThread = "get"
  /\ \/ /\ qtQuit /\ qtThread' = "exited" /\ UNCHANGED <<qtMsg, que_>>
     \/ /\ ~qtQuit /\ que_ # << >>
        /\ qtMsg' = Head(que_) /\ que_' = Tail(que_)
        /\ qtThread' = "check"
  /\ UNCHANGED <<qtQuit, qtOwner, qtBusy, qtSent, qtHandled, qtQuits, qtRuns, qtCrowded>>

QtGet == /\ qtThread = "get" /\ que_ # << >>
         /\ qtMsg' = Head(que_) /\ que_' = Tail(que_)
         /\ qtThread' = "check"
         /\ UNCHANGED <<qtQuit, qtOwner, qtBusy, qtSent, qtHandled, qtQuits, qtRuns, qtCrowded>>

QtCheck == /\ qtThread = "check"
           /\ \/ qtQuit /\ qtThread' = "exited" /\ UNCHANGED qtHandled
              \/ ~qtQuit /\ qtThread' = "get" /\ qtHandled' = Append(qtHandled, qtMsg)
           /\ UNCHANGED <<que_, qtQuit, qtMsg, qtOwner, qtBusy, qtSent, qtQuits, qtRuns, qtCrowded>>

-----------------------------------------------------------------------------
(* The owner.                                                              *)

QtActivate == /\ qtOwner = "idle" /\ qtThread = "none" /\ qtRuns < QtMaxRuns
              /\ qtThread' = "get" /\ qtRuns' = qtRuns + 1
              /\ UNCHANGED <<que_, qtQuit, qtMsg, qtOwner, qtBusy, qtSent, qtHandled,
                             qtQuits, qtCrowded>>

\* Bug seeded: the message goes before the flag.
QtQuitFlagLate == /\ qtOwner = "idle" /\ qtThread # "none" /\ qtQuits < QtMaxQuits
                  /\ qtQuits' = qtQuits + 1
                  /\ qtOwner' = "quit.put"
                  /\ UNCHANGED <<que_, qtQuit, qtThread, qtMsg, qtBusy, qtSent, qtHandled,
                                 qtRuns, qtCrowded>>

\* quit(): first quit_ = true.
QtQuitFlag == /\ qtOwner = "idle" /\ qtThread # "none" /\ qtQuits < QtMaxQuits
              /\ qtQuits' = qtQuits + 1
              /\ qtQuit' = TRUE
              /\ qtOwner' = "quit.put"
              /\ qtCrowded' = (~QtRoom /\ qtThread # "get")
              /\ UNCHANGED <<que_, qtThread, qtMsg, qtBusy, qtSent, qtHandled, qtRuns>>

\* Bug seeded: quit() is Thread's, which only sets the flag.
QtQuitPutNothing == /\ qtOwner = "quit.put"
                    /\ qtOwner' = "idle"
                    /\ UNCHANGED <<que_, qtQuit, qtThread, qtMsg, qtBusy, qtSent, qtHandled,
                                   qtQuits, qtRuns, qtCrowded>>

\* quit(): then que_.put(T()), which waits for room.
QtQuitPut == /\ qtOwner = "quit.put" /\ QtRoom
             /\ que_' = Append(que_, 0)
             /\ qtOwner' = "idle"
             /\ UNCHANGED <<qtQuit, qtThread, qtMsg, qtBusy, qtSent, qtHandled, qtQuits,
                            qtRuns, qtCrowded>>

QtJoin == /\ qtOwner = "idle" /\ qtThread = "exited"
          /\ qtThread' = "none"
          /\ UNCHANGED <<que_, qtQuit, qtMsg, qtOwner, qtBusy, qtSent, qtHandled, qtQuits,
                         qtRuns, qtCrowded>>

QtNext == \/ \E p \in QtProducers : QtCall(p) \/ QtPut(p) \/ QtGiveUp(p)
          \/ QtGet \/ QtCheck
          \/ QtActivate \/ QtQuitFlag \/ QtQuitPut \/ QtJoin

\* The thread runs, and quit() goes on when there is room. It may be overtaken
\* by producers, but not for ever.
QtFairness == WF_qtVars(QtGet) /\ WF_qtVars(QtCheck) /\ SF_qtVars(QtQuitPut)

QtSpec == QtInit /\ [][QtNext]_qtVars /\ QtFairness

-----------------------------------------------------------------------------

\* The T() that wakes the thread is never handled as a message, in no
\* activation, and the messages that are handled are in the order in which
\* they were put: flag first, message second, is what this takes.
QtNoPhantom == /\ \A i \in 1..Len(qtHandled) : qtHandled[i] # 0
               /\ \A i, j \in 1..Len(qtHandled) : i < j => qtHandled[i] < qtHandled[j]

\* quit() ends the thread, with a full queue as with an empty one.
QtQuits == qtOwner = "quit.put" ~> qtThread \notin {"get", "check"}

\* quit() returns if the thread has a message to get after quit_ is set, which
\* makes room: not if the queue is full while the thread has its last message
\* in hand, or has exited; and not if a producer takes the room. Then nobody
\* will empty the queue, and the owner waits for ever.
QtQuitReturns == qtOwner = "quit.put" ~> (qtOwner = "idle" \/ qtCrowded)

\* quit() ends the thread, and returns unless the queue is full for good.
QtQuitEnds == QtQuits /\ QtQuitReturns
=============================================================================
