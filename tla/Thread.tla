------------------------------- MODULE Thread -------------------------------
(***************************************************************************)
(* The life of a Thread object, src/src/os/posix/Thread.cpp: its owner     *)
(* activates it, asks it to quit, waits for it with or without a bound and *)
(* may activate it again; the OS thread runs startup().  The two share     *)
(* active_ and evtDone_, a manual-reset event.                             *)
(*                                                                         *)
(* The owner is one thread, which activates the object only when it is not *)
(* active.  quit_ is polled by the derived class's run().                  *)
(***************************************************************************)
EXTENDS Naturals

CONSTANT MaxRuns      \* bound: how often the owner activates the object

ASSUME ThreadRuns == MaxRuns \in Nat

VARIABLES active_,    \* "true if the thread was activated"
          quit_,      \* the request to finish
          evtDone,    \* evtDone_'s flag
          os,         \* the OS thread: none, in startup() about to return
                      \* from run(), to signal, to close(), exited, joined
          thPc,       \* the owner: idle, or where it is in an operation
          runs        \* how often the object was activated

thVars == <<active_, quit_, evtDone, os, thPc, runs>>

ThInit == /\ active_ = FALSE
          /\ quit_ = FALSE
          /\ evtDone = FALSE
          /\ os = "none"
          /\ thPc = "idle"
          /\ runs = 0

-----------------------------------------------------------------------------
(* The OS thread: startup().                                               *)

RunReturns == /\ os = "run"
              /\ os' = "signal"
              /\ UNCHANGED <<active_, quit_, evtDone, thPc, runs>>

SignalDone == /\ os = "signal"
              /\ os' = "close"
              /\ evtDone' = TRUE
              /\ UNCHANGED <<active_, quit_, thPc, runs>>

\* Bug seeded: the thread is created detached, and there is nothing to join.
CloseDetached == /\ os = "close"
                 /\ os' = "joined"
                 /\ UNCHANGED <<active_, quit_, evtDone, thPc, runs>>

Close == /\ os = "close"
         /\ os' = "exited"
         /\ UNCHANGED <<active_, quit_, evtDone, thPc, runs>>

-----------------------------------------------------------------------------
(* The owner.                                                              *)

Goto(from, to) == thPc = from /\ thPc' = to

\* activate(): one of the two pthread_create() calls works, the OS thread is
\* on its way before active_ is set, or both fail.
ActivateCreate == /\ Goto("idle", "created")
                  /\ ~active_
                  /\ runs < MaxRuns
                  /\ os' = "run"
                  /\ runs' = runs + 1
                  /\ UNCHANGED <<active_, quit_, evtDone>>

ActivateFails == /\ thPc = "idle"
                 /\ ~active_
                 /\ runs < MaxRuns
                 /\ active_' = FALSE
                 /\ UNCHANGED <<quit_, evtDone, os, thPc, runs>>

\* activate(): active_ = ... == 0
ActivateSet == /\ Goto("created", "idle")
               /\ active_' = TRUE
               /\ UNCHANGED <<quit_, evtDone, os, runs>>

quit == /\ thPc = "idle"
        /\ quit_' = TRUE
        /\ UNCHANGED <<active_, evtDone, os, thPc, runs>>

\* wait() and wait(d): nothing to do if the thread is not active.
WaitCall == /\ thPc = "idle"
            /\ active_
            /\ thPc' \in {"join", "timed"}
            /\ UNCHANGED <<active_, quit_, evtDone, os, runs>>

\* Bug seeded: the event is taken for the end of the thread.
TimedDoneOnly == /\ Goto("timed", "leave")
                 /\ evtDone
                 /\ UNCHANGED <<active_, quit_, evtDone, os, runs>>

\* wait(d): evtDone_.wait(d)
TimedDone == /\ Goto("timed", "timed.join")
             /\ evtDone
             /\ UNCHANGED <<active_, quit_, evtDone, os, runs>>

TimedOut == /\ Goto("timed", "idle")
            /\ UNCHANGED <<active_, quit_, evtDone, os, runs>>

\* pthread_join()
Join == /\ thPc \in {"join", "timed.join"}
        /\ os = "exited"
        /\ os' = "joined"
        /\ thPc' = "leave"
        /\ UNCHANGED <<active_, quit_, evtDone, runs>>

\* active_ = false
Leave == /\ Goto("leave", "idle")
         /\ active_' = FALSE
         /\ UNCHANGED <<quit_, evtDone, os, runs>>

Startup == SignalDone \/ Close
Owner == ActivateSet \/ TimedDone \/ TimedOut \/ Join \/ Leave

ThNext == \/ RunReturns \/ Startup \/ Owner
          \/ ActivateCreate \/ ActivateFails \/ quit \/ WaitCall

ThSpec == ThInit /\ [][ThNext]_thVars

\* Everything but the derived class's run() goes on by itself.
StepSpec == ThSpec /\ WF_thVars(Startup) /\ WF_thVars(Owner)

\* And run() returns once it is asked to quit.
ThLiveSpec == StepSpec /\ WF_thVars(quit_ /\ RunReturns)

-----------------------------------------------------------------------------
(* Properties.                                                             *)

\* When wait() or wait(d) has returned true the OS thread is gone, with its
\* last use of the object behind it: the owner may destroy or activate it.
DestroySafe == thPc = "idle" /\ ~active_ => os \in {"none", "joined"}

\* wait() returns if run() heeds quit_.
WaitReturns == thPc = "join" /\ quit_ ~> thPc = "idle"

\* Thread.h:168-170, wait(d): "Time-bounded wait for the thread to complete.",
\* d is the "maximum amount of time to wait for the thread to complete". It
\* returns also if run() does not.
TimedWaitReturns == thPc = "timed" ~> thPc = "idle"
=============================================================================
