----------------------------- MODULE ThreadTimer -----------------------------
(***************************************************************************)
(* ThreadTimer of src/src/os/generic/ThreadTimer.cpp: a thread that sends  *)
(* its client an event after a delay and then every period, controlled by  *)
(* other threads through run_, quit_ and one condition variable.           *)
(*                                                                         *)
(* Every control operation, and every stretch of run() from one wait to    *)
(* the next, the call of on_timer() included, holds cond_'s mutex: each is *)
(* one step.  on_timer() itself does not call the timer back (that would   *)
(* lock the mutex twice).  Of a duration only zero or not is kept; time    *)
(* passes when a timed wait times out.                                     *)
(***************************************************************************)
EXTENDS Naturals

VARIABLES run_,         \* the timer is started
          quit_,        \* the thread is asked to finish
          initDelay_,   \* the initial delay is not zero
          period_,      \* the period is not zero
          ttPc,         \* where run() is
          mine,         \* history: run() waits for the delay of this start
          due,          \* history: the delay of this start has passed
          last,         \* history: the last control operation
          shots         \* history: events since it, at most 2

ctl == <<run_, quit_, initDelay_, period_>>
ttVars == <<ctl, ttPc, mine, due, last, shots>>

\* The waits of run(), while it sleeps in them and when it has been woken.
Asleep == {"idle", "delay", "tick"}
TtPCs == {"new", "idle.awake", "delay.awake", "tick.awake", "over"} \cup Asleep

TtTypeOK == /\ run_ \in BOOLEAN /\ quit_ \in BOOLEAN
            /\ initDelay_ \in BOOLEAN /\ period_ \in BOOLEAN
            /\ ttPc \in TtPCs
            /\ mine \in BOOLEAN /\ due \in BOOLEAN
            /\ last \in {"none", "start", "one_shot", "stop", "quit"}
            /\ shots \in 0..2

\* Duration's default constructor sets nothing.
TtInit == /\ run_ = FALSE
          /\ quit_ = FALSE
          /\ initDelay_ \in BOOLEAN
          /\ period_ \in BOOLEAN
          /\ ttPc = "new"
          /\ mine = FALSE
          /\ due = TRUE
          /\ last = "none"
          /\ shots = 0

WakeUp(p) == CASE p = "idle" -> "idle.awake"
               [] p = "delay" -> "delay.awake"
               [] p = "tick" -> "tick.awake"
               [] OTHER -> p

\* cond_.signal(): run() is the only one to wait.
signal == ttPc' = WakeUp(ttPc)

-----------------------------------------------------------------------------
(* The control operations.                                                 *)

\* A control operation has been completed; no event has followed it yet.
Done(op) == last' = op /\ shots' = 0

\* Bug seeded: run_ is set and run() is not signalled.
do_startSilent == /\ run_' = TRUE
                  /\ UNCHANGED ttPc
                  /\ IF run_ THEN UNCHANGED mine /\ due' = (due \/ ~initDelay_')
                     ELSE mine' = FALSE /\ due' = ~initDelay_'

\* do_start(), after initDelay_ and period_ have been set
do_start == /\ run_' = TRUE
            /\ IF run_ THEN UNCHANGED <<ttPc, mine>> /\ due' = (due \/ ~initDelay_')
               ELSE signal /\ mine' = FALSE /\ due' = ~initDelay_'

\* start(), start(period), start(initDelay, period)
start == /\ \/ UNCHANGED <<initDelay_, period_>>
            \/ \E d, p \in BOOLEAN : initDelay_' = d /\ period_' = p
         /\ do_start
         /\ Done("start")
         /\ UNCHANGED quit_

\* one_shot(timeout): nothing but the return if the timer is running.
one_shot == /\ IF run_ THEN UNCHANGED <<ctl, ttPc, mine, due>>
               ELSE /\ \E d \in BOOLEAN : initDelay_' = d
                    /\ period_' = FALSE
                    /\ run_' = TRUE
                    /\ signal
                    /\ mine' = FALSE
                    /\ due' = ~initDelay_'
                    /\ UNCHANGED quit_
            /\ Done("one_shot")

stop == /\ run_' = FALSE
        /\ signal
        /\ Done("stop")
        /\ UNCHANGED <<quit_, initDelay_, period_, mine, due>>

\* Bug seeded: quit() sets the base class's flag only.
quitFlagOnly == /\ quit_' = TRUE
                /\ Done("quit")
                /\ UNCHANGED <<run_, initDelay_, period_, ttPc, mine, due>>

quit == /\ quit_' = TRUE
        /\ run_' = FALSE
        /\ signal
        /\ Done("quit")
        /\ UNCHANGED <<initDelay_, period_, mine, due>>

Control == start \/ one_shot \/ stop \/ quit

-----------------------------------------------------------------------------
(* run().  Top: at the outer loop's test, or woken from the first wait;    *)
(* Inner: woken from a timed wait, at the inner loop's test.               *)

Top == ttPc \in {"new", "idle.awake"}
Inner == ttPc \in {"delay.awake", "tick.awake"}

Quit == /\ Top \/ Inner
        /\ quit_
        /\ ttPc' = "over"
        /\ UNCHANGED <<ctl, mine, due, last, shots>>

Rest == /\ Top \/ Inner
        /\ ~quit_ /\ ~run_
        /\ ttPc' = "idle"
        /\ UNCHANGED <<ctl, mine, due, last, shots>>

Delay == /\ Top
         /\ ~quit_ /\ run_ /\ initDelay_
         /\ ttPc' = "delay"
         /\ mine' = TRUE
         /\ UNCHANGED <<ctl, due, last, shots>>

\* Bug seeded: the flags are not tested again after the initial delay.
FireUnchecked == /\ \/ Top /\ ~quit_ /\ run_ /\ ~initDelay_
                    \/ ttPc = "delay.awake"
                    \/ ttPc = "tick.awake" /\ ~quit_ /\ run_
                 /\ shots' = IF shots = 2 THEN 2 ELSE shots + 1
                 /\ run_' = (run_ /\ period_)
                 /\ ttPc' = IF period_ THEN "tick" ELSE "idle"
                 /\ UNCHANGED <<quit_, initDelay_, period_, mine, due, last>>

\* Bug seeded: run_ stays set after a one-shot's event.
FireForever == /\ (Top /\ ~initDelay_) \/ Inner
               /\ ~quit_ /\ run_
               /\ shots' = IF shots = 2 THEN 2 ELSE shots + 1
               /\ ttPc' = "tick"
               /\ UNCHANGED <<ctl, mine, due, last>>

\* on_timer(), then the next wait: for the period, or, with none, for a start.
Fire == /\ (Top /\ ~initDelay_) \/ Inner
        /\ ~quit_ /\ run_
        /\ shots' = IF shots = 2 THEN 2 ELSE shots + 1
        /\ run_' = period_
        /\ ttPc' = IF period_ THEN "tick" ELSE "idle"
        /\ UNCHANGED <<quit_, initDelay_, period_, mine, due, last>>

Run == Quit \/ Rest \/ Delay \/ Fire

\* wait_until() times out.
TtTimeout == /\ ttPc \in {"delay", "tick"}
             /\ ttPc' = WakeUp(ttPc)
             /\ due' = (due \/ (ttPc = "delay" /\ mine))
             /\ UNCHANGED <<ctl, mine, last, shots>>

\* wait() and wait_until() may return for no reason.
TtSpuriousWakeup == /\ ttPc \in Asleep
                    /\ ttPc' = WakeUp(ttPc)
                    /\ UNCHANGED <<ctl, mine, due, last, shots>>

\* When run() has returned a control operation still does what it does.
TtNext == Control \/ Run \/ TtTimeout \/ TtSpuriousWakeup

TtSpec == TtInit /\ [][TtNext]_ttVars

\* The thread gets the mutex in the end, and time passes.
TtLiveSpec == TtSpec /\ WF_ttVars(Run) /\ WF_ttVars(TtTimeout)

\* The same without spurious wakeups.
SteadySpec == TtInit /\ [][Control \/ Run \/ TtTimeout]_ttVars

-----------------------------------------------------------------------------
(* Properties.                                                             *)

\* ITimer.h:54-55: once stop() (or quit()) has returned, no event is sent
\* before the next start, wherever in its waits the thread was.
StopSilences == last \in {"stop", "quit"} => shots = 0

\* With a period of zero one start gives one event, also if the timer was
\* running periodically, waiting or being stopped when it was started.
OneShotOnce == ~period_ => shots <= 1

\* A started timer sends an event unless it is stopped first: no start signal
\* is lost, wherever in its waits the thread was.
StartedFires == run_ /\ ~quit_ /\ shots = 0 ~> (shots > 0 \/ ~run_ \/ quit_)

\* After quit() the thread returns, so that destroy() does.
QuitTerminates == quit_ ~> ttPc = "over"

\* ITimer.h:39 start(): "Starts the timer running using the last delay and
\* period that were set." No event is sent before the delay has passed.
DelayKept == last = "start" /\ shots > 0 => due
=============================================================================
