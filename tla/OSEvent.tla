------------------------------- MODULE OSEvent -------------------------------
(***************************************************************************)
(* OSEvent of src/src/os/generic/OSEvent.cpp: the auto-reset and the       *)
(* manual-reset event, a flag guarded by a ConditionVar.                   *)
(*                                                                         *)
(* The ConditionVar's own mutex is explicit (inner), because trywait()     *)
(* gives up when it is taken: a thread enters an operation in one step and *)
(* does the rest, up to its return or its wait, in another.  A timed wait  *)
(* may time out at any moment, also just as a signal reaches it: POSIX     *)
(* lets pthread_cond_timedwait() return ETIMEDOUT and consume the signal.  *)
(***************************************************************************)
EXTENDS Naturals

CONSTANTS Threads,     \* the threads that share the event
          NoThread,    \* nobody
          Waits        \* the kinds of wait() clients call

ASSUME EvtNoThread == NoThread \notin Threads
ASSUME EvtWaits == Waits \subseteq {"block", "timed"}

VARIABLES manualReset_,  \* which of the two kinds of event this is
          signaled_,     \* the event's flag
          inner,         \* the holder of cond_'s mutex
          pc,            \* each thread's place
          how,           \* block or timed, of a thread in wait()
          absorbed       \* history: this signal went to a wait that timed out

evt == <<manualReset_, signaled_, absorbed>>
vars == <<evt, inner, pc, how>>

\* body: holds cond_; asleep: in cond_.wait(); awake, late: cond_.wait() is
\* about to return true, false, once it holds cond_ again.
PCs == {"idle", "wait.enter", "wait.body", "asleep", "awake", "late", "wait.late",
        "try.enter", "try.body", "signal.enter", "signal.body",
        "reset.enter", "reset.body"}

TypeOK == /\ manualReset_ \in BOOLEAN
          /\ signaled_ \in BOOLEAN
          /\ absorbed \in BOOLEAN
          /\ inner \in Threads \cup {NoThread}
          /\ pc \in [Threads -> PCs]
          /\ how \in [Threads -> {"block", "timed"}]

Init == /\ manualReset_ \in BOOLEAN
        /\ signaled_ \in BOOLEAN
        /\ inner = NoThread
        /\ pc = [t \in Threads |-> "idle"]
        /\ how = [t \in Threads |-> "block"]
        /\ absorbed = FALSE

Move(t, to) == [pc EXCEPT ![t] = to]

\* A step that ends the operation and gives cond_ up.
Return(t) == pc' = Move(t, "idle") /\ inner' = NoThread

\* The flag goes down.
Clear == signaled_' = FALSE /\ absorbed' = FALSE

-----------------------------------------------------------------------------

Call(t) ==
  /\ pc[t] = "idle"
  /\ \/ \E w \in Waits : pc' = Move(t, "wait.enter") /\ how' = [how EXCEPT ![t] = w]
     \/ \E at \in {"try.enter", "signal.enter", "reset.enter"} :
          pc' = Move(t, at) /\ UNCHANGED how
  /\ UNCHANGED <<evt, inner>>

\* MyGuard g(cond_), cond_.trylock(), or the last act of cond_.wait().
Enter(t) == /\ inner = NoThread
            /\ inner' = t
            /\ \/ pc[t] \in {"wait.enter", "awake"} /\ pc' = Move(t, "wait.body")
               \/ pc[t] = "late" /\ pc' = Move(t, "wait.late")
               \/ pc[t] = "try.enter" /\ pc' = Move(t, "try.body")
               \/ pc[t] = "signal.enter" /\ pc' = Move(t, "signal.body")
               \/ pc[t] = "reset.enter" /\ pc' = Move(t, "reset.body")
            /\ UNCHANGED <<evt, how>>

\* wait(): the loop's test, first or after a wakeup, and what follows it.
WaitBody(t) ==
  /\ pc[t] = "wait.body"
  /\ \/ /\ ~signaled_
        /\ pc' = Move(t, "asleep")
        /\ inner' = NoThread
        /\ UNCHANGED evt
     \/ /\ signaled_
        /\ Return(t)
        /\ IF manualReset_ THEN UNCHANGED <<signaled_, absorbed>> ELSE Clear
        /\ UNCHANGED manualReset_
  /\ UNCHANGED how

\* wait(d): cond_.wait(d) timed out, and wait(d) does not look at the flag.
WaitLate(t) == /\ pc[t] = "wait.late"
               /\ Return(t)
               /\ UNCHANGED <<evt, how>>

\* trywait(): cond_ is taken.
TryBusy(t) == /\ pc[t] = "try.enter"
              /\ inner # NoThread
              /\ pc' = Move(t, "idle")
              /\ UNCHANGED <<evt, inner, how>>

\* trywait(): takes the flag down whatever the kind of event.
TryBody(t) == /\ pc[t] = "try.body"
              /\ Clear
              /\ Return(t)
              /\ UNCHANGED <<manualReset_, how>>

\* How a sleeper is when a signal has reached it.
Woken(t) == IF how[t] = "timed" THEN {"awake", "late"} ELSE {"awake"}

\* cond_.signal() wakes one sleeper, if there is one.
SignalOne(f) ==
  \/ /\ \A t \in Threads : f[t] # "asleep"
     /\ pc' = f
     /\ UNCHANGED absorbed
  \/ \E t \in Threads : \E w \in Woken(t) :
       /\ f[t] = "asleep"
       /\ pc' = [f EXCEPT ![t] = w]
       /\ absorbed' = (absorbed \/ w = "late")

\* cond_.broadcast() wakes them all.
SignalAll(f) ==
  \E late \in SUBSET {t \in Threads : f[t] = "asleep" /\ how[t] = "timed"} :
    /\ pc' = [t \in Threads |-> IF f[t] # "asleep" THEN f[t]
                                ELSE IF t \in late THEN "late" ELSE "awake"]
    /\ UNCHANGED absorbed

\* Bug seeded: a manual-reset event wakes one waiter.
SignalBodyOne(t) == /\ pc[t] = "signal.body"
                    /\ signaled_' = TRUE
                    /\ SignalOne(Move(t, "idle"))
                    /\ inner' = NoThread
                    /\ UNCHANGED <<manualReset_, how>>

SignalBody(t) == /\ pc[t] = "signal.body"
                 /\ signaled_' = TRUE
                 /\ IF manualReset_ THEN SignalAll(Move(t, "idle"))
                                    ELSE SignalOne(Move(t, "idle"))
                 /\ inner' = NoThread
                 /\ UNCHANGED <<manualReset_, how>>

ResetBody(t) == /\ pc[t] = "reset.body"
                /\ Clear
                /\ Return(t)
                /\ UNCHANGED <<manualReset_, how>>

SpuriousWakeup(t) == /\ pc[t] = "asleep"
                     /\ pc' = Move(t, "awake")
                     /\ UNCHANGED <<evt, inner, how>>

Timeout(t) == /\ pc[t] = "asleep"
              /\ how[t] = "timed"
              /\ pc' = Move(t, "late")
              /\ UNCHANGED <<evt, inner, how>>

Step(t) == \/ WaitBody(t) \/ WaitLate(t)
           \/ TryBusy(t) \/ TryBody(t) \/ SignalBody(t) \/ ResetBody(t)

Next == \E t \in Threads : \/ Call(t) \/ Enter(t) \/ Step(t)
                           \/ SpuriousWakeup(t) \/ Timeout(t)

Spec == Init /\ [][Next]_vars

\* A thread inside an operation finishes it, and one that asks for cond_'s
\* mutex again and again is not passed over for ever.
LiveSpec == Spec /\ \A t \in Threads : WF_vars(Step(t)) /\ SF_vars(Enter(t))

-----------------------------------------------------------------------------
(* Properties.                                                             *)

Waiting(t) == pc[t] \in {"wait.enter", "wait.body", "asleep", "awake"}

\* A signal finds its waiter: while the flag is up nobody sleeps on a
\* manual-reset event, and on an auto-reset event only behind a thread that
\* has been woken and will look, or after a signal that a timed wait received
\* as it timed out: that one is lost to the others, since wait(d) returns
\* without looking at the flag or passing the signal on.
NoLostWakeup ==
  signaled_ /\ (\E t \in Threads : pc[t] = "asleep")
    => ~manualReset_ /\ (absorbed \/ \E t \in Threads : pc[t] \in {"awake", "wait.body"})

\* A waiter on an event that stays up returns, unless a timed wait absorbed
\* the signal as it timed out.
EventDelivered == \A t \in Threads :
  Waiting(t) /\ signaled_ ~> (~Waiting(t) \/ ~signaled_ \/ absorbed)
=============================================================================
