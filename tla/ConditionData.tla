--------------------------- MODULE ConditionData ---------------------------
(***************************************************************************)
(* ConditionData of src/CtrlrFx/ConditionData.h: a value guarded by a      *)
(* condition variable, and waits for it to be, or not to be, a given one.  *)
(* From the lock, or the return of cond_wait, to the unlock or the next    *)
(* wait nobody else sees the value: that stretch is a step, as the lock_   *)
(* operations have it and callers of the others must (see                  *)
(* ConditionVar.h).  A sleeper may wake for no reason, and time out at any *)
(* moment when its wait is timed.                                          *)
(***************************************************************************)
EXTENDS Naturals

CONSTANTS CdThreads, CdValues,
          CdWakers     \* how clients announce values: of "signal", "broadcast"

ASSUME CdWakersOk == CdWakers \subseteq {"signal", "broadcast"}

VARIABLES val_,
          cdPc,        \* by thread: "idle", "enter", "asleep", "awake", "late"
          cdWait,      \* by thread: what it waits for, and what it does then
          cdStyles,    \* the kinds of wakeup this instance's clients use
          cdLast       \* how the present value was announced

cdVars == <<val_, cdPc, cdWait, cdStyles, cdLast>>

CdAnyValue == CHOOSE v \in CdValues : TRUE

\* is: wait(val), wait_not(val) when FALSE. then: "return", or the wakeup of
\* the wait_and_ forms, with the value they set.
CdOps == [is: BOOLEAN, val: CdValues, timed: BOOLEAN, then: {"return"}, new: {CdAnyValue}]
         \cup [is: BOOLEAN, val: CdValues, timed: {FALSE}, then: CdWakers, new: CdValues]

CdNoWait == [is |-> TRUE, val |-> CdAnyValue, timed |-> FALSE,
             then |-> "return", new |-> CdAnyValue]

CdInit == /\ val_ \in CdValues
          /\ cdPc = [t \in CdThreads |-> "idle"]
          /\ cdWait = [t \in CdThreads |-> CdNoWait]
          /\ cdStyles \in {CdWakers, CdWakers \cap {"broadcast"}}
          /\ cdLast = "broadcast"

\* The condition of thread t's wait.
CdHolds(t) == cdWait[t].is <=> val_ = cdWait[t].val

-----------------------------------------------------------------------------

\* Bug seeded: broadcast() is signal().
CdWakeOne(how, f) ==
  \/ /\ \A t \in CdThreads : f[t] # "asleep"
     /\ cdPc' = f
  \/ \E t \in CdThreads : f[t] = "asleep" /\ cdPc' = [f EXCEPT ![t] = "awake"]

\* ConditionVar's broadcast() wakes all, signal() one if there is one; f is
\* the places after the step's own move.
CdWake(how, f) ==
  IF how = "broadcast"
  THEN cdPc' = [t \in CdThreads |-> IF f[t] = "asleep" THEN "awake" ELSE f[t]]
  ELSE \/ /\ \A t \in CdThreads : f[t] # "asleep"
          /\ cdPc' = f
       \/ \E t \in CdThreads : f[t] = "asleep" /\ cdPc' = [f EXCEPT ![t] = "awake"]

\* signal(val) and broadcast(val), by a thread that does nothing else.
CdSet(v, how) == /\ how \in cdStyles
                 /\ val_' = v /\ cdLast' = how
                 /\ CdWake(how, cdPc)
                 /\ UNCHANGED <<cdWait, cdStyles>>

\* Bug seeded: a waiter that is woken does not look again.
CdReturnUnlooked(t) ==
  /\ CdHolds(t) \/ cdPc[t] = "awake"
  /\ LET f == [cdPc EXCEPT ![t] = "idle"] IN
     IF cdWait[t].then = "return"
     THEN cdPc' = f /\ UNCHANGED <<val_, cdLast>>
     ELSE /\ val_' = cdWait[t].new
          /\ cdLast' = cdWait[t].then
          /\ CdWake(cdWait[t].then, f)
  /\ cdWait' = [cdWait EXCEPT ![t] = CdNoWait]
  /\ UNCHANGED cdStyles

\* The loop ends; the wait_and_ forms set the new value before they unlock.
CdReturn(t) ==
  /\ CdHolds(t)
  /\ LET f == [cdPc EXCEPT ![t] = "idle"] IN
     IF cdWait[t].then = "return"
     THEN cdPc' = f /\ UNCHANGED <<val_, cdLast>>
     ELSE /\ val_' = cdWait[t].new
          /\ cdLast' = cdWait[t].then
          /\ CdWake(cdWait[t].then, f)
  /\ cdWait' = [cdWait EXCEPT ![t] = CdNoWait]
  /\ UNCHANGED cdStyles

\* A wait, which may be over at once or sleep.
CdCall(t, op) == /\ cdPc[t] = "idle"
                 /\ op.then \in cdStyles \cup {"return"}
                 /\ cdWait' = [cdWait EXCEPT ![t] = op]
                 /\ cdPc' = [cdPc EXCEPT ![t] = "enter"]
                 /\ UNCHANGED <<val_, cdStyles, cdLast>>

CdSleep(t) == /\ ~CdHolds(t)
              /\ cdPc' = [cdPc EXCEPT ![t] = "asleep"]
              /\ UNCHANGED <<val_, cdWait, cdStyles, cdLast>>

\* The loop of every wait.
CdLook(t) == cdPc[t] \in {"enter", "awake"} /\ (CdSleep(t) \/ CdReturn(t))

CdSpurious(t) == /\ cdPc[t] = "asleep"
                 /\ cdPc' = [cdPc EXCEPT ![t] = "awake"]
                 /\ UNCHANGED <<val_, cdWait, cdStyles, cdLast>>

\* cond_wait times out: the caller's answer is false, whatever the value is
\* when it has the mutex again.
CdTimeout(t) == /\ cdPc[t] \in {"asleep", "awake"} /\ cdWait[t].timed
                /\ cdPc' = [cdPc EXCEPT ![t] = "late"]
                /\ UNCHANGED <<val_, cdWait, cdStyles, cdLast>>

CdGiveUp(t) == /\ cdPc[t] = "late"
               /\ cdPc' = [cdPc EXCEPT ![t] = "idle"]
               /\ cdWait' = [cdWait EXCEPT ![t] = CdNoWait]
               /\ UNCHANGED <<val_, cdStyles, cdLast>>

CdNext == \/ \E v \in CdValues, how \in CdWakers : CdSet(v, how)
          \/ \E t \in CdThreads : \/ \E op \in CdOps : CdCall(t, op)
                                 \/ CdLook(t) \/ CdSpurious(t)
                                 \/ CdTimeout(t) \/ CdGiveUp(t)

\* A thread that is awake gets the mutex and looks.
CdFairness == \A t \in CdThreads : WF_cdVars(CdLook(t)) /\ WF_cdVars(CdGiveUp(t))

CdSpec == CdInit /\ [][CdNext]_cdVars /\ CdFairness

-----------------------------------------------------------------------------

\* A wait that does not time out returns only while its condition holds: not
\* because it was woken for somebody else's value, not spuriously.
CdReturns == [][\A t \in CdThreads :
                  cdPc[t] \in {"enter", "awake"} /\ cdPc'[t] = "idle" => CdHolds(t)]_cdVars

\* Nobody sleeps on the value it waits for, unless that value was announced
\* with signal(): one sleeper is woken then, be it for a different value.
CdNotStranded == \A t \in CdThreads :
  cdPc[t] = "asleep" /\ CdHolds(t) => cdLast = "signal"

\* Where clients broadcast, a value that is set for good reaches everybody who
\* waits for it.
CdArrives == \A t \in CdThreads :
  (cdStyles \subseteq {"broadcast"} /\ <>[]CdHolds(t)) => []<>(cdPc[t] = "idle")
=============================================================================
