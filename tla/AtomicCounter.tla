--------------------------- MODULE AtomicCounter ---------------------------
(***************************************************************************)
(* AtomicCounter of src/CtrlrFx/os/generic/CtrlrFx/AtomicCounter.h, for    *)
(* targets without atomic increments: every operation loads and stores     *)
(* cnt_ under the counter's own mutex. Load and store are separate steps;  *)
(* the store gives the mutex back. Assignment from another counter holds   *)
(* only its own mutex, and the conversion to int of AtomicCounter<int>     *)
(* holds none.                                                             *)
(***************************************************************************)
EXTENDS Integers

CONSTANTS AcThreads, AcCounters,
          AcWidth,    \* bits of the counter
          AcNobody

ASSUME AcNobodyOut == AcNobody \notin AcThreads
ASSUME AcWidthOk == AcWidth \in Nat \ {0}

VARIABLES cnt_,       \* by counter
          lock_,      \* by counter: the thread inside an operation
          acOp,       \* by thread: the operation, and the value loaded
          acNet,      \* by counter: the operations completed, one after another
          acResult    \* by thread: what its last operation gave, and should have

acVars == <<cnt_, lock_, acOp, acNet, acResult>>

AcMod == 2 ^ AcWidth
AcValue == 0..(AcMod - 1)

\* add: the amount of ++, --, +=; pre: whether the result is the new value.
AcOps == [kind: {"add"}, by: {1, AcMod - 1}, pre: BOOLEAN]
         \cup [kind: {"set"}, by: {0}, pre: {TRUE}]
AcIdle == [at |-> "idle"]

AcInit == /\ cnt_ = [c \in AcCounters |-> 0]
          /\ lock_ = [c \in AcCounters |-> AcNobody]
          /\ acOp = [t \in AcThreads |-> AcIdle]
          /\ acNet = cnt_
          /\ acResult = [t \in AcThreads |-> [got |-> 0, due |-> 0]]

\* Bug seeded: the guard is not taken.
AcEnterUnlocked(t, c, op) ==
  /\ acOp[t] = AcIdle
  /\ acOp' = [acOp EXCEPT ![t] = [at |-> "load", on |-> c, op |-> op]]
  /\ UNCHANGED <<cnt_, lock_, acNet, acResult>>

\* The guard's constructor.
AcEnter(t, c, op) ==
  /\ acOp[t] = AcIdle /\ lock_[c] = AcNobody
  /\ lock_' = [lock_ EXCEPT ![c] = t]
  /\ acOp' = [acOp EXCEPT ![t] = [at |-> "load", on |-> c, op |-> op]]
  /\ UNCHANGED <<cnt_, acNet, acResult>>

\* ++, --, += and their results; = assigns a constant.
AcLoad(t) == /\ acOp[t].at = "load"
             /\ acOp' = [acOp EXCEPT ![t] =
                           [at |-> "store", on |-> @.on, op |-> @.op,
                            val |-> IF @.op.kind = "add" THEN cnt_[@.on] ELSE 0]]
             /\ UNCHANGED <<cnt_, lock_, acNet, acResult>>

\* operator=(rhs): rhs's value, whatever another thread is doing with it.
AcLoadFrom(t, c) == /\ acOp[t].at = "load" /\ acOp[t].op.kind = "set"
                    /\ acOp' = [acOp EXCEPT ![t] =
                                  [at |-> "store", on |-> @.on, op |-> @.op, val |-> cnt_[c]]]
                    /\ UNCHANGED <<cnt_, lock_, acNet, acResult>>

AcStore(t) ==
  LET c == acOp[t].on
      op == acOp[t].op
      new == (acOp[t].val + op.by) % AcMod
      due == IF op.kind = "add" THEN (acNet[c] + op.by) % AcMod ELSE new
  IN /\ acOp[t].at = "store"
     /\ cnt_' = [cnt_ EXCEPT ![c] = new]
     /\ acNet' = [acNet EXCEPT ![c] = due]
     /\ acResult' = [acResult EXCEPT ![t] =
                       IF op.pre THEN [got |-> new, due |-> due]
                       ELSE [got |-> acOp[t].val, due |-> acNet[c]]]
     /\ lock_' = [lock_ EXCEPT ![c] = AcNobody]
     /\ acOp' = [acOp EXCEPT ![t] = AcIdle]

\* The conversions: under the mutex, except for int.
AcRead(t, c) == /\ acOp[t] = AcIdle
                /\ acResult' = [acResult EXCEPT ![t] = [got |-> cnt_[c], due |-> acNet[c]]]
                /\ UNCHANGED <<cnt_, lock_, acOp, acNet>>

AcNext == \E t \in AcThreads : \/ \E c \in AcCounters : \/ \E op \in AcOps : AcEnter(t, c, op)
                                                        \/ AcLoadFrom(t, c) \/ AcRead(t, c)
                               \/ AcLoad(t) \/ AcStore(t)

AcSpec == AcInit /\ [][AcNext]_acVars

-----------------------------------------------------------------------------

\* No update is lost, and every result is the one of some order of the
\* operations, one at a time: a reader without the mutex, or another counter
\* being assigned, sees only such values, too.
AcExact == /\ cnt_ = acNet
           /\ \A t \in AcThreads : acResult[t].got = acResult[t].due
=============================================================================
