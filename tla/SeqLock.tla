------------------------------ MODULE SeqLock ------------------------------
(***************************************************************************)
(* SeqLock of src/CtrlrFx/SeqLock.h: one writer (a task or an interrupt    *)
(* routine) and readers that never block and read again when a write came  *)
(* in between.  The guarded data is two words, written one after the       *)
(* other; word i of the k-th write is k.  The counter is as wide as        *)
(* CtrType, and its first value is whatever the memory holds.              *)
(* Statements are taken in program order.                                  *)
(***************************************************************************)
EXTENDS Integers, FiniteSets

CONSTANTS SlReaders,
          SlWidth     \* bits of CtrType

ASSUME SlWidthOk == SlWidth \in Nat \ {0}

VARIABLES ctr_,
          slWord,     \* the guarded data
          slWriter,   \* the writer's place: "idle", "w1", "w2", "unlock"
          slReader,   \* by reader: place, counter seen, words read
          slMissed,   \* by reader: writes begun since read_begin(), counted to the width
          slBegun,    \* by reader: the data at read_begin(), if none was being written
          slEven      \* the counter was even to begin with

slVars == <<ctr_, slWord, slWriter, slReader, slMissed, slBegun, slEven>>

SlMod == 2 ^ SlWidth

\* What a power of two is, for the provers, who know nothing of ^.
ASSUME SlModOk == SlMod \in Nat \ {0} /\ SlMod % 2 = 0

SlWord == 0..(SlMod - 1)
SlIdle == [at |-> "idle", ctr |-> 0, w1 |-> 0, w2 |-> 0]

SlInit == /\ ctr_ \in SlWord
          /\ slEven = (ctr_ % 2 = 0)
          /\ slWord = [i \in 1..2 |-> 0]
          /\ slWriter = "idle"
          /\ slReader = [r \in SlReaders |-> SlIdle]
          /\ slMissed = [r \in SlReaders |-> 0]
          /\ slBegun = [r \in SlReaders |-> 0]

-----------------------------------------------------------------------------

\* write_lock(). Only the writer increments, so the increment is one store.
write_lock == /\ slWriter = "idle"
              /\ ctr_' = (ctr_ + 1) % SlMod
              /\ slWriter' = "w1"
              /\ slMissed' = [r \in SlReaders |->
                                IF slMissed[r] < SlMod THEN slMissed[r] + 1 ELSE SlMod]
              /\ UNCHANGED <<slWord, slReader, slBegun, slEven>>

SlWrite(i) == /\ slWriter = IF i = 1 THEN "w1" ELSE "w2"
              /\ slWord' = [slWord EXCEPT ![i] = (@ + 1) % SlMod]
              /\ slWriter' = IF i = 1 THEN "w2" ELSE "unlock"
              /\ UNCHANGED <<ctr_, slReader, slMissed, slBegun, slEven>>

write_unlock == /\ slWriter = "unlock"
                /\ ctr_' = (ctr_ + 1) % SlMod
                /\ slWriter' = "idle"
                /\ UNCHANGED <<slWord, slReader, slMissed, slBegun, slEven>>

\* read_begin(): the counter, odd or even.
read_begin(r) == /\ slReader[r].at \in {"idle", "done"}
                 /\ slReader' = [slReader EXCEPT ![r] = [SlIdle EXCEPT !.at = "r1", !.ctr = ctr_]]
                 /\ slMissed' = [slMissed EXCEPT ![r] = 0]
                 /\ slBegun' = [slBegun EXCEPT ![r] = slWord[1]]
                 /\ UNCHANGED <<ctr_, slWord, slWriter, slEven>>

SlRead(r) == /\ \/ /\ slReader[r].at = "r1"
                   /\ slReader' = [slReader EXCEPT ![r] = [@ EXCEPT !.at = "r2", !.w1 = slWord[1]]]
                \/ /\ slReader[r].at = "r2"
                   /\ slReader' = [slReader EXCEPT ![r] = [@ EXCEPT !.at = "retry", !.w2 = slWord[2]]]
             /\ UNCHANGED <<ctr_, slWord, slWriter, slMissed, slBegun, slEven>>

\* Bug seeded: a read begun inside a write is accepted.
SlRetryChangedOnly(ctr) == ctr # ctr_

\* read_retry(): the condition to read again.
SlRetry(ctr) == ctr % 2 # 0 \/ ctr # ctr_

\* The client's loop: again from read_begin(), or done with what it read.
read_retry(r) == /\ slReader[r].at = "retry"
                 /\ slReader' = [slReader EXCEPT ![r] =
                      IF SlRetry(slReader[r].ctr) THEN SlIdle ELSE [@ EXCEPT !.at = "done"]]
                 /\ UNCHANGED <<ctr_, slWord, slWriter, slMissed, slBegun, slEven>>

SlNext == \/ write_lock \/ SlWrite(1) \/ SlWrite(2) \/ write_unlock
          \/ \E r \in SlReaders : read_begin(r) \/ SlRead(r) \/ read_retry(r)

SlSpec == SlInit /\ [][SlNext]_slVars

-----------------------------------------------------------------------------

\* A read that is not repeated saw one write's data whole, the data that was
\* there when it began. Two things the class cannot see: that its counter
\* began odd, and that so many writes passed during one read that the
\* counter, of CtrType's width, came round to the same value.
SlWhole == \A r \in SlReaders :
  slReader[r].at = "retry" /\ slEven /\ slMissed[r] < SlMod \div 2 /\ ~SlRetry(slReader[r].ctr)
    => slReader[r].w1 = slBegun[r] /\ slReader[r].w2 = slBegun[r]

\* What an odd beginning does: a quiet moment is then the time inside a write,
\* and a reader accepts only data of writes that are still going on.
SlOddBegin == \A r \in SlReaders :
  slReader[r].at = "retry" /\ ~slEven /\ slMissed[r] < SlMod \div 2 /\ ~SlRetry(slReader[r].ctr)
    => slWriter # "idle" /\ slMissed[r] = 0

\* What a reader accepts is the data of one write, whichever way the counter began.
SlAccepted == SlWhole /\ SlOddBegin
=============================================================================
