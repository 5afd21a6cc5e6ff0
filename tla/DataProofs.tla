------------------------------ MODULE DataProofs ------------------------------
(***************************************************************************)
(* Proofs about the parts MCData puts side by side.  A part's invariant is *)
(* shown to hold at the start and to be kept by every step of the part; a  *)
(* step of MCData is a step of one part, and leaves the others as they     *)
(* were.                                                                   *)
(***************************************************************************)
EXTENDS MCData, FiniteSetTheorems, SequenceTheorems, WellFoundedInduction, TLAPS

-----------------------------------------------------------------------------
(* AtomicCounter.  A thread that is in an operation has the counter's      *)
(* mutex, and what it has loaded is still what the counter holds.          *)

AcBusy(t) == /\ acOp[t].at \in {"load", "store"}
             /\ acOp[t].on \in AcCounters
             /\ acOp[t].op \in AcOps
             /\ lock_[acOp[t].on] = t
             /\ acOp[t].at = "store" /\ acOp[t].op.kind = "add"
                  => acOp[t].val = cnt_[acOp[t].on]

AcInv == /\ AcExact
         /\ cnt_ = [c \in AcCounters |-> cnt_[c]]
         /\ lock_ = [c \in AcCounters |-> lock_[c]]
         /\ acOp = [t \in AcThreads |-> acOp[t]]
         /\ acResult = [t \in AcThreads |-> acResult[t]]
         /\ \A t \in AcThreads : acOp[t] = AcIdle \/ AcBusy(t)

LEMMA AcStart == AcInit => AcInv
  BY DEF AcInit, AcInv, AcExact

LEMMA AcKept == AcInv /\ [AcNext]_acVars => AcInv'
<1> SUFFICES ASSUME AcInv, [AcNext]_acVars
             PROVE  AcInv'
  OBVIOUS
<1> USE DEF AcInv, AcExact, AcIdle
<1>1. ASSUME NEW t \in AcThreads, NEW c \in AcCounters, NEW op \in AcOps, AcEnter(t, c, op)
      PROVE  AcInv'
  <2>1. /\ lock_[c] = AcNobody /\ lock_' = [lock_ EXCEPT ![c] = t]
        /\ acOp' = [acOp EXCEPT ![t] = [at |-> "load", on |-> c, op |-> op]]
        /\ cnt_' = cnt_ /\ acNet' = acNet /\ acResult' = acResult
    BY <1>1 DEF AcEnter
  <2>2. AcBusy(t)'
    BY <2>1 DEF AcBusy
  <2>3. ASSUME NEW u \in AcThreads, u # t, AcBusy(u)
        PROVE  AcBusy(u)'
    BY <2>1, <2>3, AcNobodyOut DEF AcBusy
  <2> QED
    BY <2>1, <2>2, <2>3
<1>2. ASSUME NEW t \in AcThreads, NEW c \in AcCounters, AcLoadFrom(t, c)
      PROVE  AcInv'
  <2> DEFINE new == [at |-> "store", on |-> acOp[t].on, op |-> acOp[t].op, val |-> cnt_[c]]
  <2>1. /\ acOp[t].at = "load" /\ acOp[t].op.kind = "set"
        /\ acOp' = [acOp EXCEPT ![t] = new]
        /\ lock_' = lock_ /\ cnt_' = cnt_ /\ acNet' = acNet /\ acResult' = acResult
    BY <1>2 DEF AcLoadFrom
  <2>2. AcBusy(t)
    BY <2>1
  <2>3. acOp'[t] = new
    BY <2>1
  <2>4. AcBusy(t)'
    BY <2>1, <2>2, <2>3 DEF AcBusy
  <2>5. ASSUME NEW u \in AcThreads, u # t, AcBusy(u)
        PROVE  AcBusy(u)'
    BY <2>1, <2>5 DEF AcBusy
  <2> QED
    BY <2>1, <2>4, <2>5
<1>3. ASSUME NEW t \in AcThreads, NEW c \in AcCounters, AcRead(t, c)
      PROVE  AcInv'
  BY <1>3 DEF AcRead, AcBusy
<1>4. ASSUME NEW t \in AcThreads, AcLoad(t)
      PROVE  AcInv'
  <2> DEFINE new == [at |-> "store", on |-> acOp[t].on, op |-> acOp[t].op,
                     val |-> IF acOp[t].op.kind = "add" THEN cnt_[acOp[t].on] ELSE 0]
  <2>1. /\ acOp[t].at = "load"
        /\ acOp' = [acOp EXCEPT ![t] = new]
        /\ lock_' = lock_ /\ cnt_' = cnt_ /\ acNet' = acNet /\ acResult' = acResult
    BY <1>4 DEF AcLoad
  <2>2. AcBusy(t)
    BY <2>1
  <2>3. acOp'[t] = new
    BY <2>1
  <2>4. AcBusy(t)'
    BY <2>1, <2>2, <2>3 DEF AcBusy
  <2>5. ASSUME NEW u \in AcThreads, u # t, AcBusy(u)
        PROVE  AcBusy(u)'
    BY <2>1, <2>5 DEF AcBusy
  <2> QED
    BY <2>1, <2>4, <2>5
<1>5. ASSUME NEW t \in AcThreads, AcStore(t)
      PROVE  AcInv'
  <2> DEFINE c == acOp[t].on
             op == acOp[t].op
             new == (acOp[t].val + op.by) % AcMod
  <2>1. AcBusy(t) /\ acOp[t].at = "store"
    BY <1>5 DEF AcStore
  <2>2. cnt_' = [cnt_ EXCEPT ![c] = new] /\ acNet' = [acNet EXCEPT ![c] = new]
    BY <1>5, <2>1 DEF AcStore, AcBusy, AcOps
  <2>3. acResult'[t].got = acResult'[t].due
    BY <1>5, <2>1 DEF AcStore, AcBusy, AcOps
  <2>4. /\ lock_' = [lock_ EXCEPT ![c] = AcNobody]
        /\ acOp' = [acOp EXCEPT ![t] = AcIdle]
        /\ acResult' = [u \in AcThreads |-> acResult'[u]]
        /\ \A u \in AcThreads \ {t} : acResult'[u] = acResult[u]
    BY <1>5 DEF AcStore
  <2>5. c \in AcCounters /\ lock_[c] = t
    BY <2>1 DEF AcBusy
  <2>6. ASSUME NEW u \in AcThreads, u # t, AcBusy(u)
        PROVE  AcBusy(u)'
    BY <2>2, <2>4, <2>5, <2>6 DEF AcBusy
  <2> QED
    BY <2>2, <2>3, <2>4, <2>5, <2>6
<1>6. CASE UNCHANGED acVars
  BY <1>6 DEF acVars, AcBusy
<1> QED
  BY <1>1, <1>2, <1>3, <1>4, <1>5, <1>6 DEF AcNext

-----------------------------------------------------------------------------
(* SeqLock.                                                                *)

SlBusy == IF slWriter = "idle" THEN 0 ELSE 1

SlTypeOK == /\ ctr_ \in SlWord
            /\ slEven \in BOOLEAN
            /\ slWord \in [1..2 -> SlWord]
            /\ slWriter \in {"idle", "w1", "w2", "unlock"}
            /\ slReader \in [SlReaders -> [at : {"idle", "r1", "r2", "retry", "done"},
                                          ctr : SlWord, w1 : SlWord, w2 : SlWord]]
            /\ slMissed \in [SlReaders -> 0..SlMod]
            /\ slBegun \in [SlReaders -> SlWord]

\* The two words agree but between the two stores of a write.
SlWords == /\ slWriter \in {"idle", "w1", "unlock"} => slWord[1] = slWord[2]
           /\ slWriter = "w2" => slWord[1] = (slWord[2] + 1) % SlMod

\* The counter's parity says whether a write is going on.
SlParity == slEven <=> ctr_ % 2 = SlBusy

\* A reader that began on an even counter knows how far the counter has gone
\* since, as long as it cannot have come round.
SlSeen(r) == LET gone == 2 * slMissed[r] + (IF slEven THEN 0 ELSE 1) - SlBusy
                 ctr == slReader[r].ctr
             IN /\ ctr_ = ctr + gone \/ ctr_ = ctr + gone - SlMod
                /\ slMissed[r] = 0 /\ slEven
                     => /\ slWriter = "idle"
                        /\ slWord[1] = slBegun[r]
                        /\ slReader[r].at \in {"r2", "retry"} => slReader[r].w1 = slBegun[r]
                        /\ slReader[r].at = "retry" => slReader[r].w2 = slBegun[r]

SlReading == \A r \in SlReaders :
  /\ slReader[r].at \in {"r1", "r2", "retry"}
  /\ slReader[r].ctr % 2 = 0
  /\ 2 * slMissed[r] < SlMod
  => SlSeen(r)

SlInv == SlTypeOK /\ SlWords /\ SlParity /\ SlReading

LEMMA SlCount ==
  \A x \in SlWord : /\ (x + 1) % SlMod = IF x + 1 = SlMod THEN 0 ELSE x + 1
                    /\ (x + 1) % SlMod \in SlWord
                    /\ ((x + 1) % SlMod) % 2 = 1 - (x % 2)
<1> TAKE x \in SlWord
<1>1. (x + 1) % SlMod = IF x + 1 = SlMod THEN 0 ELSE x + 1
  BY SlModOk DEF SlWord
<1>2. x \in Nat /\ x + 1 <= SlMod /\ SlMod \in Nat /\ SlMod % 2 = 0
  BY SlModOk DEF SlWord
<1> HIDE DEF SlMod
<1> QED
  BY <1>1, <1>2 DEF SlWord

LEMMA SlStart == SlInit => SlInv
<1> SUFFICES ASSUME SlInit
             PROVE  SlInv
  OBVIOUS
<1>1. SlMod \in Nat \ {0} /\ 0 \in SlWord /\ ctr_ \in SlWord
  BY SlModOk DEF SlWord, SlInit
<1> HIDE DEF SlMod
<1>2. slEven \in BOOLEAN /\ (slEven <=> ctr_ % 2 = 0)
  BY DEF SlInit
<1>3. /\ slWord \in [1..2 -> SlWord] /\ slWord[1] = slWord[2] /\ slWriter = "idle"
      /\ slMissed \in [SlReaders -> 0..SlMod] /\ slBegun \in [SlReaders -> SlWord]
  BY <1>1 DEF SlInit
<1>4. /\ slReader \in [SlReaders -> [at : {"idle", "r1", "r2", "retry", "done"},
                                     ctr : SlWord, w1 : SlWord, w2 : SlWord]]
      /\ \A r \in SlReaders : slReader[r].at = "idle"
  BY <1>1 DEF SlInit, SlIdle
<1>5. SlTypeOK
  BY <1>1, <1>2, <1>3, <1>4 DEF SlTypeOK
<1>6. SlWords /\ SlReading
  BY <1>3, <1>4 DEF SlWords, SlReading
<1>7. SlParity
  BY <1>2, <1>3 DEF SlParity, SlBusy
<1> QED
  BY <1>5, <1>6, <1>7 DEF SlInv

LEMMA SlTypeKept == SlTypeOK /\ [SlNext]_slVars => SlTypeOK'
<1> SUFFICES ASSUME SlTypeOK, [SlNext]_slVars
             PROVE  SlTypeOK'
  OBVIOUS
<1>0. SlMod \in Nat \ {0} /\ 0 \in SlWord
  BY SlModOk DEF SlWord
<1> USE DEF SlTypeOK, SlIdle
<1> HIDE DEF SlMod
<1>1. CASE write_lock
  <2>1. ASSUME NEW r \in SlReaders
        PROVE  (IF slMissed[r] < SlMod THEN slMissed[r] + 1 ELSE SlMod) \in 0..SlMod
    BY <1>0
  <2> QED
    BY <1>1, <2>1, SlCount DEF write_lock
<1>2. ASSUME NEW i \in 1..2, SlWrite(i)
      PROVE  SlTypeOK'
  BY <1>2, SlCount DEF SlWrite
<1>3. CASE write_unlock
  BY <1>3, SlCount DEF write_unlock
<1>4. ASSUME NEW r \in SlReaders, read_begin(r)
      PROVE  SlTypeOK'
  <2> DEFINE old == [at |-> "idle", ctr |-> 0, w1 |-> 0, w2 |-> 0]
             new == [at |-> "r1", ctr |-> ctr_, w1 |-> 0, w2 |-> 0]
  <2>1. ASSUME NEW x, x = old
        PROVE  [x EXCEPT !.at = "r1", !.ctr = ctr_] = new
    <3>1. [x EXCEPT !.at = "r1", !.ctr = ctr_] = [[x EXCEPT !.at = "r1"] EXCEPT !.ctr = ctr_]
      OBVIOUS
    <3>2. [x EXCEPT !.at = "r1"] = [at |-> "r1", ctr |-> 0, w1 |-> 0, w2 |-> 0]
      BY <2>1
    <3>3. [[at |-> "r1", ctr |-> 0, w1 |-> 0, w2 |-> 0] EXCEPT !.ctr = ctr_] = new
      OBVIOUS
    <3> QED
      BY <3>1, <3>2, <3>3
  <2>2. slReader' = [slReader EXCEPT ![r] = new]
    BY <1>4, <2>1 DEF read_begin
  <2> QED
    BY <1>0, <1>4, <2>2 DEF read_begin
<1>5. ASSUME NEW r \in SlReaders, SlRead(r)
      PROVE  SlTypeOK'
  <2> DEFINE R == [at : {"idle", "r1", "r2", "retry", "done"}, ctr : SlWord,
                   w1 : SlWord, w2 : SlWord]
  <2>1. ASSUME NEW x \in R, NEW w \in SlWord
        PROVE  /\ [x EXCEPT !.at = "r2", !.w1 = w] \in R
               /\ [x EXCEPT !.at = "retry", !.w2 = w] \in R
    <3>1. /\ [x EXCEPT !.at = "r2", !.w1 = w] = [[x EXCEPT !.at = "r2"] EXCEPT !.w1 = w]
          /\ [x EXCEPT !.at = "retry", !.w2 = w] = [[x EXCEPT !.at = "retry"] EXCEPT !.w2 = w]
      OBVIOUS
    <3>2. /\ [[x EXCEPT !.at = "r2"] EXCEPT !.w1 = w] \in R
          /\ [[x EXCEPT !.at = "retry"] EXCEPT !.w2 = w] \in R
      OBVIOUS
    <3> QED
      BY <3>1, <3>2
  <2>2. slReader[r] \in R /\ slWord[1] \in SlWord /\ slWord[2] \in SlWord
    OBVIOUS
  <2>3. PICK x \in R : slReader' = [slReader EXCEPT ![r] = x]
    BY <1>5, <2>1, <2>2 DEF SlRead
  <2>4. slReader' \in [SlReaders -> R]
    BY <2>3
  <2> QED
    BY <1>5, <2>4 DEF SlRead
<1>6. ASSUME NEW r \in SlReaders, read_retry(r)
      PROVE  SlTypeOK'
  BY <1>0, <1>6 DEF read_retry
<1>7. CASE UNCHANGED slVars
  BY <1>7 DEF slVars
<1> QED
  BY <1>1, <1>2, <1>3, <1>4, <1>5, <1>6, <1>7 DEF SlNext

LEMMA OtherParity ==
  \A x, y \in Nat : y % 2 = 1 - (x % 2)
     => (y % 2 = 1 <=> x % 2 = 0) /\ (y % 2 = 0 <=> x % 2 = 1)
  OBVIOUS

LEMMA SlWordsKept == SlInv /\ [SlNext]_slVars => SlWords' /\ SlParity'
<1> SUFFICES ASSUME SlInv, [SlNext]_slVars
             PROVE  SlWords' /\ SlParity'
  OBVIOUS
<1> USE DEF SlInv, SlWords, SlParity, SlBusy
<1>0. /\ slWord \in [1..2 -> SlWord] /\ ctr_ \in SlWord /\ slEven \in BOOLEAN
      /\ (ctr_ + 1) % SlMod \in SlWord /\ ((ctr_ + 1) % SlMod) % 2 = 1 - (ctr_ % 2)
      /\ ctr_ % 2 \in {0, 1}
  BY SlCount DEF SlTypeOK, SlWord
<1> HIDE DEF SlMod
<1>1. CASE write_lock
  <2>1. slWriter = "idle" /\ slWriter' = "w1" /\ ctr_' = (ctr_ + 1) % SlMod
        /\ slWord' = slWord /\ slEven' = slEven
    BY <1>1 DEF write_lock
  <2>2. ctr_' % 2 = 1 - (ctr_ % 2)
    BY <1>0, <2>1, Zenon
  <2>5. ctr_ \in Nat /\ ctr_' \in Nat
    BY <1>0, <2>1 DEF SlWord
  <2>3. ctr_' % 2 = 1 <=> ctr_ % 2 = 0
    BY <2>2, <2>5, OtherParity
  <2>4. SlWords'
    BY <2>1
  <2> QED
    BY <2>1, <2>3, <2>4
<1>2. ASSUME NEW i \in 1..2, SlWrite(i)
      PROVE  SlWords' /\ SlParity'
  BY <1>0, <1>2 DEF SlWrite
<1>3. CASE write_unlock
  <2>1. slWriter = "unlock" /\ slWriter' = "idle" /\ ctr_' = (ctr_ + 1) % SlMod
        /\ slWord' = slWord /\ slEven' = slEven
    BY <1>3 DEF write_unlock
  <2>2. ctr_' % 2 = 1 - (ctr_ % 2)
    BY <1>0, <2>1, Zenon
  <2>5. ctr_ \in Nat /\ ctr_' \in Nat
    BY <1>0, <2>1 DEF SlWord
  <2>3. ctr_' % 2 = 0 <=> ctr_ % 2 = 1
    BY <2>2, <2>5, OtherParity
  <2>4. SlWords'
    BY <2>1
  <2> QED
    BY <2>1, <2>3, <2>4
<1>4. ASSUME NEW r \in SlReaders, read_begin(r) \/ SlRead(r) \/ read_retry(r)
      PROVE  SlWords' /\ SlParity'
  BY <1>4 DEF read_begin, SlRead, read_retry
<1>5. CASE UNCHANGED slVars
  BY <1>5 DEF slVars
<1> QED
  BY <1>1, <1>2, <1>3, <1>4, <1>5 DEF SlNext

LEMMA SlReadingKept == SlInv /\ [SlNext]_slVars => SlReading'
<1> SUFFICES ASSUME SlInv, [SlNext]_slVars, NEW r \in SlReaders,
                    slReader'[r].at \in {"r1", "r2", "retry"},
                    slReader'[r].ctr % 2 = 0, 2 * slMissed'[r] < SlMod
             PROVE  SlSeen(r)'
  BY DEF SlReading
<1>0. /\ slWord \in [1..2 -> SlWord] /\ ctr_ \in SlWord /\ slEven \in BOOLEAN
      /\ (ctr_ + 1) % SlMod = IF ctr_ + 1 = SlMod THEN 0 ELSE ctr_ + 1
      /\ SlMod \in Nat \ {0} /\ slMissed \in [SlReaders -> 0..SlMod] /\ slMissed[r] \in 0..SlMod
      /\ ctr_ \in Nat /\ ctr_ < SlMod
  BY SlCount, SlModOk DEF SlInv, SlTypeOK, SlWord
<1>00. /\ slReader[r].ctr \in 0..(SlMod - 1)
       /\ SlWords /\ SlParity /\ SlTypeOK
       /\ slReader[r].at \in {"r1", "r2", "retry"} /\ slReader[r].ctr % 2 = 0
            /\ 2 * slMissed[r] < SlMod => SlSeen(r)
  BY DEF SlInv, SlTypeOK, SlWord, SlReading
<1> HIDE DEF SlMod
<1>1. CASE write_lock
  <2>1. /\ slWriter = "idle" /\ slWriter' = "w1" /\ ctr_' = (ctr_ + 1) % SlMod
        /\ slReader' = slReader /\ slBegun' = slBegun /\ slEven' = slEven /\ slWord' = slWord
        /\ slMissed'[r] = IF slMissed[r] < SlMod THEN slMissed[r] + 1 ELSE SlMod
    BY <1>1 DEF write_lock
  <2>2. slMissed'[r] = slMissed[r] + 1 /\ 2 * slMissed[r] < SlMod /\ slMissed'[r] # 0
    BY <1>0, <2>1
  <2>3. SlSeen(r)
    BY <1>00, <2>1, <2>2
  <2>4. PICK odd \in {0, 1} : odd = IF slEven THEN 0 ELSE 1
    OBVIOUS
  <2>5. \/ ctr_ = slReader[r].ctr + 2 * slMissed[r] + odd
        \/ ctr_ = slReader[r].ctr + 2 * slMissed[r] + odd - SlMod
    BY <1>0, <1>00, <2>1, <2>3, <2>4 DEF SlSeen, SlBusy
  <2>6. \/ ctr_' = slReader[r].ctr + 2 * slMissed'[r] + odd - 1
        \/ ctr_' = slReader[r].ctr + 2 * slMissed'[r] + odd - 1 - SlMod
    BY <1>0, <1>00, <2>1, <2>2, <2>5
  <2>7. SlBusy' = 1
    BY <2>1 DEF SlBusy
  <2> QED
    BY <1>0, <1>00, <2>1, <2>2, <2>4, <2>6, <2>7 DEF SlSeen
<1>2. ASSUME NEW i \in 1..2, SlWrite(i)
      PROVE  SlSeen(r)'
  <2>1. /\ slWriter \in {"w1", "w2"} /\ slWriter' \in {"w2", "unlock"} /\ ctr_' = ctr_
        /\ slReader' = slReader /\ slBegun' = slBegun /\ slEven' = slEven /\ slMissed' = slMissed
    BY <1>2 DEF SlWrite
  <2> QED
    BY <1>0, <1>00, <2>1 DEF SlSeen, SlBusy
<1>3. CASE write_unlock
  <2>1. /\ slWriter = "unlock" /\ slWriter' = "idle" /\ ctr_' = (ctr_ + 1) % SlMod
        /\ slReader' = slReader /\ slBegun' = slBegun /\ slEven' = slEven /\ slWord' = slWord
        /\ slMissed' = slMissed
    BY <1>3 DEF write_unlock
  <2>2. SlSeen(r)
    BY <1>00, <2>1
  <2>3. slMissed[r] # 0 \/ ~slEven
    BY <2>1, <2>2 DEF SlSeen
  <2>4. PICK odd \in {0, 1} : odd = IF slEven THEN 0 ELSE 1
    OBVIOUS
  <2>5. \/ ctr_ = slReader[r].ctr + 2 * slMissed[r] + odd - 1
        \/ ctr_ = slReader[r].ctr + 2 * slMissed[r] + odd - 1 - SlMod
    BY <1>0, <1>00, <2>1, <2>2, <2>4 DEF SlSeen, SlBusy
  <2>6. \/ ctr_' = slReader[r].ctr + 2 * slMissed[r] + odd
        \/ ctr_' = slReader[r].ctr + 2 * slMissed[r] + odd - SlMod
    BY <1>0, <1>00, <2>1, <2>3, <2>4, <2>5
  <2>7. SlBusy' = 0
    BY <2>1 DEF SlBusy
  <2> QED
    BY <1>0, <1>00, <2>1, <2>3, <2>4, <2>6, <2>7 DEF SlSeen
<1>4. ASSUME NEW s \in SlReaders, s # r, read_begin(s) \/ SlRead(s) \/ read_retry(s)
      PROVE  SlSeen(r)'
  <2>1. /\ slReader'[r] = slReader[r] /\ slBegun'[r] = slBegun[r] /\ slMissed'[r] = slMissed[r]
        /\ UNCHANGED <<ctr_, slWord, slWriter, slEven>>
    BY <1>00, <1>4 DEF read_begin, SlRead, read_retry, SlTypeOK
  <2> QED
    BY <1>00, <2>1 DEF SlSeen, SlBusy
<1>5. CASE read_begin(r)
  <2>1. /\ slReader'[r].at = "r1" /\ slReader'[r].ctr = ctr_
        /\ slMissed'[r] = 0 /\ slBegun'[r] = slWord[1]
        /\ UNCHANGED <<ctr_, slWord, slWriter, slEven>>
    BY <1>00, <1>5 DEF read_begin, SlTypeOK, SlIdle
  <2>2. ctr_ % 2 = 0
    BY <2>1
  <2>3. slEven <=> slWriter = "idle"
    BY <1>00, <2>2 DEF SlParity, SlBusy
  <2> QED
    BY <1>0, <1>00, <2>1, <2>3 DEF SlSeen, SlBusy
<1>6. CASE SlRead(r)
  <2>1. /\ slReader'[r].ctr = slReader[r].ctr
        /\ \/ slReader[r].at = "r1" /\ slReader'[r].at = "r2" /\ slReader'[r].w1 = slWord[1]
           \/ /\ slReader[r].at = "r2" /\ slReader'[r].at = "retry"
              /\ slReader'[r].w1 = slReader[r].w1 /\ slReader'[r].w2 = slWord[2]
        /\ UNCHANGED <<ctr_, slWord, slWriter, slEven, slMissed, slBegun>>
    BY <1>00, <1>6, ZenonT(60) DEF SlRead, SlTypeOK
  <2>2. SlSeen(r)
    BY <1>00, <2>1
  <2> QED
    BY <1>0, <1>00, <2>1, <2>2 DEF SlSeen, SlBusy, SlWords
<1>7. CASE read_retry(r)
  BY <1>00, <1>7 DEF read_retry, SlTypeOK, SlIdle
<1>8. CASE UNCHANGED slVars
  BY <1>00, <1>8 DEF slVars, SlSeen, SlBusy
<1> QED
  BY <1>1, <1>2, <1>3, <1>4, <1>5, <1>6, <1>7, <1>8 DEF SlNext

LEMMA SlKept == SlInv /\ [SlNext]_slVars => SlInv'
  BY SlTypeKept, SlWordsKept, SlReadingKept DEF SlInv

LEMMA SlAccepts == SlInv => SlAccepted
<1> SUFFICES ASSUME SlInv, NEW r \in SlReaders, slReader[r].at = "retry",
                    slMissed[r] < SlMod \div 2, ~SlRetry(slReader[r].ctr)
             PROVE  /\ slEven => slReader[r].w1 = slBegun[r] /\ slReader[r].w2 = slBegun[r]
                    /\ ~slEven => slWriter # "idle" /\ slMissed[r] = 0
  BY DEF SlAccepted, SlWhole, SlOddBegin
<1>1. /\ slReader[r].ctr = ctr_ /\ ctr_ % 2 = 0 /\ ctr_ \in Nat /\ ctr_ < SlMod
      /\ SlMod \in Nat \ {0} /\ slMissed[r] \in Nat /\ SlMod % 2 = 0
  BY SlModOk DEF SlRetry, SlInv, SlTypeOK, SlWord
<1> HIDE DEF SlMod
<1>2. 2 * slMissed[r] < SlMod
  BY <1>1
<1>3. SlSeen(r)
  BY <1>1, <1>2 DEF SlInv, SlReading
<1>4. slEven => slMissed[r] = 0
  BY <1>1, <1>2, <1>3 DEF SlSeen, SlBusy
<1>5. ~slEven => slMissed[r] = 0 /\ SlBusy = 1
  BY <1>1, <1>2, <1>3 DEF SlSeen, SlBusy
<1> QED
  BY <1>3, <1>4, <1>5 DEF SlSeen, SlBusy

-----------------------------------------------------------------------------
(* What MCData's steps are to its parts.                                   *)

MCVars == <<part, vars, cqVars, stVars, kyVars, slVars, acVars,
            tmVars, bfVars, bcVars, dsVars, bsVars, soVars, dvVars>>

LEMMA StepOfPart ==
  [MCNext]_MCVars =>
    /\ [Next]_vars /\ [CqNext]_cqVars /\ [StNext]_stVars /\ [KyNext]_kyVars
    /\ [SlNext]_slVars /\ [AcNext]_acVars /\ [TmNext]_tmVars /\ [BfNext]_bfVars
    /\ [BcNext]_bcVars /\ [DsNext]_dsVars /\ [BsNext]_bsVars
    /\ [SoNext]_soVars /\ [DvNext]_dvVars
<1>1. MCNext =>
        /\ [Next]_vars /\ [CqNext]_cqVars /\ [StNext]_stVars /\ [KyNext]_kyVars
        /\ [SlNext]_slVars /\ [AcNext]_acVars /\ [TmNext]_tmVars /\ [BfNext]_bfVars
        /\ [BcNext]_bcVars /\ [DsNext]_dsVars /\ [BsNext]_bsVars
        /\ [SoNext]_soVars /\ [DvNext]_dvVars
  BY Zenon DEF MCNext
<1>2. UNCHANGED MCVars =>
        UNCHANGED <<vars, cqVars, stVars, kyVars, slVars, acVars,
                    tmVars, bfVars, bcVars, dsVars, bsVars, soVars, dvVars>>
  BY DEF MCVars
<1> QED
  BY <1>1, <1>2, Zenon

\* Threads that add to, set and read AtomicCounters (os/generic) lose no update
\* and see only values of some order of the operations; a SeqLock reader
\* (SeqLock.h) whose read_retry() says no has the data of one write, as long as
\* fewer writes passed it by than bring the counter round to where it was.  For
\* any threads, counters and readers and a counter of any width.
THEOREM CountersSafe == MCSpec => []CountersExact
<1>1. MCInit => AcInv /\ SlInv
  BY AcStart, SlStart, Zenon DEF MCInit
<1>2. (AcInv /\ SlInv) /\ [MCNext]_MCVars => (AcInv /\ SlInv)'
  BY AcKept, SlKept, StepOfPart, Zenon
<1>3. AcInv /\ SlInv => CountersExact
  BY SlAccepts DEF CountersExact, AcInv
<1> QED
  BY <1>1, <1>2, <1>3, PTL DEF MCSpec, MCVars

-----------------------------------------------------------------------------
(* Sockets, devices, the stream on a device, and the memory of buffers and *)
(* circular queues.                                                        *)

\* SoStrict, handle by handle.
SoInv == /\ soSock = [o \in SoObjects |-> soSock[o]]
         /\ \A o \in SoObjects :
              soSock[o] # SoInvalid => soSock[o] \in soOpen /\ soSock[o] # soTemp
         /\ soTemp # SoInvalid => soTemp \in soOpen
         /\ \A o, p \in SoObjects : o # p /\ soSock[o] = soSock[p] => soSock[o] = SoInvalid
         /\ SoListens

LEMMA SoStart == SoInit => SoInv
  BY DEF SoInit, SoInv, SoListens, SoInvalid, SoObjects

\* A handle that has just been opened is nobody's.
LEMMA SoNew == ASSUME SoInv, NEW h, SoCreated(h), h # SoInvalid
               PROVE  /\ \A o \in SoObjects : soSock[o] # h
                      /\ soTemp # h
                      /\ h \notin soOpen
  BY DEF SoInv, SoCreated

LEMMA SoKept == SoInv /\ [SoNext]_soVars => SoInv'
<1> SUFFICES ASSUME SoInv, [SoNext]_soVars
             PROVE  SoInv'
  OBVIOUS
<1> USE DEF SoInv, SoListens
<1>1. ASSUME NEW o \in SoObjects, SoClose(o)
      PROVE  SoInv'
  <2>1. /\ soSock' = [soSock EXCEPT ![o] = SoInvalid] /\ soTemp' = soTemp
        /\ soOpen' = soOpen \ ({soSock[o]} \ {SoInvalid})
        /\ soListening' = soListening \cap soOpen'
    BY <1>1 DEF SoClose, SoTake, SoHeard
  <2>2. \A p \in SoObjects \ {o} : soSock'[p] = soSock[p]
    BY <2>1
  <2>3. soSock'[o] = SoInvalid
    BY <2>1
  <2>4. ASSUME NEW p \in SoObjects, soSock'[p] # SoInvalid
        PROVE  soSock'[p] \in soOpen' /\ soSock'[p] # soTemp'
    BY <2>1, <2>2, <2>3, <2>4
  <2>5. SoListens'
    BY <2>1, <2>2, <2>3, <2>4 DEF SoObjects
  <2> QED
    BY <2>1, <2>2, <2>3, <2>4, <2>5
<1>2. ASSUME NEW h, NEW o \in SoUdps \cup SoClients, SoUdp(o, h) \/ SoOpen(o, h)
      PROVE  SoInv'
  BY <1>2, SoNew, SoKinds, ZenonT(60) DEF SoUdp, SoOpen, SoTake, SoHeard, SoObjects, SoClients
<1>3. ASSUME NEW h, NEW o \in SoConnectors, SoConnect(o, h)
      PROVE  SoInv'
  BY <1>3, SoNew, SoKinds, ZenonT(60) DEF SoConnect, SoTake, SoHeard, SoObjects, SoClients
<1>4. ASSUME NEW h, NEW o \in SoAcceptors, SoAcceptOpen(o, h)
      PROVE  SoInv'
  BY <1>4, SoNew, SMTT(30) DEF SoAcceptOpen, SoTake, SoHeard, SoObjects
<1>5. ASSUME NEW h, NEW o \in SoAcceptors, SoAccept(o, h)
      PROVE  SoInv'
  BY <1>5, SoNew DEF SoAccept
<1>6. ASSUME NEW o \in SoClients \cup SoUdps, SoRelease(o)
      PROVE  SoInv'
  BY <1>6, SoKinds DEF SoRelease, SoObjects, SoClients
<1>7. ASSUME NEW o \in SoClients, SoGiven(o)
      PROVE  SoInv'
  BY <1>7, SoKinds DEF SoGiven, SoTake, SoHeard, SoObjects, SoClients
<1>8. CASE SoDropped
  <2>1. /\ soSock' = soSock /\ soTemp' = SoInvalid
        /\ soOpen' = soOpen \ {soTemp} /\ soListening' = soListening \cap soOpen'
    BY <1>8 DEF SoDropped, SoHeard
  <2>2. \A p \in SoObjects : soSock[p] # SoInvalid => soSock[p] \in soOpen'
    BY <2>1
  <2>3. SoListens'
    BY <2>1, <2>2 DEF SoObjects
  <2> QED
    BY <2>1, <2>2, <2>3
<1>9. ASSUME NEW o \in SoStreams, NEW p \in SoClients, SoAssign(o, p)
      PROVE  SoInv'
  BY <1>9, SoKinds DEF SoAssign, SoHeard, SoObjects, SoClients
<1>10. CASE UNCHANGED soVars
  BY <1>10 DEF soVars
<1> QED
  BY <1>1, <1>2, <1>3, <1>4, <1>5, <1>6, <1>7, <1>8, <1>9, <1>10 DEF SoNext

\* Who has an open handle, and that nobody has a lost one.
SoLeft == /\ SoInvalid \notin soOpen
          /\ soLost \subseteq soOpen
          /\ \A h \in soLost : h # soTemp /\ \A o \in SoObjects : soSock[o] # h
          /\ \A h \in soOpen \ soLost : h = soTemp \/ \E o \in SoObjects : soSock[o] = h

LEMMA SoLeftStart == SoInit => SoLeft
  BY DEF SoInit, SoLeft

\* reset(h) of an object that has h from now on, new or from soTemp.
LEMMA SoTakes ==
  ASSUME SoInv, SoLeft, NEW o \in SoObjects, NEW h, NEW new, SoTake(o, h, new),
         \/ h = SoInvalid /\ new = {} /\ soTemp' = soTemp
         \/ h \in SoHandles \ soOpen /\ new = {h} /\ soTemp' = soTemp
         \/ h = soTemp /\ h # SoInvalid /\ new = {} /\ soTemp' = SoInvalid
  PROVE  SoLeft'
<1>1. /\ soSock' = [soSock EXCEPT ![o] = h] /\ soLost' = soLost
      /\ soOpen' = (soOpen \cup new) \ ({soSock[o]} \ {h})
  BY DEF SoTake
<1>2. soSock'[o] = h /\ \A p \in SoObjects \ {o} : soSock'[p] = soSock[p]
  BY <1>1 DEF SoInv
<1>3. SoInvalid \notin SoHandles
  BY SoHandlesOk DEF SoInvalid
<1>4. SoInvalid \notin soOpen' /\ soLost' \subseteq soOpen'
  BY <1>1, <1>3 DEF SoLeft
<1>5. ASSUME NEW l \in soLost'
      PROVE  l # soTemp' /\ \A p \in SoObjects : soSock'[p] # l
  BY <1>1, <1>2, <1>3, <1>5 DEF SoLeft
<1>6. ASSUME NEW l \in soOpen' \ soLost'
      PROVE  l = soTemp' \/ \E p \in SoObjects : soSock'[p] = l
  <2>1. CASE l = h
    BY <1>2, <2>1
  <2>2. CASE l # h
    <3>1. l \in soOpen \ soLost /\ l # soSock[o]
      BY <1>1, <1>6, <2>2
    <3>2. l = soTemp \/ \E p \in SoObjects \ {o} : soSock[p] = l
      BY <3>1 DEF SoLeft
    <3> QED
      BY <1>2, <2>2, <3>1, <3>2 DEF SoLeft
  <2> QED
    BY <2>1, <2>2
<1> QED
  BY <1>4, <1>5, <1>6 DEF SoLeft

\* A handle lost in a failed call.
LEMMA SoLoses ==
  ASSUME SoInv, SoLeft, NEW o \in SoObjects, NEW h, SoCreated(h), SoLose(h),
         soSock' = [soSock EXCEPT ![o] = SoInvalid], soTemp' = soTemp,
         soOpen' = (soOpen \cup ({h} \ {SoInvalid})) \ {soSock[o]}
  PROVE  SoLeft'
<1>1. soSock'[o] = SoInvalid /\ \A p \in SoObjects \ {o} : soSock'[p] = soSock[p]
  BY DEF SoInv
<1>2. soLost' = soLost \cup ({h} \ {SoInvalid})
  BY DEF SoLose
<1>3. h # SoInvalid => h # soTemp /\ \A p \in SoObjects : soSock[p] # h
  BY SoNew
<1>4. SoInvalid \notin soOpen' /\ soLost' \subseteq soOpen'
  BY <1>2, <1>3 DEF SoLeft
<1>5. ASSUME NEW l \in soLost'
      PROVE  l # soTemp' /\ \A p \in SoObjects : soSock'[p] # l
  <2>1. l # SoInvalid
    BY <1>4
  <2> QED
    BY <1>1, <1>2, <1>3, <2>1 DEF SoLeft
<1>6. ASSUME NEW l \in soOpen' \ soLost'
      PROVE  l = soTemp' \/ \E p \in SoObjects : soSock'[p] = l
  <2>1. l \in soOpen \ soLost /\ l # soSock[o]
    BY <1>2
  <2> QED
    BY <1>1, <2>1 DEF SoLeft
<1> QED
  BY <1>4, <1>5, <1>6 DEF SoLeft

LEMMA SoLeftKept == SoInv /\ SoLeft /\ [SoNext]_soVars => SoLeft'
<1> SUFFICES ASSUME SoInv, SoLeft, [SoNext]_soVars
             PROVE  SoLeft'
  OBVIOUS
<1>0. /\ SoInvalid \notin SoHandles
      /\ \A h : SoCreated(h) => h = SoInvalid \/ h \in SoHandles \ soOpen
      /\ {SoInvalid} \ {SoInvalid} = {}
      /\ \A h \in SoHandles : {h} \ {SoInvalid} = {h}
  BY SoHandlesOk DEF SoInvalid, SoCreated
<1>1. ASSUME NEW o \in SoObjects, SoClose(o)
      PROVE  SoLeft'
  BY <1>1, SoTakes DEF SoClose
<1>2. ASSUME NEW h, NEW o \in SoObjects, SoUdp(o, h) \/ SoOpen(o, h)
      PROVE  SoLeft'
  BY <1>0, <1>2, SoTakes DEF SoUdp, SoOpen
<1>3. ASSUME NEW h, NEW o \in SoObjects, SoConnect(o, h)
      PROVE  SoLeft'
  BY <1>0, <1>3, SoTakes, SoLoses, Zenon DEF SoConnect
<1>4. ASSUME NEW h, NEW o \in SoObjects, SoAcceptOpen(o, h)
      PROVE  SoLeft'
  <2>1. CASE SoTake(o, h, {h} \ {SoInvalid})
    <3>1. SoCreated(h) /\ soTemp' = soTemp
      BY <1>4 DEF SoAcceptOpen
    <3> QED
      BY <1>0, <2>1, <3>1, SoTakes, Zenon
  <2>2. CASE soOpen' = soOpen \cup ({h} \ {SoInvalid}) /\ SoLose(h) /\ soSock' = soSock
    <3>1. SoCreated(h) /\ soTemp' = soTemp /\ soSock[o] = SoInvalid
      BY <1>4 DEF SoAcceptOpen
    <3>2. soSock' = [soSock EXCEPT ![o] = SoInvalid]
      BY <2>2, <3>1 DEF SoInv
    <3>3. soOpen' = (soOpen \cup ({h} \ {SoInvalid})) \ {soSock[o]}
      BY <2>2, <3>1 DEF SoLeft
    <3> QED
      BY <2>2, <3>1, <3>2, <3>3, SoLoses, Zenon
  <2> QED
    BY <1>4, <2>1, <2>2 DEF SoAcceptOpen
<1>5. ASSUME NEW h, NEW o \in SoObjects, SoAccept(o, h)
      PROVE  SoLeft'
  BY <1>0, <1>5 DEF SoAccept, SoLeft
<1>6. ASSUME NEW o \in SoObjects, SoRelease(o)
      PROVE  SoLeft'
  <2>1. /\ soTemp = SoInvalid /\ soTemp' = soSock[o] /\ soOpen' = soOpen /\ soLost' = soLost
        /\ soSock'[o] = SoInvalid /\ \A p \in SoObjects \ {o} : soSock'[p] = soSock[p]
    BY <1>6 DEF SoRelease, SoInv
  <2> QED
    BY <2>1 DEF SoLeft
<1>7. ASSUME NEW o \in SoObjects, SoGiven(o)
      PROVE  SoLeft'
  BY <1>7, SoTakes, Zenon DEF SoGiven
<1>8. CASE SoDropped
  BY <1>8 DEF SoDropped, SoLeft
<1>9. ASSUME NEW o \in SoObjects, NEW p \in SoObjects, SoAssign(o, p)
      PROVE  SoLeft'
  <2>1. /\ soSock'[o] = soSock[p] /\ soSock'[p] = SoInvalid
        /\ \A q \in SoObjects \ {o, p} : soSock'[q] = soSock[q]
        /\ soOpen' = soOpen \ {soSock[o]} /\ soLost' = soLost /\ soTemp' = soTemp
    BY <1>9 DEF SoAssign, SoInv
  <2>2. SoInvalid \notin soOpen' /\ soLost' \subseteq soOpen'
    BY <2>1 DEF SoLeft
  <2>3. ASSUME NEW l \in soLost'
        PROVE  l # soTemp' /\ \A q \in SoObjects : soSock'[q] # l
    BY <2>1 DEF SoLeft
  <2>4. ASSUME NEW l \in soOpen' \ soLost'
        PROVE  l = soTemp' \/ \E q \in SoObjects : soSock'[q] = l
    BY <2>1 DEF SoLeft
  <2> QED
    BY <2>2, <2>3, <2>4 DEF SoLeft
<1>10. CASE UNCHANGED soVars
  BY <1>10 DEF soVars, SoLeft
<1>11. /\ SoAcceptors \subseteq SoObjects /\ SoClients \subseteq SoObjects
       /\ SoUdps \subseteq SoObjects /\ SoConnectors \subseteq SoClients
       /\ SoStreams \subseteq SoClients
  BY DEF SoObjects, SoClients
<1> QED
  BY <1>1, <1>2, <1>3, <1>4, <1>5, <1>6, <1>7, <1>8, <1>9, <1>10, <1>11, ZenonT(60) DEF SoNext

\* Every open descriptor is the client's, a device's or one that was dropped, and
\* only one of these.
DvSorted == /\ dvMine \subseteq dvOpen /\ dvDropped \subseteq dvOpen
            /\ dvMine \cap dvDropped = {}
            /\ \A o \in DvObjects : DvOwned(o) \subseteq dvOpen \ (dvMine \cup dvDropped)
            /\ \A o, p \in DvObjects : o # p => DvOwned(o) \cap DvOwned(p) = {}
            /\ \A x \in dvOpen \ (dvMine \cup dvDropped) : \E o \in DvObjects : x \in DvOwned(o)

DvInv == /\ dvFd \in [DvObjects -> DvFds]
         /\ dvOwn \in [DvObjects -> BOOLEAN]
         /\ dvMine \subseteq DvHandles
         /\ ~dvReassigned => DvSorted

LEMMA DvStart == DvInit => DvInv
  BY DvHandlesOk DEF DvInit, DvInv, DvSorted, DvOwned, DvFds, DvInvalid

LEMMA DvSortedTells == DvSorted => DvOneCloser
<1> SUFFICES ASSUME DvSorted
             PROVE  DvOneCloser
  OBVIOUS
<1>1. ASSUME NEW x
      PROVE  x \in dvOpen \ dvDropped <=> x \in dvMine \/ \E o \in DvObjects : x \in DvOwned(o)
  BY DEF DvSorted
<1>2. dvOpen \ dvDropped = dvMine \cup UNION {DvOwned(o) : o \in DvObjects}
  BY <1>1
<1> QED
  BY <1>2 DEF DvSorted, DvOneCloser

\* One object gives up what it owns and gets something that is nobody's.
LEMMA DvOneMoves ==
  ASSUME DvSorted, NEW o \in DvObjects,
         \A p \in DvObjects \ {o} : DvOwned(p)' = DvOwned(p),
         dvOpen' = (dvOpen \ DvOwned(o)) \cup DvOwned(o)',
         dvMine' \cup dvDropped' = (dvMine \cup dvDropped) \ DvOwned(o)',
         dvMine' \cap dvDropped' = {},
         DvOwned(o)' \cap (dvOpen \ DvOwned(o)) \subseteq dvMine
  PROVE  DvSorted'
<1>1. /\ dvMine \cup dvDropped \subseteq dvOpen \ DvOwned(o)
      /\ \A p \in DvObjects \ {o} : DvOwned(p) \subseteq dvOpen \ DvOwned(o)
      /\ \A p \in DvObjects : DvOwned(p) \cap dvMine = {}
  BY DEF DvSorted
<1>2. dvMine' \cup dvDropped' \subseteq dvOpen'
  BY <1>1
<1>3. ASSUME NEW p \in DvObjects
      PROVE  DvOwned(p)' \subseteq dvOpen' \ (dvMine' \cup dvDropped')
  <2>1. CASE p = o
    BY <2>1
  <2>2. CASE p # o
    <3>1. DvOwned(p)' = DvOwned(p) /\ DvOwned(p) \subseteq dvOpen'
      BY <1>1, <2>2
    <3>2. DvOwned(p) \cap (dvMine \cup dvDropped) = {}
      BY DEF DvSorted
    <3> QED
      BY <3>1, <3>2
  <2> QED
    BY <2>1, <2>2
<1>4. ASSUME NEW p \in DvObjects, NEW q \in DvObjects, p # q
      PROVE  DvOwned(p)' \cap DvOwned(q)' = {}
  <2>1. \A r \in DvObjects \ {o} : DvOwned(o)' \cap DvOwned(r) = {}
    BY <1>1
  <2>2. CASE p # o /\ q # o
    BY <1>4, <2>2 DEF DvSorted
  <2>3. CASE p = o \/ q = o
    BY <1>4, <2>1, <2>3
  <2> QED
    BY <2>2, <2>3
<1>5. ASSUME NEW x \in dvOpen' \ (dvMine' \cup dvDropped')
      PROVE  \E p \in DvObjects : x \in DvOwned(p)'
  <2>1. CASE x \in DvOwned(o)'
    BY <2>1
  <2>2. CASE x \notin DvOwned(o)'
    <3>1. x \in dvOpen \ (dvMine \cup dvDropped) /\ x \notin DvOwned(o)
      BY <2>2
    <3>2. PICK p \in DvObjects : x \in DvOwned(p)
      BY <3>1 DEF DvSorted
    <3> QED
      BY <3>1, <3>2
  <2> QED
    BY <2>1, <2>2
<1> QED
  BY <1>2, <1>3, <1>4, <1>5 DEF DvSorted

LEMMA DvKept == DvInv /\ [DvNext]_dvVars => DvInv'
<1> SUFFICES ASSUME DvInv, [DvNext]_dvVars
             PROVE  DvInv'
  OBVIOUS
<1> DEFINE Types == /\ dvFd \in [DvObjects -> DvFds] /\ dvOwn \in [DvObjects -> BOOLEAN]
                    /\ dvMine \subseteq DvHandles
<1>0. Types /\ (~dvReassigned => DvSorted) /\ DvInvalid \in DvFds /\ DvInvalid \notin DvHandles
  BY DvHandlesOk DEF DvInv, DvFds, DvInvalid
<1>00. \A o : DvToClose(o) = DvOwned(o)
  BY DEF DvToClose, DvOwned
<1>1. ASSUME NEW o \in DvObjects, DvClose(o)
      PROVE  DvInv'
  <2>1. /\ dvFd' = [dvFd EXCEPT ![o] = DvInvalid] /\ dvOwn' = [dvOwn EXCEPT ![o] = FALSE]
        /\ dvOpen' = dvOpen \ DvOwned(o) /\ dvMine' = dvMine
        /\ dvDropped' = dvDropped /\ dvReassigned' = dvReassigned
    BY <1>00, <1>1 DEF DvClose, dvHistory
  <2>2. Types'
    BY <1>0, <2>1
  <2>3. DvOwned(o)' = {} /\ \A p \in DvObjects \ {o} : DvOwned(p)' = DvOwned(p)
    BY <1>0, <2>1 DEF DvOwned
  <2>4. DvSorted => DvSorted'
    BY <2>1, <2>3, DvOneMoves DEF DvSorted
  <2> QED
    BY <1>0, <2>1, <2>2, <2>4, Zenon DEF DvInv
<1>2. ASSUME NEW o \in DvObjects, DvRenew(o),
             \/ UNCHANGED <<dvMine, dvDropped>>
             \/ \E fd \in dvMine : dvMine' = dvMine \ {fd} /\ dvDropped' = dvDropped \cup {fd},
             dvReassigned' = dvReassigned
      PROVE  DvInv'
  <2>1. PICK own \in BOOLEAN : dvOwn' = [dvOwn EXCEPT ![o] = own]
    BY <1>2 DEF DvRenew
  <2>2. dvFd' = [dvFd EXCEPT ![o] = DvInvalid] /\ dvOpen' = dvOpen \ DvOwned(o)
    BY <1>00, <1>2 DEF DvRenew
  <2>3. Types'
    BY <1>0, <1>2, <2>1, <2>2
  <2>4. DvOwned(o)' = {} /\ \A p \in DvObjects \ {o} : DvOwned(p)' = DvOwned(p)
    BY <1>0, <2>1, <2>2 DEF DvOwned
  <2>5. DvSorted => /\ dvMine' \cup dvDropped' = dvMine \cup dvDropped
                    /\ dvMine' \cap dvDropped' = {}
    BY <1>2 DEF DvSorted
  <2>6. DvSorted => DvSorted'
    BY <2>2, <2>4, <2>5, DvOneMoves
  <2> QED
    BY <1>0, <1>2, <2>3, <2>6, Zenon DEF DvInv
<1>3. ASSUME NEW o \in DvObjects, NEW fd \in DvFds, DvOpen(o, fd)
      PROVE  DvInv'
  <2>1. /\ dvFd' = [dvFd EXCEPT ![o] = fd] /\ dvOwn' = [dvOwn EXCEPT ![o] = TRUE]
        /\ dvOpen' = (dvOpen \ DvOwned(o)) \cup ({fd} \cap DvHandles) /\ dvMine' = dvMine
        /\ dvDropped' = dvDropped /\ dvReassigned' = dvReassigned
        /\ fd \notin dvOpen \ DvOwned(o)
    BY <1>00, <1>3 DEF DvOpen, dvHistory
  <2>2. Types'
    BY <1>0, <2>1
  <2>3. /\ DvOwned(o)' = {fd} \cap DvHandles
        /\ \A p \in DvObjects \ {o} : DvOwned(p)' = DvOwned(p)
    BY <1>0, <2>1 DEF DvOwned
  <2>4. DvSorted => (dvMine \cup dvDropped) \cap {fd} = {}
    BY <2>1 DEF DvSorted
  <2>5. DvSorted => /\ dvMine' \cap dvDropped' = {}
                    /\ dvMine' \cup dvDropped' = (dvMine \cup dvDropped) \ DvOwned(o)'
    BY <2>1, <2>3, <2>4 DEF DvSorted
  <2>6. DvSorted => DvSorted'
    BY <2>1, <2>3, <2>5, DvOneMoves
  <2> QED
    BY <1>0, <2>1, <2>2, <2>6, Zenon DEF DvInv
<1>4. ASSUME NEW o \in DvObjects, NEW fd \in DvFds, NEW own \in BOOLEAN, DvAssign(o, fd, own)
      PROVE  DvInv'
  <2>1. /\ dvFd' = [dvFd EXCEPT ![o] = fd] /\ dvOwn' = [dvOwn EXCEPT ![o] = own]
        /\ dvOpen' = dvOpen \ DvOwned(o)
        /\ own => dvMine' = dvMine \ {fd}
        /\ ~own => dvMine' = dvMine
        /\ dvDropped' = dvDropped
        /\ fd \in dvMine \cup DvOwned(o)
    BY <1>00, <1>4 DEF DvAssign
  <2>2. ~dvReassigned' => ~dvReassigned /\ (own => fd \notin DvOwned(o))
    BY <1>00, <1>4, Zenon DEF DvAssign
  <2>3. Types'
    BY <1>0, <2>1
  <2>4. /\ own => DvOwned(o)' = {fd} \cap DvHandles
        /\ ~own => DvOwned(o)' = {}
        /\ \A p \in DvObjects \ {o} : DvOwned(p)' = DvOwned(p)
    BY <1>0, <2>1 DEF DvOwned
  <2>5. ASSUME DvSorted, own => fd \notin DvOwned(o)
        PROVE  DvSorted'
    <3>1. CASE own
      <4>1. fd \in dvMine /\ DvOwned(o)' = {fd}
        BY <1>0, <2>1, <2>4, <2>5, <3>1
      <4>2. dvOpen' = (dvOpen \ DvOwned(o)) \cup DvOwned(o)'
        BY <2>1, <2>5, <4>1 DEF DvSorted
      <4>3. /\ dvMine' \cap dvDropped' = {}
            /\ dvMine' \cup dvDropped' = (dvMine \cup dvDropped) \ DvOwned(o)'
            /\ DvOwned(o)' \cap (dvOpen \ DvOwned(o)) \subseteq dvMine
        BY <2>1, <2>5, <3>1, <4>1 DEF DvSorted
      <4> QED
        BY <2>4, <2>5, <4>2, <4>3, DvOneMoves
    <3>2. CASE ~own
      <4>1. dvMine' \cap dvDropped' = {}
        BY <2>1, <2>5, <3>2 DEF DvSorted
      <4> QED
        BY <2>1, <2>4, <2>5, <3>2, <4>1, DvOneMoves
    <3> QED
      BY <3>1, <3>2
  <2> QED
    BY <1>0, <2>2, <2>3, <2>5, Zenon DEF DvInv
<1>5. ASSUME NEW o \in DvObjects, DvClaim(o)
      PROVE  DvInv'
  <2>1. /\ dvFd[o] \in dvMine /\ ~dvOwn[o] /\ dvOwn' = [dvOwn EXCEPT ![o] = TRUE]
        /\ dvMine' = dvMine \ {dvFd[o]} /\ dvFd' = dvFd /\ dvOpen' = dvOpen
        /\ dvDropped' = dvDropped /\ dvReassigned' = dvReassigned
    BY <1>5 DEF DvClaim, dvHistory
  <2>2. Types'
    BY <1>0, <2>1
  <2>3. /\ DvOwned(o)' = {dvFd[o]} /\ DvOwned(o) = {}
        /\ \A p \in DvObjects \ {o} : DvOwned(p)' = DvOwned(p)
    BY <1>0, <2>1 DEF DvOwned
  <2>4. ASSUME DvSorted
        PROVE  /\ dvOpen' = (dvOpen \ DvOwned(o)) \cup DvOwned(o)'
               /\ dvMine' \cap dvDropped' = {}
               /\ dvMine' \cup dvDropped' = (dvMine \cup dvDropped) \ DvOwned(o)'
               /\ DvOwned(o)' \cap (dvOpen \ DvOwned(o)) \subseteq dvMine
    BY <2>1, <2>3, <2>4 DEF DvSorted
  <2>5. DvSorted => DvSorted'
    BY <2>3, <2>4, DvOneMoves
  <2> QED
    BY <1>0, <2>1, <2>2, <2>5, Zenon DEF DvInv
<1>6. ASSUME NEW fd \in DvHandles, DvClientOpens(fd) \/ DvClientCloses(fd)
      PROVE  DvInv'
  <2>1. /\ dvFd' = dvFd /\ dvOwn' = dvOwn /\ dvDropped' = dvDropped
        /\ dvReassigned' = dvReassigned
        /\ \/ fd \notin dvOpen /\ dvOpen' = dvOpen \cup {fd} /\ dvMine' = dvMine \cup {fd}
           \/ fd \in dvMine /\ dvOpen' = dvOpen \ {fd} /\ dvMine' = dvMine \ {fd}
    BY <1>6 DEF DvClientOpens, DvClientCloses, dvHistory
  <2>2. Types'
    BY <1>0, <2>1
  <2>3. \A p \in DvObjects : DvOwned(p)' = DvOwned(p)
    BY <2>1 DEF DvOwned
  <2>4. DvSorted => DvSorted'
    BY <2>1, <2>3 DEF DvSorted
  <2> QED
    BY <1>0, <2>1, <2>2, <2>4, Zenon DEF DvInv
<1>7. CASE UNCHANGED dvVars
  BY <1>7 DEF dvVars, DvInv, DvSorted, DvOwned
<1>8. ASSUME NEW o \in DvObjects, DvAnew(o)
      PROVE  DvInv'
  BY <1>2, <1>8 DEF DvAnew, dvHistory
<1>9. ASSUME NEW o \in DvObjects, NEW fd \in DvFds, NEW own \in BOOLEAN,
             DvConstruct(o, fd, own)
      PROVE  DvInv'
  BY <1>2, <1>9 DEF DvConstruct
<1> QED
  BY <1>1, <1>3, <1>4, <1>5, <1>6, <1>7, <1>8, <1>9, Zenon DEF DvNext

LEMMA DsDescriptorStart == DsInit => DsDescriptor
  BY DsHandlesOk DEF DsInit, DsDescriptor

LEMMA DsDescriptorKept == DsDescriptor /\ [DsNext]_dsVars => DsDescriptor'
<1> SUFFICES ASSUME DsDescriptor, [DsNext]_dsVars
             PROVE  DsDescriptor'
  OBVIOUS
<1> USE DsHandlesOk DEF DsDescriptor
<1>1. CASE DoPut \/ DoPutFull \/ DoOverflow \/ DoFlush
  <2>1. DoPut \/ DoPutFull => UNCHANGED <<dsKind, dsFd, dsOpened>>
    BY Zenon DEF DoPut, DoPutFull, DsUnused
  <2>2. DoOverflow => UNCHANGED <<dsKind, dsFd, dsOpened>>
    BY Zenon DEF DoOverflow, DsUnused
  <2>3. DoFlush => UNCHANGED <<dsKind, dsFd, dsOpened>>
    BY Zenon DEF DoFlush, DsUnused
  <2> QED
    BY <1>1, <2>1, <2>2, <2>3
<1>2. CASE DiGet \/ DiRefill \/ DiPastEnd \/ DiUnget
  BY <1>2 DEF DiGet, DiRefill, DiPastEnd, DiUnget
<1>3. CASE DoClose \/ DiClose
  BY <1>3 DEF DoClose, DiClose, DiLeft
<1>4. ASSUME NEW fd \in DsHandles \cup {-1}, DoOpen(fd) \/ DiOpen(fd)
      PROVE  DsDescriptor'
  BY <1>4 DEF DoOpen, DiOpen, DsTake, DiLeft
<1>5. CASE UNCHANGED dsVars
  BY <1>5 DEF dsVars
<1> QED
  BY <1>1, <1>2, <1>3, <1>4, <1>5 DEF DsNext

LEMMA BfOwnsStart == BfInit => BfOwns
  BY DEF BfInit, BfOwns

LEMMA BfOwnsKept == BfOwns /\ [BfNext]_bfVars => BfOwns'
<1> SUFFICES ASSUME BfOwns, [BfNext]_bfVars
             PROVE  BfOwns'
  OBVIOUS
<1> USE DEF BfOwns, BfDealloc
<1>1. ASSUME NEW c \in 0..BfMaxCap, BfResize(c) \/ BfAssign(c)
      PROVE  BfOwns'
  BY <1>1 DEF BfResize, BfAssign
<1>2. CASE BfDestroy \/ BfCopyFixed
  BY <1>2 DEF BfDestroy, BfCopyFixed
<1>3. CASE UNCHANGED bfHeap
  BY <1>3 DEF bfHeap
<1>4. ASSUME NEW o \in BfNames, NEW n \in 1..BfMaxCap,
             BfPut(o, n) \/ BfGet(o, n) \/ BfClear(o, n) \/ BfReserve(o, n)
      PROVE  UNCHANGED bfHeap
  BY <1>4 DEF BfPut, BfGet, BfClear, BfReserve, BfUse
<1>5. ASSUME NEW o \in BfNames,
             BfFill(o) \/ BfFlip(o) \/ BfMark(o) \/ BfReset(o) \/ BfCompact(o)
      PROVE  UNCHANGED bfHeap
  BY <1>5 DEF BfFill, BfFlip, BfMark, BfReset, BfCompact, BfUse
<1>6. BfCopyHeap => UNCHANGED bfHeap
  BY DEF BfCopyHeap
<1>7. UNCHANGED bfVars => UNCHANGED bfHeap
  BY DEF bfVars, bfHeap
<1> QED
  BY <1>1, <1>2, <1>3, <1>4, <1>5, <1>6, <1>7 DEF BfNext

\* A block let go with a capacity of zero is never a block the queue uses.
CqOwnInv == CqMemoryKept /\ cqUntaken \subseteq cqLive

LEMMA CqMemoryStart == CqInit => CqOwnInv
  BY DEF CqInit, CqOwnInv, CqMemoryKept

LEMMA CqMemoryStep == CqOwnInv /\ [CqNext]_cqVars => CqOwnInv'
<1> SUFFICES ASSUME CqOwnInv, [CqNext]_cqVars
             PROVE  CqOwnInv'
  OBVIOUS
<1> USE DEF CqOwnInv, CqMemoryKept
<1>0. cqUntaken \subseteq CqDealloc /\ CqDealloc \ cqUntaken = {}
      /\ CqDealloc \subseteq cqLive
  BY DEF CqDealloc
<1>1. ASSUME NEW c \in 1..CqMaxCap, CqResize(c) \/ CqSet(c)
      PROVE  CqOwnInv'
  <2>1. ASSUME NEW b \in CqBlocks \ cqLive, cqBase' = b, cqOwn' = TRUE,
               cqLive' = CqDealloc \cup {b}, cqUntaken' = cqUntaken
        PROVE  CqOwnInv'
    BY <1>0, <2>1
  <2>2. ASSUME cqOwn' = FALSE, cqLive' = CqDealloc, cqUntaken' = cqUntaken
        PROVE  CqOwnInv'
    BY <1>0, <2>2
  <2> QED
    BY <1>1, <2>1, <2>2 DEF CqResize, CqSet
<1>2. CASE CqSetEmpty \/ CqDestroy
  BY <1>0, <1>2 DEF CqSetEmpty, CqDestroy
<1>3. CASE UNCHANGED cqMemory
  BY <1>3 DEF cqMemory
<1>4. ASSUME NEW n \in 1..CqMaxCap, CqPutRoom(n) \/ CqGetTest(n) \/ CqIsrPut(n) \/ CqIsrGet(n)
      PROVE  UNCHANGED cqMemory
  BY <1>4 DEF CqPutRoom, CqGetTest, CqIsrPut, CqIsrGet
<1>5. CqPutCopy \/ CqPutPublish \/ CqGetSize \/ CqGetCopy \/ CqGetPublish
        => UNCHANGED cqMemory
  BY DEF CqPutCopy, CqPutPublish, CqGetSize, CqGetCopy, CqGetPublish
<1>6. UNCHANGED cqVars => UNCHANGED cqMemory
  BY DEF cqVars
<1> QED
  BY <1>1, <1>2, <1>3, <1>4, <1>5, <1>6 DEF CqNext

\* What a Socket, Device or device stream (Socket.cpp, Device.cpp,
\* DevBinStream.cpp) holds and owns is open and no other's, so that it is closed
\* once, and so with the memory of a Buffer or a CircQueue; and whatever is open
\* or allocated has an owner, through releases, failed calls and reuse of numbers.
\* Exempt are the sockets of failed calls (soLost), the descriptors given to
\* Device's constructor (dvDropped), all devices once one was assigned what it
\* owned (dvReassigned), descriptor 0 of an input stream, and the blocks set with
\* a capacity of zero (cqUntaken): each is a run that ends in a violation, but
\* descriptor 0.
THEOREM OwnersSafe == MCSpec => []OneOwner
<1> DEFINE Inv == (SoInv /\ SoLeft) /\ DvInv /\ DsDescriptor /\ BfOwns /\ CqOwnInv
<1>1. MCInit => Inv
  BY SoStart, SoLeftStart, DvStart, DsDescriptorStart, BfOwnsStart, CqMemoryStart, Zenon DEF MCInit
<1>2. Inv /\ [MCNext]_MCVars => Inv'
  BY SoKept, SoLeftKept, DvKept, DsDescriptorKept, BfOwnsKept, CqMemoryStep, StepOfPart, Zenon
<1>3. Inv => OneOwner
  <2>1. SoInv /\ SoLeft => SoStrict /\ SoListens
    <3> SUFFICES ASSUME SoInv, SoLeft
                 PROVE  SoStrict /\ SoListens
      OBVIOUS
    <3>1. ASSUME NEW h
          PROVE  h \in SoHeld /\ h # SoInvalid <=> h \in soOpen /\ h \notin soLost
      BY DEF SoInv, SoLeft, SoHeld
    <3>2. SoHeld \ {SoInvalid} = soOpen \ soLost
      BY <3>1
    <3> QED
      BY <3>2 DEF SoInv, SoStrict
  <2>2. DvInv => DvOneCloser
    BY DvSortedTells, Zenon DEF DvInv, DvOneCloser
  <2> QED
    BY <2>1, <2>2 DEF OneOwner, CqOwnInv
<1> QED
  BY <1>1, <1>2, <1>3, PTL DEF MCSpec, MCVars

-----------------------------------------------------------------------------
(* Stack.  Until something is popped the last block stands at the top.     *)

StTop == /\ Len(stBlock) <= stSz
         /\ \A i \in 1..Len(stBlock) : stBase[stSz - Len(stBlock) + i - 1] = stBlock[i]

StInv == /\ StTypeOK
         /\ StLifo
         /\ stOut \in Seq(Nat) /\ stBlock \in Seq(Nat)
         /\ stOut = << >> => StTop

LEMMA StStart == StInit => StInv
<1> SUFFICES ASSUME StInit
             PROVE  StInv
  OBVIOUS
<1>1. << >> \in [0..(0 - 1) -> 0..StMaxItems]
  OBVIOUS
<1> QED
  BY <1>1, StBounds DEF StInit, StInv, StTypeOK, StLifo, StTop

LEMMA StKept == StInv /\ [StNext]_stVars => StInv'
<1> SUFFICES ASSUME StInv, [StNext]_stVars
             PROVE  StInv'
  OBVIOUS
<1>0. /\ stCap \in 0..StMaxCap /\ stSz \in 0..stCap /\ stPushed \in 0..StMaxItems
      /\ stBase \in [0..(stCap - 1) -> 0..StMaxItems]
      /\ StMaxCap \in Nat /\ StMaxItems \in Nat
  BY StBounds DEF StInv, StTypeOK
<1>1. ASSUME NEW cap \in 0..StMaxCap, StSet(cap)
      PROVE  StInv'
  BY <1>0, <1>1 DEF StSet, StInv, StTypeOK, StLifo, StTop
<1>2. ASSUME NEW n \in 1..StMaxCap, StPushBlock(n)
      PROVE  StInv'
  <2> DEFINE m == StLeast(n, stCap - stSz)
  <2>1. m \in 0..(stCap - stSz)
    BY <1>0 DEF StLeast
  <2>2. /\ stPushed + m <= StMaxItems
        /\ stSz' = stSz + m
        /\ stBase' = [i \in DOMAIN stBase |->
                        IF i >= stSz /\ i < stSz + m THEN stPushed + i - stSz + 1 ELSE stBase[i]]
        /\ stPushed' = stPushed + m
        /\ stBlock' = [i \in 1..m |-> stPushed + i]
        /\ stOut' = << >> /\ stCap' = stCap
    BY <1>2 DEF StPushBlock
  <2> HIDE DEF m
  <2>3. StTypeOK'
    BY <1>0, <2>1, <2>2 DEF StTypeOK
  <2>4. StLifo'
    <3>1. \A i \in 0..(stSz - 1) : stBase'[i] = stBase[i] /\ stBase[i] \in 1..stPushed
      BY <1>0, <2>1, <2>2 DEF StInv, StLifo
    <3>2. \A i \in stSz..(stSz + m - 1) : stBase'[i] = stPushed + i - stSz + 1
      BY <1>0, <2>1, <2>2
    <3>3. \A i, j \in 0..(stSz - 1) : i < j => stBase[i] < stBase[j]
      BY DEF StInv, StLifo
    <3>4. \A i \in 0..(stSz' - 1) : i \in 0..(stSz - 1) \/ i \in stSz..(stSz + m - 1)
      BY <1>0, <2>1, <2>2
    <3>5. \A i \in 0..(stSz' - 1) : stBase'[i] \in 1..stPushed'
      <4> SUFFICES ASSUME NEW i \in 0..(stSz' - 1)
                   PROVE  stBase'[i] \in 1..stPushed'
        OBVIOUS
      <4>0. stPushed' = stPushed + m /\ m \in Nat /\ stPushed \in Nat
        BY <1>0, <2>1, <2>2
      <4>1. CASE i \in 0..(stSz - 1)
        BY <3>1, <4>0, <4>1
      <4>2. CASE i \in stSz..(stSz + m - 1)
        BY <1>0, <3>2, <4>0, <4>2
      <4> QED
        BY <3>4, <4>1, <4>2
    <3>6. \A i, j \in 0..(stSz' - 1) : i < j => stBase'[i] < stBase'[j]
      <4> SUFFICES ASSUME NEW i \in 0..(stSz' - 1), NEW j \in 0..(stSz' - 1), i < j
                   PROVE  stBase'[i] < stBase'[j]
        OBVIOUS
      <4>1. CASE j \in 0..(stSz - 1)
        <5>1. i \in 0..(stSz - 1)
          BY <1>0, <4>1
        <5> QED
          BY <3>1, <3>3, <4>1, <5>1
      <4>2. CASE j \in stSz..(stSz + m - 1) /\ i \in 0..(stSz - 1)
        BY <1>0, <2>1, <3>1, <3>2, <4>2
      <4>3. CASE j \in stSz..(stSz + m - 1) /\ i \in stSz..(stSz + m - 1)
        BY <1>0, <2>1, <3>2, <4>3
      <4> QED
        BY <3>4, <4>1, <4>2, <4>3
    <3> QED
      <4>1. Len(stOut') = 0
        BY <2>2
      <4> QED
        BY <3>5, <3>6, <4>1 DEF StLifo
  <2>5. stBlock' \in Seq(Nat) /\ Len(stBlock') = m
    BY <1>0, <2>1, <2>2
  <2>6. StTop'
    BY <1>0, <2>1, <2>2, <2>5 DEF StTop
  <2> QED
    BY <2>2, <2>3, <2>4, <2>5, <2>6 DEF StInv
<1>3. ASSUME NEW n \in 1..StMaxCap, StPopBlock(n)
      PROVE  StInv'
  <2> DEFINE m == StLeast(n, stSz)
  <2>1. m \in 0..stSz /\ (m = 0 => stSz = 0)
    BY <1>0 DEF StLeast
  <2>2. /\ stSz' = stSz - m
        /\ stOut' = [i \in 1..m |-> stBase[stSz - m + i - 1]]
        /\ stBlock' = IF stOut = << >> THEN stBlock ELSE << >>
        /\ stCap' = stCap /\ stBase' = stBase /\ stPushed' = stPushed
    BY <1>3 DEF StPopBlock
  <2> HIDE DEF m
  <2>3. StTypeOK'
    BY <1>0, <2>1, <2>2 DEF StTypeOK
  <2>4. stOut' \in Seq(Nat) /\ Len(stOut') = m
    BY <1>0, <2>1, <2>2
  <2>5. stBlock' \in Seq(Nat) /\ Len(stBlock') \in Nat
    BY <2>2 DEF StInv
  <2>6. Len(stOut') > 0 /\ Len(stOut') = Len(stBlock') => stOut' = stBlock'
    <3> SUFFICES ASSUME m > 0, Len(stBlock') = m
                 PROVE  stOut' = stBlock'
      BY <2>4
    <3>1. stOut = << >> /\ stBlock' = stBlock
      BY <2>2
    <3>2. StTop
      BY <3>1 DEF StInv
    <3>3. \A i \in 1..m : stOut'[i] = stBlock'[i]
      BY <2>2, <3>1, <3>2 DEF StTop
    <3> QED
      BY <2>4, <2>5, <3>3
  <2>7. StLifo'
    <3>1. \A i \in 0..(stSz' - 1) : i \in 0..(stSz - 1)
      BY <1>0, <2>1, <2>2
    <3> QED
      BY <2>2, <2>6, <3>1 DEF StInv, StLifo
  <2>8. stOut' = << >> => StTop'
    <3> SUFFICES ASSUME stOut' = << >>
                 PROVE  StTop'
      OBVIOUS
    <3>1. m = 0
      BY <2>1, <2>4
    <3>2. stSz = 0 /\ stSz' = 0
      BY <1>0, <2>1, <2>2, <3>1
    <3>3. Len(stBlock') = 0
      BY <2>2, <2>5, <3>2 DEF StInv, StTop
    <3> QED
      BY <3>2, <3>3 DEF StTop
  <2> QED
    BY <2>3, <2>4, <2>5, <2>7, <2>8 DEF StInv
<1>4. CASE UNCHANGED stVars
  BY <1>4 DEF stVars, StInv, StTypeOK, StLifo, StTop
<1> QED
  BY <1>1, <1>2, <1>3, <1>4 DEF StNext

-----------------------------------------------------------------------------
(* KeyArray.                                                               *)

KyInv == /\ kyKey \in [KySlots -> KyKeys \cup {EMPTY_SLOT}]
         /\ kyVal = [i \in KySlots |-> kyVal[i]]
         /\ \E n \in 0..KyMaxItems : DOMAIN kyOf = 1..n
         /\ \A v \in DOMAIN kyOf : kyOf[v] \in KyKeys
         /\ kyOut \subseteq DOMAIN kyOf
         /\ KyLedger
         /\ KyAnswer

\* A set of numbers that is not empty has a least one.
LEMMA Lowest ==
  ASSUME NEW S \in SUBSET Nat, S # {}
  PROVE  \E x \in S : \A y \in S : x <= y
<1> DEFINE Below == OpToRel(<, Nat)
<1>1. \A x, y \in Nat : y < x => <<y, x>> \in Below
  BY DEF OpToRel
<1>2. IsWellFoundedOn(Below, Nat)
  BY NatLessThanWellFounded
<1> HIDE DEF Below
<1>3. PICK x \in S : \A y \in S : ~ (<<y, x>> \in Below)
  BY <1>2, WFMin
<1>4. ASSUME NEW y \in S
      PROVE  x <= y
  <2>1. x \in Nat /\ y \in Nat /\ ~ (y < x)
    BY <1>1, <1>3, Zenon
  <2> QED
    BY <2>1
<1> QED
  BY <1>4

\* find() comes to a slot with the key if there is one.
LEMMA KyFinds ==
  ASSUME NEW key
  PROVE  \/ /\ KyFind(key) = -1 /\ ~(KyFind(key) >= 0)
            /\ \A i \in KySlots : kyKey[i] # key
         \/ KyFind(key) \in KySlots /\ KyFind(key) >= 0 /\ KyFind(key) # -1
            /\ kyKey[KyFind(key)] = key
<1>1. CASE \A i \in KySlots : kyKey[i] # key
  BY <1>1 DEF KyFind
<1>2. CASE \E i \in KySlots : kyKey[i] = key
  <2> DEFINE S == {i \in KySlots : kyKey[i] = key}
             First(i) == kyKey[i] = key /\ \A j \in 0..(i - 1) : kyKey[j] # key
  <2>1. S \in SUBSET Nat /\ S # {}
    BY <1>2 DEF KySlots
  <2>2. PICK x \in S : \A y \in S : x <= y
    BY <2>1, Lowest
  <2>3. x \in KySlots /\ First(x)
    <3>1. ASSUME NEW j \in 0..(x - 1)
          PROVE  kyKey[j] # key
      <4>1. j \in KySlots /\ ~(x <= j)
        BY <2>2, KyBounds DEF KySlots
      <4> QED
        BY <2>2, <4>1
    <3> QED
      BY <2>2, <3>1
  <2>4. KyFind(key) = CHOOSE i \in KySlots : First(i)
    BY <1>2 DEF KyFind
  <2>5. KyFind(key) \in KySlots /\ First(KyFind(key))
    BY <2>3, <2>4
  <2>6. KyFind(key) >= 0 /\ KyFind(key) # -1
    BY <2>5, KyBounds DEF KySlots
  <2> QED
    BY <2>5, <2>6
<1> QED
  BY <1>1, <1>2

LEMMA KyCounts ==
  ASSUME KyInv
  PROVE  KyCount \in 0..KyMaxItems /\ DOMAIN kyOf = 1..KyCount
  BY DEF KyInv, KyCount

LEMMA KyStart == KyInit => KyInv
<1>1. DOMAIN << >> = 1..0
  OBVIOUS
<1> QED
  BY <1>1, KyBounds DEF KyInit, KyInv, KyLedger, KyAnswer, KyNone

LEMMA KyTakes ==
  ASSUME KyInv, NEW i \in KySlots, NEW key \in KyKeys, kyKey[i] = key, KyTake(i, key)
  PROVE  KyInv'
<1> DEFINE u == kyVal[i]
<1>1. /\ kyGot' = [key |-> key, val |-> u, found |-> TRUE]
      /\ kyKey' = [kyKey EXCEPT ![i] = EMPTY_SLOT]
      /\ kyOut' = kyOut \cup {u}
      /\ kyVal' = kyVal /\ kyOf' = kyOf
  BY DEF KyTake
<1>2. kyKey[i] # EMPTY_SLOT
  BY KyDistinct
<1>3. u \in DOMAIN kyOf \ kyOut
  BY <1>2 DEF KyInv, KyLedger
<1>4. PICK k \in KySlots : /\ kyVal[k] = u /\ kyKey[k] = kyOf[u]
                           /\ \A j \in KySlots \ {k} : kyKey[j] # EMPTY_SLOT => kyVal[j] # u
  BY <1>3 DEF KyInv, KyLedger
<1>5. k = i
  BY <1>2, <1>4
<1>6. \A j \in KySlots \ {i} : kyKey'[j] = kyKey[j] /\ (kyKey[j] # EMPTY_SLOT => kyVal[j] # u)
  BY <1>1, <1>4, <1>5 DEF KyInv
<1>7. ASSUME NEW v \in DOMAIN kyOf' \ kyOut'
      PROVE  \E a \in KySlots :
               /\ kyVal'[a] = v /\ kyKey'[a] = kyOf'[v]
               /\ \A j \in KySlots \ {a} : kyKey'[j] # EMPTY_SLOT => kyVal'[j] # v
  <2>1. v \in DOMAIN kyOf \ kyOut /\ v # u
    BY <1>1
  <2>2. PICK a \in KySlots : /\ kyVal[a] = v /\ kyKey[a] = kyOf[v]
                             /\ \A j \in KySlots \ {a} : kyKey[j] # EMPTY_SLOT => kyVal[j] # v
    BY <2>1 DEF KyInv, KyLedger
  <2>3. a # i
    BY <2>1, <2>2
  <2>4. \A j \in KySlots \ {a} : kyKey'[j] # EMPTY_SLOT => kyVal'[j] # v
    BY <1>1, <2>2 DEF KyInv
  <2> QED
    BY <1>1, <1>6, <2>2, <2>3, <2>4
<1>8. ASSUME NEW j \in KySlots, kyKey'[j] # EMPTY_SLOT
      PROVE  kyVal'[j] \in DOMAIN kyOf' \ kyOut'
  <2>1. j # i
    BY <1>1, <1>8 DEF KyInv
  <2> QED
    BY <1>1, <1>6, <1>8, <2>1 DEF KyInv, KyLedger
<1>9. KyLedger'
  BY <1>7, <1>8 DEF KyLedger
<1>10. KyAnswer'
  BY <1>1, <1>4, <1>5 DEF KyAnswer
<1>11. /\ kyKey' \in [KySlots -> KyKeys \cup {EMPTY_SLOT}]
       /\ kyOut' \subseteq DOMAIN kyOf'
  BY <1>1, <1>3 DEF KyInv
<1> QED
  BY <1>1, <1>9, <1>10, <1>11 DEF KyInv

LEMMA KyKept == KyInv /\ [KyNext]_kyVars => KyInv'
<1> SUFFICES ASSUME KyInv, [KyNext]_kyVars
             PROVE  KyInv'
  OBVIOUS
<1>1. ASSUME NEW key \in KyKeys, KyPut(key)
      PROVE  KyInv'
  <2> DEFINE n == KyCount
             i == KyFind(EMPTY_SLOT)
  <2>1. n \in 0..KyMaxItems /\ DOMAIN kyOf = 1..n /\ n < KyMaxItems /\ KyMaxItems \in Nat
    BY <1>1, KyCounts, KyBounds DEF KyPut
  <2>2. i \in KySlots /\ kyKey[i] = EMPTY_SLOT
    BY <1>1, KyFinds DEF KyPut
  <2>3. /\ kyKey' = [kyKey EXCEPT ![i] = key]
        /\ kyVal' = [kyVal EXCEPT ![i] = n + 1]
        /\ kyOf' = [v \in 1..(n + 1) |-> IF v <= n THEN kyOf[v] ELSE key]
        /\ kyGot' = KyNone /\ kyOut' = kyOut
    BY <1>1 DEF KyPut
  <2> HIDE DEF n, i
  <2>4. /\ DOMAIN kyOf' = 1..(n + 1) /\ n + 1 \in 0..KyMaxItems
        /\ \A v \in 1..n : kyOf'[v] = kyOf[v]
        /\ kyOf'[n + 1] = key /\ n + 1 \in DOMAIN kyOf' \ DOMAIN kyOf
        /\ DOMAIN kyOf' = DOMAIN kyOf \cup {n + 1}
    BY <2>1, <2>3
  <2>5. /\ kyKey'[i] = key /\ kyVal'[i] = n + 1
        /\ \A j \in KySlots \ {i} : kyKey'[j] = kyKey[j] /\ kyVal'[j] = kyVal[j]
    BY <2>2, <2>3 DEF KyInv
  <2>6. key # EMPTY_SLOT
    BY KyDistinct
  <2>7. ASSUME NEW v \in DOMAIN kyOf' \ kyOut'
        PROVE  \E a \in KySlots :
                 /\ kyVal'[a] = v /\ kyKey'[a] = kyOf'[v]
                 /\ \A j \in KySlots \ {a} : kyKey'[j] # EMPTY_SLOT => kyVal'[j] # v
    <3>1. CASE v = n + 1
      <4>1. \A j \in KySlots \ {i} : kyKey'[j] # EMPTY_SLOT => kyVal'[j] # v
        BY <2>4, <2>5, <3>1 DEF KyInv, KyLedger
      <4> QED
        BY <2>2, <2>4, <2>5, <3>1, <4>1
    <3>2. CASE v \in DOMAIN kyOf \ kyOut
      <4>1. PICK a \in KySlots : /\ kyVal[a] = v /\ kyKey[a] = kyOf[v]
                                 /\ \A j \in KySlots \ {a} : kyKey[j] # EMPTY_SLOT => kyVal[j] # v
        BY <3>2 DEF KyInv, KyLedger
      <4>2. kyOf[v] \in KyKeys /\ kyOf'[v] = kyOf[v] /\ v # n + 1
        BY <2>1, <2>4, <3>2 DEF KyInv
      <4>3. a # i
        BY <2>2, <4>1, <4>2, KyDistinct
      <4>4. \A j \in KySlots \ {a} : kyKey'[j] # EMPTY_SLOT => kyVal'[j] # v
        BY <2>5, <4>1, <4>2
      <4> QED
        BY <2>5, <4>1, <4>2, <4>3, <4>4
    <3> QED
      BY <2>3, <2>4, <2>7, <3>1, <3>2
  <2>8. ASSUME NEW j \in KySlots, kyKey'[j] # EMPTY_SLOT
        PROVE  kyVal'[j] \in DOMAIN kyOf' \ kyOut'
    <3>1. CASE j = i
      BY <2>3, <2>4, <2>5, <3>1 DEF KyInv
    <3>2. CASE j # i
      <4>1. kyVal[j] \in DOMAIN kyOf \ kyOut
        BY <2>5, <2>8, <3>2 DEF KyInv, KyLedger
      <4> QED
        BY <2>3, <2>4, <2>5, <3>2, <4>1
    <3> QED
      BY <3>1, <3>2
  <2>9. KyLedger'
    BY <2>7, <2>8 DEF KyLedger
  <2>10. KyAnswer'
    BY <2>3 DEF KyAnswer, KyNone
  <2>11. kyKey' \in [KySlots -> KyKeys \cup {EMPTY_SLOT}]
         /\ kyVal' = [a \in KySlots |-> kyVal'[a]]
    BY <2>2, <2>3 DEF KyInv
  <2>12. \A v \in DOMAIN kyOf' : kyOf'[v] \in KyKeys
    BY <2>1, <2>3, <2>4 DEF KyInv
  <2>13. kyOut' \subseteq DOMAIN kyOf' /\ \E k \in 0..KyMaxItems : DOMAIN kyOf' = 1..k
    BY <2>3, <2>4 DEF KyInv
  <2> QED
    BY <2>9, <2>10, <2>11, <2>12, <2>13 DEF KyInv
<1>2. ASSUME NEW key \in KyKeys, KyGet(key)
      PROVE  KyInv'
  <2>1. CASE KyFind(key) >= 0 /\ KyTake(KyFind(key), key)
    BY <2>1, KyFinds, KyTakes
  <2>2. CASE KyFind(key) = -1 /\ kyGot' = [key |-> key, val |-> 0, found |-> FALSE]
             /\ UNCHANGED <<kyKey, kyVal, kyOf, kyOut>>
    <3>1. \A i \in KySlots : kyKey[i] # key
      BY <2>2, KyFinds
    <3>2. \A v \in DOMAIN kyOf \ kyOut : kyOf[v] # key
      BY <3>1 DEF KyInv, KyLedger
    <3> QED
      BY <2>2, <3>2 DEF KyInv, KyLedger, KyAnswer
  <2> QED
    BY <1>2, <2>1, <2>2 DEF KyGet
<1>3. ASSUME NEW i \in KySlots, KyRemoveAt(i)
      PROVE  KyInv'
  <2>1. /\ kyKey' = [kyKey EXCEPT ![i] = EMPTY_SLOT]
        /\ kyOut' = kyOut \cup (IF kyKey[i] = EMPTY_SLOT THEN {} ELSE {kyVal[i]})
        /\ kyGot' = KyNone /\ kyVal' = kyVal /\ kyOf' = kyOf
    BY <1>3 DEF KyRemoveAt
  <2>2. KyAnswer'
    BY <2>1 DEF KyAnswer, KyNone
  <2>3. CASE kyKey[i] = EMPTY_SLOT
    <3>1. kyKey' = kyKey /\ kyOut' = kyOut
      BY <2>1, <2>3 DEF KyInv
    <3> QED
      BY <2>1, <2>2, <3>1 DEF KyInv, KyLedger
  <2>4. CASE kyKey[i] # EMPTY_SLOT
    <3>1. kyVal[i] \in DOMAIN kyOf \ kyOut /\ kyOut' = kyOut \cup {kyVal[i]}
      BY <2>1, <2>4 DEF KyInv, KyLedger
    <3>2. PICK k \in KySlots :
            /\ kyVal[k] = kyVal[i]
            /\ \A j \in KySlots \ {k} : kyKey[j] # EMPTY_SLOT => kyVal[j] # kyVal[i]
      BY <3>1 DEF KyInv, KyLedger
    <3>3. k = i
      BY <2>4, <3>2
    <3>4. kyKey'[i] = EMPTY_SLOT /\ \A j \in KySlots \ {i} : kyKey'[j] = kyKey[j]
      BY <2>1 DEF KyInv
    <3>5. KyLedger'
      <4>1. ASSUME NEW v \in DOMAIN kyOf \ kyOut, v # kyVal[i]
            PROVE  \E a \in KySlots :
                     /\ kyVal'[a] = v /\ kyKey'[a] = kyOf'[v]
                     /\ \A j \in KySlots \ {a} : kyKey'[j] # EMPTY_SLOT => kyVal'[j] # v
        <5>1. PICK a \in KySlots : /\ kyVal[a] = v /\ kyKey[a] = kyOf[v]
                                   /\ \A j \in KySlots \ {a} : kyKey[j] # EMPTY_SLOT => kyVal[j] # v
          BY DEF KyInv, KyLedger
        <5>2. a # i
          BY <4>1, <5>1
        <5>3. \A j \in KySlots \ {a} : kyKey'[j] # EMPTY_SLOT => kyVal'[j] # v
          BY <2>1, <3>4, <5>1
        <5> QED
          BY <2>1, <3>4, <5>1, <5>2, <5>3
      <4>2. \A j \in KySlots : kyKey'[j] # EMPTY_SLOT => kyVal'[j] \in DOMAIN kyOf' \ kyOut'
        BY <2>1, <3>1, <3>2, <3>3, <3>4 DEF KyInv, KyLedger
      <4> QED
        BY <2>1, <3>1, <4>1, <4>2 DEF KyLedger
    <3>6. kyOut' \subseteq DOMAIN kyOf' /\ kyKey' \in [KySlots -> KyKeys \cup {EMPTY_SLOT}]
      BY <2>1, <3>1 DEF KyInv
    <3> QED
      BY <2>1, <2>2, <3>5, <3>6 DEF KyInv
  <2> QED
    BY <2>3, <2>4
<1>4. CASE KyGetAt
  BY <1>4, KyTakes DEF KyGetAt, KyInv
<1>5. CASE KyClear
  BY <1>5 DEF KyClear, KyInv, KyLedger, KyAnswer, KyNone
<1>6. CASE UNCHANGED kyVars
  BY <1>6 DEF kyVars, KyInv, KyLedger, KyAnswer
<1> QED
  BY <1>1, <1>2, <1>3, <1>4, <1>5, <1>6 DEF KyNext

\* A Stack (Stack.h) gives an array back as it was pushed, also when only a part
\* of it fitted, and keeps its items in the order of the pushes; a KeyArray
\* (KeyArray.h), where several slots may have equal keys, loses, repeats and
\* overwrites no value, and finds one under a key if and only if there is one.
THEOREM ContainersSafe == MCSpec => []ContainersKeep
<1>1. MCInit => StInv /\ KyInv
  BY StStart, KyStart, Zenon DEF MCInit
<1>2. (StInv /\ KyInv) /\ [MCNext]_MCVars => (StInv /\ KyInv)'
  BY StKept, KyKept, StepOfPart, Zenon
<1>3. StInv /\ KyInv => ContainersKeep
  BY DEF ContainersKeep, StInv, KyInv
<1> QED
  BY <1>1, <1>2, <1>3, PTL DEF MCSpec, MCVars

-----------------------------------------------------------------------------
(* MsgSlot.  Who is between its two semaphore operations has one of the    *)
(* slot's tokens; a full token, or one on its way from the store to the    *)
(* read, says that something was stored.                                   *)

SlotMsgs == \A t \in Threads :
  /\ pc[t] \in {"put.acquire", "put.store", "put.post", "get.post"} => msg[t] \in Values
  /\ pc[t] \in {"idle", "get.acquire", "get.read"} => msg[t] = NoMsg
  /\ pc[t] \in {"put.post", "get.read", "get.post"} => val_ \in Values

SlotInv == /\ val_ \in Values \cup {Junk}
           /\ semEmpty \in Nat /\ semFull \in Nat
           /\ pc \in [Threads -> PCs]
           /\ how \in [Threads -> Hows]
           /\ msg \in [Threads -> Values \cup {NoMsg}]
           /\ extras \subseteq {"signal", "reset"}
           /\ Tokens <= MaxTokens
           /\ TokenLedger
           /\ SlotMsgs
           /\ semFull > 0 => val_ \in Values

SlotBusy == {"put.store", "put.post", "get.read", "get.post"}

\* A thread that goes from one place to another, and the count of those in flight.
LEMMA SlotMove ==
  ASSUME pc \in [Threads -> PCs], NEW t \in Threads, NEW to \in PCs,
         pc' = [pc EXCEPT ![t] = to]
  PROVE  /\ Cardinality(InFlight) \in Nat
         /\ (pc[t] \in SlotBusy <=> to \in SlotBusy)
              => Cardinality(InFlight)' = Cardinality(InFlight)
         /\ pc[t] \notin SlotBusy /\ to \in SlotBusy
              => Cardinality(InFlight)' = Cardinality(InFlight) + 1
         /\ pc[t] \in SlotBusy /\ to \notin SlotBusy
              => Cardinality(InFlight)' = Cardinality(InFlight) - 1
<1> DEFINE A == {u \in Threads : pc[u] \in SlotBusy}
           B == {u \in Threads : pc'[u] \in SlotBusy}
           C == A \ {t}
<1>0. InFlight = A /\ InFlight' = B
  BY DEF InFlight, SlotBusy
<1>1. IsFiniteSet(A) /\ IsFiniteSet(B) /\ IsFiniteSet(C)
  BY SlotThreadAssumption, FS_Subset
<1>2. /\ pc[t] \in SlotBusy => t \in A
      /\ t \notin C
      /\ to \in SlotBusy => B = C \cup {t}
      /\ C = A \ {t}
  OBVIOUS
<1>6. pc[t] \notin SlotBusy => C = A
  OBVIOUS
<1>7. to \notin SlotBusy => B = C
  OBVIOUS
<1> HIDE DEF A, B, C
<1>3. Cardinality(A) \in Nat /\ Cardinality(B) \in Nat /\ Cardinality(C) \in Nat
  BY <1>1, FS_CardinalityType
<1>4. Cardinality(A) = Cardinality(C) + (IF pc[t] \in SlotBusy THEN 1 ELSE 0)
  <2>1. CASE pc[t] \in SlotBusy
    <3>1. Cardinality(C) = Cardinality(A) - 1
      BY <1>1, <1>2, <2>1, FS_RemoveElement
    <3> QED
      BY <1>3, <2>1, <3>1
  <2>2. CASE pc[t] \notin SlotBusy
    BY <1>3, <1>6, <2>2
  <2> QED
    BY <2>1, <2>2
<1>5. Cardinality(B) = Cardinality(C) + (IF to \in SlotBusy THEN 1 ELSE 0)
  <2>1. CASE to \in SlotBusy
    <3>1. Cardinality(B) = Cardinality(C) + 1
      BY <1>1, <1>2, <2>1, FS_AddElement
    <3> QED
      BY <2>1, <3>1
  <2>2. CASE to \notin SlotBusy
    BY <1>3, <1>7, <2>2
  <2> QED
    BY <2>1, <2>2
<1> QED
  BY <1>0, <1>3, <1>4, <1>5

LEMMA SlotStart == Init => SlotInv
<1> SUFFICES ASSUME Init
             PROVE  SlotInv
  OBVIOUS
<1>1. InFlight = {}
  BY DEF Init, InFlight
<1>2. Cardinality(InFlight) = 0
  BY <1>1, FS_EmptySet
<1> QED
  BY <1>2, SlotBound DEF Init, SlotInv, SlotMsgs, TokenLedger, Tokens, PCs, Hows

LEMMA SlotKept == SlotInv /\ [Next]_vars => SlotInv'
<1> SUFFICES ASSUME SlotInv, [Next]_vars
             PROVE  SlotInv'
  OBVIOUS
<1> DEFINE n == Cardinality(InFlight)
<1>0. /\ pc \in [Threads -> PCs] /\ how \in [Threads -> Hows] /\ SlotMsgs
      /\ msg \in [Threads -> Values \cup {NoMsg}]
      /\ semEmpty \in Nat /\ semFull \in Nat
      /\ semEmpty + semFull + n <= MaxTokens
      /\ "signal" \notin extras => semEmpty + semFull + n <= 1
      /\ "reset" \notin extras => semEmpty + semFull + n >= 1
      /\ MaxTokens \in Nat \ {0}
  BY SlotBound DEF SlotInv, TokenLedger, Tokens
<1> HIDE DEF n
<1>1. ASSUME NEW t \in Threads, PutCall(t)
      PROVE  SlotInv'
  <2>1. PICK v \in Values, h \in Hows :
          /\ pc[t] = "idle" /\ pc' = [pc EXCEPT ![t] = "put.acquire"]
          /\ how' = [how EXCEPT ![t] = h] /\ msg' = [msg EXCEPT ![t] = v]
          /\ UNCHANGED <<val_, semEmpty, semFull, extras>>
    BY <1>1 DEF PutCall, Goto, Patience, SetMsg, sems
  <2>2. n' = n /\ n \in Nat
    BY <1>0, <2>1, SlotMove DEF n, PCs, SlotBusy
  <2>3. Tokens' <= MaxTokens /\ TokenLedger'
    BY <1>0, <2>1, <2>2 DEF TokenLedger, Tokens, n
  <2>4. SlotMsgs'
    BY <1>0, <2>1 DEF SlotMsgs
  <2> QED
    BY <1>0, <2>1, <2>3, <2>4 DEF SlotInv, PCs
<1>2. ASSUME NEW t \in Threads, PutAcquire(t)
      PROVE  SlotInv'
  <2>1. /\ pc[t] = "put.acquire" /\ pc' = [pc EXCEPT ![t] = "put.store"]
        /\ semEmpty > 0 /\ semEmpty' = semEmpty - 1
        /\ how' = [how EXCEPT ![t] = "block"] /\ msg' = msg
        /\ UNCHANGED <<val_, semFull, extras>>
    BY <1>2 DEF PutAcquire, Goto, Patience
  <2>2. n' = n + 1 /\ n \in Nat
    BY <1>0, <2>1, SlotMove DEF n, PCs, SlotBusy
  <2>3. Tokens' <= MaxTokens /\ TokenLedger'
    BY <1>0, <2>1, <2>2 DEF TokenLedger, Tokens, n
  <2>4. SlotMsgs'
    BY <1>0, <2>1 DEF SlotMsgs
  <2> QED
    BY <1>0, <2>1, <2>3, <2>4 DEF SlotInv, PCs, Hows
<1>3. ASSUME NEW t \in Threads, PutFail(t)
      PROVE  SlotInv'
  <2>1. /\ pc[t] = "put.acquire" /\ pc' = [pc EXCEPT ![t] = "idle"]
        /\ how' = [how EXCEPT ![t] = "block"] /\ msg' = [msg EXCEPT ![t] = NoMsg]
        /\ UNCHANGED <<val_, semEmpty, semFull, extras>>
    BY <1>3 DEF PutFail, Goto, Patience, SetMsg, sems
  <2>2. n' = n /\ n \in Nat
    BY <1>0, <2>1, SlotMove DEF n, PCs, SlotBusy
  <2>3. Tokens' <= MaxTokens /\ TokenLedger'
    BY <1>0, <2>1, <2>2 DEF TokenLedger, Tokens, n
  <2>4. SlotMsgs'
    BY <1>0, <2>1 DEF SlotMsgs
  <2> QED
    BY <1>0, <2>1, <2>3, <2>4 DEF SlotInv, PCs, Hows
<1>4. ASSUME NEW t \in Threads, PutStore(t)
      PROVE  SlotInv'
  <2>1. /\ pc[t] = "put.store" /\ pc' = [pc EXCEPT ![t] = "put.post"]
        /\ val_' = msg[t] /\ msg[t] \in Values
        /\ UNCHANGED <<semEmpty, semFull, how, msg, extras>>
    BY <1>0, <1>4 DEF PutStore, Goto, SlotMsgs, sems
  <2>2. n' = n /\ n \in Nat
    BY <1>0, <2>1, SlotMove DEF n, PCs, SlotBusy
  <2>3. Tokens' <= MaxTokens /\ TokenLedger'
    BY <1>0, <2>1, <2>2 DEF TokenLedger, Tokens, n
  <2>4. SlotMsgs'
    BY <1>0, <2>1 DEF SlotMsgs
  <2> QED
    BY <1>0, <2>1, <2>3, <2>4 DEF SlotInv, PCs
<1>5. ASSUME NEW t \in Threads, PutPost(t)
      PROVE  SlotInv'
  <2>1. /\ pc[t] = "put.post" /\ pc' = [pc EXCEPT ![t] = "idle"]
        /\ semFull' = semFull + 1 /\ msg' = [msg EXCEPT ![t] = NoMsg]
        /\ UNCHANGED <<val_, semEmpty, how, extras>>
    BY <1>5 DEF PutPost, Goto, SetMsg
  <2>2. n' = n - 1 /\ n \in Nat
    BY <1>0, <2>1, SlotMove DEF n, PCs, SlotBusy
  <2>3. Tokens' <= MaxTokens /\ TokenLedger'
    BY <1>0, <2>1, <2>2 DEF TokenLedger, Tokens, n
  <2>4. SlotMsgs' /\ val_ \in Values
    BY <1>0, <2>1 DEF SlotMsgs
  <2> QED
    BY <1>0, <2>1, <2>3, <2>4 DEF SlotInv, PCs
<1>6. ASSUME NEW t \in Threads, SignalCall(t)
      PROVE  SlotInv'
  <2>1. PICK v \in Values :
        /\ "signal" \in extras /\ Tokens < MaxTokens
        /\ pc[t] = "idle" /\ pc' = [pc EXCEPT ![t] = "put.store"]
        /\ semEmpty' = IF semEmpty > 0 THEN semEmpty - 1 ELSE 0
        /\ msg' = [msg EXCEPT ![t] = v]
        /\ UNCHANGED <<val_, semFull, how, extras>>
    BY <1>6 DEF SignalCall, Goto, SetMsg
  <2>2. n' = n + 1 /\ n \in Nat
    BY <1>0, <2>1, SlotMove DEF n, PCs, SlotBusy
  <2>3. Tokens' <= MaxTokens /\ TokenLedger'
    BY <1>0, <2>1, <2>2 DEF TokenLedger, Tokens, n
  <2>4. SlotMsgs'
    BY <1>0, <2>1 DEF SlotMsgs
  <2>5. semEmpty' \in Nat
    BY <1>0, <2>1
  <2> QED
    BY <1>0, <2>1, <2>3, <2>4, <2>5 DEF SlotInv, PCs
<1>7. ASSUME NEW t \in Threads, Reset(t)
      PROVE  SlotInv'
  <2>1. /\ "reset" \in extras /\ semFull > 0 /\ semFull' = semFull - 1
        /\ UNCHANGED <<val_, semEmpty, pc, how, msg, extras>>
    BY <1>7 DEF Reset
  <2>2. n' = n /\ n \in Nat
    <3>1. IsFiniteSet(InFlight)
      BY SlotThreadAssumption, FS_Subset DEF InFlight
    <3> QED
      BY <2>1, <3>1, FS_CardinalityType DEF n, InFlight
  <2>3. Tokens' <= MaxTokens /\ TokenLedger'
    BY <1>0, <2>1, <2>2 DEF TokenLedger, Tokens, n
  <2>4. SlotMsgs'
    BY <1>0, <2>1 DEF SlotMsgs
  <2> QED
    BY <1>0, <2>1, <2>3, <2>4 DEF SlotInv
<1>8. ASSUME NEW t \in Threads, GetCall(t) \/ GetFail(t)
      PROVE  SlotInv'
  <2>1. PICK h \in Hows, to \in {"idle", "get.acquire"} :
          /\ pc[t] \in {"idle", "get.acquire"} /\ pc' = [pc EXCEPT ![t] = to]
          /\ how' = [how EXCEPT ![t] = h]
          /\ UNCHANGED <<val_, semEmpty, semFull, msg, extras>>
    BY <1>8 DEF GetCall, GetFail, Goto, Patience, sems, Hows
  <2>2. n' = n /\ n \in Nat
    BY <1>0, <2>1, SlotMove DEF n, PCs, SlotBusy
  <2>3. Tokens' <= MaxTokens /\ TokenLedger'
    BY <1>0, <2>1, <2>2 DEF TokenLedger, Tokens, n
  <2>4. SlotMsgs'
    BY <1>0, <2>1 DEF SlotMsgs
  <2> QED
    BY <1>0, <2>1, <2>3, <2>4 DEF SlotInv, PCs
<1>9. ASSUME NEW t \in Threads, GetAcquire(t)
      PROVE  SlotInv'
  <2>1. /\ pc[t] = "get.acquire" /\ pc' = [pc EXCEPT ![t] = "get.read"]
        /\ semFull > 0 /\ semFull' = semFull - 1 /\ val_ \in Values
        /\ how' = [how EXCEPT ![t] = "block"]
        /\ UNCHANGED <<val_, semEmpty, msg, extras>>
    BY <1>9 DEF GetAcquire, Goto, Patience, SlotInv
  <2>2. n' = n + 1 /\ n \in Nat
    BY <1>0, <2>1, SlotMove DEF n, PCs, SlotBusy
  <2>3. Tokens' <= MaxTokens /\ TokenLedger'
    BY <1>0, <2>1, <2>2 DEF TokenLedger, Tokens, n
  <2>4. SlotMsgs'
    BY <1>0, <2>1 DEF SlotMsgs
  <2> QED
    BY <1>0, <2>1, <2>3, <2>4 DEF SlotInv, PCs, Hows
<1>10. ASSUME NEW t \in Threads, GetRead(t)
       PROVE  SlotInv'
  <2>1. /\ pc[t] = "get.read" /\ pc' = [pc EXCEPT ![t] = "get.post"]
        /\ msg' = [msg EXCEPT ![t] = val_] /\ val_ \in Values
        /\ UNCHANGED <<val_, semEmpty, semFull, how, extras>>
    BY <1>0, <1>10 DEF GetRead, Goto, SetMsg, sems, SlotMsgs
  <2>2. n' = n /\ n \in Nat
    BY <1>0, <2>1, SlotMove DEF n, PCs, SlotBusy
  <2>3. Tokens' <= MaxTokens /\ TokenLedger'
    BY <1>0, <2>1, <2>2 DEF TokenLedger, Tokens, n
  <2>4. SlotMsgs'
    BY <1>0, <2>1 DEF SlotMsgs
  <2> QED
    BY <1>0, <2>1, <2>3, <2>4 DEF SlotInv, PCs
<1>11. ASSUME NEW t \in Threads, GetPost(t)
       PROVE  SlotInv'
  <2>1. /\ pc[t] = "get.post" /\ pc' = [pc EXCEPT ![t] = "idle"]
        /\ semEmpty' = semEmpty + 1 /\ msg' = [msg EXCEPT ![t] = NoMsg]
        /\ UNCHANGED <<val_, semFull, how, extras>>
    BY <1>11 DEF GetPost, Goto, SetMsg
  <2>2. n' = n - 1 /\ n \in Nat
    BY <1>0, <2>1, SlotMove DEF n, PCs, SlotBusy
  <2>3. Tokens' <= MaxTokens /\ TokenLedger'
    BY <1>0, <2>1, <2>2 DEF TokenLedger, Tokens, n
  <2>4. SlotMsgs'
    BY <1>0, <2>1 DEF SlotMsgs
  <2> QED
    BY <1>0, <2>1, <2>3, <2>4 DEF SlotInv, PCs
<1>12. CASE UNCHANGED vars
  BY <1>12 DEF vars, sems, SlotInv, SlotMsgs, TokenLedger, Tokens, InFlight
<1> QED
  BY <1>1, <1>2, <1>3, <1>4, <1>5, <1>6, <1>7, <1>8, <1>9, <1>10, <1>11, <1>12
     DEF Next, CallOp, Step

LEMMA SlotHolds == SlotInv => SlotTokens
<1> SUFFICES ASSUME SlotInv
             PROVE  SlotTokens
  OBVIOUS
<1>1. IsFiniteSet(InFlight)
  BY SlotThreadAssumption, FS_Subset DEF InFlight
<1>2. Cardinality(InFlight) \in Nat
  BY <1>1, FS_CardinalityType
<1>3. /\ semEmpty \in 0..MaxTokens /\ semFull \in 0..MaxTokens
  BY <1>2, SlotBound DEF SlotInv, TokenLedger, Tokens
<1>4. TypeOK
  BY <1>3 DEF TypeOK, SlotInv
<1>5. NoUnsetRead
  BY SlotValueAssumption DEF NoUnsetRead, SlotInv, SlotMsgs
<1> QED
  BY <1>4, <1>5 DEF SlotTokens, SlotInv

\* The two semaphores of MsgSlot (MsgSlot.h) account for its one cell: no put, get,
\* time-out makes or loses its token, signal() loses none and reset() makes none;
\* and nobody reads the cell before something was stored in it.
THEOREM SlotSafe == MCSpec => []SlotTokens
<1>1. MCInit => SlotInv
  BY SlotStart, Zenon DEF MCInit
<1>2. SlotInv /\ [MCNext]_MCVars => SlotInv'
  BY SlotKept, StepOfPart, Zenon
<1> QED
  BY <1>1, <1>2, SlotHolds, PTL DEF MCSpec, MCVars

\* For clients that use neither signal() nor reset() there is one token, and
\* who is in flight has it.
LEMMA SlotAlone ==
  ASSUME SlotInv, extras = {}
  PROVE  /\ semEmpty + semFull <= 1
         /\ semEmpty > 0 \/ semFull > 0 => InFlight = {}
         /\ \A t \in InFlight : InFlight = {t} /\ semEmpty = 0 /\ semFull = 0
<1>1. IsFiniteSet(InFlight)
  BY SlotThreadAssumption, FS_Subset DEF InFlight
<1>2. Cardinality(InFlight) \in Nat
  BY <1>1, FS_CardinalityType
<1>3. semEmpty \in Nat /\ semFull \in Nat /\ semEmpty + semFull + Cardinality(InFlight) = 1
  BY <1>2 DEF SlotInv, TokenLedger, Tokens
<1>4. Cardinality(InFlight) = 0 => InFlight = {}
  BY <1>1, FS_EmptySet
<1>5. ASSUME NEW t \in InFlight
      PROVE  InFlight = {t} /\ semEmpty = 0 /\ semFull = 0
  <2>1. Cardinality(InFlight \ {t}) = Cardinality(InFlight) - 1
    BY <1>1, FS_RemoveElement
  <2>2. IsFiniteSet(InFlight \ {t})
    BY <1>1, FS_Subset
  <2>3. Cardinality(InFlight \ {t}) \in Nat
    BY <2>2, FS_CardinalityType
  <2>4. Cardinality(InFlight \ {t}) = 0 /\ Cardinality(InFlight) = 1
    BY <1>2, <1>3, <2>1, <2>3
  <2>5. InFlight \ {t} = {}
    BY <2>2, <2>4, FS_EmptySet
  <2> QED
    BY <1>3, <2>4, <2>5
<1> QED
  BY <1>2, <1>3, <1>4, <1>5

SlotAbs(p) == CASE p \in {"put.acquire", "put.store"} -> "put"
                [] p = "put.post" -> "putDone"
                [] p \in {"get.acquire", "get.read"} -> "get"
                [] p = "get.post" -> "getDone"
                [] OTHER -> "idle"

LEMMA SlotAbsMove ==
  ASSUME pc \in [Threads -> PCs], NEW t \in Threads, NEW from, NEW to,
         pc[t] = from, pc' = [pc EXCEPT ![t] = to]
  PROVE  /\ AbsOp[t] = SlotAbs(from)
         /\ AbsOp' = [AbsOp EXCEPT ![t] = SlotAbs(to)]
<1>1. AbsOp = [u \in Threads |-> SlotAbs(pc[u])]
  BY DEF AbsOp, SlotAbs
<1>2. AbsOp' = [u \in Threads |-> SlotAbs(pc'[u])]
  BY DEF AbsOp, SlotAbs
<1> HIDE DEF AbsOp
<1> QED
  BY <1>1, <1>2

LEMMA SlotAbsValues ==
  /\ SlotAbs("put.acquire") = "put" /\ SlotAbs("put.store") = "put"
  /\ SlotAbs("put.post") = "putDone"
  /\ SlotAbs("get.acquire") = "get" /\ SlotAbs("get.read") = "get"
  /\ SlotAbs("get.post") = "getDone" /\ SlotAbs("idle") = "idle"
  BY DEF SlotAbs

LEMMA SlotInitRefines == Init => Fifo!AInit
<1> SUFFICES ASSUME Init
             PROVE  Fifo!AInit
  OBVIOUS
<1>1. ~Occupied
  BY DEF Init, Occupied
<1>2. AbsOp = [t \in Threads |-> "idle"]
  BY DEF Init, AbsOp
<1> QED
  BY <1>1, <1>2 DEF Init, Fifo!AInit

LEMMA SlotRefines ==
  SlotInv /\ [Next]_vars => [extras = {} => Fifo!ANext \/ UNCHANGED Fifo!avars]_vars
<1> SUFFICES ASSUME SlotInv, Next, extras = {}
             PROVE  Fifo!ANext \/ UNCHANGED Fifo!avars
  BY Zenon
<1>0. /\ pc \in [Threads -> PCs] /\ SlotMsgs
      /\ msg \in [Threads -> Values \cup {NoMsg}]
      /\ semEmpty \in Nat /\ semFull \in Nat /\ semEmpty + semFull <= 1
  BY SlotAlone DEF SlotInv
<1> USE DEF Occupied
<1>1. ASSUME NEW t \in Threads, PutCall(t)
      PROVE  Fifo!ANext
  <2>1. PICK v \in Values :
          /\ pc[t] = "idle" /\ pc' = [pc EXCEPT ![t] = "put.acquire"]
          /\ msg' = [msg EXCEPT ![t] = v] /\ val_' = val_ /\ semFull' = semFull
    BY <1>1 DEF PutCall, Goto, Patience, SetMsg, sems
  <2>2. Occupied' <=> Occupied
    BY <1>0, <2>1
  <2>3. AbsOp[t] = "idle" /\ AbsOp' = [AbsOp EXCEPT ![t] = "put"]
    <3>1. AbsOp[t] = SlotAbs("idle") /\ AbsOp' = [AbsOp EXCEPT ![t] = SlotAbs("put.acquire")]
      BY <1>0, <2>1, SlotAbsMove
    <3> QED
      BY <3>1, SlotAbsValues, Zenon
  <2> HIDE DEF Occupied
  <2>4. Fifo!APutCall(t, v)
    BY <2>1, <2>2, <2>3 DEF Fifo!APutCall, Fifo!Enter
  <2> QED
    BY <2>4 DEF Fifo!ANext
<1>2. ASSUME NEW t \in Threads, PutAcquire(t)
      PROVE  UNCHANGED Fifo!avars
  <2>1. /\ pc[t] = "put.acquire" /\ pc' = [pc EXCEPT ![t] = "put.store"]
        /\ msg' = msg /\ val_' = val_ /\ semFull' = semFull
    BY <1>2 DEF PutAcquire, Goto
  <2>2. Occupied' <=> Occupied
    BY <1>0, <2>1
  <2>3. AbsOp' = AbsOp
    BY <1>0, <2>1, SlotAbsMove, SlotAbsValues DEF AbsOp
  <2> QED
    BY <2>1, <2>2, <2>3 DEF Fifo!avars
<1>3. ASSUME NEW t \in Threads, PutFail(t)
      PROVE  Fifo!ANext
  <2>1. /\ pc[t] = "put.acquire" /\ pc' = [pc EXCEPT ![t] = "idle"]
        /\ msg' = [msg EXCEPT ![t] = NoMsg] /\ val_' = val_ /\ semFull' = semFull
    BY <1>3 DEF PutFail, Goto, SetMsg, sems
  <2>2. Occupied' <=> Occupied
    BY <1>0, <2>1
  <2>3. AbsOp[t] = "put" /\ AbsOp' = [AbsOp EXCEPT ![t] = "idle"]
    <3>1. AbsOp[t] = SlotAbs("put.acquire") /\ AbsOp' = [AbsOp EXCEPT ![t] = SlotAbs("idle")]
      BY <1>0, <2>1, SlotAbsMove
    <3> QED
      BY <3>1, SlotAbsValues, Zenon
  <2> HIDE DEF Occupied
  <2>4. Fifo!APutFail(t)
    BY <2>1, <2>2, <2>3 DEF Fifo!APutFail, Fifo!Enter
  <2> QED
    BY <2>4 DEF Fifo!ANext
<1>4. ASSUME NEW t \in Threads, PutStore(t)
      PROVE  Fifo!ANext
  <2>1. /\ pc[t] = "put.store" /\ pc' = [pc EXCEPT ![t] = "put.post"]
        /\ msg' = msg /\ val_' = msg[t] /\ semFull' = semFull
    BY <1>4 DEF PutStore, Goto, sems
  <2>2. InFlight = {t} /\ semFull = 0
    BY <2>1, SlotAlone DEF InFlight
  <2>3. ~Occupied
    BY <2>1, <2>2 DEF InFlight
  <2>4. Occupied'
    BY <1>0, <2>1
  <2>5. Append(<< >>, msg[t]) = <<msg[t]>> /\ Len(<< >>) = 0
    OBVIOUS
  <2>6. msg' = [msg EXCEPT ![t] = msg[t]]
    BY <1>0, <2>1
  <2>7. AbsOp[t] = "put" /\ AbsOp' = [AbsOp EXCEPT ![t] = "putDone"]
    <3>1. AbsOp[t] = SlotAbs("put.store") /\ AbsOp' = [AbsOp EXCEPT ![t] = SlotAbs("put.post")]
      BY <1>0, <2>1, SlotAbsMove
    <3> QED
      BY <3>1, SlotAbsValues, Zenon
  <2> HIDE DEF Occupied
  <2>8. Fifo!APutEffect(t)
    <3> DEFINE q == IF Occupied THEN <<val_>> ELSE << >>
    <3>1. q = << >> /\ q' = <<msg[t]>>
      BY <2>1, <2>3, <2>4
    <3> HIDE DEF q
    <3>4. Len(q) = 0 /\ q' = Append(q, msg[t])
      BY <2>5, <3>1, Zenon
    <3>2. Len(q) < 1 /\ q' = Append(q, msg[t])
      BY <3>4
    <3>3. Fifo!Enter(t, "put", "putDone", msg[t])
      BY <2>1, <2>6, <2>7 DEF Fifo!Enter
    <3> QED
      BY <3>2, <3>3 DEF Fifo!APutEffect, q
  <2> QED
    BY <2>8 DEF Fifo!ANext
<1>5. ASSUME NEW t \in Threads, PutPost(t)
      PROVE  Fifo!ANext
  <2>1. /\ pc[t] = "put.post" /\ pc' = [pc EXCEPT ![t] = "idle"]
        /\ msg' = [msg EXCEPT ![t] = NoMsg] /\ val_' = val_ /\ semFull' = semFull + 1
    BY <1>5 DEF PutPost, Goto, SetMsg
  <2>2. Occupied /\ Occupied'
    BY <1>0, <2>1
  <2>3. AbsOp[t] = "putDone" /\ AbsOp' = [AbsOp EXCEPT ![t] = "idle"]
    <3>1. AbsOp[t] = SlotAbs("put.post") /\ AbsOp' = [AbsOp EXCEPT ![t] = SlotAbs("idle")]
      BY <1>0, <2>1, SlotAbsMove
    <3> QED
      BY <3>1, SlotAbsValues, Zenon
  <2> HIDE DEF Occupied
  <2>4. Fifo!APutReturn(t)
    BY <2>1, <2>2, <2>3 DEF Fifo!APutReturn, Fifo!Enter
  <2> QED
    BY <2>4 DEF Fifo!ANext
<1>6. ASSUME NEW t \in Threads, GetCall(t)
      PROVE  Fifo!ANext
  <2>1. /\ pc[t] = "idle" /\ pc' = [pc EXCEPT ![t] = "get.acquire"]
        /\ msg' = msg /\ val_' = val_ /\ semFull' = semFull
    BY <1>6 DEF GetCall, Goto, sems
  <2>2. Occupied' <=> Occupied
    BY <1>0, <2>1
  <2>3. msg' = [msg EXCEPT ![t] = NoMsg]
    BY <1>0, <2>1 DEF SlotMsgs
  <2>4. AbsOp[t] = "idle" /\ AbsOp' = [AbsOp EXCEPT ![t] = "get"]
    <3>1. AbsOp[t] = SlotAbs("idle") /\ AbsOp' = [AbsOp EXCEPT ![t] = SlotAbs("get.acquire")]
      BY <1>0, <2>1, SlotAbsMove
    <3> QED
      BY <3>1, SlotAbsValues, Zenon
  <2> HIDE DEF Occupied
  <2>5. Fifo!AGetCall(t)
    BY <2>1, <2>2, <2>3, <2>4 DEF Fifo!AGetCall, Fifo!Enter
  <2> QED
    BY <2>5 DEF Fifo!ANext
<1>7. ASSUME NEW t \in Threads, GetFail(t)
      PROVE  Fifo!ANext
  <2>1. /\ pc[t] = "get.acquire" /\ pc' = [pc EXCEPT ![t] = "idle"]
        /\ msg' = msg /\ val_' = val_ /\ semFull' = semFull
    BY <1>7 DEF GetFail, Goto, sems
  <2>2. Occupied' <=> Occupied
    BY <1>0, <2>1
  <2>3. msg' = [msg EXCEPT ![t] = NoMsg]
    BY <1>0, <2>1 DEF SlotMsgs
  <2>4. AbsOp[t] = "get" /\ AbsOp' = [AbsOp EXCEPT ![t] = "idle"]
    <3>1. AbsOp[t] = SlotAbs("get.acquire") /\ AbsOp' = [AbsOp EXCEPT ![t] = SlotAbs("idle")]
      BY <1>0, <2>1, SlotAbsMove
    <3> QED
      BY <3>1, SlotAbsValues, Zenon
  <2> HIDE DEF Occupied
  <2>5. Fifo!AGetFail(t)
    BY <2>1, <2>2, <2>3, <2>4 DEF Fifo!AGetFail, Fifo!Enter
  <2> QED
    BY <2>5 DEF Fifo!ANext
<1>8. ASSUME NEW t \in Threads, GetAcquire(t)
      PROVE  UNCHANGED Fifo!avars
  <2>1. /\ pc[t] = "get.acquire" /\ pc' = [pc EXCEPT ![t] = "get.read"]
        /\ msg' = msg /\ val_' = val_ /\ semFull > 0 /\ semFull' = semFull - 1
    BY <1>8 DEF GetAcquire, Goto
  <2>2. Occupied /\ Occupied'
    BY <1>0, <2>1
  <2>3. AbsOp' = AbsOp
    BY <1>0, <2>1, SlotAbsMove, SlotAbsValues DEF AbsOp
  <2> QED
    BY <2>1, <2>2, <2>3 DEF Fifo!avars
<1>9. ASSUME NEW t \in Threads, GetRead(t)
      PROVE  Fifo!ANext
  <2>1. /\ pc[t] = "get.read" /\ pc' = [pc EXCEPT ![t] = "get.post"]
        /\ msg' = [msg EXCEPT ![t] = val_] /\ val_' = val_ /\ semFull' = semFull
    BY <1>9 DEF GetRead, Goto, SetMsg, sems
  <2>2. InFlight = {t} /\ semFull = 0
    BY <2>1, SlotAlone DEF InFlight
  <2>3. Occupied
    BY <2>1
  <2>4. ~Occupied'
    BY <1>0, <2>1, <2>2 DEF InFlight
  <2>5. Head(<<val_>>) = val_ /\ Tail(<<val_>>) = << >> /\ <<val_>> # << >>
    OBVIOUS
  <2>6. AbsOp[t] = "get" /\ AbsOp' = [AbsOp EXCEPT ![t] = "getDone"]
    <3>1. AbsOp[t] = SlotAbs("get.read") /\ AbsOp' = [AbsOp EXCEPT ![t] = SlotAbs("get.post")]
      BY <1>0, <2>1, SlotAbsMove
    <3> QED
      BY <3>1, SlotAbsValues, Zenon
  <2> HIDE DEF Occupied
  <2>7. Fifo!AGetEffect(t)
    BY <2>1, <2>3, <2>4, <2>5, <2>6 DEF Fifo!AGetEffect, Fifo!Enter
  <2> QED
    BY <2>7 DEF Fifo!ANext
<1>10. ASSUME NEW t \in Threads, GetPost(t)
       PROVE  Fifo!ANext
  <2>1. /\ pc[t] = "get.post" /\ pc' = [pc EXCEPT ![t] = "idle"]
        /\ msg' = [msg EXCEPT ![t] = NoMsg] /\ val_' = val_ /\ semFull' = semFull
    BY <1>10 DEF GetPost, Goto, SetMsg
  <2>2. Occupied' <=> Occupied
    BY <1>0, <2>1
  <2>3. AbsOp[t] = "getDone" /\ AbsOp' = [AbsOp EXCEPT ![t] = "idle"]
    <3>1. AbsOp[t] = SlotAbs("get.post") /\ AbsOp' = [AbsOp EXCEPT ![t] = SlotAbs("idle")]
      BY <1>0, <2>1, SlotAbsMove
    <3> QED
      BY <3>1, SlotAbsValues, Zenon
  <2> HIDE DEF Occupied
  <2>4. Fifo!AGetReturn(t)
    BY <2>1, <2>2, <2>3 DEF Fifo!AGetReturn, Fifo!Enter
  <2> QED
    BY <2>4 DEF Fifo!ANext
<1>11. \A t \in Threads : ~SignalCall(t) /\ ~Reset(t)
  BY DEF SignalCall, Reset
<1> QED
  BY <1>1, <1>2, <1>3, <1>4, <1>5, <1>6, <1>7, <1>8, <1>9, <1>10, <1>11
     DEF Next, CallOp, Step

\* MsgSlot (MsgSlot.h) is a bounded queue of one message for clients that use
\* neither signal() nor reset(): each of its steps is a step of that queue or
\* changes nothing of it.
THEOREM SlotFifo == MCSpec => FifoSpec
<1>1. MCInit => SlotInv /\ (extras = {} => Fifo!AInit)
  BY SlotStart, SlotInitRefines, Zenon DEF MCInit
<1>2. SlotInv /\ [MCNext]_MCVars => SlotInv'
  BY SlotKept, StepOfPart, Zenon
<1>3. SlotInv /\ [MCNext]_MCVars => [extras = {} => Fifo!ANext \/ UNCHANGED Fifo!avars]_vars
  BY SlotRefines, StepOfPart, Zenon
<1> QED
  BY <1>1, <1>2, <1>3, PTL DEF MCSpec, MCVars, FifoSpec

-----------------------------------------------------------------------------
(* CircQueue.  Offsets in a ring of cap cells.                             *)

RingAt(cap, p, n) == IF n < cap - p THEN p + n ELSE n - (cap - p)
RingSize(cap, put, get) == IF put >= get THEN put - get ELSE put - get + cap

LEMMA RingOffsets ==
  ASSUME NEW cap \in Nat, NEW p \in 0..(cap - 1)
  PROVE  /\ RingAt(cap, p, 0) = p
         /\ \A i \in 0..(cap - 1) : RingAt(cap, p, i) \in 0..(cap - 1)
         /\ \A i, j \in 0..(cap - 1) : RingAt(cap, p, i) = RingAt(cap, p, j) => i = j
         /\ \A i, j \in 0..(cap - 1) : i + j < cap =>
              RingAt(cap, RingAt(cap, p, i), j) = RingAt(cap, p, i + j)
  BY DEF RingAt

LEMMA RingSizes ==
  ASSUME NEW cap \in Nat, NEW put \in 0..(cap - 1), NEW get \in 0..(cap - 1)
  PROVE  LET sz == RingSize(cap, put, get) IN
         /\ sz \in 0..(cap - 1)
         /\ put = RingAt(cap, get, sz)
         /\ \A m \in 0..(cap - 1 - sz) : RingSize(cap, RingAt(cap, put, m), get) = sz + m
         /\ \A m \in 0..sz : RingSize(cap, put, RingAt(cap, get, m)) = sz - m
  BY DEF RingAt, RingSize

LEMMA CqAsRing ==
  /\ CqSize = RingSize(cqCap, cqPut, cqGet)
  /\ \A p, n : CqAdvance(p, n) = RingAt(cqCap, p, n)
  BY DEF CqSize, CqAdvance, RingAt, RingSize

\* The background task's operation agrees with the ring, whatever the interrupt
\* routine did since it began: what was free for it is still free, what was
\* there for it is still there.
CqOpOK ==
  /\ cqOp \in [at : {"idle", "put.copy", "get.size", "get.copy"}, n : Nat, buf : Seq(Nat)]
  /\ cqOp.at # "idle" => cqCap > 0
  /\ cqOp.at = "put.copy" =>
       /\ cqIsr = "get"
       /\ CqSize + cqOp.n < cqCap
       /\ cqSent + cqOp.n <= CqMaxItems
       /\ Len(cqOp.buf) <= cqOp.n
       /\ \A i \in 1..Len(cqOp.buf) : cqRing[CqAdvance(cqPut, i - 1)] = cqSent + i
  /\ cqOp.at \in {"get.size", "get.copy"} => cqIsr = "put"
  /\ cqOp.at = "get.size" => cqOp.buf = << >>
  /\ cqOp.at = "get.copy" =>
       /\ cqOp.n <= CqSize
       /\ Len(cqOp.buf) <= cqOp.n
       /\ \A i \in 1..Len(cqOp.buf) : cqOp.buf[i] = cqTaken + i

CqPointers == IF cqCap = 0 THEN cqPut = 0 /\ cqGet = 0
              ELSE cqPut \in 0..(cqCap - 1) /\ cqGet \in 0..(cqCap - 1)

CqInv == CqTypeOK /\ CqPointers /\ CqHolds /\ cqGot \in Seq(Nat) /\ CqDelivered /\ CqOpOK

LEMMA CqStart == CqInit => CqInv
<1> SUFFICES ASSUME CqInit
             PROVE  CqInv
  OBVIOUS
<1>1. << >> \in [0..(0 - 1) -> 0..CqMaxItems]
  OBVIOUS
<1>2. CqTypeOK
  <2>1. cqRing \in [0..(cqCap - 1) -> 0..CqMaxItems]
    BY <1>1 DEF CqInit
  <2>2. cqOp.at = "idle"
    BY DEF CqInit, CqIdle
  <2>3. /\ cqCap \in 0..CqMaxCap /\ cqPut \in 0..cqCap /\ cqGet \in 0..cqCap
        /\ cqSent \in 0..CqMaxItems /\ cqTaken \in 0..cqSent
    BY CqBounds DEF CqInit
  <2>4. cqBase \in CqBlocks \cup {"null", "static"} /\ cqOwn \in BOOLEAN
        /\ cqLive \subseteq CqBlocks /\ cqUntaken \subseteq CqBlocks
        /\ cqIsr \in {"put", "get"}
    BY DEF CqInit
  <2> QED
    BY <2>1, <2>2, <2>3, <2>4 DEF CqTypeOK
<1>3. CqOpOK
  BY DEF CqInit, CqOpOK, CqIdle
<1> QED
  BY <1>2, <1>3 DEF CqInit, CqInv, CqPointers, CqHolds, CqDelivered

LEMMA CqEmpties ==
  ASSUME CqInv, CqQuiet, NEW cap \in 0..CqMaxCap, CqEmptied(cap),
         cqBase' \in CqBlocks \cup {"null", "static"}, cqOwn' \in BOOLEAN,
         cqLive' \subseteq CqBlocks, cqUntaken' \subseteq CqBlocks
  PROVE  CqInv'
<1>1. /\ cqCap' = cap /\ cqRing' = [i \in 0..(cap - 1) |-> 0]
      /\ cqPut' = 0 /\ cqGet' = 0 /\ cqTaken' = cqSent /\ cqGot' = << >>
      /\ cqIsr' = cqIsr /\ cqOp' = CqIdle /\ cqSent' = cqSent
  BY DEF CqEmptied, CqQuiet
<1>2. CqTypeOK'
  BY <1>1, CqBounds DEF CqInv, CqTypeOK, CqIdle
<1>3. CqOpOK'
  BY <1>1 DEF CqOpOK, CqIdle
<1>4. CqPointers' /\ CqHolds' /\ CqDelivered' /\ cqGot' \in Seq(Nat)
  <2>1. cap \in Nat
    BY CqBounds
  <2>2. CqSize' = 0
    BY <1>1 DEF CqSize
  <2> QED
    BY <1>1, <1>2, <2>1, <2>2 DEF CqTypeOK, CqPointers, CqHolds, CqDelivered
<1> QED
  BY <1>2, <1>3, <1>4 DEF CqInv

\* The facts about the queue that every step of the two sides starts from.
LEMMA CqFacts ==
  ASSUME CqInv, cqCap > 0
  PROVE  LET sz == RingSize(cqCap, cqPut, cqGet) IN
         /\ cqCap \in Nat \ {0} /\ CqMaxItems \in Nat
         /\ cqPut \in 0..(cqCap - 1) /\ cqGet \in 0..(cqCap - 1)
         /\ cqSent \in 0..CqMaxItems /\ cqTaken \in 0..cqSent
         /\ cqRing \in [0..(cqCap - 1) -> 0..CqMaxItems]
         /\ sz = CqSize /\ sz = cqSent - cqTaken /\ sz \in 0..(cqCap - 1)
         /\ \A i \in 1..sz : cqRing[RingAt(cqCap, cqGet, i - 1)] = cqTaken + i
<1>1. cqCap \in Nat \ {0} /\ CqMaxItems \in Nat
  BY CqBounds DEF CqInv, CqTypeOK
<1>2. cqPut \in 0..(cqCap - 1) /\ cqGet \in 0..(cqCap - 1)
  BY <1>1 DEF CqInv, CqPointers
<1> QED
  BY <1>1, <1>2, CqAsRing, RingSizes DEF CqInv, CqTypeOK, CqHolds

\* put_ moves over m cells that hold the next items: the background task's
\* publication, and the interrupt routine's put.
LEMMA CqPuts ==
  ASSUME CqInv, cqCap > 0, NEW m \in Nat, CqSize + m < cqCap, cqSent + m <= CqMaxItems,
         cqPut' = CqAdvance(cqPut, m), cqSent' = cqSent + m,
         cqRing' \in [0..(cqCap - 1) -> 0..CqMaxItems],
         \A i \in 1..m : cqRing'[CqAdvance(cqPut, i - 1)] = cqSent + i,
         \A i \in 1..CqSize : cqRing'[CqAdvance(cqGet, i - 1)] = cqRing[CqAdvance(cqGet, i - 1)],
         UNCHANGED <<cqCap, cqGet, cqTaken, cqGot>>
  PROVE  /\ CqSize' = CqSize + m
         /\ CqPointers' /\ CqHolds' /\ cqGot' \in Seq(Nat) /\ CqDelivered'
         /\ cqPut' \in 0..cqCap /\ cqSent' \in 0..CqMaxItems /\ cqTaken' \in 0..cqSent'
<1> DEFINE sz == RingSize(cqCap, cqPut, cqGet)
<1>1. /\ cqCap \in Nat \ {0} /\ CqMaxItems \in Nat
      /\ cqPut \in 0..(cqCap - 1) /\ cqGet \in 0..(cqCap - 1)
      /\ cqSent \in 0..CqMaxItems /\ cqTaken \in 0..cqSent
      /\ sz = CqSize /\ sz = cqSent - cqTaken /\ sz \in 0..(cqCap - 1)
      /\ \A i \in 1..sz : cqRing[RingAt(cqCap, cqGet, i - 1)] = cqTaken + i
  BY CqFacts
<1>2. m \in 0..(cqCap - 1 - sz) /\ m \in 0..(cqCap - 1)
  BY <1>1
<1>3. cqPut' = RingAt(cqCap, cqPut, m) /\ cqPut = RingAt(cqCap, cqGet, sz)
  BY <1>1, CqAsRing, RingSizes
<1>4. cqPut' \in 0..(cqCap - 1)
  BY <1>1, <1>2, <1>3, RingOffsets
<1>5. CqSize' = RingSize(cqCap, cqPut', cqGet)
  BY DEF CqSize, RingSize
<1>6. CqSize' = sz + m
  <2>1. RingSize(cqCap, RingAt(cqCap, cqPut, m), cqGet) = sz + m
    BY <1>1, <1>2, RingSizes, ZenonT(60)
  <2> QED
    BY <1>3, <1>5, <2>1, Zenon
<1>7. ASSUME NEW i \in 1..(sz + m)
      PROVE  cqRing'[RingAt(cqCap, cqGet, i - 1)] = cqTaken + i
  <2>1. CASE i \in 1..sz
    BY <1>1, <2>1, CqAsRing
  <2>2. CASE i \in (sz + 1)..(sz + m)
    <3>1. i - sz \in 1..m /\ i - sz - 1 \in 0..(cqCap - 1) /\ sz + (i - sz - 1) = i - 1
      BY <1>1, <1>2, <2>2
    <3>2. RingAt(cqCap, cqPut, i - sz - 1) = RingAt(cqCap, cqGet, i - 1)
      BY <1>1, <1>2, <1>3, <3>1, RingOffsets, SMTT(30)
    <3>3. cqRing'[RingAt(cqCap, cqPut, i - sz - 1)] = cqSent + (i - sz)
      BY <3>1, CqAsRing
    <3> QED
      BY <1>1, <3>1, <3>2, <3>3
  <2> QED
    BY <1>1, <1>2, <2>1, <2>2
<1>8. CqHolds'
  <2>2. CqSize' = cqSent' - cqTaken' /\ CqSize' < cqCap'
    BY <1>1, <1>2, <1>6
  <2>3. \A i \in 1..CqSize' : cqRing'[RingAt(cqCap, cqGet, i - 1)] = cqTaken + i
    BY <1>6, <1>7
  <2>4. \A p, n : (IF n < cqCap' - p THEN p + n ELSE n - (cqCap' - p)) = RingAt(cqCap, p, n)
    BY DEF RingAt
  <2> HIDE DEF sz
  <2> QED
    BY <2>2, <2>3, <2>4 DEF CqHolds, CqAdvance
<1> QED
  BY <1>1, <1>2, <1>4, <1>6, <1>8, SMTT(30) DEF CqInv, CqPointers, CqDelivered

\* get_ moves over m cells.
LEMMA CqGets ==
  ASSUME CqInv, cqCap > 0, NEW m \in 0..CqSize,
         cqGet' = CqAdvance(cqGet, m), cqTaken' = cqTaken + m,
         cqGot' \in Seq(Nat), Len(cqGot') = m, \A i \in 1..m : cqGot'[i] = cqTaken + i,
         UNCHANGED <<cqCap, cqRing, cqPut, cqSent>>
  PROVE  /\ CqSize' = CqSize - m
         /\ CqPointers' /\ CqHolds' /\ CqDelivered'
         /\ cqGet' \in 0..cqCap /\ cqTaken' \in 0..cqSent
<1> DEFINE sz == RingSize(cqCap, cqPut, cqGet)
<1>1. /\ cqCap \in Nat \ {0} /\ CqMaxItems \in Nat
      /\ cqPut \in 0..(cqCap - 1) /\ cqGet \in 0..(cqCap - 1)
      /\ cqSent \in 0..CqMaxItems /\ cqTaken \in 0..cqSent
      /\ sz = CqSize /\ sz = cqSent - cqTaken /\ sz \in 0..(cqCap - 1)
      /\ \A i \in 1..sz : cqRing[RingAt(cqCap, cqGet, i - 1)] = cqTaken + i
  BY CqFacts
<1>2. m \in 0..sz /\ m \in 0..(cqCap - 1)
  BY <1>1
<1>3. cqGet' = RingAt(cqCap, cqGet, m)
  BY CqAsRing
<1>4. cqGet' \in 0..(cqCap - 1)
  BY <1>1, <1>2, <1>3, RingOffsets
<1>5. CqSize' = RingSize(cqCap, cqPut, cqGet')
  BY DEF CqSize, RingSize
<1>6. CqSize' = sz - m
  <2>1. \A k \in 0..sz : RingSize(cqCap, cqPut, RingAt(cqCap, cqGet, k)) = sz - k
    BY <1>1, RingSizes, Zenon
  <2>2. RingSize(cqCap, cqPut, RingAt(cqCap, cqGet, m)) = sz - m
    BY <1>2, <2>1
  <2> QED
    BY <1>3, <1>5, <2>2, Zenon
<1>7. ASSUME NEW i \in 1..(sz - m)
      PROVE  cqRing[RingAt(cqCap, cqGet', i - 1)] = cqTaken' + i
  <2>1. m + i \in 1..sz /\ i - 1 \in 0..(cqCap - 1) /\ m + (i - 1) = (m + i) - 1
        /\ m + (i - 1) < cqCap
    BY <1>1, <1>2
  <2>2. RingAt(cqCap, cqGet', i - 1) = RingAt(cqCap, cqGet, (m + i) - 1)
    BY <1>1, <1>2, <1>3, <2>1, RingOffsets
  <2>3. cqRing[RingAt(cqCap, cqGet, (m + i) - 1)] = cqTaken + (m + i)
    BY <1>1, <2>1
  <2>4. cqTaken + (m + i) = cqTaken' + i
    BY <1>1, <1>2
  <2> QED
    BY <2>2, <2>3, <2>4, Zenon
<1>8. CqHolds'
  <2>2. CqSize' = cqSent' - cqTaken' /\ CqSize' < cqCap'
    BY <1>1, <1>2, <1>6
  <2>3. \A i \in 1..CqSize' : cqRing[RingAt(cqCap, cqGet', i - 1)] = cqTaken' + i
    BY <1>6, <1>7
  <2>4. \A p, n : (IF n < cqCap' - p THEN p + n ELSE n - (cqCap' - p)) = RingAt(cqCap, p, n)
    BY DEF RingAt
  <2> HIDE DEF sz
  <2> QED
    BY <2>2, <2>3, <2>4 DEF CqHolds, CqAdvance
<1>9. CqDelivered'
  BY <1>1, <1>2 DEF CqDelivered
<1> QED
  BY <1>1, <1>2, <1>4, <1>6, <1>8, <1>9 DEF CqPointers

\* A step of the background task that moves no pointer and writes no cell.
LEMMA CqLooks ==
  ASSUME CqInv, UNCHANGED <<cqMemory, cqRing, cqPut, cqGet, cqSent, cqTaken, cqGot>>,
         CqOpOK'
  PROVE  CqInv'
<1>1. CqTypeOK'
  <2>1. cqOp'.at \in {"idle", "put.copy", "get.size", "get.copy"}
    BY DEF CqOpOK
  <2> QED
    BY <2>1 DEF CqInv, CqTypeOK, cqMemory
<1>2. CqPointers' /\ (cqGot \in Seq(Nat))' /\ CqDelivered'
  BY DEF CqInv, CqPointers, CqDelivered, cqMemory
<1>3. CqHolds'
  BY DEF CqInv, CqHolds, CqSize, CqAdvance, cqMemory
<1> QED
  BY <1>1, <1>2, <1>3 DEF CqInv

LEMMA CqPutRoomKept == ASSUME CqInv, NEW n \in 1..CqMaxCap, CqPutRoom(n) PROVE CqInv'
<1>1. /\ cqCap \in Nat \ {0} /\ CqMaxItems \in Nat /\ CqSize \in 0..(cqCap - 1)
      /\ cqSent \in 0..CqMaxItems
  BY CqFacts DEF CqPutRoom
<1>2. PICK k \in Nat : k = CqLeast(n, CqRemaining) /\ k <= n /\ CqSize + k < cqCap
  <2>1. n \in Nat /\ CqRemaining \in Int /\ CqRemaining = cqCap - CqSize - 1
    BY <1>1, CqBounds DEF CqRemaining
  <2>2. CqLeast(n, CqRemaining) > 0
    BY DEF CqPutRoom
  <2>3. \E k \in Nat : k = CqLeast(n, CqRemaining) /\ k <= n /\ k <= CqRemaining
    BY <2>1, <2>2 DEF CqLeast
  <2> QED
    BY <1>1, <2>1, <2>3
<1>3. cqOp' = [at |-> "put.copy", n |-> k, buf |-> << >>]
  BY <1>2 DEF CqPutRoom
<1>4. /\ cqSent + n <= CqMaxItems /\ cqIsr = "get"
      /\ UNCHANGED <<cqMemory, cqRing, cqPut, cqGet, cqSent, cqTaken, cqGot>>
  BY DEF CqPutRoom
<1>5. CqSize' = CqSize /\ cqCap' = cqCap /\ cqIsr' = cqIsr
  BY <1>4 DEF CqSize, cqMemory
<1>6. cqSent' + k <= CqMaxItems
  BY <1>1, <1>2, <1>4, CqBounds
<1>7. CqOpOK'
  BY <1>1, <1>2, <1>3, <1>4, <1>5, <1>6 DEF CqOpOK
<1> QED
  BY <1>4, <1>7, CqLooks

LEMMA CqGetTestKept == ASSUME CqInv, NEW n \in 1..CqMaxCap, CqGetTest(n) PROVE CqInv'
<1>1. CqOpOK'
  BY CqBounds DEF CqInv, CqOpOK, CqGetTest, cqMemory
<1> QED
  BY <1>1, CqLooks DEF CqGetTest

LEMMA CqGetSizeKept == ASSUME CqInv, CqGetSize PROVE CqInv'
<1>1. cqCap > 0 /\ cqIsr = "put" /\ cqOp.n \in Nat /\ cqOp.buf = << >>
  BY DEF CqInv, CqOpOK, CqGetSize
<1>2. CqSize \in Nat
  BY <1>1, CqFacts
<1>3. PICK k \in Nat : k = CqLeast(cqOp.n, CqSize) /\ k <= CqSize
  BY <1>1, <1>2 DEF CqLeast
<1>4. /\ cqOp' = [[cqOp EXCEPT !.at = "get.copy"] EXCEPT !.n = k]
      /\ UNCHANGED <<cqMemory, cqRing, cqPut, cqGet, cqSent, cqTaken, cqGot>>
  BY <1>3 DEF CqGetSize
<1>5. CqSize' = CqSize /\ cqCap' = cqCap /\ cqIsr' = cqIsr
  BY <1>4 DEF CqSize, cqMemory
<1>6. cqOp' = [at |-> "get.copy", n |-> k, buf |-> << >>]
  BY <1>1, <1>4 DEF CqInv, CqOpOK
<1>7. CqOpOK'
  BY <1>1, <1>3, <1>5, <1>6 DEF CqOpOK
<1> QED
  BY <1>4, <1>7, CqLooks

LEMMA CqGetCopyKept == ASSUME CqInv, CqGetCopy PROVE CqInv'
<1>1. /\ cqOp.at = "get.copy" /\ cqCap > 0 /\ cqIsr = "put" /\ cqOp.n \in Nat
      /\ cqOp.buf \in Seq(Nat) /\ cqOp.n <= CqSize /\ Len(cqOp.buf) < cqOp.n
      /\ \A i \in 1..Len(cqOp.buf) : cqOp.buf[i] = cqTaken + i
      /\ cqOp \in [at : {"idle", "put.copy", "get.size", "get.copy"}, n : Nat, buf : Seq(Nat)]
  BY DEF CqInv, CqOpOK, CqGetCopy
<1>2. PICK k \in Nat : k = Len(cqOp.buf)
  BY <1>1
<1>3. PICK x : x = cqTaken + (k + 1)
  OBVIOUS
<1>4. cqRing[CqAdvance(cqGet, k)] = x /\ x \in Nat
  <2>1. cqTaken \in Nat /\ CqSize \in Nat
        /\ \A i \in 1..CqSize : cqRing[RingAt(cqCap, cqGet, i - 1)] = cqTaken + i
    BY <1>1, CqFacts
  <2>2. k < CqSize
    BY <1>1, <1>2, <2>1
  <2>3. k + 1 \in 1..CqSize /\ (k + 1) - 1 = k
    BY <2>1, <2>2
  <2>4. cqRing[RingAt(cqCap, cqGet, k)] = x
    BY <1>3, <2>1, <2>3
  <2> QED
    BY <1>3, <2>1, <2>4, CqAsRing
<1>5. PICK b \in Seq(Nat) : /\ b = Append(cqOp.buf, x) /\ Len(b) = k + 1
                            /\ \A i \in 1..(k + 1) : b[i] = cqTaken + i
  <2>1. PICK c \in Seq(Nat) : c = cqOp.buf
    BY <1>1
  <2>2. \A i \in 1..k : c[i] = cqTaken + i
    BY <1>1, <1>2, <2>1
  <2>3. /\ Append(c, x) \in Seq(Nat) /\ Len(Append(c, x)) = k + 1
        /\ \A i \in 1..k : Append(c, x)[i] = c[i]
        /\ Append(c, x)[k + 1] = x
    BY <1>2, <1>4, <2>1
  <2>4. \A i \in 1..(k + 1) : Append(c, x)[i] = cqTaken + i
    BY <1>3, <2>2, <2>3
  <2> QED
    BY <2>1, <2>3, <2>4
<1>6. /\ cqOp' = [cqOp EXCEPT !.buf = b]
      /\ UNCHANGED <<cqMemory, cqRing, cqPut, cqGet, cqSent, cqTaken, cqGot>>
  BY <1>2, <1>4, <1>5 DEF CqGetCopy
<1>7. CqSize' = CqSize /\ cqCap' = cqCap /\ cqIsr' = cqIsr
  BY <1>6 DEF CqSize, cqMemory
<1>8. cqOp' = [at |-> "get.copy", n |-> cqOp.n, buf |-> b]
  BY <1>1, <1>6
<1>9. CqOpOK'
  <2>1. Len(b) <= cqOp.n /\ cqTaken' = cqTaken
    BY <1>1, <1>2, <1>5, <1>6
  <2> QED
    BY <1>1, <1>5, <1>7, <1>8, <2>1 DEF CqOpOK
<1> QED
  BY <1>6, <1>9, CqLooks

\* The cell written is one that size() does not count, nor one written before.
LEMMA CqPutCopyKept == ASSUME CqInv, CqPutCopy PROVE CqInv'
<1> DEFINE sz == RingSize(cqCap, cqPut, cqGet)
<1>1. /\ cqOp.at = "put.copy" /\ cqCap > 0 /\ cqIsr = "get" /\ cqOp.n \in Nat
      /\ cqOp.buf \in Seq(Nat) /\ CqSize + cqOp.n < cqCap /\ Len(cqOp.buf) < cqOp.n
      /\ cqSent + cqOp.n <= CqMaxItems
      /\ \A i \in 1..Len(cqOp.buf) : cqRing[CqAdvance(cqPut, i - 1)] = cqSent + i
      /\ cqOp \in [at : {"idle", "put.copy", "get.size", "get.copy"}, n : Nat, buf : Seq(Nat)]
  BY DEF CqInv, CqOpOK, CqPutCopy
<1>2. /\ cqCap \in Nat \ {0} /\ CqMaxItems \in Nat
      /\ cqPut \in 0..(cqCap - 1) /\ cqGet \in 0..(cqCap - 1)
      /\ cqSent \in 0..CqMaxItems /\ cqTaken \in 0..cqSent
      /\ cqRing \in [0..(cqCap - 1) -> 0..CqMaxItems]
      /\ sz = CqSize /\ sz = cqSent - cqTaken /\ sz \in 0..(cqCap - 1)
      /\ \A i \in 1..sz : cqRing[RingAt(cqCap, cqGet, i - 1)] = cqTaken + i
  BY <1>1, CqFacts
<1>3. PICK k \in Nat : k = Len(cqOp.buf)
  BY <1>1
<1>4. PICK x : x = cqSent + k + 1
  OBVIOUS
<1>5. PICK s : s = RingAt(cqCap, cqPut, k)
  OBVIOUS
<1>6. x \in 0..CqMaxItems /\ x \in Nat /\ k \in 0..(cqCap - 1) /\ sz + k \in 0..(cqCap - 1)
  <2>1. k < cqOp.n /\ cqOp.n \in Nat /\ sz + cqOp.n < cqCap /\ cqSent + cqOp.n <= CqMaxItems
    BY <1>1, <1>2, <1>3
  <2> HIDE DEF sz
  <2> QED
    BY <1>2, <1>4, <2>1, SMTT(30)
<1>7. s \in 0..(cqCap - 1) /\ s = RingAt(cqCap, cqGet, sz + k)
  <2>1. cqPut = RingAt(cqCap, cqGet, sz)
    BY <1>2, RingSizes
  <2>2. RingAt(cqCap, RingAt(cqCap, cqGet, sz), k) = RingAt(cqCap, cqGet, sz + k)
    BY <1>2, <1>6, RingOffsets
  <2> QED
    BY <1>2, <1>5, <1>6, <2>1, <2>2, RingOffsets
<1>8. /\ cqRing' = [cqRing EXCEPT ![s] = x]
      /\ cqOp' = [cqOp EXCEPT !.buf = Append(cqOp.buf, x)]
      /\ UNCHANGED <<cqMemory, cqPut, cqGet, cqSent, cqTaken, cqGot>>
  BY <1>3, <1>4, <1>5, CqAsRing DEF CqPutCopy
<1>9. CqSize' = CqSize /\ cqCap' = cqCap /\ cqIsr' = cqIsr
  BY <1>8 DEF CqSize, cqMemory
<1>10. ASSUME NEW i \in 1..sz
       PROVE  cqRing'[RingAt(cqCap, cqGet, i - 1)] = cqTaken + i
  <2>1. i - 1 \in 0..(cqCap - 1) /\ i - 1 # sz + k
    BY <1>2, <1>3, SMTT(30)
  <2>2. RingAt(cqCap, cqGet, i - 1) # s /\ RingAt(cqCap, cqGet, i - 1) \in 0..(cqCap - 1)
    <3>1. /\ \A j \in 0..(cqCap - 1) : RingAt(cqCap, cqGet, j) \in 0..(cqCap - 1)
          /\ \A j, l \in 0..(cqCap - 1) :
               RingAt(cqCap, cqGet, j) = RingAt(cqCap, cqGet, l) => j = l
      <4>1. cqCap \in Nat /\ cqGet \in 0..(cqCap - 1)
        BY <1>2
      <4> QED
        BY <4>1, RingOffsets, ZenonT(60)
    <3> HIDE DEF sz
    <3> QED
      BY <1>6, <1>7, <2>1, <3>1
  <2> QED
    BY <1>2, <1>8, <2>2
<1>11. ASSUME NEW i \in 1..(k + 1)
       PROVE  cqRing'[RingAt(cqCap, cqPut, i - 1)] = cqSent + i
  <2>1. CASE i = k + 1
    <3>1. i - 1 = k /\ cqSent + i = x
      BY <1>2, <1>3, <1>4, <2>1
    <3> QED
      BY <1>2, <1>5, <1>7, <1>8, <3>1
  <2>2. CASE i \in 1..k
    <3>1. i - 1 \in 0..(cqCap - 1) /\ i - 1 # k
      BY <1>2, <1>6, <2>2
    <3>2. RingAt(cqCap, cqPut, i - 1) # s /\ RingAt(cqCap, cqPut, i - 1) \in 0..(cqCap - 1)
      <4>1. /\ \A j \in 0..(cqCap - 1) : RingAt(cqCap, cqPut, j) \in 0..(cqCap - 1)
            /\ \A j, l \in 0..(cqCap - 1) :
                 RingAt(cqCap, cqPut, j) = RingAt(cqCap, cqPut, l) => j = l
        <5>1. cqCap \in Nat /\ cqPut \in 0..(cqCap - 1)
          BY <1>2
        <5> QED
          BY <5>1, RingOffsets, ZenonT(60)
      <4> QED
        BY <1>5, <1>6, <3>1, <4>1
    <3>3. cqRing[RingAt(cqCap, cqPut, i - 1)] = cqSent + i
      BY <1>1, <1>3, <2>2, CqAsRing
    <3> QED
      BY <1>2, <1>8, <3>2, <3>3
  <2> QED
    BY <2>1, <2>2
<1>12. CqHolds'
  <2>1. \A i \in 1..CqSize' : cqRing'[RingAt(cqCap, cqGet, i - 1)] = cqTaken + i
    BY <1>2, <1>9, <1>10
  <2>2. \A p, n : (IF n < cqCap' - p THEN p + n ELSE n - (cqCap' - p)) = RingAt(cqCap, p, n)
    BY <1>9 DEF RingAt
  <2>3. CqSize' = cqSent' - cqTaken' /\ CqSize' < cqCap' /\ cqGet' = cqGet /\ cqTaken' = cqTaken
    <3> HIDE DEF sz
    <3>1. sz = cqSent - cqTaken /\ CqSize' = sz /\ sz \in 0..(cqCap - 1) /\ cqCap \in Nat \ {0}
      BY <1>2, <1>9, Zenon
    <3> QED
      BY <1>8, <1>9, <3>1
  <2> HIDE DEF sz
  <2> QED
    BY <2>1, <2>2, <2>3 DEF CqHolds, CqAdvance
<1>13. CqOpOK'
  <2>1. PICK b \in Seq(Nat) : b = Append(cqOp.buf, x) /\ Len(b) = k + 1
    <3>1. PICK c \in Seq(Nat) : c = cqOp.buf
      BY <1>1
    <3>2. Append(c, x) \in Seq(Nat) /\ Len(Append(c, x)) = k + 1
      BY <1>3, <1>6, <3>1
    <3> QED
      BY <3>1, <3>2
  <2>2. cqOp' = [at |-> "put.copy", n |-> cqOp.n, buf |-> b]
    BY <1>1, <1>8, <2>1
  <2>3. \A p, n : (IF n < cqCap' - p THEN p + n ELSE n - (cqCap' - p)) = RingAt(cqCap, p, n)
    BY <1>9 DEF RingAt
  <2>4. \A i \in 1..Len(cqOp'.buf) : cqRing'[CqAdvance(cqPut, i - 1)'] = cqSent' + i
    BY <1>8, <1>11, <2>1, <2>2, <2>3 DEF CqAdvance
  <2>5. /\ CqSize' + cqOp'.n < cqCap' /\ cqSent' + cqOp'.n <= CqMaxItems
        /\ Len(cqOp'.buf) <= cqOp'.n /\ cqCap' > 0 /\ cqIsr' = "get"
    BY <1>1, <1>3, <1>8, <1>9, <2>1, <2>2
  <2> HIDE DEF sz
  <2> QED
    BY <1>1, <2>1, <2>2, <2>4, <2>5 DEF CqOpOK
<1>14. CqTypeOK' /\ CqPointers' /\ (cqGot \in Seq(Nat))' /\ CqDelivered'
  <2>1. cqOp'.at = "put.copy" /\ cqRing' \in [0..(cqCap' - 1) -> 0..CqMaxItems]
    BY <1>1, <1>2, <1>6, <1>7, <1>8, <1>9
  <2> QED
    BY <1>8, <2>1 DEF CqInv, CqTypeOK, CqPointers, CqDelivered, cqMemory
<1> QED
  BY <1>12, <1>13, <1>14 DEF CqInv

LEMMA CqPutPublishKept == ASSUME CqInv, CqPutPublish PROVE CqInv'
<1>1. /\ cqOp.at = "put.copy" /\ cqCap > 0 /\ cqIsr = "get" /\ cqOp.n \in Nat
      /\ CqSize + cqOp.n < cqCap /\ Len(cqOp.buf) = cqOp.n
      /\ cqSent + cqOp.n <= CqMaxItems
      /\ \A i \in 1..Len(cqOp.buf) : cqRing[CqAdvance(cqPut, i - 1)] = cqSent + i
  BY DEF CqInv, CqOpOK, CqPutPublish
<1>2. /\ cqPut' = CqAdvance(cqPut, cqOp.n) /\ cqSent' = cqSent + cqOp.n /\ cqOp' = CqIdle
      /\ UNCHANGED <<cqMemory, cqRing, cqGet, cqTaken, cqGot>>
  BY DEF CqPutPublish
<1>3. PICK m \in Nat : m = cqOp.n
  BY <1>1
<1>4. /\ CqPointers' /\ CqHolds' /\ (cqGot \in Seq(Nat))' /\ CqDelivered'
      /\ cqPut' \in 0..cqCap /\ cqSent' \in 0..CqMaxItems /\ cqTaken' \in 0..cqSent'
  <2>1. /\ cqRing' \in [0..(cqCap - 1) -> 0..CqMaxItems]
        /\ \A i \in 1..m : cqRing'[CqAdvance(cqPut, i - 1)] = cqSent + i
        /\ cqRing' = cqRing
        /\ UNCHANGED <<cqCap, cqGet, cqTaken, cqGot>>
    BY <1>1, <1>2, <1>3 DEF CqInv, CqTypeOK, cqMemory
  <2>2. CqSize + m < cqCap /\ cqSent + m <= CqMaxItems
        /\ cqPut' = CqAdvance(cqPut, m) /\ cqSent' = cqSent + m
    BY <1>1, <1>2, <1>3
  <2> QED
    BY <1>1, <2>1, <2>2, CqPuts
<1>5. CqTypeOK' /\ CqOpOK'
  BY <1>1, <1>2, <1>4 DEF CqInv, CqTypeOK, CqOpOK, CqIdle, cqMemory
<1> QED
  BY <1>4, <1>5 DEF CqInv

LEMMA CqGetPublishKept == ASSUME CqInv, CqGetPublish PROVE CqInv'
<1>1. /\ cqOp.at = "get.copy" /\ cqCap > 0 /\ cqOp.n \in Nat /\ cqOp.buf \in Seq(Nat)
      /\ cqOp.n <= CqSize /\ Len(cqOp.buf) = cqOp.n
      /\ \A i \in 1..Len(cqOp.buf) : cqOp.buf[i] = cqTaken + i
  BY DEF CqInv, CqOpOK, CqGetPublish
<1>2. /\ cqGet' = CqAdvance(cqGet, cqOp.n) /\ cqTaken' = cqTaken + cqOp.n
      /\ cqGot' = cqOp.buf /\ cqOp' = CqIdle
      /\ UNCHANGED <<cqMemory, cqRing, cqPut, cqSent>>
  BY DEF CqGetPublish
<1>3. CqSize \in Nat
  BY <1>1, CqFacts
<1>4. PICK m \in 0..CqSize : m = cqOp.n
  BY <1>1, <1>3
<1>5. /\ CqPointers' /\ CqHolds' /\ CqDelivered'
      /\ cqGet' \in 0..cqCap /\ cqTaken' \in 0..cqSent
  <2>1. /\ cqGot' \in Seq(Nat) /\ Len(cqGot') = m /\ \A i \in 1..m : cqGot'[i] = cqTaken + i
        /\ UNCHANGED <<cqCap, cqRing, cqPut, cqSent>>
    BY <1>1, <1>2, <1>4 DEF cqMemory
  <2>2. cqGet' = CqAdvance(cqGet, m) /\ cqTaken' = cqTaken + m
    BY <1>2, <1>4
  <2> QED
    BY <1>1, <2>1, <2>2, CqGets
<1>6. CqTypeOK' /\ CqOpOK' /\ (cqGot \in Seq(Nat))'
  BY <1>1, <1>2, <1>5 DEF CqInv, CqTypeOK, CqOpOK, CqIdle, cqMemory
<1> QED
  BY <1>5, <1>6 DEF CqInv

\* What the background task has begun to get is still what stands first.
LEMMA CqIsrPutKept == ASSUME CqInv, NEW n \in 1..CqMaxCap, CqIsrPut(n) PROVE CqInv'
<1> DEFINE sz == RingSize(cqCap, cqPut, cqGet)
<1>1. cqIsr = "put" /\ cqCap > 0 /\ CqLeast(n, CqRemaining) > 0
      /\ cqSent + n <= CqMaxItems
  BY DEF CqIsrPut
<1>2. /\ cqCap \in Nat \ {0} /\ cqCap \in Nat /\ CqMaxItems \in Nat
      /\ cqPut \in 0..(cqCap - 1) /\ cqGet \in 0..(cqCap - 1)
      /\ cqSent \in 0..CqMaxItems /\ cqTaken \in 0..cqSent
      /\ cqRing \in [0..(cqCap - 1) -> 0..CqMaxItems]
      /\ sz = CqSize /\ sz \in 0..(cqCap - 1)
  BY <1>1, CqFacts
<1>3. PICK m \in Nat : /\ m = CqLeast(n, CqRemaining) /\ m > 0 /\ CqSize + m < cqCap
                       /\ cqSent + m <= CqMaxItems
  <2>1. n \in Nat /\ CqRemaining \in Int /\ CqRemaining = cqCap - CqSize - 1 /\ CqSize \in Nat
    BY <1>2, CqBounds DEF CqRemaining
  <2>3. \E k \in Nat : k = CqLeast(n, CqRemaining) /\ k > 0 /\ k <= n /\ k <= CqRemaining
    BY <1>1, <2>1 DEF CqLeast
  <2> QED
    BY <1>1, <1>2, <2>1, <2>3
<1>4. /\ cqRing' = [s \in DOMAIN cqRing |->
                     IF \E i \in 0..(m - 1) : s = RingAt(cqCap, cqPut, i)
                     THEN cqSent + 1 + CHOOSE i \in 0..(m - 1) : s = RingAt(cqCap, cqPut, i)
                     ELSE cqRing[s]]
      /\ cqPut' = CqAdvance(cqPut, m) /\ cqSent' = cqSent + m
      /\ UNCHANGED <<cqMemory, cqGet, cqOp, cqTaken, cqGot>>
  BY <1>3, CqAsRing DEF CqIsrPut
<1>5. m - 1 \in 0..(cqCap - 1) /\ DOMAIN cqRing = 0..(cqCap - 1)
  <2> HIDE DEF sz
  <2>1. m < cqCap - sz /\ m > 0
    BY <1>2, <1>3
  <2> QED
    BY <1>2, <2>1
<1>6. /\ \A j \in 0..(cqCap - 1) : RingAt(cqCap, cqPut, j) \in 0..(cqCap - 1)
      /\ \A j, l \in 0..(cqCap - 1) : RingAt(cqCap, cqPut, j) = RingAt(cqCap, cqPut, l) => j = l
  <2>1. cqCap \in Nat /\ cqPut \in 0..(cqCap - 1)
    BY <1>2, Zenon
  <2> QED
    BY <2>1, RingOffsets, ZenonT(60)
<1>7. ASSUME NEW i \in 0..(m - 1)
      PROVE  cqRing'[RingAt(cqCap, cqPut, i)] = cqSent + 1 + i
  <2>1. PICK s : s = RingAt(cqCap, cqPut, i)
    OBVIOUS
  <2>2. s \in 0..(cqCap - 1) /\ \A j \in 0..(m - 1) : s = RingAt(cqCap, cqPut, j) => j = i
    <3>1. \A j \in 0..(m - 1) : j \in 0..(cqCap - 1)
      BY <1>2, <1>3, <1>5
    <3> QED
      BY <1>6, <2>1, <3>1, Zenon
  <2>3. (CHOOSE j \in 0..(m - 1) : s = RingAt(cqCap, cqPut, j)) = i
    BY <2>1, <2>2
  <2>4. cqRing'[s] = cqSent + 1 + CHOOSE j \in 0..(m - 1) : s = RingAt(cqCap, cqPut, j)
    BY <1>4, <1>5, <2>1, <2>2
  <2> QED
    BY <2>1, <2>3, <2>4
<1>8. cqRing' \in [0..(cqCap - 1) -> 0..CqMaxItems]
  <2>1. ASSUME NEW s \in 0..(cqCap - 1)
        PROVE  cqRing'[s] \in 0..CqMaxItems
    <3>1. CASE \E i \in 0..(m - 1) : s = RingAt(cqCap, cqPut, i)
      <4>1. PICK i \in 0..(m - 1) : s = RingAt(cqCap, cqPut, i)
        BY <3>1
      <4>2. cqRing'[s] = cqSent + 1 + i
        BY <1>7, <4>1
      <4>3. cqSent + 1 + i \in 0..CqMaxItems
        BY <1>2, <1>3
      <4> QED
        BY <4>2, <4>3
    <3>2. CASE ~ \E i \in 0..(m - 1) : s = RingAt(cqCap, cqPut, i)
      BY <1>2, <1>4, <1>5, <3>2
    <3> QED
      BY <3>1, <3>2
  <2>2. cqRing' = [s \in 0..(cqCap - 1) |-> cqRing'[s]]
    BY <1>4, <1>5
  <2> QED
    BY <2>1, <2>2
<1>9. ASSUME NEW i \in 1..sz
      PROVE  cqRing'[RingAt(cqCap, cqGet, i - 1)] = cqRing[RingAt(cqCap, cqGet, i - 1)]
  <2>1. PICK s : s = RingAt(cqCap, cqGet, i - 1)
    OBVIOUS
  <2>2. /\ \A j \in 0..(cqCap - 1) : RingAt(cqCap, cqGet, j) \in 0..(cqCap - 1)
        /\ \A j, l \in 0..(cqCap - 1) : RingAt(cqCap, cqGet, j) = RingAt(cqCap, cqGet, l) => j = l
        /\ \A j, l \in 0..(cqCap - 1) : j + l < cqCap =>
             RingAt(cqCap, RingAt(cqCap, cqGet, j), l) = RingAt(cqCap, cqGet, j + l)
    <3>1. cqCap \in Nat /\ cqGet \in 0..(cqCap - 1)
      BY <1>2, Zenon
    <3> QED
      BY <3>1, RingOffsets, ZenonT(60)
  <2>3. cqPut = RingAt(cqCap, cqGet, sz)
    BY <1>2, RingSizes
  <2> HIDE DEF sz
  <2>4. i - 1 \in 0..(cqCap - 1) /\ i - 1 < sz
    BY <1>2
  <2>5. ASSUME NEW j \in 0..(m - 1)
        PROVE  s # RingAt(cqCap, cqPut, j)
    <3>1. j \in 0..(cqCap - 1) /\ sz + j \in 0..(cqCap - 1) /\ sz + j < cqCap /\ sz + j # i - 1
      <4>1. sz + m < cqCap /\ sz \in Nat /\ cqCap \in Nat
        BY <1>2, <1>3
      <4>2. j + 1 <= m /\ j \in Nat /\ i \in Int
        BY <1>3
      <4> QED
        BY <1>3, <2>4, <4>1, <4>2
    <3>2. RingAt(cqCap, cqPut, j) = RingAt(cqCap, cqGet, sz + j)
      BY <1>2, <2>2, <2>3, <3>1
    <3> QED
      BY <2>1, <2>2, <2>4, <3>1, <3>2
  <2>6. s \in DOMAIN cqRing
    BY <1>5, <2>1, <2>2, <2>4
  <2> QED
    BY <1>4, <2>1, <2>5, <2>6
<1>10. /\ CqSize' = CqSize + m
       /\ CqPointers' /\ CqHolds' /\ (cqGot \in Seq(Nat))' /\ CqDelivered'
       /\ cqPut' \in 0..cqCap /\ cqSent' \in 0..CqMaxItems /\ cqTaken' \in 0..cqSent'
  <2>1. ASSUME NEW i \in 1..m
        PROVE  cqRing'[CqAdvance(cqPut, i - 1)] = cqSent + i
    <3>1. i - 1 \in 0..(m - 1) /\ cqSent + 1 + (i - 1) = cqSent + i
      BY <1>2, <1>3
    <3>2. cqRing'[RingAt(cqCap, cqPut, i - 1)] = cqSent + 1 + (i - 1)
      BY <1>7, <3>1
    <3> QED
      BY <3>1, <3>2, CqAsRing
  <2>2. \A i \in 1..CqSize :
          cqRing'[CqAdvance(cqGet, i - 1)] = cqRing[CqAdvance(cqGet, i - 1)]
    BY <1>2, <1>9, CqAsRing
  <2>3. UNCHANGED <<cqCap, cqGet, cqTaken, cqGot>>
    BY <1>4 DEF cqMemory
  <2> QED
    BY <1>1, <1>3, <1>4, <1>8, <2>1, <2>2, <2>3, CqPuts
<1>11. CqTypeOK'
  BY <1>4, <1>8, <1>10 DEF CqInv, CqTypeOK, cqMemory
<1>12. CqOpOK'
  <2>1. cqOp' = cqOp /\ cqCap' = cqCap /\ cqIsr' = cqIsr /\ cqTaken' = cqTaken
    BY <1>4 DEF cqMemory
  <2>2. cqOp.at # "put.copy" /\ CqOpOK
    BY <1>1 DEF CqInv, CqOpOK
  <2>3. cqOp.at = "get.copy" => cqOp.n <= CqSize'
    <3>1. ASSUME cqOp.at = "get.copy" PROVE cqOp.n <= CqSize'
      <4>1. cqOp.n \in Nat /\ cqOp.n <= CqSize /\ CqSize \in Nat
        BY <1>2, <2>2, <3>1 DEF CqOpOK
      <4> QED
        BY <1>3, <1>10, <4>1
    <3> QED
      BY <3>1
  <2> HIDE DEF sz
  <2> QED
    BY <2>1, <2>2, <2>3 DEF CqOpOK
<1> QED
  BY <1>10, <1>11, <1>12 DEF CqInv

\* What the background task has begun to put is still free.
LEMMA CqIsrGetKept == ASSUME CqInv, NEW n \in 1..CqMaxCap, CqIsrGet(n) PROVE CqInv'
<1> DEFINE sz == RingSize(cqCap, cqPut, cqGet)
<1>1. cqIsr = "get" /\ CqLeast(n, CqSize) > 0 /\ n \in Nat
  BY CqBounds DEF CqIsrGet
<1>2. cqCap > 0
  <2>1. ASSUME cqCap = 0 PROVE FALSE
    <3>1. CqSize = 0
      BY <2>1 DEF CqInv, CqPointers, CqSize
    <3> QED
      BY <1>1, <3>1 DEF CqLeast
  <2> QED
    BY <2>1, CqBounds DEF CqInv, CqTypeOK
<1>3. /\ cqCap \in Nat \ {0} /\ cqCap \in Nat /\ CqMaxItems \in Nat
      /\ cqPut \in 0..(cqCap - 1) /\ cqGet \in 0..(cqCap - 1)
      /\ cqSent \in 0..CqMaxItems /\ cqTaken \in 0..cqSent
      /\ sz = CqSize /\ sz \in 0..(cqCap - 1)
      /\ \A i \in 1..sz : cqRing[RingAt(cqCap, cqGet, i - 1)] = cqTaken + i
  BY <1>2, CqFacts
<1>4. PICK m \in 0..CqSize : m = CqLeast(n, CqSize) /\ m > 0 /\ m \in Nat
  BY <1>1, <1>3 DEF CqLeast
<1>5. /\ cqGot' = [i \in 1..m |-> cqRing[RingAt(cqCap, cqGet, i - 1)]]
      /\ cqGet' = CqAdvance(cqGet, m) /\ cqTaken' = cqTaken + m
      /\ UNCHANGED <<cqMemory, cqRing, cqPut, cqOp, cqSent>>
  BY <1>4, CqAsRing DEF CqIsrGet
<1>6. cqGot' \in Seq(Nat) /\ Len(cqGot') = m /\ \A i \in 1..m : cqGot'[i] = cqTaken + i
  <2>1. \A i \in 1..m : cqRing[RingAt(cqCap, cqGet, i - 1)] = cqTaken + i
    BY <1>3, <1>4
  <2>2. \A i \in 1..m : cqTaken + i \in Nat
    BY <1>3, <1>4
  <2>3. cqGot' \in [1..m -> Nat] /\ \A i \in 1..m : cqGot'[i] = cqTaken + i
    BY <1>5, <2>1, <2>2
  <2> QED
    BY <1>4, <2>3
<1>7. /\ CqSize' = CqSize - m
      /\ CqPointers' /\ CqHolds' /\ CqDelivered'
      /\ cqGet' \in 0..cqCap /\ cqTaken' \in 0..cqSent
  <2>1. UNCHANGED <<cqCap, cqRing, cqPut, cqSent>>
    BY <1>5 DEF cqMemory
  <2> QED
    BY <1>2, <1>4, <1>5, <1>6, <2>1, CqGets
<1>8. CqTypeOK' /\ (cqGot \in Seq(Nat))'
  BY <1>5, <1>6, <1>7 DEF CqInv, CqTypeOK, cqMemory
<1>9. CqOpOK'
  <2>1. cqOp' = cqOp /\ cqCap' = cqCap /\ cqIsr' = cqIsr /\ cqPut' = cqPut
        /\ cqSent' = cqSent /\ cqRing' = cqRing
    BY <1>5 DEF cqMemory
  <2>2. cqOp.at \notin {"get.size", "get.copy"} /\ CqOpOK
    BY <1>1 DEF CqInv, CqOpOK
  <2>3. cqOp.at = "put.copy" => CqSize' + cqOp.n < cqCap
    <3>1. ASSUME cqOp.at = "put.copy" PROVE CqSize' + cqOp.n < cqCap
      <4>1. cqOp.n \in Nat /\ CqSize + cqOp.n < cqCap /\ CqSize \in Nat
        BY <1>3, <2>2, <3>1 DEF CqOpOK
      <4> QED
        BY <1>3, <1>4, <1>7, <4>1
    <3> QED
      BY <3>1
  <2>4. \A p, k : CqAdvance(p, k)' = CqAdvance(p, k)
    BY <2>1 DEF CqAdvance
  <2>5. cqOp.at = "put.copy" =>
          \A i \in 1..Len(cqOp.buf) : cqRing'[CqAdvance(cqPut, i - 1)'] = cqSent' + i
    BY <2>1, <2>2 DEF CqOpOK, CqAdvance
  <2> HIDE DEF sz
  <2> QED
    BY <2>1, <2>2, <2>3, <2>5 DEF CqOpOK
<1> QED
  BY <1>7, <1>8, <1>9 DEF CqInv

LEMMA CqKept == CqInv /\ [CqNext]_cqVars => CqInv'
<1> SUFFICES ASSUME CqInv, [CqNext]_cqVars
             PROVE  CqInv'
  OBVIOUS
<1>1. 0 \in 0..CqMaxCap /\ 1..CqMaxCap \subseteq 0..CqMaxCap
  BY CqBounds
<1>2. CqDealloc \subseteq CqBlocks /\ cqUntaken \subseteq CqBlocks
  BY DEF CqInv, CqTypeOK, CqDealloc
<1>3. ASSUME NEW c \in 1..CqMaxCap, CqResize(c)
      PROVE  CqInv'
  <2>1. cqBase' \in CqBlocks /\ cqLive' \subseteq CqBlocks /\ cqOwn' \in BOOLEAN
        /\ cqUntaken' \subseteq CqBlocks
    BY <1>2, <1>3 DEF CqResize
  <2> QED
    BY <1>1, <1>3, <2>1, CqEmpties DEF CqResize
<1>4. ASSUME NEW c \in 1..CqMaxCap, CqSet(c)
      PROVE  CqInv'
  <2>1. cqBase' \in CqBlocks \cup {"null", "static"} /\ cqLive' \subseteq CqBlocks
        /\ cqOwn' \in BOOLEAN /\ cqUntaken' \subseteq CqBlocks
    BY <1>2, <1>4 DEF CqSet
  <2> QED
    BY <1>1, <1>4, <2>1, CqEmpties DEF CqSet
<1>5. CASE CqSetEmpty \/ CqDestroy
  <2>1. cqBase' \in CqBlocks \cup {"null", "static"} /\ cqLive' \subseteq CqBlocks
        /\ cqOwn' \in BOOLEAN /\ cqUntaken' \subseteq CqBlocks
    BY <1>2, <1>5 DEF CqSetEmpty, CqDestroy
  <2>2. CqQuiet /\ CqEmptied(0)
    BY <1>5 DEF CqSetEmpty, CqDestroy
  <2> QED
    BY <1>1, <2>1, <2>2, CqEmpties
<1>6. CASE UNCHANGED cqVars
  <2>1. UNCHANGED <<cqMemory, cqRing, cqPut, cqGet, cqOp, cqSent, cqTaken, cqGot>>
    BY <1>6 DEF cqVars
  <2>2. CqOpOK'
    BY <2>1 DEF CqInv, CqOpOK, CqSize, CqAdvance, cqMemory
  <2> QED
    BY <2>1, <2>2, CqLooks
<1> QED
  BY <1>3, <1>4, <1>5, <1>6, CqPutRoomKept, CqGetTestKept, CqIsrPutKept, CqIsrGetKept,
     CqPutCopyKept, CqPutPublishKept, CqGetSizeKept, CqGetCopyKept, CqGetPublishKept, Zenon
     DEF CqNext

\* The circular queue of CtrlrFx/CircQueue.h keeps its promise to the interrupt
\* routine and to the background task, with no lock between them, at every
\* capacity: size() counts what was put and not got, those items stand in the
\* ring in order wherever it wraps, and each is delivered once, whole.
THEOREM RingInOrder == MCSpec => []CqInOrder
<1>1. MCInit => CqInv
  BY CqStart, Zenon DEF MCInit
<1>2. CqInv /\ [MCNext]_MCVars => CqInv'
  BY CqKept, StepOfPart, Zenon
<1>3. CqInv => CqInOrder
  BY DEF CqInv, CqInOrder
<1> QED
  BY <1>1, <1>2, <1>3, PTL DEF MCSpec, MCVars
=============================================================================
