--------------------------- MODULE RdWrLockProofs ---------------------------
(***************************************************************************)
(* Proofs about RdWrLock for any finite set of threads and any nesting of  *)
(* read locks.  The five invariants are inductive together: Exclusion      *)
(* needs Held to read the flags, Held needs Exclusion when a write lock is *)
(* demoted, and SleepersStopped needs OnePending to know that a writer     *)
(* that has been granted the lock was the only one behind wrwt_.           *)
(***************************************************************************)
EXTENDS RdWrLock, FiniteSetTheorems, TLAPS

IInv == TypeOK /\ Held /\ Exclusion /\ OnePending /\ SleepersStopped

\* Read locks are finitely many, and granting or releasing one moves their
\* number by one.
LEMMA ReadLockCount ==
  ASSUME TypeOK
  PROVE  /\ Cardinality(readLocks) \in Nat
         /\ Cardinality(readLocks) = 0 <=> readLocks = {}
         /\ \A x : x \notin readLocks =>
              Cardinality(readLocks \cup {x}) = Cardinality(readLocks) + 1
         /\ \A x \in readLocks :
              Cardinality(readLocks \ {x}) = Cardinality(readLocks) - 1
<1>1. IsFiniteSet(Threads \X (1..MaxNest))
  <2>1. 1 \in Int /\ MaxNest \in Int
    BY RWNest
  <2>2. IsFiniteSet(1..MaxNest)
    BY <2>1, FS_Interval
  <2> QED BY <2>2, RWThreads, FS_Product
<1>2. IsFiniteSet(readLocks)
  BY <1>1, FS_Subset DEF TypeOK
<1>3. Cardinality(readLocks) \in Nat
  BY <1>2, FS_CardinalityType
<1>4. Cardinality(readLocks) = 0 <=> readLocks = {}
  BY <1>2, FS_EmptySet
<1>5. ASSUME NEW x, x \notin readLocks
      PROVE  Cardinality(readLocks \cup {x}) = Cardinality(readLocks) + 1
  BY <1>2, <1>5, FS_AddElement
<1>6. ASSUME NEW x \in readLocks
      PROVE  Cardinality(readLocks \ {x}) = Cardinality(readLocks) - 1
  BY <1>2, FS_RemoveElement
<1> QED BY <1>3, <1>4, <1>5, <1>6

\* The invariant holds of a new lock.
LEMMA InitInv == Init => IInv
<1> SUFFICES ASSUME Init PROVE IInv
  OBVIOUS
<1>1. TypeOK
  BY DEF Init, TypeOK, PCs, Asleep
<1>2. Held
  BY FS_EmptySet DEF Init, Held
<1>3. Exclusion /\ OnePending /\ SleepersStopped
  BY DEF Init, Exclusion, OnePending, SleepersStopped
<1> QED BY <1>1, <1>2, <1>3 DEF IInv

\* A broadcast leaves nobody asleep and moves nobody between the stages of
\* wr_lock().
LEMMA BroadcastEffect ==
  ASSUME pc \in [Threads -> PCs], broadcast(pc)
  PROVE  /\ pc' \in [Threads -> PCs]
         /\ \A t \in Threads : pc'[t] \notin Asleep
         /\ \A t \in Threads : pc'[t] \in {"w2.asleep", "w2.awake"}
                                 <=> pc[t] \in {"w2.asleep", "w2.awake"}
BY DEF broadcast, WakeUp, PCs, Asleep

\* A signal wakes sleepers only, and moves nobody between the stages.
LEMMA SignalEffect ==
  ASSUME NEW f \in [Threads -> PCs], signal(f)
  PROVE  /\ pc' \in [Threads -> PCs]
         /\ \A t \in Threads : pc'[t] \in Asleep => pc'[t] = f[t]
         /\ \A t \in Threads : pc'[t] \in {"w2.asleep", "w2.awake"}
                                 <=> f[t] \in {"w2.asleep", "w2.awake"}
<1>1. CASE pc' = f
  BY <1>1
<1>2. CASE \E t \in Threads : f[t] \in Asleep /\ pc' = [f EXCEPT ![t] = WakeUp(f[t])]
  BY <1>2 DEF WakeUp, PCs, Asleep
<1> QED BY <1>1, <1>2 DEF signal

\* The stretches of code that end in a wait, and the spurious wakeup.
LEMMA SleepInv ==
  ASSUME IInv, NEW t \in Threads,
         \/ RdSleep(t) /\ pc[t] \in {"run", "rd.awake"}
         \/ WrSleep1(t) /\ pc[t] \in {"run", "w1.awake"}
         \/ SpuriousWakeup(t)
  PROVE  IInv'
<1> USE DEF IInv, held, Move
<1>1. TypeOK'
  BY DEF RdSleep, WrSleep1, SpuriousWakeup, WakeUp, TypeOK, PCs, Asleep
<1>2. Held' /\ Exclusion'
  BY DEF RdSleep, WrSleep1, SpuriousWakeup, Held, Exclusion
<1>3. OnePending'
  BY DEF RdSleep, WrSleep1, SpuriousWakeup, WakeUp, TypeOK, OnePending, Asleep, PCs
<1>4. SleepersStopped'
  BY DEF RdSleep, WrSleep1, SpuriousWakeup, WakeUp, TypeOK, SleepersStopped, Asleep, PCs
<1> QED BY <1>1, <1>2, <1>3, <1>4

\* wr_lock() from wrwt_ = true to its second wait.
LEMMA PendInv ==
  ASSUME IInv, NEW t \in Threads, WrSleep2(t),
         pc[t] = "w2.awake" \/ (pc[t] \in {"run", "w1.awake"} /\ ~wrwt_)
  PROVE  IInv'
<1> USE DEF IInv, held, Move
<1>1. TypeOK'
  BY DEF WrSleep2, TypeOK, PCs, Asleep
<1>2. Held' /\ Exclusion'
  BY DEF WrSleep2, Held, Exclusion
<1>3. OnePending'
  BY DEF WrSleep2, TypeOK, OnePending
<1>4. SleepersStopped'
  BY DEF WrSleep2, TypeOK, SleepersStopped
<1> QED BY <1>1, <1>2, <1>3, <1>4

\* wr_lock() when it succeeds.
LEMMA WrGrantInv ==
  ASSUME IInv, NEW t \in Threads, WrGrant(t),
         pc[t] = "w2.awake" \/ (pc[t] \in {"run", "w1.awake"} /\ ~wrwt_)
  PROVE  IInv'
<1> DEFINE f == Move(t, "run")
<1>1. f \in [Threads -> PCs] /\ signal(f)
  BY DEF IInv, WrGrant, Move, TypeOK, PCs, Asleep
<1>2. /\ pc' \in [Threads -> PCs]
      /\ \A u \in Threads : pc'[u] \in Asleep => pc'[u] = f[u]
      /\ \A u \in Threads : pc'[u] \in {"w2.asleep", "w2.awake"}
                              <=> f[u] \in {"w2.asleep", "w2.awake"}
  BY <1>1, SignalEffect
<1>3. \A u \in Threads : f[u] \notin {"w2.asleep", "w2.awake"}
  BY DEF IInv, Move, TypeOK, OnePending
<1>4. TypeOK'
  BY <1>2 DEF IInv, WrGrant, TypeOK
<1>5. readLocks = {} /\ writers = {}
  BY ReadLockCount DEF IInv, WrGrant, Held
<1>6. Held' /\ Exclusion'
  BY <1>5 DEF IInv, WrGrant, Held, Exclusion
<1>7. OnePending'
  BY <1>2, <1>3 DEF WrGrant, OnePending
<1>8. SleepersStopped'
  BY <1>2, <1>3 DEF WrGrant, SleepersStopped
<1> QED BY <1>4, <1>6, <1>7, <1>8 DEF IInv

\* rd_lock() when it succeeds.
LEMMA RdGrantInv ==
  ASSUME IInv, NEW t \in Threads, RdGrant(t), pc[t] \in {"run", "rd.awake"}
  PROVE  IInv'
<1>1. PICK k \in 1..MaxNest : <<t, k>> \notin readLocks
                              /\ readLocks' = readLocks \cup {<<t, k>>}
  BY DEF RdGrant
<1>2. TypeOK'
  BY <1>1 DEF IInv, RdGrant, Move, TypeOK, PCs, Asleep
<1>3. Cardinality(readLocks') = Cardinality(readLocks) + 1
  BY <1>1, ReadLockCount DEF IInv
<1>4. Held' /\ Exclusion'
  BY <1>3 DEF IInv, RdGrant, Held, Exclusion
<1>5. OnePending' /\ SleepersStopped'
  BY DEF IInv, RdGrant, Move, TypeOK, OnePending, SleepersStopped
<1> QED BY <1>2, <1>4, <1>5 DEF IInv

\* rd_unlock(), which broadcasts when the last read lock goes.
LEMMA RdUnlockInv ==
  ASSUME IInv, NEW t \in Threads, RdUnlock(t)
  PROVE  IInv'
<1>1. PICK k \in 1..MaxNest : <<t, k>> \in readLocks
                              /\ readLocks' = readLocks \ {<<t, k>>}
  BY DEF RdUnlock
<1>2. /\ Cardinality(readLocks) \in Nat /\ Cardinality(readLocks) # 0
      /\ Cardinality(readLocks') = Cardinality(readLocks) - 1
  BY <1>1, ReadLockCount DEF IInv
<1>3. nrd_ \in Nat \ {0} /\ nrd_' = nrd_ - 1 /\ nrd_' = Cardinality(readLocks')
  BY <1>2 DEF IInv, Held, RdUnlock
<1>4. /\ pc' \in [Threads -> PCs]
      /\ \A u \in Threads : pc'[u] \in Asleep => pc'[u] = pc[u] /\ nrd_ # 1
      /\ \A u \in Threads : pc'[u] \in {"w2.asleep", "w2.awake"}
                              <=> pc[u] \in {"w2.asleep", "w2.awake"}
  <2>1. CASE nrd_ = 1
    BY <2>1, BroadcastEffect DEF IInv, TypeOK, RdUnlock
  <2>2. CASE nrd_ # 1
    BY <2>2 DEF IInv, TypeOK, RdUnlock
  <2> QED BY <2>1, <2>2
<1>5. TypeOK'
  BY <1>1, <1>3, <1>4 DEF IInv, RdUnlock, TypeOK
<1>6. Held' /\ Exclusion'
  BY <1>1, <1>3 DEF IInv, RdUnlock, Held, Exclusion
<1>7. OnePending'
  BY <1>4 DEF IInv, RdUnlock, OnePending
<1>8. SleepersStopped'
  BY <1>3, <1>4 DEF IInv, RdUnlock, SleepersStopped, Asleep
<1> QED BY <1>5, <1>6, <1>7, <1>8 DEF IInv

\* wr_unlock() and wr_demote(), which always broadcast.
LEMMA WrReleaseInv ==
  ASSUME IInv, NEW t \in Threads, WrUnlock(t) \/ WrDemote(t)
  PROVE  IInv'
<1>1. /\ pc' \in [Threads -> PCs]
      /\ \A u \in Threads : pc'[u] \notin Asleep
      /\ \A u \in Threads : pc'[u] \in {"w2.asleep", "w2.awake"}
                              <=> pc[u] \in {"w2.asleep", "w2.awake"}
  BY BroadcastEffect DEF IInv, TypeOK, WrUnlock, WrDemote
<1>2. writers' = {} /\ readLocks = {} /\ nrd_ = 0 /\ Cardinality(readLocks) = 0
  BY ReadLockCount DEF IInv, Held, Exclusion, WrUnlock, WrDemote
<1>3. TypeOK'
  <2>1. wrlk_' = FALSE /\ wrwt_' = wrwt_
    BY DEF WrUnlock, WrDemote
  <2>2. wrlk_' \in BOOLEAN /\ wrwt_' \in BOOLEAN
    BY <2>1 DEF IInv, TypeOK
  <2>3. nrd_' \in {0, 1}
    BY <1>2 DEF WrUnlock, WrDemote
  <2>4. readLocks' \subseteq {<<t, 1>>}
    BY <1>2 DEF WrUnlock, WrDemote
  <2>5. 1 \in 1..MaxNest
    BY RWNest
  <2>6. <<t, 1>> \in Threads \X (1..MaxNest)
    BY <2>5
  <2>7. readLocks' \subseteq Threads \X (1..MaxNest)
    BY <2>4, <2>6
  <2> QED BY <1>1, <1>2, <2>2, <2>3, <2>7 DEF TypeOK
<1>4. WrDemote(t) => Cardinality(readLocks') = 1
  <2>1. Cardinality(readLocks \cup {<<t, 1>>}) = Cardinality(readLocks) + 1
    BY <1>2, ReadLockCount DEF IInv
  <2> QED BY <1>2, <2>1 DEF WrDemote
<1>5. Held' /\ Exclusion'
  BY <1>2, <1>4 DEF IInv, Held, Exclusion, WrUnlock, WrDemote
<1>6. OnePending' /\ SleepersStopped'
  BY <1>1 DEF IInv, OnePending, SleepersStopped, Asleep, WrUnlock, WrDemote
<1> QED BY <1>3, <1>5, <1>6 DEF IInv

\* Every step preserves the invariant.
LEMMA NextInv == IInv /\ [Next]_vars => IInv'
<1> SUFFICES ASSUME IInv, [Next]_vars PROVE IInv'
  OBVIOUS
<1>1. CASE UNCHANGED vars
  BY <1>1 DEF IInv, vars, held, TypeOK, Held, Exclusion, OnePending, SleepersStopped
<1>2. ASSUME NEW t \in Threads, RdLock(t) \/ RdRetry(t) PROVE IInv'
  BY <1>2, SleepInv, RdGrantInv DEF RdLock, RdRetry
<1>3. ASSUME NEW t \in Threads, RdUnlock(t) PROVE IInv'
  BY <1>3, RdUnlockInv
<1>4. ASSUME NEW t \in Threads, WrLock(t) \/ WrRetry1(t) PROVE IInv'
  BY <1>4, SleepInv, PendInv, WrGrantInv DEF WrLock, WrRetry1
<1>5. ASSUME NEW t \in Threads, WrRetry2(t) PROVE IInv'
  BY <1>5, PendInv, WrGrantInv DEF WrRetry2
<1>6. ASSUME NEW t \in Threads, WrUnlock(t) \/ WrDemote(t) PROVE IInv'
  BY <1>6, WrReleaseInv
<1>7. ASSUME NEW t \in Threads, SpuriousWakeup(t) PROVE IInv'
  BY <1>7, SleepInv
<1> QED BY <1>1, <1>2, <1>3, <1>4, <1>5, <1>6, <1>7 DEF Next, Retry

\* A writer is alone, the flags are exact, and no sleeping thread has missed
\* its wakeup, whatever the threads and however they interleave.
THEOREM LockCorrect == Spec => [](Held /\ Exclusion /\ OnePending)
<1>1. IInv => Held /\ Exclusion /\ OnePending
  BY DEF IInv
<1> QED BY <1>1, InitInv, NextInv, PTL DEF Spec

\* No wakeup is lost: rd_unlock(), wr_unlock() and wr_demote() broadcast
\* whenever a sleeping thread's condition may have changed.
THEOREM NoLostWakeup == Spec => []SleepersStopped
<1>1. IInv => SleepersStopped
  BY DEF IInv
<1> QED BY <1>1, InitInv, NextInv, PTL DEF Spec
=============================================================================
