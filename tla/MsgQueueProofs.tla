--------------------------- MODULE MsgQueueProofs ---------------------------
(***************************************************************************)
(* Proofs about MsgQueue for any finite set of threads, any set of         *)
(* messages and any capacity.  The inductive invariant IInv joins the      *)
(* ring's shape, the mutex, the two semaphore accounts and what the slots  *)
(* hold; none of these is inductive without the others.                    *)
(***************************************************************************)
EXTENDS MsgQueue, FiniteSetTheorems, SequenceTheorems, TLAPS

IInv == /\ TypeOK
        /\ LockInv
        /\ RingInv
        /\ DataAccounting
        /\ SlotAccounting
        /\ StoredInv

-----------------------------------------------------------------------------
(* Counting threads.                                                       *)

\* The number of threads whose program counter is in P is a natural number,
\* and it changes by at most one when one thread moves.
LEMMA CountMove ==
  ASSUME NEW f \in [Threads -> PCs], NEW t \in Threads, NEW to \in PCs, NEW P
  PROVE  LET g == [f EXCEPT ![t] = to]
             A == {u \in Threads : f[u] \in P}
             B == {u \in Threads : g[u] \in P}
         IN  /\ Cardinality(A) \in Nat
             /\ Cardinality(B) \in Nat
             /\ Cardinality(B) + (IF f[t] \in P THEN 1 ELSE 0)
                  = Cardinality(A) + (IF to \in P THEN 1 ELSE 0)
             /\ f[t] \in P => Cardinality(A) > 0
<1> DEFINE g == [f EXCEPT ![t] = to]
           A == {u \in Threads : f[u] \in P}
           B == {u \in Threads : g[u] \in P}
           C == A \ {t}
<1>1. IsFiniteSet(A) /\ IsFiniteSet(B) /\ IsFiniteSet(C)
  BY ThreadAssumption, FS_Subset
<1>2. f[t] \in P => t \in A
  OBVIOUS
<1>3. f[t] \notin P => C = A
  OBVIOUS
<1>4. t \notin C /\ (to \in P => B = C \cup {t}) /\ (to \notin P => B = C)
  OBVIOUS
<1>5. C = A \ {t}
  OBVIOUS
<1> HIDE DEF A, B, C, g
<1>6. Cardinality(A) \in Nat /\ Cardinality(B) \in Nat /\ Cardinality(C) \in Nat
  BY <1>1, FS_CardinalityType
<1>7. Cardinality(A) = Cardinality(C) + (IF f[t] \in P THEN 1 ELSE 0)
  <2>1. CASE f[t] \in P
    <3>1. Cardinality(C) = Cardinality(A) - 1
      BY <1>1, <1>2, <1>5, <2>1, FS_RemoveElement
    <3> QED BY <1>6, <2>1, <3>1
  <2>2. CASE f[t] \notin P
    BY <1>3, <1>6, <2>2
  <2> QED BY <2>1, <2>2
<1>8. Cardinality(B) = Cardinality(C) + (IF to \in P THEN 1 ELSE 0)
  <2>1. CASE to \in P
    <3>1. Cardinality(B) = Cardinality(C) + 1
      BY <1>1, <1>4, <2>1, FS_AddElement
    <3> QED BY <1>6, <2>1, <3>1
  <2>2. CASE to \notin P
    BY <1>4, <1>6, <2>2
  <2> QED BY <2>1, <2>2
<1>9. f[t] \in P => Cardinality(A) > 0
  BY <1>6, <1>7
<1>10. Cardinality(B) + (IF f[t] \in P THEN 1 ELSE 0)
        = Cardinality(A) + (IF to \in P THEN 1 ELSE 0)
  BY <1>6, <1>7, <1>8
<1> QED BY <1>6, <1>9, <1>10 DEF A, B, g

\* What a thread's move from one place to another does to the four counts
\* the semaphore accounts are made of.
LEMMA Counts ==
  ASSUME TypeOK, NEW t \in Threads, NEW from \in PCs, NEW to \in PCs, Goto(t, from, to)
  PROVE  /\ Cardinality(PutHeld) \in Nat /\ Cardinality(PutHeld') \in Nat
         /\ Cardinality(GetHeld) \in Nat /\ Cardinality(GetHeld') \in Nat
         /\ Cardinality(PutPosting) \in Nat /\ Cardinality(PutPosting') \in Nat
         /\ Cardinality(GetPosting) \in Nat /\ Cardinality(GetPosting') \in Nat
         /\ Cardinality(PutHeld') + (IF from \in PutHeldPCs THEN 1 ELSE 0)
              = Cardinality(PutHeld) + (IF to \in PutHeldPCs THEN 1 ELSE 0)
         /\ Cardinality(GetHeld') + (IF from \in GetHeldPCs THEN 1 ELSE 0)
              = Cardinality(GetHeld) + (IF to \in GetHeldPCs THEN 1 ELSE 0)
         /\ Cardinality(PutPosting') + (IF from \in PutPostPCs THEN 1 ELSE 0)
              = Cardinality(PutPosting) + (IF to \in PutPostPCs THEN 1 ELSE 0)
         /\ Cardinality(GetPosting') + (IF from \in GetPostPCs THEN 1 ELSE 0)
              = Cardinality(GetPosting) + (IF to \in GetPostPCs THEN 1 ELSE 0)
         /\ from \in PutHeldPCs => Cardinality(PutHeld) > 0
         /\ from \in GetHeldPCs => Cardinality(GetHeld) > 0
<1>1. pc \in [Threads -> PCs] /\ pc[t] = from /\ pc' = [pc EXCEPT ![t] = to]
  BY DEF TypeOK, Goto
<1>2. PutHeld = {u \in Threads : pc[u] \in PutHeldPCs} /\ PutHeld' = {u \in Threads : pc'[u] \in PutHeldPCs}
  BY DEF PutHeld, At
<1>3. GetHeld = {u \in Threads : pc[u] \in GetHeldPCs} /\ GetHeld' = {u \in Threads : pc'[u] \in GetHeldPCs}
  BY DEF GetHeld, At
<1>4. PutPosting = {u \in Threads : pc[u] \in PutPostPCs}
      /\ PutPosting' = {u \in Threads : pc'[u] \in PutPostPCs}
  BY DEF PutPosting, At
<1>5. GetPosting = {u \in Threads : pc[u] \in GetPostPCs}
      /\ GetPosting' = {u \in Threads : pc'[u] \in GetPostPCs}
  BY DEF GetPosting, At
<1>6. /\ Cardinality(PutHeld) \in Nat /\ Cardinality(PutHeld') \in Nat
      /\ Cardinality(PutHeld') + (IF from \in PutHeldPCs THEN 1 ELSE 0)
           = Cardinality(PutHeld) + (IF to \in PutHeldPCs THEN 1 ELSE 0)
      /\ from \in PutHeldPCs => Cardinality(PutHeld) > 0
  BY <1>1, <1>2, CountMove
<1>7. /\ Cardinality(GetHeld) \in Nat /\ Cardinality(GetHeld') \in Nat
      /\ Cardinality(GetHeld') + (IF from \in GetHeldPCs THEN 1 ELSE 0)
           = Cardinality(GetHeld) + (IF to \in GetHeldPCs THEN 1 ELSE 0)
      /\ from \in GetHeldPCs => Cardinality(GetHeld) > 0
  BY <1>1, <1>3, CountMove
<1>8. /\ Cardinality(PutPosting) \in Nat /\ Cardinality(PutPosting') \in Nat
      /\ Cardinality(PutPosting') + (IF from \in PutPostPCs THEN 1 ELSE 0)
           = Cardinality(PutPosting) + (IF to \in PutPostPCs THEN 1 ELSE 0)
  BY <1>1, <1>4, CountMove
<1>9. /\ Cardinality(GetPosting) \in Nat /\ Cardinality(GetPosting') \in Nat
      /\ Cardinality(GetPosting') + (IF from \in GetPostPCs THEN 1 ELSE 0)
           = Cardinality(GetPosting) + (IF to \in GetPostPCs THEN 1 ELSE 0)
  BY <1>1, <1>5, CountMove
<1> QED BY <1>6, <1>7, <1>8, <1>9

\* What a thread at x contributes to the account of the messages, and of the
\* free slots.
Owed(x) == IF x \in PutPostPCs \/ x \in GetHeldPCs THEN 1 ELSE 0
SlotOwed(x) == IF x \in GetPostPCs \/ x \in PutHeldPCs THEN 1 ELSE 0

\* A move of one thread keeps the accounts if the semaphores and sz_ change by
\* what the move changes in the counts.
LEMMA Accounts ==
  ASSUME TypeOK, TypeOK', DataAccounting, SlotAccounting,
         NEW t \in Threads, NEW from \in PCs, NEW to \in PCs, Goto(t, from, to),
         sz_' - dataSem' - Owed(to) = sz_ - dataSem - Owed(from),
         cap' - sz_' - slotSem' - SlotOwed(to) = cap - sz_ - slotSem - SlotOwed(from)
  PROVE  DataAccounting' /\ SlotAccounting'
<1>1. /\ ~(from \in PutPostPCs /\ from \in GetHeldPCs)
      /\ ~(to \in PutPostPCs /\ to \in GetHeldPCs)
      /\ ~(from \in GetPostPCs /\ from \in PutHeldPCs)
      /\ ~(to \in GetPostPCs /\ to \in PutHeldPCs)
  BY DEF PutHeldPCs, GetHeldPCs, PutPostPCs, GetPostPCs
<1>2. /\ sz_ \in Nat /\ dataSem \in Nat /\ slotSem \in Nat /\ cap \in Nat
      /\ sz_' \in Nat /\ dataSem' \in Nat /\ slotSem' \in Nat /\ cap' \in Nat
  BY CapAssumption DEF TypeOK
<1>3. DataAccounting'
  <2>1. /\ Cardinality(GetHeld) \in Nat /\ Cardinality(GetHeld') \in Nat
        /\ Cardinality(PutPosting) \in Nat /\ Cardinality(PutPosting') \in Nat
        /\ Cardinality(GetHeld') + (IF from \in GetHeldPCs THEN 1 ELSE 0)
             = Cardinality(GetHeld) + (IF to \in GetHeldPCs THEN 1 ELSE 0)
        /\ Cardinality(PutPosting') + (IF from \in PutPostPCs THEN 1 ELSE 0)
             = Cardinality(PutPosting) + (IF to \in PutPostPCs THEN 1 ELSE 0)
    BY Counts
  <2> QED BY <1>1, <1>2, <2>1 DEF DataAccounting, Owed
<1>4. SlotAccounting'
  BY <1>1, <1>2, Counts DEF SlotAccounting, SlotOwed
<1> QED BY <1>3, <1>4

\* A getter that has acquired dataSem_ finds a message, a putter that has
\* acquired slotSem_ a free slot.
LEMMA Claims ==
  ASSUME TypeOK, DataAccounting, SlotAccounting, NEW t \in Threads
  PROVE  /\ pc[t] \in GetHeldPCs => sz_ > 0
         /\ pc[t] \in PutHeldPCs => sz_ < cap
<1>1. /\ pc \in [Threads -> PCs] /\ pc[t] \in PCs
      /\ sz_ \in Nat /\ dataSem \in Nat /\ slotSem \in Nat /\ cap \in Nat
  BY CapAssumption DEF TypeOK
<1>2. /\ GetHeld = {u \in Threads : pc[u] \in GetHeldPCs}
      /\ PutHeld = {u \in Threads : pc[u] \in PutHeldPCs}
      /\ GetPosting = {u \in Threads : pc[u] \in GetPostPCs}
      /\ PutPosting = {u \in Threads : pc[u] \in PutPostPCs}
  BY DEF GetHeld, PutHeld, GetPosting, PutPosting, At
<1>3. /\ Cardinality(GetHeld) \in Nat
      /\ pc[t] \in GetHeldPCs => Cardinality(GetHeld) > 0
  BY <1>1, <1>2, CountMove
<1>4. /\ Cardinality(PutHeld) \in Nat
      /\ pc[t] \in PutHeldPCs => Cardinality(PutHeld) > 0
  BY <1>1, <1>2, CountMove
<1>5. Cardinality(PutPosting) \in Nat
  BY <1>1, <1>2, CountMove
<1>6. Cardinality(GetPosting) \in Nat
  BY <1>1, <1>2, CountMove
<1> QED BY <1>1, <1>3, <1>4, <1>5, <1>6 DEF DataAccounting, SlotAccounting

\* The initial state, and the state after a resize: with every thread idle
\* nobody holds or owes anything.
LEMMA IdleCounts ==
  ASSUME NEW f \in [Threads -> {"idle"}], NEW P, "idle" \notin P
  PROVE  Cardinality({u \in Threads : f[u] \in P}) = 0
<1>1. {u \in Threads : f[u] \in P} = {}
  OBVIOUS
<1> QED BY <1>1, FS_EmptySet

\* The inductive invariant holds when the constructor returns.
LEMMA InitInv == Init => IInv
<1> SUFFICES ASSUME Init PROVE IInv
  OBVIOUS
<1> USE CapAssumption, ThreadAssumption
<1>1. TypeOK
  BY DEF Init, TypeOK, PCs, Hows
<1>2. LockInv
  BY DEF Init, LockInv, Critical
<1>3. RingInv
  BY DEF Init, RingInv, Slot
<1>4. pc \in [Threads -> {"idle"}]
  BY DEF Init
<1>5. /\ Cardinality(PutHeld) = 0 /\ Cardinality(GetHeld) = 0
      /\ Cardinality(PutPosting) = 0 /\ Cardinality(GetPosting) = 0
  BY <1>4, IdleCounts DEF PutHeld, GetHeld, PutPosting, GetPosting, At,
     PutHeldPCs, GetHeldPCs, PutPostPCs, GetPostPCs
<1>6. DataAccounting /\ SlotAccounting
  BY <1>5 DEF Init, DataAccounting, SlotAccounting
<1>7. StoredInv
  BY DEF Init, StoredInv, Carrying, PutPCs
<1> QED BY <1>1, <1>2, <1>3, <1>6, <1>7 DEF IInv

\* Every step preserves the inductive invariant.
LEMMA NextInv == IInv /\ [Next]_vars => IInv'
<1> SUFFICES ASSUME IInv, [Next]_vars PROVE IInv'
  OBVIOUS
<1> USE CapAssumption, ThreadAssumption, ValueAssumption
<1> USE DEF IInv
<1>1. CASE UNCHANGED vars
  <2>1. UNCHANGED <<PutHeld, GetHeld, PutPosting, GetPosting>>
    BY <1>1 DEF vars, PutHeld, GetHeld, PutPosting, GetPosting, At
  <2> QED BY <1>1, <2>1 DEF vars, ring, sems, TypeOK, LockInv, RingInv, Slot,
             DataAccounting, SlotAccounting, StoredInv
<1>2. ASSUME NEW t \in Threads, PutCall(t) PROVE IInv'
  <2>1. Goto(t, "idle", "put.acquire")
    BY <1>2 DEF PutCall, Call, SetVal
  <2>2. TypeOK'
    BY <1>2 DEF PutCall, Goto, Call, SetVal, ring, sems, TypeOK, PCs, PutPCs, GetPCs, PeekPCs, Hows
  <2>3. LockInv'
    BY <1>2 DEF PutCall, Goto, Call, SetVal, ring, sems, TypeOK, LockInv, Critical
  <2>4. RingInv'
    BY <1>2 DEF PutCall, Goto, Call, SetVal, ring, sems, TypeOK, RingInv, Slot
  <2>5. DataAccounting' /\ SlotAccounting'
    <3> DEFINE from == "idle"
               to == "put.acquire"
    <3>1. sz_' - dataSem' - Owed(to) = sz_ - dataSem - Owed(from)
      BY <1>2, <2>2 DEF PutCall, Goto, Call, SetVal, ring, sems, TypeOK, Owed, SlotOwed,
         PutHeldPCs, GetHeldPCs, PutPostPCs, GetPostPCs
    <3>2. cap' - sz_' - slotSem' - SlotOwed(to) = cap - sz_ - slotSem - SlotOwed(from)
      BY <1>2, <2>2 DEF PutCall, Goto, Call, SetVal, ring, sems, TypeOK, Owed, SlotOwed,
         PutHeldPCs, GetHeldPCs, PutPostPCs, GetPostPCs
    <3>3. from \in PCs /\ to \in PCs
      BY DEF PCs, PutPCs, GetPCs, PeekPCs
    <3> HIDE DEF from, to
    <3> QED BY <2>1, <2>2, <3>1, <3>2, <3>3, Accounts DEF from, to
  <2>6. StoredInv'
    BY <1>2 DEF PutCall, Goto, Call, SetVal, ring, sems, TypeOK, RingInv, StoredInv, Slot, Carrying, PutPCs, LockInv, Critical
  <2> QED BY <2>2, <2>3, <2>4, <2>5, <2>6
<1>3. ASSUME NEW t \in Threads, PutAcquire(t) PROVE IInv'
  <2>1. Goto(t, "put.acquire", "put.lock")
    BY <1>3 DEF PutAcquire
  <2>2. TypeOK'
    BY <1>3 DEF PutAcquire, Goto, ring, sems, TypeOK, PCs, PutPCs, GetPCs, PeekPCs, Hows
  <2>3. LockInv'
    BY <1>3 DEF PutAcquire, Goto, ring, sems, TypeOK, LockInv, Critical
  <2>4. RingInv'
    BY <1>3 DEF PutAcquire, Goto, ring, sems, TypeOK, RingInv, Slot
  <2>5. DataAccounting' /\ SlotAccounting'
    <3> DEFINE from == "put.acquire"
               to == "put.lock"
    <3>1. sz_' - dataSem' - Owed(to) = sz_ - dataSem - Owed(from)
      BY <1>3, <2>2 DEF PutAcquire, Goto, ring, sems, TypeOK, Owed, SlotOwed,
         PutHeldPCs, GetHeldPCs, PutPostPCs, GetPostPCs
    <3>2. cap' - sz_' - slotSem' - SlotOwed(to) = cap - sz_ - slotSem - SlotOwed(from)
      BY <1>3, <2>2 DEF PutAcquire, Goto, ring, sems, TypeOK, Owed, SlotOwed,
         PutHeldPCs, GetHeldPCs, PutPostPCs, GetPostPCs
    <3>3. from \in PCs /\ to \in PCs
      BY DEF PCs, PutPCs, GetPCs, PeekPCs
    <3> HIDE DEF from, to
    <3> QED BY <2>1, <2>2, <3>1, <3>2, <3>3, Accounts DEF from, to
  <2>6. StoredInv'
    BY <1>3 DEF PutAcquire, Goto, ring, sems, TypeOK, RingInv, StoredInv, Slot, Carrying, PutPCs, LockInv, Critical
  <2> QED BY <2>2, <2>3, <2>4, <2>5, <2>6
<1>4. ASSUME NEW t \in Threads, PutFail(t) PROVE IInv'
  <2>1. Goto(t, "put.acquire", "idle")
    BY <1>4 DEF PutFail, SetVal
  <2>2. TypeOK'
    BY <1>4 DEF PutFail, Goto, SetVal, ring, sems, TypeOK, PCs, PutPCs, GetPCs, PeekPCs, Hows
  <2>3. LockInv'
    BY <1>4 DEF PutFail, Goto, SetVal, ring, sems, TypeOK, LockInv, Critical
  <2>4. RingInv'
    BY <1>4 DEF PutFail, Goto, SetVal, ring, sems, TypeOK, RingInv, Slot
  <2>5. DataAccounting' /\ SlotAccounting'
    <3> DEFINE from == "put.acquire"
               to == "idle"
    <3>1. sz_' - dataSem' - Owed(to) = sz_ - dataSem - Owed(from)
      BY <1>4, <2>2 DEF PutFail, Goto, SetVal, ring, sems, TypeOK, Owed, SlotOwed,
         PutHeldPCs, GetHeldPCs, PutPostPCs, GetPostPCs
    <3>2. cap' - sz_' - slotSem' - SlotOwed(to) = cap - sz_ - slotSem - SlotOwed(from)
      BY <1>4, <2>2 DEF PutFail, Goto, SetVal, ring, sems, TypeOK, Owed, SlotOwed,
         PutHeldPCs, GetHeldPCs, PutPostPCs, GetPostPCs
    <3>3. from \in PCs /\ to \in PCs
      BY DEF PCs, PutPCs, GetPCs, PeekPCs
    <3> HIDE DEF from, to
    <3> QED BY <2>1, <2>2, <3>1, <3>2, <3>3, Accounts DEF from, to
  <2>6. StoredInv'
    BY <1>4 DEF PutFail, Goto, SetVal, ring, sems, TypeOK, RingInv, StoredInv, Slot, Carrying, PutPCs, LockInv, Critical
  <2> QED BY <2>2, <2>3, <2>4, <2>5, <2>6
<1>5. ASSUME NEW t \in Threads, PutLock(t) PROVE IInv'
  <2>1. Goto(t, "put.lock", "put.store")
    BY <1>5 DEF PutLock, Lock
  <2>2. TypeOK'
    BY <1>5 DEF PutLock, Goto, Lock, ring, sems, TypeOK, PCs, PutPCs, GetPCs, PeekPCs, Hows
  <2>3. LockInv'
    BY <1>5 DEF PutLock, Goto, Lock, ring, sems, TypeOK, LockInv, Critical
  <2>4. RingInv'
    BY <1>5 DEF PutLock, Goto, Lock, ring, sems, TypeOK, RingInv, Slot
  <2>5. DataAccounting' /\ SlotAccounting'
    <3> DEFINE from == "put.lock"
               to == "put.store"
    <3>1. sz_' - dataSem' - Owed(to) = sz_ - dataSem - Owed(from)
      BY <1>5, <2>2 DEF PutLock, Goto, Lock, ring, sems, TypeOK, Owed, SlotOwed,
         PutHeldPCs, GetHeldPCs, PutPostPCs, GetPostPCs
    <3>2. cap' - sz_' - slotSem' - SlotOwed(to) = cap - sz_ - slotSem - SlotOwed(from)
      BY <1>5, <2>2 DEF PutLock, Goto, Lock, ring, sems, TypeOK, Owed, SlotOwed,
         PutHeldPCs, GetHeldPCs, PutPostPCs, GetPostPCs
    <3>3. from \in PCs /\ to \in PCs
      BY DEF PCs, PutPCs, GetPCs, PeekPCs
    <3> HIDE DEF from, to
    <3> QED BY <2>1, <2>2, <3>1, <3>2, <3>3, Accounts DEF from, to
  <2>6. StoredInv'
    BY <1>5 DEF PutLock, Goto, Lock, ring, sems, TypeOK, RingInv, StoredInv, Slot, Carrying, PutPCs, LockInv, Critical
  <2> QED BY <2>2, <2>3, <2>4, <2>5, <2>6
<1>6. ASSUME NEW t \in Threads, PutStore(t) PROVE IInv'
  <2>0. /\ cap \in Nat /\ cap <= MaxCap /\ get_ \in Nat /\ sz_ \in Nat
        /\ put_ = Slot(sz_) /\ sz_ < cap /\ get_ < cap
        /\ pc[t] = "put.store" /\ val[t] \in Values
    BY <1>6, Claims DEF PutStore, Goto, TypeOK, RingInv, PutHeldPCs, StoredInv, Carrying, PutPCs
  <2>1. Goto(t, "put.store", "put.link")
    BY <1>6 DEF PutStore
  <2>2. TypeOK'
    BY <1>6, <2>0 DEF PutStore, Goto, sems, TypeOK, PCs, PutPCs
  <2>3. LockInv'
    BY <1>6 DEF PutStore, Goto, ring, sems, TypeOK, LockInv, Critical
  <2>4. RingInv'
    BY <1>6 DEF PutStore, RingInv, Slot
  <2>5. DataAccounting' /\ SlotAccounting'
    <3> DEFINE from == "put.store"
               to == "put.link"
    <3>1. sz_' - dataSem' - Owed(to) = sz_ - dataSem - Owed(from)
      BY <1>6, <2>2 DEF PutStore, Goto, ring, sems, TypeOK, Owed, SlotOwed,
         PutHeldPCs, GetHeldPCs, PutPostPCs, GetPostPCs
    <3>2. cap' - sz_' - slotSem' - SlotOwed(to) = cap - sz_ - slotSem - SlotOwed(from)
      BY <1>6, <2>2 DEF PutStore, Goto, ring, sems, TypeOK, Owed, SlotOwed,
         PutHeldPCs, GetHeldPCs, PutPostPCs, GetPostPCs
    <3>3. from \in PCs /\ to \in PCs
      BY DEF PCs, PutPCs, GetPCs, PeekPCs
    <3> HIDE DEF from, to
    <3> QED BY <2>1, <2>2, <3>1, <3>2, <3>3, Accounts DEF from, to
  <2>6. StoredInv'
    <3>1. \A i \in 0..(sz_ - 1) : Slot(i) # put_ /\ Slot(i) \in 0..(MaxCap - 1)
      BY <2>0 DEF Slot
    <3>2. put_ \in 0..(MaxCap - 1)
      BY <2>0 DEF Slot
    <3>3. \A i \in 0..(sz_' - 1) : buf'[Slot(i)'] \in Values
      BY <1>6, <3>1, <3>2 DEF PutStore, TypeOK, StoredInv, Slot
    <3>4. buf'[put_'] = val[t]
      BY <1>6, <3>2 DEF PutStore, TypeOK
    <3>5. \A u \in Threads \ {t} : pc[u] \notin {"put.link", "get.link"}
      BY <1>6 DEF PutStore, Goto, LockInv, Critical
    <3> QED BY <1>6, <3>3, <3>4, <3>5 DEF PutStore, Goto, sems, TypeOK, StoredInv, Carrying, PutPCs
  <2> QED BY <2>2, <2>3, <2>4, <2>5, <2>6
<1>7. ASSUME NEW t \in Threads, PutLink(t) PROVE IInv'
  <2>0. /\ cap \in Nat /\ cap <= MaxCap /\ get_ \in Nat /\ sz_ \in Nat
        /\ put_ = Slot(sz_) /\ sz_ < cap /\ get_ < cap
        /\ pc[t] = "put.link" /\ buf[put_] = val[t] /\ val[t] \in Values
    BY <1>7, Claims DEF PutLink, Goto, TypeOK, RingInv, PutHeldPCs, StoredInv, Carrying, PutPCs
  <2>7. put_' = Slot(sz_ + 1) /\ put_' \in 0..MaxCap /\ sz_' = sz_ + 1
    BY <1>7, <2>0 DEF PutLink, next, Slot
  <2>1. Goto(t, "put.link", "put.post")
    BY <1>7 DEF PutLink
  <2>2. TypeOK'
    BY <1>7, <2>0, <2>7 DEF PutLink, Goto, sems, TypeOK, PCs, PutPCs
  <2>3. LockInv'
    BY <1>7 DEF PutLink, Goto, ring, sems, TypeOK, LockInv, Critical
  <2>4. RingInv'
    BY <1>7, <2>0, <2>7 DEF PutLink, RingInv, Slot
  <2>5. DataAccounting' /\ SlotAccounting'
    <3> DEFINE from == "put.link"
               to == "put.post"
    <3>1. sz_' - dataSem' - Owed(to) = sz_ - dataSem - Owed(from)
      BY <1>7, <2>2 DEF PutLink, Goto, ring, sems, TypeOK, Owed, SlotOwed,
         PutHeldPCs, GetHeldPCs, PutPostPCs, GetPostPCs
    <3>2. cap' - sz_' - slotSem' - SlotOwed(to) = cap - sz_ - slotSem - SlotOwed(from)
      BY <1>7, <2>2 DEF PutLink, Goto, ring, sems, TypeOK, Owed, SlotOwed,
         PutHeldPCs, GetHeldPCs, PutPostPCs, GetPostPCs
    <3>3. from \in PCs /\ to \in PCs
      BY DEF PCs, PutPCs, GetPCs, PeekPCs
    <3> HIDE DEF from, to
    <3> QED BY <2>1, <2>2, <3>1, <3>2, <3>3, Accounts DEF from, to
  <2>6. StoredInv'
    <3>1. \A i \in 0..(sz_' - 1) : buf'[Slot(i)'] \in Values
      <4>1. \A i \in 0..(sz_' - 1) : i \in 0..(sz_ - 1) \/ i = sz_
        BY <2>0, <2>7
      <4> QED BY <1>7, <2>0, <4>1 DEF PutLink, StoredInv, Slot
    <3>2. \A u \in Threads \ {t} : pc[u] \notin {"put.link", "get.link"}
      BY <1>7 DEF PutLink, Goto, LockInv, Critical
    <3> QED BY <1>7, <3>1, <3>2 DEF PutLink, Goto, sems, TypeOK, StoredInv, Carrying, PutPCs
  <2> QED BY <2>2, <2>3, <2>4, <2>5, <2>6
<1>8. ASSUME NEW t \in Threads, PutPost(t) PROVE IInv'
  <2>1. Goto(t, "put.post", "idle")
    BY <1>8 DEF PutPost, Return, SetVal
  <2>2. TypeOK'
    BY <1>8 DEF PutPost, Goto, Return, SetVal, ring, sems, TypeOK, PCs, PutPCs, GetPCs, PeekPCs, Hows
  <2>3. LockInv'
    BY <1>8 DEF PutPost, Goto, Return, SetVal, ring, sems, TypeOK, LockInv, Critical
  <2>4. RingInv'
    BY <1>8 DEF PutPost, Goto, Return, SetVal, ring, sems, TypeOK, RingInv, Slot
  <2>5. DataAccounting' /\ SlotAccounting'
    <3> DEFINE from == "put.post"
               to == "idle"
    <3>1. sz_' - dataSem' - Owed(to) = sz_ - dataSem - Owed(from)
      BY <1>8, <2>2 DEF PutPost, Goto, Return, SetVal, ring, sems, TypeOK, Owed, SlotOwed,
         PutHeldPCs, GetHeldPCs, PutPostPCs, GetPostPCs
    <3>2. cap' - sz_' - slotSem' - SlotOwed(to) = cap - sz_ - slotSem - SlotOwed(from)
      BY <1>8, <2>2 DEF PutPost, Goto, Return, SetVal, ring, sems, TypeOK, Owed, SlotOwed,
         PutHeldPCs, GetHeldPCs, PutPostPCs, GetPostPCs
    <3>3. from \in PCs /\ to \in PCs
      BY DEF PCs, PutPCs, GetPCs, PeekPCs
    <3> HIDE DEF from, to
    <3> QED BY <2>1, <2>2, <3>1, <3>2, <3>3, Accounts DEF from, to
  <2>6. StoredInv'
    BY <1>8 DEF PutPost, Goto, Return, SetVal, ring, sems, TypeOK, RingInv, StoredInv, Slot, Carrying, PutPCs, LockInv, Critical
  <2> QED BY <2>2, <2>3, <2>4, <2>5, <2>6
<1>9. ASSUME NEW t \in Threads, GetCall(t) PROVE IInv'
  <2>1. Goto(t, "idle", "get.acquire")
    BY <1>9 DEF GetCall, Call, SetVal
  <2>2. TypeOK'
    BY <1>9 DEF GetCall, Goto, Call, SetVal, ring, sems, TypeOK, PCs, PutPCs, GetPCs, PeekPCs, Hows
  <2>3. LockInv'
    BY <1>9 DEF GetCall, Goto, Call, SetVal, ring, sems, TypeOK, LockInv, Critical
  <2>4. RingInv'
    BY <1>9 DEF GetCall, Goto, Call, SetVal, ring, sems, TypeOK, RingInv, Slot
  <2>5. DataAccounting' /\ SlotAccounting'
    <3> DEFINE from == "idle"
               to == "get.acquire"
    <3>1. sz_' - dataSem' - Owed(to) = sz_ - dataSem - Owed(from)
      BY <1>9, <2>2 DEF GetCall, Goto, Call, SetVal, ring, sems, TypeOK, Owed, SlotOwed,
         PutHeldPCs, GetHeldPCs, PutPostPCs, GetPostPCs
    <3>2. cap' - sz_' - slotSem' - SlotOwed(to) = cap - sz_ - slotSem - SlotOwed(from)
      BY <1>9, <2>2 DEF GetCall, Goto, Call, SetVal, ring, sems, TypeOK, Owed, SlotOwed,
         PutHeldPCs, GetHeldPCs, PutPostPCs, GetPostPCs
    <3>3. from \in PCs /\ to \in PCs
      BY DEF PCs, PutPCs, GetPCs, PeekPCs
    <3> HIDE DEF from, to
    <3> QED BY <2>1, <2>2, <3>1, <3>2, <3>3, Accounts DEF from, to
  <2>6. StoredInv'
    BY <1>9 DEF GetCall, Goto, Call, SetVal, ring, sems, TypeOK, RingInv, StoredInv, Slot, Carrying, PutPCs, LockInv, Critical
  <2> QED BY <2>2, <2>3, <2>4, <2>5, <2>6
<1>10. ASSUME NEW t \in Threads, GetAcquire(t) PROVE IInv'
  <2>1. Goto(t, "get.acquire", "get.lock")
    BY <1>10 DEF GetAcquire
  <2>2. TypeOK'
    BY <1>10 DEF GetAcquire, Goto, ring, sems, TypeOK, PCs, PutPCs, GetPCs, PeekPCs, Hows
  <2>3. LockInv'
    BY <1>10 DEF GetAcquire, Goto, ring, sems, TypeOK, LockInv, Critical
  <2>4. RingInv'
    BY <1>10 DEF GetAcquire, Goto, ring, sems, TypeOK, RingInv, Slot
  <2>5. DataAccounting' /\ SlotAccounting'
    <3> DEFINE from == "get.acquire"
               to == "get.lock"
    <3>1. sz_' - dataSem' - Owed(to) = sz_ - dataSem - Owed(from)
      BY <1>10, <2>2 DEF GetAcquire, Goto, ring, sems, TypeOK, Owed, SlotOwed,
         PutHeldPCs, GetHeldPCs, PutPostPCs, GetPostPCs
    <3>2. cap' - sz_' - slotSem' - SlotOwed(to) = cap - sz_ - slotSem - SlotOwed(from)
      BY <1>10, <2>2 DEF GetAcquire, Goto, ring, sems, TypeOK, Owed, SlotOwed,
         PutHeldPCs, GetHeldPCs, PutPostPCs, GetPostPCs
    <3>3. from \in PCs /\ to \in PCs
      BY DEF PCs, PutPCs, GetPCs, PeekPCs
    <3> HIDE DEF from, to
    <3> QED BY <2>1, <2>2, <3>1, <3>2, <3>3, Accounts DEF from, to
  <2>6. StoredInv'
    BY <1>10 DEF GetAcquire, Goto, ring, sems, TypeOK, RingInv, StoredInv, Slot, Carrying, PutPCs, LockInv, Critical
  <2> QED BY <2>2, <2>3, <2>4, <2>5, <2>6
<1>11. ASSUME NEW t \in Threads, GetFail(t) PROVE IInv'
  <2>1. Goto(t, "get.acquire", "idle")
    BY <1>11 DEF GetFail
  <2>2. TypeOK'
    BY <1>11 DEF GetFail, Goto, ring, sems, TypeOK, PCs, PutPCs, GetPCs, PeekPCs, Hows
  <2>3. LockInv'
    BY <1>11 DEF GetFail, Goto, ring, sems, TypeOK, LockInv, Critical
  <2>4. RingInv'
    BY <1>11 DEF GetFail, Goto, ring, sems, TypeOK, RingInv, Slot
  <2>5. DataAccounting' /\ SlotAccounting'
    <3> DEFINE from == "get.acquire"
               to == "idle"
    <3>1. sz_' - dataSem' - Owed(to) = sz_ - dataSem - Owed(from)
      BY <1>11, <2>2 DEF GetFail, Goto, ring, sems, TypeOK, Owed, SlotOwed,
         PutHeldPCs, GetHeldPCs, PutPostPCs, GetPostPCs
    <3>2. cap' - sz_' - slotSem' - SlotOwed(to) = cap - sz_ - slotSem - SlotOwed(from)
      BY <1>11, <2>2 DEF GetFail, Goto, ring, sems, TypeOK, Owed, SlotOwed,
         PutHeldPCs, GetHeldPCs, PutPostPCs, GetPostPCs
    <3>3. from \in PCs /\ to \in PCs
      BY DEF PCs, PutPCs, GetPCs, PeekPCs
    <3> HIDE DEF from, to
    <3> QED BY <2>1, <2>2, <3>1, <3>2, <3>3, Accounts DEF from, to
  <2>6. StoredInv'
    BY <1>11 DEF GetFail, Goto, ring, sems, TypeOK, RingInv, StoredInv, Slot, Carrying, PutPCs, LockInv, Critical
  <2> QED BY <2>2, <2>3, <2>4, <2>5, <2>6
<1>12. ASSUME NEW t \in Threads, GetLock(t) PROVE IInv'
  <2>1. Goto(t, "get.lock", "get.read")
    BY <1>12 DEF GetLock, Lock
  <2>2. TypeOK'
    BY <1>12 DEF GetLock, Goto, Lock, ring, sems, TypeOK, PCs, PutPCs, GetPCs, PeekPCs, Hows
  <2>3. LockInv'
    BY <1>12 DEF GetLock, Goto, Lock, ring, sems, TypeOK, LockInv, Critical
  <2>4. RingInv'
    BY <1>12 DEF GetLock, Goto, Lock, ring, sems, TypeOK, RingInv, Slot
  <2>5. DataAccounting' /\ SlotAccounting'
    <3> DEFINE from == "get.lock"
               to == "get.read"
    <3>1. sz_' - dataSem' - Owed(to) = sz_ - dataSem - Owed(from)
      BY <1>12, <2>2 DEF GetLock, Goto, Lock, ring, sems, TypeOK, Owed, SlotOwed,
         PutHeldPCs, GetHeldPCs, PutPostPCs, GetPostPCs
    <3>2. cap' - sz_' - slotSem' - SlotOwed(to) = cap - sz_ - slotSem - SlotOwed(from)
      BY <1>12, <2>2 DEF GetLock, Goto, Lock, ring, sems, TypeOK, Owed, SlotOwed,
         PutHeldPCs, GetHeldPCs, PutPostPCs, GetPostPCs
    <3>3. from \in PCs /\ to \in PCs
      BY DEF PCs, PutPCs, GetPCs, PeekPCs
    <3> HIDE DEF from, to
    <3> QED BY <2>1, <2>2, <3>1, <3>2, <3>3, Accounts DEF from, to
  <2>6. StoredInv'
    BY <1>12 DEF GetLock, Goto, Lock, ring, sems, TypeOK, RingInv, StoredInv, Slot, Carrying, PutPCs, LockInv, Critical
  <2> QED BY <2>2, <2>3, <2>4, <2>5, <2>6
<1>13. ASSUME NEW t \in Threads, GetRead(t) PROVE IInv'
  <2>0. /\ cap \in Nat /\ cap <= MaxCap /\ get_ \in Nat /\ sz_ \in Nat
        /\ put_ = Slot(sz_) /\ sz_ > 0 /\ get_ < cap
        /\ pc[t] = "get.read"
    BY <1>13, Claims DEF GetRead, Goto, TypeOK, RingInv, GetHeldPCs
  <2>7. buf[get_] \in Values
    BY <2>0 DEF StoredInv, Slot
  <2>1. Goto(t, "get.read", "get.link")
    BY <1>13 DEF GetRead, SetVal
  <2>2. TypeOK'
    BY <1>13, <2>7 DEF GetRead, Goto, SetVal, ring, sems, TypeOK, PCs, GetPCs
  <2>3. LockInv'
    BY <1>13 DEF GetRead, Goto, SetVal, ring, sems, TypeOK, LockInv, Critical
  <2>4. RingInv'
    BY <1>13 DEF GetRead, Goto, SetVal, ring, sems, TypeOK, RingInv, Slot
  <2>5. DataAccounting' /\ SlotAccounting'
    <3> DEFINE from == "get.read"
               to == "get.link"
    <3>1. sz_' - dataSem' - Owed(to) = sz_ - dataSem - Owed(from)
      BY <1>13, <2>2 DEF GetRead, Goto, SetVal, ring, sems, TypeOK, Owed, SlotOwed,
         PutHeldPCs, GetHeldPCs, PutPostPCs, GetPostPCs
    <3>2. cap' - sz_' - slotSem' - SlotOwed(to) = cap - sz_ - slotSem - SlotOwed(from)
      BY <1>13, <2>2 DEF GetRead, Goto, SetVal, ring, sems, TypeOK, Owed, SlotOwed,
         PutHeldPCs, GetHeldPCs, PutPostPCs, GetPostPCs
    <3>3. from \in PCs /\ to \in PCs
      BY DEF PCs, PutPCs, GetPCs, PeekPCs
    <3> HIDE DEF from, to
    <3> QED BY <2>1, <2>2, <3>1, <3>2, <3>3, Accounts DEF from, to
  <2>6. StoredInv'
    BY <1>13, <2>7 DEF GetRead, Goto, SetVal, ring, sems, TypeOK, StoredInv, Slot, Carrying, PutPCs, LockInv, Critical
  <2> QED BY <2>2, <2>3, <2>4, <2>5, <2>6
<1>14. ASSUME NEW t \in Threads, GetLink(t) PROVE IInv'
  <2>0. /\ cap \in Nat /\ cap <= MaxCap /\ get_ \in Nat /\ sz_ \in Nat
        /\ put_ = Slot(sz_) /\ sz_ > 0 /\ get_ < cap /\ sz_ <= cap
        /\ pc[t] = "get.link" /\ buf[get_] = val[t]
    BY <1>14, Claims DEF GetLink, Goto, TypeOK, RingInv, GetHeldPCs, StoredInv
  <2>7. get_' \in 0..MaxCap /\ get_' < cap /\ sz_' = sz_ - 1 /\ sz_' \in Nat /\ cap' = cap
    BY <1>14, <2>0 DEF GetLink, next
  <2>8. \A i \in 0..(sz_ - 1) : Slot(i)' = Slot(i + 1)
    BY <1>14, <2>0 DEF GetLink, next, Slot
  <2>1. Goto(t, "get.link", "get.post")
    BY <1>14 DEF GetLink
  <2>2. TypeOK'
    BY <1>14, <2>7 DEF GetLink, Goto, sems, TypeOK, PCs, GetPCs
  <2>3. LockInv'
    BY <1>14 DEF GetLink, Goto, ring, sems, TypeOK, LockInv, Critical
  <2>4. RingInv'
    BY <1>14, <2>0, <2>7 DEF GetLink, next, RingInv, Slot
  <2>5. DataAccounting' /\ SlotAccounting'
    <3> DEFINE from == "get.link"
               to == "get.post"
    <3>1. sz_' - dataSem' - Owed(to) = sz_ - dataSem - Owed(from)
      BY <1>14, <2>2 DEF GetLink, Goto, ring, sems, TypeOK, Owed, SlotOwed,
         PutHeldPCs, GetHeldPCs, PutPostPCs, GetPostPCs
    <3>2. cap' - sz_' - slotSem' - SlotOwed(to) = cap - sz_ - slotSem - SlotOwed(from)
      BY <1>14, <2>2 DEF GetLink, Goto, ring, sems, TypeOK, Owed, SlotOwed,
         PutHeldPCs, GetHeldPCs, PutPostPCs, GetPostPCs
    <3>3. from \in PCs /\ to \in PCs
      BY DEF PCs, PutPCs, GetPCs, PeekPCs
    <3> HIDE DEF from, to
    <3> QED BY <2>1, <2>2, <3>1, <3>2, <3>3, Accounts DEF from, to
  <2>6. StoredInv'
    <3>1. val[t] \in Values
      BY <2>0 DEF StoredInv, Slot
    <3>2. \A i \in 0..(sz_' - 1) : i + 1 \in 0..(sz_ - 1) /\ i \in 0..(sz_ - 1)
      BY <2>0, <2>7
    <3>3. \A i \in 0..(sz_' - 1) : buf'[Slot(i)'] \in Values
      BY <1>14, <2>8, <3>2 DEF GetLink, StoredInv
    <3>4. \A u \in Threads \ {t} : pc[u] \notin {"put.link", "get.link"}
      BY <1>14 DEF GetLink, Goto, LockInv, Critical
    <3> QED BY <1>14, <3>1, <3>3, <3>4 DEF GetLink, Goto, sems, TypeOK, StoredInv, Carrying, PutPCs
  <2> QED BY <2>2, <2>3, <2>4, <2>5, <2>6
<1>15. ASSUME NEW t \in Threads, GetPost(t) PROVE IInv'
  <2>1. Goto(t, "get.post", "idle")
    BY <1>15 DEF GetPost, Return, SetVal
  <2>2. TypeOK'
    BY <1>15 DEF GetPost, Goto, Return, SetVal, ring, sems, TypeOK, PCs, PutPCs, GetPCs, PeekPCs, Hows
  <2>3. LockInv'
    BY <1>15 DEF GetPost, Goto, Return, SetVal, ring, sems, TypeOK, LockInv, Critical
  <2>4. RingInv'
    BY <1>15 DEF GetPost, Goto, Return, SetVal, ring, sems, TypeOK, RingInv, Slot
  <2>5. DataAccounting' /\ SlotAccounting'
    <3> DEFINE from == "get.post"
               to == "idle"
    <3>1. sz_' - dataSem' - Owed(to) = sz_ - dataSem - Owed(from)
      BY <1>15, <2>2 DEF GetPost, Goto, Return, SetVal, ring, sems, TypeOK, Owed, SlotOwed,
         PutHeldPCs, GetHeldPCs, PutPostPCs, GetPostPCs
    <3>2. cap' - sz_' - slotSem' - SlotOwed(to) = cap - sz_ - slotSem - SlotOwed(from)
      BY <1>15, <2>2 DEF GetPost, Goto, Return, SetVal, ring, sems, TypeOK, Owed, SlotOwed,
         PutHeldPCs, GetHeldPCs, PutPostPCs, GetPostPCs
    <3>3. from \in PCs /\ to \in PCs
      BY DEF PCs, PutPCs, GetPCs, PeekPCs
    <3> HIDE DEF from, to
    <3> QED BY <2>1, <2>2, <3>1, <3>2, <3>3, Accounts DEF from, to
  <2>6. StoredInv'
    BY <1>15 DEF GetPost, Goto, Return, SetVal, ring, sems, TypeOK, RingInv, StoredInv, Slot, Carrying, PutPCs, LockInv, Critical
  <2> QED BY <2>2, <2>3, <2>4, <2>5, <2>6
<1>16. ASSUME NEW t \in Threads, PeekCall(t) PROVE IInv'
  <2>1. Goto(t, "idle", "peek.check")
    BY <1>16 DEF PeekCall, Call, SetVal
  <2>2. TypeOK'
    BY <1>16 DEF PeekCall, Goto, Call, SetVal, ring, sems, TypeOK, PCs, PutPCs, GetPCs, PeekPCs, Hows
  <2>3. LockInv'
    BY <1>16 DEF PeekCall, Goto, Call, SetVal, ring, sems, TypeOK, LockInv, Critical
  <2>4. RingInv'
    BY <1>16 DEF PeekCall, Goto, Call, SetVal, ring, sems, TypeOK, RingInv, Slot
  <2>5. DataAccounting' /\ SlotAccounting'
    <3> DEFINE from == "idle"
               to == "peek.check"
    <3>1. sz_' - dataSem' - Owed(to) = sz_ - dataSem - Owed(from)
      BY <1>16, <2>2 DEF PeekCall, Goto, Call, SetVal, ring, sems, TypeOK, Owed, SlotOwed,
         PutHeldPCs, GetHeldPCs, PutPostPCs, GetPostPCs
    <3>2. cap' - sz_' - slotSem' - SlotOwed(to) = cap - sz_ - slotSem - SlotOwed(from)
      BY <1>16, <2>2 DEF PeekCall, Goto, Call, SetVal, ring, sems, TypeOK, Owed, SlotOwed,
         PutHeldPCs, GetHeldPCs, PutPostPCs, GetPostPCs
    <3>3. from \in PCs /\ to \in PCs
      BY DEF PCs, PutPCs, GetPCs, PeekPCs
    <3> HIDE DEF from, to
    <3> QED BY <2>1, <2>2, <3>1, <3>2, <3>3, Accounts DEF from, to
  <2>6. StoredInv'
    BY <1>16 DEF PeekCall, Goto, Call, SetVal, ring, sems, TypeOK, RingInv, StoredInv, Slot, Carrying, PutPCs, LockInv, Critical
  <2> QED BY <2>2, <2>3, <2>4, <2>5, <2>6
<1>17. ASSUME NEW t \in Threads, PeekCheck(t) PROVE IInv'
  <2>1. Goto(t, "peek.check", IF sz_ # 0 THEN "peek.lock" ELSE "idle")
    BY <1>17 DEF PeekCheck
  <2>2. TypeOK'
    BY <1>17 DEF PeekCheck, Goto, ring, sems, TypeOK, PCs, PutPCs, GetPCs, PeekPCs, Hows
  <2>3. LockInv'
    BY <1>17 DEF PeekCheck, Goto, ring, sems, TypeOK, LockInv, Critical
  <2>4. RingInv'
    BY <1>17 DEF PeekCheck, Goto, ring, sems, TypeOK, RingInv, Slot
  <2>5. DataAccounting' /\ SlotAccounting'
    <3> DEFINE from == "peek.check"
               to == IF sz_ # 0 THEN "peek.lock" ELSE "idle"
    <3>1. sz_' - dataSem' - Owed(to) = sz_ - dataSem - Owed(from)
      BY <1>17, <2>2 DEF PeekCheck, Goto, ring, sems, TypeOK, Owed, SlotOwed,
         PutHeldPCs, GetHeldPCs, PutPostPCs, GetPostPCs
    <3>2. cap' - sz_' - slotSem' - SlotOwed(to) = cap - sz_ - slotSem - SlotOwed(from)
      BY <1>17, <2>2 DEF PeekCheck, Goto, ring, sems, TypeOK, Owed, SlotOwed,
         PutHeldPCs, GetHeldPCs, PutPostPCs, GetPostPCs
    <3>3. from \in PCs /\ to \in PCs
      BY DEF PCs, PutPCs, GetPCs, PeekPCs
    <3> HIDE DEF from, to
    <3> QED BY <2>1, <2>2, <3>1, <3>2, <3>3, Accounts DEF from, to
  <2>6. StoredInv'
    BY <1>17 DEF PeekCheck, Goto, ring, sems, TypeOK, RingInv, StoredInv, Slot, Carrying, PutPCs, LockInv, Critical
  <2> QED BY <2>2, <2>3, <2>4, <2>5, <2>6
<1>18. ASSUME NEW t \in Threads, PeekLock(t) PROVE IInv'
  <2>1. Goto(t, "peek.lock", "peek.read")
    BY <1>18 DEF PeekLock, Lock
  <2>2. TypeOK'
    BY <1>18 DEF PeekLock, Goto, Lock, ring, sems, TypeOK, PCs, PutPCs, GetPCs, PeekPCs, Hows
  <2>3. LockInv'
    BY <1>18 DEF PeekLock, Goto, Lock, ring, sems, TypeOK, LockInv, Critical
  <2>4. RingInv'
    BY <1>18 DEF PeekLock, Goto, Lock, ring, sems, TypeOK, RingInv, Slot
  <2>5. DataAccounting' /\ SlotAccounting'
    <3> DEFINE from == "peek.lock"
               to == "peek.read"
    <3>1. sz_' - dataSem' - Owed(to) = sz_ - dataSem - Owed(from)
      BY <1>18, <2>2 DEF PeekLock, Goto, Lock, ring, sems, TypeOK, Owed, SlotOwed,
         PutHeldPCs, GetHeldPCs, PutPostPCs, GetPostPCs
    <3>2. cap' - sz_' - slotSem' - SlotOwed(to) = cap - sz_ - slotSem - SlotOwed(from)
      BY <1>18, <2>2 DEF PeekLock, Goto, Lock, ring, sems, TypeOK, Owed, SlotOwed,
         PutHeldPCs, GetHeldPCs, PutPostPCs, GetPostPCs
    <3>3. from \in PCs /\ to \in PCs
      BY DEF PCs, PutPCs, GetPCs, PeekPCs
    <3> HIDE DEF from, to
    <3> QED BY <2>1, <2>2, <3>1, <3>2, <3>3, Accounts DEF from, to
  <2>6. StoredInv'
    BY <1>18 DEF PeekLock, Goto, Lock, ring, sems, TypeOK, RingInv, StoredInv, Slot, Carrying, PutPCs, LockInv, Critical
  <2> QED BY <2>2, <2>3, <2>4, <2>5, <2>6
<1>19. ASSUME NEW t \in Threads, PeekRead(t) PROVE IInv'
  <2>7. sz_ # 0 => 0 \in 0..(sz_ - 1) /\ Slot(0) = get_
    BY DEF TypeOK, RingInv, Slot
  <2>0. sz_ # 0 => buf[get_] \in Values
    BY <2>7 DEF StoredInv
  <2>1. Goto(t, "peek.read", IF sz_ # 0 THEN "peek.return" ELSE "idle")
    BY <1>19 DEF PeekRead
  <2>2. TypeOK'
    BY <1>19, <2>0 DEF PeekRead, Goto, ring, sems, TypeOK, PCs, PeekPCs
  <2>3. LockInv'
    BY <1>19 DEF PeekRead, Goto, ring, sems, TypeOK, LockInv, Critical
  <2>4. RingInv'
    BY <1>19 DEF PeekRead, Goto, ring, sems, TypeOK, RingInv, Slot
  <2>5. DataAccounting' /\ SlotAccounting'
    <3> DEFINE from == "peek.read"
               to == IF sz_ # 0 THEN "peek.return" ELSE "idle"
    <3>1. sz_' - dataSem' - Owed(to) = sz_ - dataSem - Owed(from)
      BY <1>19, <2>2 DEF PeekRead, Goto, ring, sems, TypeOK, Owed, SlotOwed,
         PutHeldPCs, GetHeldPCs, PutPostPCs, GetPostPCs
    <3>2. cap' - sz_' - slotSem' - SlotOwed(to) = cap - sz_ - slotSem - SlotOwed(from)
      BY <1>19, <2>2 DEF PeekRead, Goto, ring, sems, TypeOK, Owed, SlotOwed,
         PutHeldPCs, GetHeldPCs, PutPostPCs, GetPostPCs
    <3>3. from \in PCs /\ to \in PCs
      BY DEF PCs, PutPCs, GetPCs, PeekPCs
    <3> HIDE DEF from, to
    <3> QED BY <2>1, <2>2, <3>1, <3>2, <3>3, Accounts DEF from, to
  <2>6. StoredInv'
    BY <1>19, <2>0 DEF PeekRead, Goto, ring, sems, TypeOK, StoredInv, Slot, Carrying, PutPCs, LockInv, Critical
  <2> QED BY <2>2, <2>3, <2>4, <2>5, <2>6
<1>20. ASSUME NEW t \in Threads, PeekReturn(t) PROVE IInv'
  <2>1. Goto(t, "peek.return", "idle")
    BY <1>20 DEF PeekReturn, Return, SetVal
  <2>2. TypeOK'
    BY <1>20 DEF PeekReturn, Goto, Return, SetVal, ring, sems, TypeOK, PCs, PutPCs, GetPCs, PeekPCs, Hows
  <2>3. LockInv'
    BY <1>20 DEF PeekReturn, Goto, Return, SetVal, ring, sems, TypeOK, LockInv, Critical
  <2>4. RingInv'
    BY <1>20 DEF PeekReturn, Goto, Return, SetVal, ring, sems, TypeOK, RingInv, Slot
  <2>5. DataAccounting' /\ SlotAccounting'
    <3> DEFINE from == "peek.return"
               to == "idle"
    <3>1. sz_' - dataSem' - Owed(to) = sz_ - dataSem - Owed(from)
      BY <1>20, <2>2 DEF PeekReturn, Goto, Return, SetVal, ring, sems, TypeOK, Owed, SlotOwed,
         PutHeldPCs, GetHeldPCs, PutPostPCs, GetPostPCs
    <3>2. cap' - sz_' - slotSem' - SlotOwed(to) = cap - sz_ - slotSem - SlotOwed(from)
      BY <1>20, <2>2 DEF PeekReturn, Goto, Return, SetVal, ring, sems, TypeOK, Owed, SlotOwed,
         PutHeldPCs, GetHeldPCs, PutPostPCs, GetPostPCs
    <3>3. from \in PCs /\ to \in PCs
      BY DEF PCs, PutPCs, GetPCs, PeekPCs
    <3> HIDE DEF from, to
    <3> QED BY <2>1, <2>2, <3>1, <3>2, <3>3, Accounts DEF from, to
  <2>6. StoredInv'
    BY <1>20 DEF PeekReturn, Goto, Return, SetVal, ring, sems, TypeOK, RingInv, StoredInv, Slot, Carrying, PutPCs, LockInv, Critical
  <2> QED BY <2>2, <2>3, <2>4, <2>5, <2>6
<1>21. ASSUME NEW c \in 0..MaxCap, Resize(c) PROVE IInv'
  <2>1. TypeOK'
    BY <1>21 DEF Resize, TypeOK
  <2>2. LockInv' /\ RingInv' /\ StoredInv'
    BY <1>21 DEF Resize, TypeOK, LockInv, Critical, RingInv, Slot, StoredInv, Carrying, PutPCs
  <2>3. pc' \in [Threads -> {"idle"}]
    BY <1>21 DEF Resize, TypeOK
  <2>4. /\ Cardinality(PutHeld') = 0 /\ Cardinality(GetHeld') = 0
        /\ Cardinality(PutPosting') = 0 /\ Cardinality(GetPosting') = 0
    BY <2>3, IdleCounts DEF PutHeld, GetHeld, PutPosting, GetPosting, At,
       PutHeldPCs, GetHeldPCs, PutPostPCs, GetPostPCs
  <2>5. DataAccounting' /\ SlotAccounting'
    BY <1>21, <2>4 DEF Resize, DataAccounting, SlotAccounting
  <2> QED BY <2>1, <2>2, <2>5
<1> QED
  BY <1>1, <1>2, <1>3, <1>4, <1>5, <1>6, <1>7, <1>8, <1>9, <1>10, <1>11, <1>12,
     <1>13, <1>14, <1>15, <1>16, <1>17, <1>18, <1>19, <1>20, <1>21
     DEF Next, CallOp, Step

\* The variables keep their types: no count and no pointer of MsgQueue.h
\* leaves its range, in any interleaving.
THEOREM TypeCorrect == Spec => []TypeOK
<1>1. IInv => TypeOK
  BY DEF IInv
<1> QED BY <1>1, InitInv, NextInv, PTL DEF Spec

\* The semaphores account for every message and every free slot of the ring.
THEOREM AccountsHold == Spec => [](DataAccounting /\ SlotAccounting)
<1>1. IInv => DataAccounting /\ SlotAccounting
  BY DEF IInv
<1> QED BY <1>1, InitInv, NextInv, PTL DEF Spec

\* The mutex, the ring and the slots' account agree in every interleaving of puts,
\* gets, peeks and resizes: one thread inside, put_ = get_ + sz_ round the ring,
\* every slot between them holding a message, every free one announced or promised.
THEOREM RingSafe == Spec => []RingHolds
<1>1. IInv => RingHolds
  BY DEF IInv, RingHolds
<1> QED BY InitInv, NextInv, <1>1, PTL DEF Spec

\* do_put() never writes a slot that holds an unread message and do_get()
\* never reads one that holds none, though neither looks.
THEOREM SlotsSafe == Spec => []NoOverwrite
<1>1. ASSUME IInv PROVE NoOverwrite
  <2> SUFFICES ASSUME NEW t \in Threads
               PROVE  /\ pc[t] = "put.store" =>
                           sz_ < cap /\ \A i \in 0..(sz_ - 1) : put_ # Slot(i)
                      /\ pc[t] \in {"get.read", "get.link"} =>
                           sz_ > 0 /\ buf[get_] \in Values
    BY DEF NoOverwrite
  <2>1. /\ pc[t] \in GetHeldPCs => sz_ > 0
        /\ pc[t] \in PutHeldPCs => sz_ < cap
    BY <1>1, Claims DEF IInv
  <2>2. cap \in Nat /\ get_ \in Nat /\ sz_ \in Nat
    BY <1>1, CapAssumption DEF IInv, TypeOK
  <2>3. CASE pc[t] = "put.store"
    <3>1. sz_ < cap /\ get_ < cap /\ put_ = Slot(sz_)
      BY <1>1, <2>1, <2>2, <2>3 DEF IInv, RingInv, PutHeldPCs
    <3> QED BY <2>2, <2>3, <3>1 DEF Slot
  <2>4. CASE pc[t] \in {"get.read", "get.link"}
    <3>1. sz_ > 0 /\ get_ < cap
      BY <1>1, <2>1, <2>2, <2>4 DEF IInv, RingInv, GetHeldPCs
    <3> QED BY <1>1, <2>2, <2>4, <3>1 DEF IInv, StoredInv, Slot
  <2> QED BY <2>3, <2>4
<1> QED BY <1>1, InitInv, NextInv, PTL DEF Spec

\* Once nothing is in flight the counts are exact: no message and no slot is
\* lost by any sequence of operations, timeouts and resizes.
THEOREM CountsExact == Spec => []QuiescentExact
<1>1. ASSUME IInv PROVE QuiescentExact
  <2> SUFFICES ASSUME \A t \in Threads : pc[t] \in {"idle", "put.acquire", "get.acquire"}
               PROVE  dataSem = sz_ /\ slotSem = cap - sz_
    BY DEF QuiescentExact
  <2>1. PutHeld = {} /\ GetHeld = {} /\ PutPosting = {} /\ GetPosting = {}
    BY DEF PutHeld, GetHeld, PutPosting, GetPosting, At,
       PutHeldPCs, GetHeldPCs, PutPostPCs, GetPostPCs
  <2>2. Cardinality({}) = 0
    BY FS_EmptySet
  <2> QED BY <1>1, <2>1, <2>2, CapAssumption DEF IInv, TypeOK, DataAccounting, SlotAccounting
<1> QED BY <1>1, InitInv, NextInv, PTL DEF Spec

-----------------------------------------------------------------------------
(* The queue implements the bounded FIFO.                                  *)

\* The contents are a sequence of messages.
LEMMA ContentsType ==
  ASSUME IInv
  PROVE  Contents \in Seq(Values) /\ Len(Contents) = sz_ /\ sz_ \in Nat
<1>1. sz_ \in Nat /\ \A i \in 1..sz_ : buf[Slot(i - 1)] \in Values
  <2>1. sz_ \in Nat
    BY DEF IInv, TypeOK
  <2>2. \A i \in 1..sz_ : i - 1 \in 0..(sz_ - 1)
    BY <2>1
  <2> QED BY <2>1, <2>2 DEF IInv, StoredInv
<1> HIDE DEF IInv
<1>2. Contents \in [1..sz_ -> Values]
  BY <1>1 DEF Contents
<1> QED BY <1>1, <1>2

\* What a thread's move is in the abstract specification.
LEMMA AbsMove ==
  ASSUME TypeOK, NEW t \in Threads, NEW from, NEW to, Goto(t, from, to)
  PROVE  /\ AbsOp[t] = OpOf(from)
         /\ AbsOp' = [AbsOp EXCEPT ![t] = OpOf(to)]
BY DEF TypeOK, Goto, AbsOp

\* The abstract message of a thread is the concrete one while it carries one.
LEMMA AbsMsgMove ==
  ASSUME TypeOK, NEW t \in Threads, NEW from, NEW to, Goto(t, from, to),
         NEW m, m = (IF to \in Carrying THEN val'[t] ELSE NoMsg),
         \A u \in Threads \ {t} : val'[u] = val[u]
  PROVE  AbsMsg' = [AbsMsg EXCEPT ![t] = m]
BY DEF TypeOK, Goto, AbsMsg

\* A ring that is left alone has the same contents.
LEMMA ContentsSame ==
  ASSUME UNCHANGED ring
  PROVE  Contents' = Contents /\ cap' = cap
BY DEF ring, Contents, Slot

\* do_put()'s store hits no message, and its link appends the stored one.
LEMMA ContentsPut ==
  ASSUME IInv, NEW t \in Threads
  PROVE  /\ PutStore(t) => Contents' = Contents
         /\ PutLink(t) => Contents' = Append(Contents, val[t]) /\ sz_ < cap
<1> USE CapAssumption
<1>0. /\ cap \in Nat /\ cap <= MaxCap /\ get_ \in Nat /\ sz_ \in Nat /\ sz_ <= cap
      /\ put_ = Slot(sz_)
      /\ cap > 0 => get_ < cap
  BY DEF IInv, TypeOK, RingInv
<1>1. ASSUME PutStore(t) PROVE Contents' = Contents
  <2>1. sz_ < cap /\ get_ < cap
    BY <1>0, <1>1, Claims DEF IInv, PutStore, Goto, PutHeldPCs
  <2>2. \A i \in 1..sz_ : Slot(i - 1) # put_ /\ Slot(i - 1) \in 0..(MaxCap - 1)
    BY <1>0, <2>1 DEF Slot
  <2>3. \A i \in 1..sz_ : buf'[Slot(i - 1)] = buf[Slot(i - 1)]
    BY <1>1, <2>2 DEF PutStore, IInv, TypeOK
  <2>4. Contents' = [i \in 1..sz_ |-> buf'[Slot(i - 1)]]
    BY <1>1 DEF PutStore, Contents, Slot
  <2> QED BY <2>3, <2>4 DEF Contents
<1>2. ASSUME PutLink(t) PROVE Contents' = Append(Contents, val[t]) /\ sz_ < cap
  <2>1. sz_ < cap /\ get_ < cap
    BY <1>0, <1>2, Claims DEF IInv, PutLink, Goto, PutHeldPCs
  <2>2. buf[Slot(sz_)] = val[t]
    BY <1>0, <1>2 DEF PutLink, Goto, IInv, StoredInv
  <2>3. Contents' = [i \in 1..(sz_ + 1) |-> buf[Slot(i - 1)]]
    BY <1>2 DEF PutLink, Contents, Slot
  <2>4. Contents \in Seq(Values) /\ Len(Contents) = sz_
    BY ContentsType
  <2>5. \A i \in 1..(sz_ + 1) : Append(Contents, val[t])[i] = buf[Slot(i - 1)]
    <3> SUFFICES ASSUME NEW i \in 1..(sz_ + 1)
                 PROVE  Append(Contents, val[t])[i] = buf[Slot(i - 1)]
      OBVIOUS
    <3>1. CASE i \in 1..sz_
      <4>1. Contents[i] = buf[Slot(i - 1)]
        BY <3>1 DEF Contents
      <4> QED BY <1>0, <2>4, <3>1, <4>1
    <3>2. CASE i = sz_ + 1
      <4>1. i - 1 = sz_
        BY <1>0, <3>2
      <4>2. Append(Contents, val[t])[i] = val[t]
        BY <1>0, <2>4, <3>2
      <4> QED BY <2>2, <4>1, <4>2
    <3>3. i \in 1..sz_ \/ i = sz_ + 1
      BY <1>0
    <3> QED BY <3>1, <3>2, <3>3
  <2>6. Append(Contents, val[t]) = [i \in 1..(sz_ + 1) |-> Append(Contents, val[t])[i]]
    BY <1>0, <2>4
  <2>7. Append(Contents, val[t]) = [i \in 1..(sz_ + 1) |-> buf[Slot(i - 1)]]
    BY <2>5, <2>6
  <2> QED BY <2>1, <2>3, <2>7
<1> QED BY <1>1, <1>2

\* do_get()'s unlink removes the oldest message, which is the one it read;
\* a message that peek() finds is the oldest.
LEMMA ContentsGet ==
  ASSUME IInv, NEW t \in Threads
  PROVE  /\ sz_ # 0 => Contents # << >> /\ Head(Contents) = buf[get_]
         /\ GetLink(t) => sz_ # 0 /\ Contents' = Tail(Contents) /\ val[t] = buf[get_]
<1> USE CapAssumption
<1>0. /\ cap \in Nat /\ get_ \in Nat /\ sz_ \in Nat /\ sz_ <= cap
      /\ cap > 0 => get_ < cap
  BY DEF IInv, TypeOK, RingInv
<1>1. Contents \in Seq(Values) /\ Len(Contents) = sz_
  BY ContentsType
<1>2. ASSUME sz_ # 0 PROVE Contents # << >> /\ Head(Contents) = buf[get_]
  <2>1. Slot(1 - 1) = get_ /\ 1 \in 1..sz_
    BY <1>0, <1>2 DEF Slot
  <2>2. Contents[1] = buf[get_]
    BY <2>1 DEF Contents
  <2> QED BY <1>0, <1>1, <1>2, <2>2
<1>3. ASSUME GetLink(t) PROVE sz_ # 0 /\ Contents' = Tail(Contents) /\ val[t] = buf[get_]
  <2>1. sz_ > 0 /\ get_ < cap
    BY <1>0, <1>3, Claims DEF IInv, GetLink, Goto, GetHeldPCs
  <2>2. val[t] = buf[get_]
    BY <1>3 DEF GetLink, Goto, IInv, StoredInv
  <2>3. \A i \in 1..(sz_ - 1) : Slot(i - 1)' = Slot(i) /\ i + 1 \in 1..sz_ /\ (i + 1) - 1 = i
    BY <1>0, <1>3, <2>1 DEF GetLink, next, Slot
  <2>4. Contents' = [i \in 1..(sz_ - 1) |-> buf[Slot(i)]]
    <3>1. Contents' = [i \in 1..(sz_ - 1) |-> buf[Slot(i - 1)']]
      BY <1>3 DEF GetLink, Contents
    <3> QED BY <2>3, <3>1
  <2>5. Tail(Contents) = [i \in 1..(sz_ - 1) |-> Contents[i + 1]]
    <3> DEFINE T == Tail(Contents)
    <3>1. Contents # << >>
      BY <1>1, <2>1
    <3>2. /\ T \in Seq(Values) /\ Len(T) = sz_ - 1
          /\ \A i \in 1..(sz_ - 1) : T[i] = Contents[i + 1]
      BY <1>1, <3>1, HeadTailProperties
    <3> HIDE DEF T
    <3>3. T = [i \in 1..(sz_ - 1) |-> T[i]]
      BY <1>0, <2>1, <3>2
    <3>4. T = [i \in 1..(sz_ - 1) |-> Contents[i + 1]]
      BY <3>2, <3>3
    <3> QED BY <3>4 DEF T
  <2>6. \A i \in 1..(sz_ - 1) : Contents[i + 1] = buf[Slot(i)]
    <3> SUFFICES ASSUME NEW i \in 1..(sz_ - 1) PROVE Contents[i + 1] = buf[Slot(i)]
      OBVIOUS
    <3>1. i + 1 \in 1..sz_ /\ (i + 1) - 1 = i
      BY <2>3
    <3>2. Contents[i + 1] = buf[Slot((i + 1) - 1)]
      BY <3>1 DEF Contents
    <3> QED BY <3>1, <3>2
  <2> QED BY <2>1, <2>2, <2>4, <2>5, <2>6
<1> QED BY <1>2, <1>3

\* A fresh queue is a fresh bounded FIFO.
LEMMA InitRefines == Init => Fifo!AInit
<1> SUFFICES ASSUME Init PROVE Fifo!AInit
  OBVIOUS
<1>1. Contents = << >>
  BY DEF Init, Contents
<1>2. AbsOp = [t \in Threads |-> "idle"] /\ AbsMsg = [t \in Threads |-> NoMsg]
  BY DEF Init, AbsOp, OpOf, AbsMsg
<1> QED BY <1>1, <1>2 DEF Init, Fifo!AInit

\* Every step of the queue is a step of the bounded FIFO, or invisible.
LEMMA StepRefines == IInv /\ [Next]_vars => [Fifo!ANext]_(Fifo!avars)
<1> SUFFICES ASSUME IInv, [Next]_vars PROVE [Fifo!ANext]_(Fifo!avars)
  OBVIOUS
<1>0. TypeOK
  BY DEF IInv
<1>1. CASE UNCHANGED vars
  <2>1. UNCHANGED ring /\ UNCHANGED <<pc, val>>
    BY <1>1 DEF vars
  <2>2. UNCHANGED <<AbsOp, AbsMsg>>
    BY <2>1 DEF AbsOp, AbsMsg
  <2> QED BY <2>1, <2>2, ContentsSame DEF Fifo!avars
<1>2. ASSUME NEW t \in Threads, PutCall(t) PROVE [Fifo!ANext]_(Fifo!avars)
  <2>0. PICK v \in Values, h \in Hows : Call(t, "put.acquire", h, v)
    BY <1>2 DEF PutCall
  <2>1. Goto(t, "idle", "put.acquire") /\ val'[t] = v /\ \A u \in Threads \ {t} : val'[u] = val[u]
    BY <1>0, <2>0 DEF Call, SetVal, TypeOK
  <2>2. Contents' = Contents /\ cap' = cap
    BY <2>0, ContentsSame DEF Call
  <2>3. AbsOp[t] = "idle" /\ AbsOp' = [AbsOp EXCEPT ![t] = "put"]
    BY <1>0, <2>1, AbsMove DEF OpOf
  <2>4. AbsMsg' = [AbsMsg EXCEPT ![t] = v]
    BY <1>0, <2>1, AbsMsgMove DEF Carrying, PutPCs
  <2>5. Fifo!APutCall(t, v)
    BY <2>2, <2>3, <2>4 DEF Fifo!APutCall, Fifo!Enter
  <2> QED BY <2>5 DEF Fifo!ANext
<1>3. ASSUME NEW t \in Threads, PutAcquire(t) PROVE [Fifo!ANext]_(Fifo!avars)
  <2>1. Goto(t, "put.acquire", "put.lock") /\ val'[t] = val[t] /\ \A u \in Threads \ {t} : val'[u] = val[u]
    BY <1>0, <1>3 DEF PutAcquire, TypeOK
  <2>2. Contents' = Contents /\ cap' = cap
    BY <1>3, ContentsSame DEF PutAcquire
  <2>3. AbsOp' = AbsOp
    BY <1>0, <2>1 DEF AbsOp, OpOf, Goto, TypeOK
  <2>4. AbsMsg' = AbsMsg
    BY <1>0, <2>1 DEF AbsMsg, Goto, TypeOK, Carrying, PutPCs
  <2> QED BY <2>2, <2>3, <2>4 DEF Fifo!avars
<1>4. ASSUME NEW t \in Threads, PutFail(t) PROVE [Fifo!ANext]_(Fifo!avars)
  <2>1. Goto(t, "put.acquire", "idle") /\ val'[t] = NoMsg /\ \A u \in Threads \ {t} : val'[u] = val[u]
    BY <1>0, <1>4 DEF PutFail, SetVal, TypeOK
  <2>2. Contents' = Contents /\ cap' = cap
    BY <1>4, ContentsSame DEF PutFail, SetVal
  <2>3. AbsOp[t] = "put" /\ AbsOp' = [AbsOp EXCEPT ![t] = "idle"]
    BY <1>0, <2>1, AbsMove DEF OpOf
  <2>4. AbsMsg' = [AbsMsg EXCEPT ![t] = NoMsg]
    BY <1>0, <2>1, AbsMsgMove DEF Carrying, PutPCs
  <2>5. Fifo!APutFail(t)
    BY <2>2, <2>3, <2>4 DEF Fifo!APutFail, Fifo!Enter
  <2> QED BY <2>5 DEF Fifo!ANext
<1>5. ASSUME NEW t \in Threads, PutLock(t) PROVE [Fifo!ANext]_(Fifo!avars)
  <2>1. Goto(t, "put.lock", "put.store") /\ val'[t] = val[t] /\ \A u \in Threads \ {t} : val'[u] = val[u]
    BY <1>0, <1>5 DEF PutLock, Lock, TypeOK
  <2>2. Contents' = Contents /\ cap' = cap
    BY <1>5, ContentsSame DEF PutLock, Lock
  <2>3. AbsOp' = AbsOp
    BY <1>0, <2>1 DEF AbsOp, OpOf, Goto, TypeOK
  <2>4. AbsMsg' = AbsMsg
    BY <1>0, <2>1 DEF AbsMsg, Goto, TypeOK, Carrying, PutPCs
  <2> QED BY <2>2, <2>3, <2>4 DEF Fifo!avars
<1>6. ASSUME NEW t \in Threads, PutStore(t) PROVE [Fifo!ANext]_(Fifo!avars)
  <2>1. Goto(t, "put.store", "put.link") /\ val'[t] = val[t] /\ \A u \in Threads \ {t} : val'[u] = val[u]
    BY <1>0, <1>6 DEF PutStore, TypeOK
  <2>2. Contents' = Contents /\ cap' = cap
    BY <1>6, ContentsPut DEF PutStore
  <2>3. AbsOp' = AbsOp
    BY <1>0, <2>1 DEF AbsOp, OpOf, Goto, TypeOK
  <2>4. AbsMsg' = AbsMsg
    BY <1>0, <2>1 DEF AbsMsg, Goto, TypeOK, Carrying, PutPCs
  <2> QED BY <2>2, <2>3, <2>4 DEF Fifo!avars
<1>7. ASSUME NEW t \in Threads, PutLink(t) PROVE [Fifo!ANext]_(Fifo!avars)
  <2>1. Goto(t, "put.link", "put.post") /\ val'[t] = val[t] /\ \A u \in Threads \ {t} : val'[u] = val[u]
    BY <1>0, <1>7 DEF PutLink, TypeOK
  <2>2. /\ Contents' = Append(Contents, val[t]) /\ cap' = cap
        /\ Len(Contents) < cap
    BY <1>7, ContentsPut, ContentsType DEF PutLink
  <2>3. AbsOp[t] = "put" /\ AbsOp' = [AbsOp EXCEPT ![t] = "putDone"]
    BY <1>0, <2>1, AbsMove DEF OpOf
  <2>4. AbsMsg' = [AbsMsg EXCEPT ![t] = val[t]] /\ AbsMsg[t] = val[t]
    BY <1>0, <2>1, AbsMsgMove DEF AbsMsg, Goto, Carrying, PutPCs
  <2>5. Fifo!APutEffect(t)
    BY <2>2, <2>3, <2>4 DEF Fifo!APutEffect, Fifo!Enter
  <2> QED BY <2>5 DEF Fifo!ANext
<1>8. ASSUME NEW t \in Threads, PutPost(t) PROVE [Fifo!ANext]_(Fifo!avars)
  <2>1. Goto(t, "put.post", "idle") /\ val'[t] = NoMsg /\ \A u \in Threads \ {t} : val'[u] = val[u]
    BY <1>0, <1>8 DEF PutPost, Return, SetVal, TypeOK
  <2>2. Contents' = Contents /\ cap' = cap
    BY <1>8, ContentsSame DEF PutPost, Return, SetVal
  <2>3. AbsOp[t] = "putDone" /\ AbsOp' = [AbsOp EXCEPT ![t] = "idle"]
    BY <1>0, <2>1, AbsMove DEF OpOf
  <2>4. AbsMsg' = [AbsMsg EXCEPT ![t] = NoMsg]
    BY <1>0, <2>1, AbsMsgMove DEF Carrying, PutPCs
  <2>5. Fifo!APutReturn(t)
    BY <2>2, <2>3, <2>4 DEF Fifo!APutReturn, Fifo!Enter
  <2> QED BY <2>5 DEF Fifo!ANext
<1>9. ASSUME NEW t \in Threads, GetCall(t) PROVE [Fifo!ANext]_(Fifo!avars)
  <2>1. Goto(t, "idle", "get.acquire") /\ val'[t] = NoMsg /\ \A u \in Threads \ {t} : val'[u] = val[u]
    BY <1>0, <1>9 DEF GetCall, Call, SetVal, TypeOK
  <2>2. Contents' = Contents /\ cap' = cap
    BY <1>9, ContentsSame DEF GetCall, Call, SetVal
  <2>3. AbsOp[t] = "idle" /\ AbsOp' = [AbsOp EXCEPT ![t] = "get"]
    BY <1>0, <2>1, AbsMove DEF OpOf
  <2>4. AbsMsg' = [AbsMsg EXCEPT ![t] = NoMsg]
    BY <1>0, <2>1, AbsMsgMove DEF Carrying, PutPCs
  <2>5. Fifo!AGetCall(t)
    BY <2>2, <2>3, <2>4 DEF Fifo!AGetCall, Fifo!Enter
  <2> QED BY <2>5 DEF Fifo!ANext
<1>10. ASSUME NEW t \in Threads, GetAcquire(t) PROVE [Fifo!ANext]_(Fifo!avars)
  <2>1. Goto(t, "get.acquire", "get.lock") /\ val'[t] = val[t] /\ \A u \in Threads \ {t} : val'[u] = val[u]
    BY <1>0, <1>10 DEF GetAcquire, TypeOK
  <2>2. Contents' = Contents /\ cap' = cap
    BY <1>10, ContentsSame DEF GetAcquire
  <2>3. AbsOp' = AbsOp
    BY <1>0, <2>1 DEF AbsOp, OpOf, Goto, TypeOK
  <2>4. AbsMsg' = AbsMsg
    BY <1>0, <2>1 DEF AbsMsg, Goto, TypeOK, Carrying, PutPCs
  <2> QED BY <2>2, <2>3, <2>4 DEF Fifo!avars
<1>11. ASSUME NEW t \in Threads, GetFail(t) PROVE [Fifo!ANext]_(Fifo!avars)
  <2>1. Goto(t, "get.acquire", "idle") /\ val'[t] = val[t] /\ \A u \in Threads \ {t} : val'[u] = val[u]
    BY <1>0, <1>11 DEF GetFail, TypeOK
  <2>2. Contents' = Contents /\ cap' = cap
    BY <1>11, ContentsSame DEF GetFail
  <2>3. AbsOp[t] = "get" /\ AbsOp' = [AbsOp EXCEPT ![t] = "idle"]
    BY <1>0, <2>1, AbsMove DEF OpOf
  <2>4. AbsMsg' = [AbsMsg EXCEPT ![t] = NoMsg]
    BY <1>0, <2>1, AbsMsgMove DEF Carrying, PutPCs
  <2>5. Fifo!AGetFail(t)
    BY <2>2, <2>3, <2>4 DEF Fifo!AGetFail, Fifo!Enter
  <2> QED BY <2>5 DEF Fifo!ANext
<1>12. ASSUME NEW t \in Threads, GetLock(t) PROVE [Fifo!ANext]_(Fifo!avars)
  <2>1. Goto(t, "get.lock", "get.read") /\ val'[t] = val[t] /\ \A u \in Threads \ {t} : val'[u] = val[u]
    BY <1>0, <1>12 DEF GetLock, Lock, TypeOK
  <2>2. Contents' = Contents /\ cap' = cap
    BY <1>12, ContentsSame DEF GetLock, Lock
  <2>3. AbsOp' = AbsOp
    BY <1>0, <2>1 DEF AbsOp, OpOf, Goto, TypeOK
  <2>4. AbsMsg' = AbsMsg
    BY <1>0, <2>1 DEF AbsMsg, Goto, TypeOK, Carrying, PutPCs
  <2> QED BY <2>2, <2>3, <2>4 DEF Fifo!avars
<1>13. ASSUME NEW t \in Threads, GetRead(t) PROVE [Fifo!ANext]_(Fifo!avars)
  <2>1. Goto(t, "get.read", "get.link") /\ val'[t] = buf[get_] /\ \A u \in Threads \ {t} : val'[u] = val[u]
    BY <1>0, <1>13 DEF GetRead, SetVal, TypeOK
  <2>2. Contents' = Contents /\ cap' = cap
    BY <1>13, ContentsSame DEF GetRead, SetVal
  <2>3. AbsOp' = AbsOp
    BY <1>0, <2>1 DEF AbsOp, OpOf, Goto, TypeOK
  <2>4. AbsMsg' = AbsMsg
    BY <1>0, <2>1 DEF AbsMsg, Goto, TypeOK, Carrying, PutPCs
  <2> QED BY <2>2, <2>3, <2>4 DEF Fifo!avars
<1>14. ASSUME NEW t \in Threads, GetLink(t) PROVE [Fifo!ANext]_(Fifo!avars)
  <2>1. Goto(t, "get.link", "get.post") /\ val'[t] = val[t] /\ \A u \in Threads \ {t} : val'[u] = val[u]
    BY <1>0, <1>14 DEF GetLink, TypeOK
  <2>2. /\ Contents # << >> /\ Contents' = Tail(Contents)
        /\ Head(Contents) = val[t] /\ cap' = cap
    BY <1>14, ContentsGet DEF GetLink
  <2>3. AbsOp[t] = "get" /\ AbsOp' = [AbsOp EXCEPT ![t] = "getDone"]
    BY <1>0, <2>1, AbsMove DEF OpOf
  <2>4. AbsMsg' = [AbsMsg EXCEPT ![t] = val[t]]
    BY <1>0, <2>1, AbsMsgMove DEF Carrying
  <2>5. Fifo!AGetEffect(t)
    BY <2>2, <2>3, <2>4 DEF Fifo!AGetEffect, Fifo!Enter
  <2> QED BY <2>5 DEF Fifo!ANext
<1>15. ASSUME NEW t \in Threads, GetPost(t) PROVE [Fifo!ANext]_(Fifo!avars)
  <2>1. Goto(t, "get.post", "idle") /\ val'[t] = NoMsg /\ \A u \in Threads \ {t} : val'[u] = val[u]
    BY <1>0, <1>15 DEF GetPost, Return, SetVal, TypeOK
  <2>2. Contents' = Contents /\ cap' = cap
    BY <1>15, ContentsSame DEF GetPost, Return, SetVal
  <2>3. AbsOp[t] = "getDone" /\ AbsOp' = [AbsOp EXCEPT ![t] = "idle"]
    BY <1>0, <2>1, AbsMove DEF OpOf
  <2>4. AbsMsg' = [AbsMsg EXCEPT ![t] = NoMsg]
    BY <1>0, <2>1, AbsMsgMove DEF Carrying, PutPCs
  <2>5. Fifo!AGetReturn(t)
    BY <2>2, <2>3, <2>4 DEF Fifo!AGetReturn, Fifo!Enter
  <2> QED BY <2>5 DEF Fifo!ANext
<1>16. ASSUME NEW t \in Threads, PeekCall(t) PROVE [Fifo!ANext]_(Fifo!avars)
  <2>1. Goto(t, "idle", "peek.check") /\ val'[t] = NoMsg /\ \A u \in Threads \ {t} : val'[u] = val[u]
    BY <1>0, <1>16 DEF PeekCall, Call, SetVal, TypeOK
  <2>2. Contents' = Contents /\ cap' = cap
    BY <1>16, ContentsSame DEF PeekCall, Call, SetVal
  <2>3. AbsOp[t] = "idle" /\ AbsOp' = [AbsOp EXCEPT ![t] = "peek"]
    BY <1>0, <2>1, AbsMove DEF OpOf
  <2>4. AbsMsg' = [AbsMsg EXCEPT ![t] = NoMsg]
    BY <1>0, <2>1, AbsMsgMove DEF Carrying, PutPCs
  <2>5. Fifo!APeekCall(t)
    BY <2>2, <2>3, <2>4 DEF Fifo!APeekCall, Fifo!Enter
  <2> QED BY <2>5 DEF Fifo!ANext
<1>17. ASSUME NEW t \in Threads, PeekCheck(t) PROVE [Fifo!ANext]_(Fifo!avars)
  <2>1. Goto(t, "peek.check", IF sz_ # 0 THEN "peek.lock" ELSE "idle") /\ val'[t] = val[t] /\ \A u \in Threads \ {t} : val'[u] = val[u]
    BY <1>0, <1>17 DEF PeekCheck, TypeOK
  <2>2. Contents' = Contents /\ cap' = cap
    BY <1>17, ContentsSame DEF PeekCheck
  <2>3. CASE sz_ # 0
    <3>1. Goto(t, "peek.check", "peek.lock")
      BY <2>1, <2>3
    <3>2. AbsOp' = AbsOp
      BY <1>0, <3>1 DEF AbsOp, OpOf, Goto, TypeOK
    <3>3. AbsMsg' = AbsMsg
      BY <1>0, <2>1, <3>1 DEF AbsMsg, Goto, TypeOK, Carrying, PutPCs
    <3> QED BY <2>2, <3>2, <3>3 DEF Fifo!avars
  <2>4. CASE sz_ = 0
    <3>1. Goto(t, "peek.check", "idle")
      BY <2>1, <2>4
    <3>2. AbsOp[t] = "peek" /\ AbsOp' = [AbsOp EXCEPT ![t] = "idle"]
      BY <1>0, <3>1, AbsMove DEF OpOf
    <3>3. AbsMsg' = [AbsMsg EXCEPT ![t] = NoMsg]
      BY <1>0, <2>1, <3>1, AbsMsgMove DEF Carrying, PutPCs
    <3>4. Fifo!APeekFail(t)
      BY <2>2, <3>2, <3>3 DEF Fifo!APeekFail, Fifo!Enter
    <3> QED BY <3>4 DEF Fifo!ANext
  <2> QED BY <2>3, <2>4
<1>18. ASSUME NEW t \in Threads, PeekLock(t) PROVE [Fifo!ANext]_(Fifo!avars)
  <2>1. Goto(t, "peek.lock", "peek.read") /\ val'[t] = val[t] /\ \A u \in Threads \ {t} : val'[u] = val[u]
    BY <1>0, <1>18 DEF PeekLock, Lock, TypeOK
  <2>2. Contents' = Contents /\ cap' = cap
    BY <1>18, ContentsSame DEF PeekLock, Lock
  <2>3. AbsOp' = AbsOp
    BY <1>0, <2>1 DEF AbsOp, OpOf, Goto, TypeOK
  <2>4. AbsMsg' = AbsMsg
    BY <1>0, <2>1 DEF AbsMsg, Goto, TypeOK, Carrying, PutPCs
  <2> QED BY <2>2, <2>3, <2>4 DEF Fifo!avars
<1>19. ASSUME NEW t \in Threads, PeekRead(t) PROVE [Fifo!ANext]_(Fifo!avars)
  <2>1. Goto(t, "peek.read", IF sz_ # 0 THEN "peek.return" ELSE "idle") /\ val'[t] = (IF sz_ # 0 THEN buf[get_] ELSE val[t]) /\ \A u \in Threads \ {t} : val'[u] = val[u]
    BY <1>0, <1>19 DEF PeekRead, TypeOK
  <2>2. Contents' = Contents /\ cap' = cap
    BY <1>19, ContentsSame DEF PeekRead
  <2>3. CASE sz_ # 0
    <3>1. Goto(t, "peek.read", "peek.return") /\ val'[t] = buf[get_]
      BY <2>1, <2>3
    <3>2. AbsOp[t] = "peek" /\ AbsOp' = [AbsOp EXCEPT ![t] = "getDone"]
      BY <1>0, <3>1, AbsMove DEF OpOf
    <3>3. AbsMsg' = [AbsMsg EXCEPT ![t] = buf[get_]]
      BY <1>0, <2>1, <3>1, AbsMsgMove DEF Carrying
    <3>4. Contents # << >> /\ Head(Contents) = buf[get_]
      BY <2>3, ContentsGet
    <3>5. Fifo!APeekEffect(t)
      BY <2>2, <3>2, <3>3, <3>4 DEF Fifo!APeekEffect, Fifo!Enter
    <3> QED BY <3>5 DEF Fifo!ANext
  <2>4. CASE sz_ = 0
    <3>1. Goto(t, "peek.read", "idle")
      BY <2>1, <2>4
    <3>2. AbsOp[t] = "peek" /\ AbsOp' = [AbsOp EXCEPT ![t] = "idle"]
      BY <1>0, <3>1, AbsMove DEF OpOf
    <3>3. AbsMsg' = [AbsMsg EXCEPT ![t] = NoMsg]
      BY <1>0, <2>1, <3>1, AbsMsgMove DEF Carrying, PutPCs
    <3>4. Fifo!APeekFail(t)
      BY <2>2, <3>2, <3>3 DEF Fifo!APeekFail, Fifo!Enter
    <3> QED BY <3>4 DEF Fifo!ANext
  <2> QED BY <2>3, <2>4
<1>20. ASSUME NEW t \in Threads, PeekReturn(t) PROVE [Fifo!ANext]_(Fifo!avars)
  <2>1. Goto(t, "peek.return", "idle") /\ val'[t] = NoMsg /\ \A u \in Threads \ {t} : val'[u] = val[u]
    BY <1>0, <1>20 DEF PeekReturn, Return, SetVal, TypeOK
  <2>2. Contents' = Contents /\ cap' = cap
    BY <1>20, ContentsSame DEF PeekReturn, Return, SetVal
  <2>3. AbsOp[t] = "getDone" /\ AbsOp' = [AbsOp EXCEPT ![t] = "idle"]
    BY <1>0, <2>1, AbsMove DEF OpOf
  <2>4. AbsMsg' = [AbsMsg EXCEPT ![t] = NoMsg]
    BY <1>0, <2>1, AbsMsgMove DEF Carrying, PutPCs
  <2>5. Fifo!AGetReturn(t)
    BY <2>2, <2>3, <2>4 DEF Fifo!AGetReturn, Fifo!Enter
  <2> QED BY <2>5 DEF Fifo!ANext
<1>21. ASSUME NEW c \in 0..MaxCap, Resize(c) PROVE [Fifo!ANext]_(Fifo!avars)
  <2>1. Contents' = << >> /\ cap' = c
    BY <1>21 DEF Resize, Contents
  <2>2. UNCHANGED <<AbsOp, AbsMsg>>
    BY <1>21 DEF Resize, AbsOp, AbsMsg
  <2>3. \A t \in Threads : AbsOp[t] = "idle"
    BY <1>21 DEF Resize, AbsOp, OpOf
  <2>4. Fifo!AReset(c)
    BY <2>1, <2>2, <2>3 DEF Fifo!AReset
  <2> QED BY <2>4 DEF Fifo!ANext
<1> QED
  BY <1>1, <1>2, <1>3, <1>4, <1>5, <1>6, <1>7, <1>8, <1>9, <1>10, <1>11, <1>12,
     <1>13, <1>14, <1>15, <1>16, <1>17, <1>18, <1>19, <1>20, <1>21
     DEF Next, CallOp, Step

\* MsgQueue implements the bounded FIFO, whatever the threads, the messages
\* and the capacity.
THEOREM Refinement == Spec => FifoSpec
<1>1. Init /\ [][Next]_vars => []IInv
  BY InitInv, NextInv, PTL
<1> QED BY <1>1, InitRefines, StepRefines, PTL DEF Spec, FifoSpec, Fifo!ASpec
=============================================================================
