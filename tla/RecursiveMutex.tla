--------------------------- MODULE RecursiveMutex ---------------------------
(***************************************************************************)
(* RecursiveMutex of src/src/os/generic/RecursiveMutex.cpp: owner_ and     *)
(* level_ guarded by a ConditionVar, on which a thread waits while another *)
(* one owns the mutex.                                                     *)
(*                                                                         *)
(* The ConditionVar's own mutex is explicit (inner), because trylock()     *)
(* gives up when it is taken: a thread enters an operation in one step and *)
(* does the rest, up to its return or its wait, in another.                *)
(***************************************************************************)
EXTENDS Naturals, FiniteSets

CONSTANTS RmThreads,   \* the client threads
          RmNobody,    \* nobody
          MaxLevel     \* bound: how deep a client nests its locks

ASSUME RMNoThread == RmNobody \notin RmThreads
ASSUME RMLevel == MaxLevel \in Nat

VARIABLES owner_,      \* the thread that owns the mutex, if level_ > 0
          level_,      \* the nesting level
          rmInner,     \* the holder of cond_'s mutex
          rmPc,        \* each thread's place
          depth        \* what each client knows it holds: its unreleased locks

mutex == <<owner_, level_>>
rmVars == <<mutex, rmInner, rmPc, depth>>

\* enter: about to lock cond_; body: holds cond_; asleep: in cond_.wait();
\* awake: woken, about to lock cond_ again; recheck: holds it again.
RmPCs == {"idle", "lock.enter", "lock.body", "asleep", "awake", "recheck",
          "try.enter", "try.body", "unlock.enter", "unlock.body"}

RmTypeOK == /\ owner_ \in RmThreads \cup {RmNobody}
            /\ level_ \in Nat
            /\ rmInner \in RmThreads \cup {RmNobody}
            /\ rmPc \in [RmThreads -> RmPCs]
            /\ depth \in [RmThreads -> Nat]

\* The constructor leaves owner_ uninitialised.
RmInit == /\ owner_ \in RmThreads \cup {RmNobody}
          /\ level_ = 0
          /\ rmInner = RmNobody
          /\ rmPc = [t \in RmThreads |-> "idle"]
          /\ depth = [t \in RmThreads |-> 0]

-----------------------------------------------------------------------------

\* A thread starts an operation. Any thread may call unlock(), also one that
\* owns nothing.
RmCall(t) == /\ rmPc[t] = "idle"
             /\ \E at \in {"lock.enter", "try.enter", "unlock.enter"} :
                    /\ at # "unlock.enter" => depth[t] < MaxLevel
                    /\ rmPc' = [rmPc EXCEPT ![t] = at]
             /\ UNCHANGED <<mutex, rmInner, depth>>

\* Guard<ConditionVar> g(cond_), or the return of cond_.wait().
RmEnter(t) == /\ rmInner = RmNobody
              /\ rmInner' = t
              /\ \/ rmPc[t] = "lock.enter" /\ rmPc' = [rmPc EXCEPT ![t] = "lock.body"]
                 \/ rmPc[t] = "awake" /\ rmPc' = [rmPc EXCEPT ![t] = "recheck"]
                 \/ rmPc[t] = "unlock.enter" /\ rmPc' = [rmPc EXCEPT ![t] = "unlock.body"]
                 \/ rmPc[t] = "try.enter" /\ rmPc' = [rmPc EXCEPT ![t] = "try.body"]
              /\ UNCHANGED <<mutex, depth>>

\* owner_ = curr and ++level_, and the guard's release.
Grant(t) == /\ owner_' = t
            /\ level_' = level_ + 1
            /\ depth' = [depth EXCEPT ![t] = @ + 1]
            /\ rmPc' = [rmPc EXCEPT ![t] = "idle"]
            /\ rmInner' = RmNobody

\* cond_.wait() gives cond_'s mutex up.
Sleep(t) == /\ rmPc' = [rmPc EXCEPT ![t] = "asleep"]
            /\ rmInner' = RmNobody
            /\ UNCHANGED <<mutex, depth>>

\* lock(): nobody owns it, or the caller does; else it waits.
LockBody(t) == /\ rmPc[t] = "lock.body"
               /\ \/ (level_ = 0 \/ owner_ = t) /\ Grant(t)
                  \/ level_ > 0 /\ owner_ # t /\ Sleep(t)

\* lock()'s loop after a wakeup.
Recheck(t) == /\ rmPc[t] = "recheck"
              /\ \/ level_ = 0 /\ Grant(t)
                 \/ level_ > 0 /\ Sleep(t)

\* trylock(): cond_ is taken.
RmTryBusy(t) == /\ rmPc[t] = "try.enter"
                /\ rmInner # RmNobody
                /\ rmPc' = [rmPc EXCEPT ![t] = "idle"]
                /\ UNCHANGED <<mutex, rmInner, depth>>

\* trylock() holding cond_.
RmTryBody(t) == /\ rmPc[t] = "try.body"
                /\ \/ (level_ = 0 \/ owner_ = t) /\ Grant(t)
                   \/ /\ level_ > 0 /\ owner_ # t
                      /\ rmPc' = [rmPc EXCEPT ![t] = "idle"]
                      /\ rmInner' = RmNobody
                      /\ UNCHANGED <<mutex, depth>>

\* cond_.signal() wakes one sleeper, if there is one.
RmSignalOne(f) == \/ /\ \A t \in RmThreads : f[t] # "asleep"
                     /\ rmPc' = f
                  \/ \E t \in RmThreads : /\ f[t] = "asleep"
                                          /\ rmPc' = [f EXCEPT ![t] = "awake"]

\* A client's unlock() releases one of its locks, if it holds any.
Released(t) == [depth EXCEPT ![t] = IF @ > 0 THEN @ - 1 ELSE 0]

\* Bug seeded: the caller is not compared with the owner.
UnlockAnyone(t) == /\ rmPc[t] = "unlock.body"
                   /\ rmInner' = RmNobody
                   /\ depth' = Released(t)
                   /\ UNCHANGED owner_
                   /\ LET idle == [rmPc EXCEPT ![t] = "idle"] IN
                      \/ /\ level_ > 0
                         /\ level_' = level_ - 1
                         /\ IF level_ = 1 THEN RmSignalOne(idle) ELSE rmPc' = idle
                      \/ level_ = 0 /\ rmPc' = idle /\ UNCHANGED level_

\* Bug seeded: the last unlock() does not signal.
UnlockSilent(t) == /\ rmPc[t] = "unlock.body"
                   /\ rmInner' = RmNobody
                   /\ depth' = Released(t)
                   /\ rmPc' = [rmPc EXCEPT ![t] = "idle"]
                   /\ UNCHANGED owner_
                   /\ level_' = IF level_ > 0 /\ owner_ = t THEN level_ - 1 ELSE level_

\* unlock(): only the owner's has an effect, and the last one signals.
UnlockBody(t) == /\ rmPc[t] = "unlock.body"
                 /\ rmInner' = RmNobody
                 /\ depth' = Released(t)
                 /\ UNCHANGED owner_
                 /\ LET idle == [rmPc EXCEPT ![t] = "idle"] IN
                    \/ /\ level_ > 0 /\ owner_ = t
                       /\ level_' = level_ - 1
                       /\ IF level_ = 1 THEN RmSignalOne(idle) ELSE rmPc' = idle
                    \/ /\ level_ = 0 \/ owner_ # t
                       /\ rmPc' = idle
                       /\ UNCHANGED level_

RmSpuriousWakeup(t) == /\ rmPc[t] = "asleep"
                       /\ rmPc' = [rmPc EXCEPT ![t] = "awake"]
                       /\ UNCHANGED <<mutex, rmInner, depth>>

RmStep(t) == \/ RmEnter(t) \/ LockBody(t) \/ Recheck(t)
             \/ RmTryBusy(t) \/ RmTryBody(t) \/ UnlockBody(t)

RmNext == \E t \in RmThreads : RmCall(t) \/ RmStep(t) \/ RmSpuriousWakeup(t)

RmSpec == RmInit /\ [][RmNext]_rmVars

-----------------------------------------------------------------------------
(* Properties.                                                             *)

\* What clients believe they hold is what the object records: the owner has
\* taken level_ locks it has not released, nobody else has any, and unlock()
\* by a thread that is not the owner releases nothing.
LevelExact == \A t \in RmThreads :
  depth[t] = IF level_ > 0 /\ owner_ = t THEN level_ ELSE 0

\* At most one thread is between a lock() and its unlock().
Exclusion == \A t, u \in RmThreads : depth[t] > 0 /\ depth[u] > 0 => t = u

\* The one signal() is enough: while the mutex is free and a thread sleeps in
\* lock(), another has been woken and will look, and will signal when it
\* unlocks.
RmNoLostWakeup == level_ = 0 /\ (\E t \in RmThreads : rmPc[t] = "asleep")
                  => \E t \in RmThreads : rmPc[t] \in {"awake", "recheck"}
=============================================================================
