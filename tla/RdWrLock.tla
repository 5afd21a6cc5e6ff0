------------------------------ MODULE RdWrLock ------------------------------
(***************************************************************************)
(* RdWrLock of src/src/os/generic/RdWrLock.cpp: a readers/writer lock made *)
(* of two flags, a reader count and ONE condition variable, on which       *)
(* readers and both stages of wr_lock() wait.                              *)
(*                                                                         *)
(* Every operation runs under cond_'s mutex from its first line, or from   *)
(* the return of a wait, to its return or to the next wait: that stretch   *)
(* is one step here.  A thread inside a wait is asleep until a signal      *)
(* reaches it, or it wakes for no reason, as POSIX allows; then it is      *)
(* awake and takes its next step when it gets the mutex again.             *)
(*                                                                         *)
(* rd_unlock(), wr_unlock() and wr_demote() by a thread while no such lock *)
(* exists return false and change nothing; clients that unlock what they   *)
(* hold, the only ones modelled, never get there (see Held).               *)
(***************************************************************************)
EXTENDS Naturals, FiniteSets

CONSTANTS Threads,    \* the client threads
          MaxNest     \* bound: read locks one thread may hold at a time

ASSUME RWThreads == IsFiniteSet(Threads)
ASSUME RWNest == MaxNest \in Nat \ {0}

VARIABLES wrlk_,      \* a write lock is present
          wrwt_,      \* a writer is waiting for a lock
          nrd_,       \* the number of read locks
          pc,         \* each thread's place
          readLocks,  \* the read locks clients hold: <<thread, depth>>
          writers     \* the threads that hold the write lock

held == <<readLocks, writers>>
vars == <<wrlk_, wrwt_, nrd_, pc, held>>

\* rd: in rd_lock(); w1: in wr_lock()'s first wait, for wrwt_; w2: in its
\* second, for wrlk_ and nrd_.
Asleep == {"rd.asleep", "w1.asleep", "w2.asleep"}
PCs == {"run", "rd.awake", "w1.awake", "w2.awake"} \cup Asleep

TypeOK == /\ wrlk_ \in BOOLEAN
          /\ wrwt_ \in BOOLEAN
          /\ nrd_ \in Nat
          /\ pc \in [Threads -> PCs]
          /\ readLocks \subseteq Threads \X (1..MaxNest)
          /\ writers \subseteq Threads

Init == /\ wrlk_ = FALSE
        /\ wrwt_ = FALSE
        /\ nrd_ = 0
        /\ pc = [t \in Threads |-> "run"]
        /\ readLocks = {}
        /\ writers = {}

-----------------------------------------------------------------------------
(* The condition variable.  f is the program counters after the step's own *)
(* move; a signal wakes one sleeper if there is one, a broadcast all.      *)

WakeUp(place) == CASE place = "rd.asleep" -> "rd.awake"
                   [] place = "w1.asleep" -> "w1.awake"
                   [] place = "w2.asleep" -> "w2.awake"
                   [] OTHER -> place

broadcast(f) == pc' = [t \in Threads |-> WakeUp(f[t])]

signal(f) == \/ /\ \A t \in Threads : f[t] \notin Asleep
                /\ pc' = f
             \/ \E t \in Threads : /\ f[t] \in Asleep
                                   /\ pc' = [f EXCEPT ![t] = WakeUp(f[t])]

Move(t, to) == [pc EXCEPT ![t] = to]

SpuriousWakeup(t) == /\ pc[t] \in Asleep
                     /\ pc' = Move(t, WakeUp(pc[t]))
                     /\ UNCHANGED <<wrlk_, wrwt_, nrd_, held>>

-----------------------------------------------------------------------------

\* rd_lock(), from its start or from a wakeup.
RdSleep(t) == /\ wrlk_ \/ wrwt_
              /\ pc' = Move(t, "rd.asleep")
              /\ UNCHANGED <<wrlk_, wrwt_, nrd_, held>>

\* Bug seeded: a reader does not wait for a pending writer.
RdGrantBarging(t) == /\ ~wrlk_
                     /\ nrd_' = nrd_ + 1
                     /\ pc' = Move(t, "run")
                     /\ \E k \in 1..MaxNest :
                          /\ <<t, k>> \notin readLocks
                          /\ readLocks' = readLocks \cup {<<t, k>>}
                     /\ UNCHANGED <<wrlk_, wrwt_, writers>>

RdGrant(t) == /\ ~wrlk_ /\ ~wrwt_
              /\ nrd_' = nrd_ + 1
              /\ pc' = Move(t, "run")
              /\ \E k \in 1..MaxNest :
                   /\ <<t, k>> \notin readLocks
                   /\ readLocks' = readLocks \cup {<<t, k>>}
              /\ UNCHANGED <<wrlk_, wrwt_, writers>>

\* A client asks for a read lock when it holds no write lock.
RdLock(t) == /\ pc[t] = "run"
             /\ t \notin writers
             /\ \E k \in 1..MaxNest : <<t, k>> \notin readLocks
             /\ RdSleep(t) \/ RdGrant(t)

RdRetry(t) == pc[t] = "rd.awake" /\ (RdSleep(t) \/ RdGrant(t))

\* Bug seeded: one waiter is signalled where all must be.
RdUnlockSignal(t) == /\ pc[t] = "run"
                     /\ \E k \in 1..MaxNest :
                          /\ <<t, k>> \in readLocks
                          /\ readLocks' = readLocks \ {<<t, k>>}
                     /\ nrd_' = nrd_ - 1
                     /\ IF nrd_ = 1 THEN signal(pc) ELSE UNCHANGED pc
                     /\ UNCHANGED <<wrlk_, wrwt_, writers>>

RdUnlock(t) == /\ pc[t] = "run"
               /\ \E k \in 1..MaxNest :
                    /\ <<t, k>> \in readLocks
                    /\ readLocks' = readLocks \ {<<t, k>>}
               /\ nrd_' = nrd_ - 1
               /\ IF nrd_ = 1 THEN broadcast(pc) ELSE UNCHANGED pc
               /\ UNCHANGED <<wrlk_, wrwt_, writers>>

\* wr_lock() up to its first wait.
WrSleep1(t) == /\ wrwt_
               /\ pc' = Move(t, "w1.asleep")
               /\ UNCHANGED <<wrlk_, wrwt_, nrd_, held>>

\* wr_lock() from wrwt_ = true to its second wait.
WrSleep2(t) == /\ wrlk_ \/ nrd_ > 0
               /\ wrwt_' = TRUE
               /\ pc' = Move(t, "w2.asleep")
               /\ UNCHANGED <<wrlk_, nrd_, held>>

\* Bug seeded: the second loop looks at the readers only.
WrGrantReadersOnly(t) == /\ nrd_ = 0
                         /\ wrlk_' = TRUE
                         /\ wrwt_' = FALSE
                         /\ writers' = writers \cup {t}
                         /\ signal(Move(t, "run"))
                         /\ UNCHANGED <<nrd_, readLocks>>

\* wr_lock() from the end of its second loop: wrlk_, not wrwt_, one signal.
WrGrant(t) == /\ ~wrlk_ /\ nrd_ = 0
              /\ wrlk_' = TRUE
              /\ wrwt_' = FALSE
              /\ writers' = writers \cup {t}
              /\ signal(Move(t, "run"))
              /\ UNCHANGED <<nrd_, readLocks>>

\* A client asks for the write lock when it holds no lock.
WrLock(t) == /\ pc[t] = "run"
             /\ t \notin writers
             /\ \A k \in 1..MaxNest : <<t, k>> \notin readLocks
             /\ WrSleep1(t) \/ (~wrwt_ /\ (WrSleep2(t) \/ WrGrant(t)))

WrRetry1(t) == /\ pc[t] = "w1.awake"
               /\ WrSleep1(t) \/ (~wrwt_ /\ (WrSleep2(t) \/ WrGrant(t)))

WrRetry2(t) == /\ pc[t] = "w2.awake"
               /\ WrSleep2(t) \/ WrGrant(t)

WrUnlock(t) == /\ pc[t] = "run"
               /\ t \in writers
               /\ wrlk_' = FALSE
               /\ writers' = writers \ {t}
               /\ broadcast(pc)
               /\ UNCHANGED <<wrwt_, nrd_, readLocks>>

WrDemote(t) == /\ pc[t] = "run"
               /\ t \in writers
               /\ wrlk_' = FALSE
               /\ writers' = writers \ {t}
               /\ nrd_' = nrd_ + 1
               /\ readLocks' = readLocks \cup {<<t, 1>>}
               /\ broadcast(pc)
               /\ UNCHANGED wrwt_

Retry(t) == RdRetry(t) \/ WrRetry1(t) \/ WrRetry2(t)

Next == \E t \in Threads : \/ RdLock(t) \/ RdUnlock(t)
                           \/ WrLock(t) \/ WrUnlock(t) \/ WrDemote(t)
                           \/ Retry(t) \/ SpuriousWakeup(t)

Spec == Init /\ [][Next]_vars

\* An awake thread gets the mutex, and a running one unlocks what it holds.
LiveSpec == Spec /\ \A t \in Threads : /\ WF_vars(Retry(t))
                                       /\ WF_vars(RdUnlock(t))
                                       /\ WF_vars(WrUnlock(t))

-----------------------------------------------------------------------------
(* Properties.                                                             *)

\* The flags and the count say who holds what, so an unlock by a holder never
\* meets the early returns, and nobody else's lock is ever released.
Held == /\ nrd_ = Cardinality(readLocks)
        /\ wrlk_ <=> writers # {}

\* A writer excludes readers and other writers.
Exclusion == /\ writers # {} => readLocks = {}
             /\ \A t, u \in writers : t = u

\* wrwt_ is the flag of exactly one thread: the one past wr_lock()'s first
\* loop and not yet past its second.
OnePending == /\ wrwt_ <=> \E t \in Threads : pc[t] \in {"w2.asleep", "w2.awake"}
              /\ \A t, u \in Threads :
                   pc[t] \in {"w2.asleep", "w2.awake"} /\ pc[u] \in {"w2.asleep", "w2.awake"}
                     => t = u

\* No lost wakeup: a thread sleeps only while the lock state still stops it,
\* or while a lock is held whose release will broadcast. One signal() in
\* wr_lock() that reaches the wrong thread does no harm for that reason.
SleepersStopped == \A t \in Threads :
  /\ pc[t] = "rd.asleep" => wrlk_ \/ wrwt_
  /\ pc[t] = "w1.asleep" => wrlk_ \/ wrwt_
  /\ pc[t] = "w2.asleep" => wrlk_ \/ nrd_ > 0

\* A pending writer gets the lock: new readers wait behind it and it needs
\* only the present holders to unlock. Only a reader that asks for a second
\* lock behind the writer can keep it out, and then for ever: rd_lock() waits
\* for wrwt_ to go down, the writer for the reader's first lock to be released.
WriterAdmitted == \A t \in Threads :
  pc[t] \in {"w2.asleep", "w2.awake"}
    ~> (t \in writers \/ \E r \in readLocks : pc[r[1]] \in {"rd.asleep", "rd.awake"})
=============================================================================
