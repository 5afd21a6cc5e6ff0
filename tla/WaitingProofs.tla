---------------------------- MODULE WaitingProofs ----------------------------
(***************************************************************************)
(* Proofs about the parts MCWaiting puts side by side: the objects built   *)
(* on a condition variable, and the two server programs.  They are about   *)
(* safety: the fairness of the parts plays no role.                        *)
(***************************************************************************)
EXTENDS MCWaiting, FiniteSetTheorems, SequenceTheorems, TLAPS

-----------------------------------------------------------------------------
(* OSEvent, of both kinds, for any set of threads.                         *)

EvInv == TypeOK /\ NoLostWakeup

\* The invariant holds of a new event, raised or not.
LEMMA EvStart == Init => EvInv
BY DEF Init, EvInv, TypeOK, NoLostWakeup, PCs

\* A step that puts the flag down, or leaves it down, loses nobody's signal.
LEMMA EvDown ==
  ASSUME TypeOK', signaled_' = FALSE
  PROVE  EvInv'
BY DEF EvInv, NoLostWakeup

\* A thread moves and leaves the event alone, without falling asleep and
\* without leaving the places where a woken thread looks.
LEMMA EvMove ==
  ASSUME EvInv, NEW t \in Threads, NEW to \in PCs \ {"asleep"},
         pc' = Move(t, to), UNCHANGED evt,
         pc[t] \in {"awake", "wait.body"} => to \in {"awake", "wait.body"},
         inner' \in Threads \cup {NoThread},
         how' \in [Threads -> {"block", "timed"}]
  PROVE  EvInv'
<1>1. TypeOK'
  BY DEF EvInv, TypeOK, Move, evt
<1>2. NoLostWakeup'
  BY DEF EvInv, TypeOK, NoLostWakeup, Move, evt
<1> QED BY <1>1, <1>2 DEF EvInv

\* wait() sleeps while the flag is down; otherwise it returns, and if the
\* event is an auto-reset one the flag goes down.
LEMMA EvWait ==
  ASSUME EvInv, NEW t \in Threads, WaitBody(t)
  PROVE  EvInv'
<1>1. TypeOK'
  BY DEF EvInv, TypeOK, WaitBody, Return, Clear, Move, evt, PCs
<1>2. CASE ~signaled_
  <2>1. signaled_' = FALSE
    BY <1>2 DEF WaitBody, EvInv, TypeOK, evt
  <2> QED BY <1>1, <2>1, EvDown
<1>3. CASE signaled_ /\ ~manualReset_
  <2>1. signaled_' = FALSE
    BY <1>3 DEF WaitBody, Clear
  <2> QED BY <1>1, <2>1, EvDown
<1>4. CASE signaled_ /\ manualReset_
  BY <1>1, <1>4 DEF WaitBody, Return, Move, EvInv, TypeOK, NoLostWakeup
<1> QED BY <1>2, <1>3, <1>4

\* signal() wakes every sleeper of a manual-reset event, and one of an
\* auto-reset event, which may be a timed wait that is timing out.
LEMMA EvSignal ==
  ASSUME EvInv, NEW t \in Threads, SignalBody(t)
  PROVE  EvInv'
<1> DEFINE f == Move(t, "idle")
<1>1. f \in [Threads -> PCs]
  BY DEF EvInv, TypeOK, Move, PCs
<1>2. CASE manualReset_
  <2>1. SignalAll(f) /\ manualReset_' = manualReset_
    BY <1>2 DEF SignalBody
  <2>2. /\ pc' \in [Threads -> PCs]
        /\ \A u \in Threads : pc'[u] # "asleep"
        /\ absorbed' = absorbed
    BY <1>1, <2>1 DEF SignalAll, PCs
  <2>3. TypeOK'
    BY <2>1, <2>2 DEF EvInv, TypeOK, SignalBody
  <2> QED BY <2>2, <2>3 DEF EvInv, NoLostWakeup
<1>3. CASE ~manualReset_
  <2>1. SignalOne(f) /\ manualReset_' = manualReset_ /\ manualReset_' = FALSE
    BY <1>3 DEF SignalBody, EvInv, TypeOK
  <2>2. CASE /\ \A u \in Threads : f[u] # "asleep"
             /\ pc' = f
             /\ UNCHANGED absorbed
    <3>1. TypeOK'
      BY <1>1, <2>1, <2>2 DEF EvInv, TypeOK, SignalBody
    <3> QED BY <2>2, <3>1 DEF EvInv, NoLostWakeup
  <2>3. CASE \E u \in Threads : \E w \in Woken(u) :
               /\ f[u] = "asleep"
               /\ pc' = [f EXCEPT ![u] = w]
               /\ absorbed' = (absorbed \/ w = "late")
    <3>0. PICK u \in Threads : \E w \in Woken(u) :
               /\ f[u] = "asleep"
               /\ pc' = [f EXCEPT ![u] = w]
               /\ absorbed' = (absorbed \/ w = "late")
      BY <2>3
    <3>1. PICK w \in Woken(u) : /\ pc' = [f EXCEPT ![u] = w]
                                /\ absorbed' = (absorbed \/ w = "late")
      BY <3>0
    <3>2. w \in {"awake", "late"}
      BY <3>1 DEF Woken
    <3>3. pc' \in [Threads -> PCs] /\ pc'[u] = w
      BY <1>1, <3>1, <3>2 DEF PCs
    <3>4. absorbed' \in BOOLEAN /\ (w = "late" => absorbed')
      BY <3>1 DEF EvInv, TypeOK
    <3>5. TypeOK'
      BY <2>1, <3>3, <3>4 DEF EvInv, TypeOK, SignalBody
    <3>6. NoLostWakeup'
      BY <2>1, <3>2, <3>3, <3>4 DEF NoLostWakeup
    <3> QED BY <3>5, <3>6 DEF EvInv
  <2> QED BY <2>1, <2>2, <2>3 DEF SignalOne
<1> QED BY <1>2, <1>3

\* Every step preserves the invariant.
LEMMA EvKept == EvInv /\ [Next]_vars => EvInv'
<1> SUFFICES ASSUME EvInv, [Next]_vars PROVE EvInv'
  OBVIOUS
<1>1. CASE UNCHANGED vars
  BY <1>1 DEF vars, evt, EvInv, TypeOK, NoLostWakeup
<1>2. ASSUME NEW t \in Threads, Call(t) PROVE EvInv'
  BY <1>2, EvMove, EvtWaits DEF Call, PCs, EvInv, TypeOK
<1>3. ASSUME NEW t \in Threads, Enter(t) PROVE EvInv'
  BY <1>3, EvMove DEF Enter, PCs, EvInv, TypeOK
<1>4. ASSUME NEW t \in Threads, WaitLate(t) \/ TryBusy(t) PROVE EvInv'
  BY <1>4, EvMove DEF WaitLate, TryBusy, Return, PCs, EvInv, TypeOK
<1>5. ASSUME NEW t \in Threads, SpuriousWakeup(t) \/ Timeout(t) PROVE EvInv'
  BY <1>5, EvMove DEF SpuriousWakeup, Timeout, PCs, EvInv, TypeOK
<1>6. ASSUME NEW t \in Threads, TryBody(t) \/ ResetBody(t) PROVE EvInv'
  <2>1. TypeOK' /\ signaled_' = FALSE
    BY <1>6 DEF TryBody, ResetBody, Clear, Return, Move, EvInv, TypeOK, PCs
  <2> QED BY <2>1, EvDown
<1>7. ASSUME NEW t \in Threads, WaitBody(t) \/ SignalBody(t) PROVE EvInv'
  BY <1>7, EvWait, EvSignal
<1> QED BY <1>1, <1>2, <1>3, <1>4, <1>5, <1>6, <1>7 DEF Next, Step

\* No wait() misses a signal, whatever the threads and their operations do,
\* but for the one that a timed wait takes with it as it times out.
THEOREM SignalNotLost == Spec => []NoLostWakeup
<1>1. EvInv => NoLostWakeup
  BY DEF EvInv
<1> QED BY <1>1, EvStart, EvKept, PTL DEF Spec

-----------------------------------------------------------------------------
(* RecursiveMutex, for any set of threads and any depth of nesting.        *)
(* RmTypeOK, LevelExact and RmNoLostWakeup are inductive together;         *)
(* LevelExact gives Exclusion.                                             *)

RmInv == RmTypeOK /\ LevelExact /\ RmNoLostWakeup

\* The invariant holds of a new mutex, whatever owner_ contains.
LEMMA RmStart == RmInit => RmInv
BY DEF RmInit, RmInv, RmTypeOK, LevelExact, RmNoLostWakeup, RmPCs

\* A granted lock is recorded as the caller's, on top of what it holds.
LEMMA RmGrant ==
  ASSUME RmInv, NEW t \in RmThreads, level_ = 0 \/ owner_ = t, Grant(t)
  PROVE  RmInv'
<1>1. level_ \in Nat /\ level_' = level_ + 1 /\ owner_' = t
  BY DEF RmInv, RmTypeOK, Grant
<1>2. RmTypeOK'
  BY <1>1 DEF RmInv, RmTypeOK, Grant, RmPCs
<1>3. LevelExact'
  BY <1>1 DEF RmInv, RmTypeOK, LevelExact, Grant
<1>4. RmNoLostWakeup'
  BY <1>1 DEF RmNoLostWakeup
<1> QED BY <1>2, <1>3, <1>4 DEF RmInv

\* A thread falls asleep only while the mutex is owned.
LEMMA RmSleepInv ==
  ASSUME RmInv, NEW t \in RmThreads, level_ > 0, Sleep(t)
  PROVE  RmInv'
<1>1. RmTypeOK'
  BY DEF RmInv, RmTypeOK, Sleep, mutex, RmPCs
<1>2. LevelExact'
  BY DEF RmInv, LevelExact, Sleep, mutex
<1>3. RmNoLostWakeup'
  BY DEF RmInv, RmTypeOK, RmNoLostWakeup, Sleep, mutex
<1> QED BY <1>1, <1>2, <1>3 DEF RmInv

\* A thread moves without touching the mutex, falling asleep or leaving the
\* places where a woken thread looks.
LEMMA RmMove ==
  ASSUME RmInv, NEW t \in RmThreads, NEW to \in RmPCs \ {"asleep"},
         rmPc' = [rmPc EXCEPT ![t] = to],
         rmPc[t] \in {"awake", "recheck"} => to \in {"awake", "recheck"},
         rmInner' \in RmThreads \cup {RmNobody}, UNCHANGED <<mutex, depth>>
  PROVE  RmInv'
<1>1. RmTypeOK'
  BY DEF RmInv, RmTypeOK, mutex
<1>2. LevelExact'
  BY DEF RmInv, LevelExact, mutex
<1>3. RmNoLostWakeup'
  BY DEF RmInv, RmTypeOK, RmNoLostWakeup, mutex
<1> QED BY <1>1, <1>2, <1>3 DEF RmInv

\* The owner's unlock() releases one level, and the last wakes a sleeper;
\* anybody else's changes nothing.
LEMMA RmUnlock ==
  ASSUME RmInv, NEW t \in RmThreads, UnlockBody(t)
  PROVE  RmInv'
<1> DEFINE idle == [rmPc EXCEPT ![t] = "idle"]
<1>0. idle \in [RmThreads -> RmPCs]
  BY DEF RmInv, RmTypeOK, RmPCs
<1>1. CASE level_ > 0 /\ owner_ = t
  <2>1. level_ \in Nat /\ level_' = level_ - 1 /\ owner_' = owner_ /\ depth[t] = level_
    BY <1>1 DEF RmInv, RmTypeOK, LevelExact, UnlockBody
  <2>2. rmPc' \in [RmThreads -> RmPCs]
    BY <1>0, <1>1 DEF UnlockBody, RmSignalOne, RmPCs
  <2>3. depth' = [depth EXCEPT ![t] = level_ - 1]
    BY <1>1, <2>1 DEF UnlockBody, Released, RmInv, RmTypeOK
  <2>4. RmTypeOK'
    <3>1. level_' \in Nat /\ level_ - 1 \in Nat
      BY <1>1, <2>1
    <3>2. depth' \in [RmThreads -> Nat]
      BY <2>3, <3>1 DEF RmInv, RmTypeOK
    <3>3. owner_' \in RmThreads \cup {RmNobody} /\ rmInner' \in RmThreads \cup {RmNobody}
      BY <2>1 DEF RmInv, RmTypeOK, UnlockBody
    <3> QED BY <2>2, <3>1, <3>2, <3>3 DEF RmTypeOK
  <2>5. LevelExact'
    BY <1>1, <2>1, <2>3 DEF RmInv, RmTypeOK, LevelExact
  <2>6. RmNoLostWakeup'
    <3>1. CASE level_ = 1
      BY <1>0, <1>1, <3>1 DEF RmNoLostWakeup, UnlockBody, RmSignalOne
    <3>2. CASE level_ # 1
      BY <1>1, <2>1, <3>2 DEF RmNoLostWakeup
    <3> QED BY <3>1, <3>2
  <2> QED BY <2>4, <2>5, <2>6 DEF RmInv
<1>2. CASE level_ = 0 \/ owner_ # t
  <2>1. depth[t] = 0
    BY <1>2 DEF RmInv, RmTypeOK, LevelExact
  <2>2. ~(level_ > 0 /\ owner_ = t)
    BY <1>2 DEF RmInv, RmTypeOK
  <2>3. UNCHANGED <<mutex, depth>> /\ rmPc' = idle
    BY <2>1, <2>2 DEF UnlockBody, Released, RmInv, RmTypeOK, mutex
  <2>4. rmInner' \in RmThreads \cup {RmNobody} /\ rmPc[t] = "unlock.body"
    BY DEF UnlockBody
  <2> QED BY <2>3, <2>4, RmMove DEF RmPCs
<1> QED BY <1>1, <1>2 DEF RmInv, RmTypeOK

\* Every step preserves the invariant.
LEMMA RmKept == RmInv /\ [RmNext]_rmVars => RmInv'
<1> SUFFICES ASSUME RmInv, [RmNext]_rmVars PROVE RmInv'
  OBVIOUS
<1>1. CASE UNCHANGED rmVars
  BY <1>1 DEF rmVars, mutex, RmInv, RmTypeOK, LevelExact, RmNoLostWakeup
<1>2. ASSUME NEW t \in RmThreads, RmCall(t) \/ RmEnter(t) \/ RmTryBusy(t) \/ RmSpuriousWakeup(t)
      PROVE  RmInv'
  <2>1. CASE RmCall(t)
    BY <2>1, RmMove DEF RmCall, RmPCs, RmInv, RmTypeOK
  <2>2. CASE RmEnter(t)
    BY <2>2, RmMove DEF RmEnter, RmPCs
  <2>3. CASE RmTryBusy(t)
    BY <2>3, RmMove DEF RmTryBusy, RmPCs, RmInv, RmTypeOK
  <2>4. CASE RmSpuriousWakeup(t)
    BY <2>4, RmMove DEF RmSpuriousWakeup, RmPCs, RmInv, RmTypeOK
  <2> QED BY <1>2, <2>1, <2>2, <2>3, <2>4
<1>3. ASSUME NEW t \in RmThreads, LockBody(t) \/ Recheck(t) PROVE RmInv'
  BY <1>3, RmGrant, RmSleepInv DEF LockBody, Recheck
<1>4. ASSUME NEW t \in RmThreads, RmTryBody(t) PROVE RmInv'
  BY <1>4, RmGrant, RmMove DEF RmTryBody, RmPCs
<1>5. ASSUME NEW t \in RmThreads, UnlockBody(t) PROVE RmInv'
  BY <1>5, RmUnlock
<1> QED BY <1>1, <1>2, <1>3, <1>4, <1>5 DEF RmNext, RmStep

\* The mutex is exclusive and recursive: level_ counts exactly the unreleased
\* locks of the one thread that holds any.
THEOREM MutexCorrect == RmSpec => [](LevelExact /\ Exclusion)
<1>1. RmInv => LevelExact /\ Exclusion
  BY DEF RmInv, RmTypeOK, LevelExact, Exclusion
<1> QED BY <1>1, RmStart, RmKept, PTL DEF RmSpec

\* unlock()'s single signal() never leaves a free mutex with sleepers only.
THEOREM WakeupKept == RmSpec => []RmNoLostWakeup
<1>1. RmInv => RmNoLostWakeup
  BY DEF RmInv
<1> QED BY <1>1, RmStart, RmKept, PTL DEF RmSpec

-----------------------------------------------------------------------------
(* ThreadTimer.  Neither property is inductive: both need to know that     *)
(* run_ is down whenever an event must not follow.                         *)

\* After stop() or quit() run_ is down and nothing has been sent since.
Silent == last \in {"stop", "quit"} => shots = 0 /\ ~run_

\* A timer without a period takes run_ down with its one event.
Single == ~period_ => shots = 0 \/ (shots = 1 /\ ~run_)

TtInv == TtTypeOK /\ Silent /\ Single

\* The invariant holds of a new timer.
LEMMA TtStart == TtInit => TtInv
<1> SUFFICES ASSUME TtInit PROVE TtInv
  OBVIOUS
<1>1. TtTypeOK
  <2>1. /\ run_ \in BOOLEAN /\ quit_ \in BOOLEAN
        /\ initDelay_ \in BOOLEAN /\ period_ \in BOOLEAN
        /\ mine \in BOOLEAN /\ due \in BOOLEAN
    BY DEF TtInit
  <2>2. ttPc \in TtPCs /\ last \in {"none", "start", "one_shot", "stop", "quit"}
    BY DEF TtInit, TtPCs
  <2>3. shots \in 0..2
    BY DEF TtInit
  <2> QED BY <2>1, <2>2, <2>3 DEF TtTypeOK
<1>2. Silent /\ Single
  BY DEF TtInit, Silent, Single
<1> QED BY <1>1, <1>2 DEF TtInv

\* run() moves to another wait, or ends, without sending an event.
LEMMA TtMove ==
  ASSUME TtInv, ttPc' \in TtPCs, mine' \in BOOLEAN, due' \in BOOLEAN,
         UNCHANGED <<ctl, last, shots>>
  PROVE  TtInv'
BY DEF TtInv, TtTypeOK, Silent, Single, ctl

\* A control operation starts the count again.
LEMMA TtControl ==
  ASSUME TtInv, Control
  PROVE  TtInv'
<1>1. WakeUp(ttPc) \in TtPCs
  BY DEF TtInv, TtTypeOK, WakeUp, TtPCs, Asleep
<1>2. ttPc' \in TtPCs
  BY <1>1 DEF TtInv, TtTypeOK, Control, start, do_start, one_shot, stop, quit, signal, ctl
<1>3. shots' = 0
  BY DEF Control, start, one_shot, stop, quit, Done
<1>4. /\ last' \in {"start", "one_shot", "stop", "quit"}
      /\ last' \in {"stop", "quit"} => run_' = FALSE
  BY DEF Control, start, one_shot, stop, quit, Done
<1>5. /\ run_' \in BOOLEAN /\ quit_' \in BOOLEAN
      /\ initDelay_' \in BOOLEAN /\ period_' \in BOOLEAN
      /\ mine' \in BOOLEAN /\ due' \in BOOLEAN
  <2>1. CASE start
    BY <2>1 DEF TtInv, TtTypeOK, start, do_start
  <2>2. CASE one_shot
    BY <2>2 DEF TtInv, TtTypeOK, one_shot, ctl
  <2>3. CASE stop \/ quit
    BY <2>3 DEF TtInv, TtTypeOK, stop, quit
  <2> QED BY <2>1, <2>2, <2>3 DEF Control
<1>6. TtTypeOK'
  BY <1>2, <1>3, <1>4, <1>5 DEF TtTypeOK
<1>7. Silent' /\ Single'
  BY <1>3, <1>4 DEF Silent, Single
<1> QED BY <1>6, <1>7 DEF TtInv

\* An event is sent only while run_ is up.
LEMMA TtFire ==
  ASSUME TtInv, Fire
  PROVE  TtInv'
<1>1. ttPc' \in TtPCs
  BY DEF Fire, TtPCs, Asleep
<1>2. /\ shots' \in 1..2
      /\ shots = 0 => shots' = 1
  BY DEF Fire, TtInv, TtTypeOK
<1>3. TtTypeOK'
  BY <1>1, <1>2 DEF Fire, TtInv, TtTypeOK
<1>4. Silent'
  BY DEF Fire, TtInv, Silent
<1>5. Single'
  BY <1>2 DEF Fire, TtInv, Single
<1> QED BY <1>3, <1>4, <1>5 DEF TtInv

\* Every step preserves the invariant.
LEMMA TtKept == TtInv /\ [TtNext]_ttVars => TtInv'
<1> SUFFICES ASSUME TtInv, [TtNext]_ttVars PROVE TtInv'
  OBVIOUS
<1>1. CASE UNCHANGED ttVars
  BY <1>1, TtMove DEF ttVars, TtInv, TtTypeOK
<1>2. CASE Control
  BY <1>2, TtControl
<1>3. CASE Fire
  BY <1>3, TtFire
<1>4. CASE Quit \/ Rest \/ Delay
  BY <1>4, TtMove DEF Quit, Rest, Delay, TtPCs, Asleep, TtInv, TtTypeOK
<1>5. CASE TtTimeout \/ TtSpuriousWakeup
  <2>1. WakeUp(ttPc) \in TtPCs
    BY DEF TtInv, TtTypeOK, WakeUp, TtPCs, Asleep
  <2>2. due' \in BOOLEAN /\ mine' \in BOOLEAN
    BY <1>5 DEF TtTimeout, TtSpuriousWakeup, TtInv, TtTypeOK
  <2> QED BY <1>5, <2>1, <2>2, TtMove DEF TtTimeout, TtSpuriousWakeup
<1> QED BY <1>1, <1>2, <1>3, <1>4, <1>5 DEF TtNext, Run

\* No event follows a completed stop() or quit() before the next start.
THEOREM Stopped == TtSpec => []StopSilences
<1>1. TtInv => StopSilences
  BY DEF TtInv, Silent, StopSilences
<1> QED BY <1>1, TtStart, TtKept, PTL DEF TtSpec

\* A timer without a period sends one event for each start.
THEOREM ShotOnce == TtSpec => []OneShotOnce
<1>1. TtInv => OneShotOnce
  BY DEF TtInv, Single, OneShotOnce
<1> QED BY <1>1, TtStart, TtKept, PTL DEF TtSpec

-----------------------------------------------------------------------------
(* DevForward.                                                             *)

FwRising(s) == \A i, j \in 1..Len(s) : i < j => s[i] < s[j]
FwBefore(s, t) == \A i \in 1..Len(s), j \in 1..Len(t) : s[i] < t[j]
FwUpTo(s, n) == \A i \in 1..Len(s) : s[i] <= n

\* What the connection took, without the connection.
FwTaken == [i \in 1..Len(fwToNet) |-> fwToNet[i][2]]

\* The thread is on its way only while main is between start and close.
FwPlaces ==
  /\ fwMain \in {"accept", "start", "device", "read", "write", "quit", "wait", "close",
                 "return", "done"}
  /\ fwPc \in {"none", "open", "poll", "sleep", "write", "over"}
  /\ fwPc \notin {"none", "over"} => fwMain \in {"device", "read", "write", "quit", "wait", "return", "done"}
  /\ fwMain \in {"start", "device", "read", "write", "quit", "wait"} => fwSock
  /\ fwClosedUsed => fwMain \in {"return", "done"}

\* A packet that is further on its way came earlier.
FwDown == /\ {fwToDev, fwMainBuf, fwFromNet} \subseteq Seq(Nat) /\ fwCome \in Nat
          /\ FwRising(fwToDev) /\ FwRising(fwMainBuf) /\ FwRising(fwFromNet)
          /\ FwBefore(fwToDev, fwFromNet) /\ FwBefore(fwMainBuf, fwFromNet)
          /\ fwMain = "write" => FwBefore(fwToDev, fwMainBuf)
          /\ FwUpTo(fwToDev, fwCome) /\ FwUpTo(fwMainBuf, fwCome) /\ FwUpTo(fwFromNet, fwCome)

FwUp == /\ fwToNet \in Seq(Nat \X Nat) /\ fwConn \in Nat
        /\ {fwBuf, fwFromDev} \subseteq Seq(Nat) /\ fwAsked \in Nat
        /\ FwRising(FwTaken) /\ FwRising(fwBuf) /\ FwRising(fwFromDev)
        /\ FwBefore(FwTaken, fwFromDev) /\ FwBefore(fwBuf, fwFromDev)
        /\ fwPc = "write" => FwBefore(FwTaken, fwBuf)
        /\ FwUpTo(FwTaken, fwAsked) /\ FwUpTo(fwBuf, fwAsked) /\ FwUpTo(fwFromDev, fwAsked)

FwInv == FwPlaces /\ FwDown /\ FwUp

-----------------------------------------------------------------------------
(* EchoServer.                                                             *)

EcPackets == EcConns \X Nat
EcHandles == 0..EcMaxConns

EcTypes ==
  /\ ecMain \in {"accept", "get", "give", "done"}
  /\ ecHand \in EcHandles
  /\ ecMain = "give" => ecGiven \in EcThreads
  /\ ecPool \in Seq(EcThreads)
  /\ ecSlot \in [EcThreads -> EcHandles] /\ ecConn \in [EcThreads -> EcHandles]
  /\ ecPc \in [EcThreads -> {"down", "slot", "read", "write", "put", "close"}]
  /\ ecBuf \in [EcThreads -> Seq(EcPackets)]
  /\ ecClient \in [EcConns -> {"none", "open", "shut"}]
  /\ ecSent \in [EcConns -> Nat]
  /\ ecIn \in [EcConns -> Seq(EcPackets)] /\ ecBack \in [EcConns -> Seq(EcPackets)]

\* Handles are new when they are accepted, and main's is its own until it gives
\* it away.
EcHandlesNew ==
  /\ \A t \in EcThreads : ecSlot[t] <= ecHand /\ ecConn[t] <= ecHand
  /\ ecMain \in {"get", "give"} =>
       ecHand # 0 /\ \A t \in EcThreads : ecSlot[t] # ecHand /\ ecConn[t] # ecHand

\* A thread that serves a client has nothing in its slot and is not in the pool;
\* nor is the one main has just taken out of it.
EcServing ==
  /\ \A t \in EcThreads : /\ ecConn[t] # 0 <=> ecPc[t] \in {"read", "write", "put", "close"}
                          /\ ecPc[t] \in {"read", "write", "put"} => ecSlot[t] = 0
                          /\ ecPc[t] # "write" => ecBuf[t] = << >>
                          /\ ecPc[t] \in {"put", "close"} => ecClient[ecConn[t]] = "shut"
  /\ ecMain = "give" => ecGiven \notin ToSet(ecPool) /\ ecPc[ecGiven] \in {"down", "slot", "close"}

\* Clients connect in turn, and main accepts only those that have.
EcInTurn == \E k \in EcHandles : ecHand <= k /\ \A c \in EcConns : ecClient[c] # "none" <=> c <= k

\* The packets of a client that follow its n-th.
EcRun(s, c, n) == \A i \in 1..Len(s) : s[i] = <<c, n + i>>

\* What an open client sent is echoed, in the buffer of the thread that serves it,
\* or still on its way, in this order.
EcPacketsOf(c) ==
  /\ Len(ecBack[c]) <= ecSent[c] /\ EcRun(ecBack[c], c, 0)
  /\ ecClient[c] = "none" => ecSent[c] = 0 /\ ecIn[c] = << >> /\ ecBack[c] = << >>
  /\ ecClient[c] = "open" =>
       /\ EcRun(ecIn[c], c, ecSent[c] - Len(ecIn[c]))
       /\ (\A t \in EcThreads : ecConn[t] # c) => Len(ecBack[c]) + Len(ecIn[c]) = ecSent[c]
       /\ \A t \in EcThreads : ecConn[t] = c =>
            /\ Len(ecBack[c]) + Len(ecBuf[t]) + Len(ecIn[c]) = ecSent[c]
            /\ EcRun(ecBuf[t], c, Len(ecBack[c]))

EcInv == /\ EcTypes /\ EcHandlesNew /\ EcServing /\ EcInTurn
         /\ EcIdleInPool /\ EcOneHolder
         /\ \A c \in EcConns : EcPacketsOf(c)

\* What is read from a buffer, and what stays in it.
LEMMA FwParts ==
  ASSUME NEW s \in Seq(Nat), NEW n \in 0..Len(s), FwRising(s)
  PROVE  LET a == SubSeq(s, 1, n)
             b == SubSeq(s, n + 1, Len(s)) IN
         /\ a \in Seq(Nat) /\ b \in Seq(Nat) /\ Len(a) = n
         /\ FwRising(a) /\ FwRising(b) /\ FwBefore(a, b)
         /\ \A r \in Seq(Nat) : FwBefore(r, s) => FwBefore(r, a) /\ FwBefore(r, b)
         /\ \A m \in Nat : FwUpTo(s, m) => FwUpTo(a, m) /\ FwUpTo(b, m)
<1>1. Len(s) \in Nat /\ \A i \in 1..Len(s) : s[i] \in Nat
  OBVIOUS
<1>2. PICK a : a = SubSeq(s, 1, n)
  OBVIOUS
<1>3. PICK b : b = SubSeq(s, n + 1, Len(s))
  OBVIOUS
<1>4. a \in Seq(Nat) /\ Len(a) = n /\ \A i \in 1..n : a[i] = s[i]
  BY <1>1, <1>2
<1>5. b \in Seq(Nat) /\ Len(b) = Len(s) - n /\ \A i \in 1..Len(s) - n : b[i] = s[n + i]
  BY <1>1, <1>3
<1>6. /\ \A i \in 1..Len(a) : i \in 1..Len(s) /\ i <= n /\ a[i] = s[i]
      /\ \A i \in 1..Len(b) : n + i \in 1..Len(s) /\ b[i] = s[n + i]
  BY <1>1, <1>4, <1>5
<1>7. FwRising(a) /\ FwRising(b) /\ FwBefore(a, b)
  <2>1. FwRising(a)
    BY <1>6 DEF FwRising
  <2>2. ASSUME NEW i \in 1..Len(b), NEW j \in 1..Len(b), i < j
        PROVE  b[i] < b[j]
    <3>1. n + i < n + j
      BY <2>2
    <3> QED
      BY <1>6, <3>1 DEF FwRising
  <2>3. ASSUME NEW i \in 1..Len(a), NEW j \in 1..Len(b)
        PROVE  a[i] < b[j]
    <3>1. i < n + j
      BY <1>6
    <3> QED
      BY <1>6, <3>1 DEF FwRising
  <2> QED
    BY <2>1, <2>2, <2>3 DEF FwRising, FwBefore
<1>8. ASSUME NEW r \in Seq(Nat), FwBefore(r, s)
      PROVE  FwBefore(r, a) /\ FwBefore(r, b)
  BY <1>6, <1>8, Zenon DEF FwBefore
<1>9. ASSUME NEW m \in Nat, FwUpTo(s, m)
      PROVE  FwUpTo(a, m) /\ FwUpTo(b, m)
  BY <1>6, <1>9, Zenon DEF FwUpTo
<1> QED
  BY <1>2, <1>3, <1>4, <1>5, <1>7, <1>8, <1>9

LEMMA FwSome ==
  ASSUME NEW s \in Seq(Nat), NEW t \in Seq(Nat), NEW n \in 0..Len(t)
  PROVE  LET u == s \o SubSeq(t, 1, n) IN
         /\ u \in Seq(Nat) /\ Len(u) = Len(s) + n
         /\ \A i \in 1..Len(u) : u[i] = IF i <= Len(s) THEN s[i] ELSE t[i - Len(s)]
<1>1. PICK a : a = SubSeq(t, 1, n)
  OBVIOUS
<1>2. \A i \in 1..n : t[i] \in Nat
  OBVIOUS
<1>3. a \in Seq(Nat) /\ Len(a) = n /\ \A i \in 1..n : a[i] = t[i]
  BY <1>1, <1>2
<1>4. PICK u : u = s \o a
  OBVIOUS
<1>5. /\ u \in Seq(Nat) /\ Len(u) = Len(s) + n
      /\ \A i \in 1..Len(s) + n : u[i] = IF i <= Len(s) THEN s[i] ELSE a[i - Len(s)]
  <2>1. /\ s \o a \in Seq(Nat) /\ Len(s \o a) = Len(s) + Len(a)
        /\ \A i \in 1..Len(s) + Len(a) : (s \o a)[i] = IF i <= Len(s) THEN s[i] ELSE a[i - Len(s)]
    BY <1>3, ConcatProperties, Zenon
  <2> QED
    BY <1>3, <1>4, <2>1, Zenon
<1>6. ASSUME NEW i \in 1..Len(u)
      PROVE  u[i] = IF i <= Len(s) THEN s[i] ELSE t[i - Len(s)]
  <2>1. i <= Len(s) \/ i - Len(s) \in 1..n
    BY <1>5
  <2> QED
    BY <1>3, <1>5, <2>1
<1> QED
  BY <1>1, <1>4, <1>5, <1>6

\* What the next place has when the first n packets of a buffer have gone there.
LEMMA FwJoined ==
  ASSUME NEW s \in Seq(Nat), NEW t \in Seq(Nat), NEW u \in Seq(Nat), NEW n \in 0..Len(t),
         Len(u) = Len(s) + n,
         \A i \in 1..Len(u) : u[i] = IF i <= Len(s) THEN s[i] ELSE t[i - Len(s)],
         FwRising(s), FwRising(t), FwBefore(s, t)
  PROVE  /\ FwRising(u)
         /\ \A r \in Seq(Nat) : FwBefore(s, r) /\ FwBefore(t, r) => FwBefore(u, r)
         /\ \A m \in Nat : FwUpTo(s, m) /\ FwUpTo(t, m) => FwUpTo(u, m)
<1>1. Len(s) \in Nat /\ Len(t) \in Nat
  OBVIOUS
<1>2. ASSUME NEW i \in 1..Len(u)
      PROVE  \/ i \in 1..Len(s) /\ u[i] = s[i]
             \/ i - Len(s) \in 1..Len(t) /\ u[i] = t[i - Len(s)] /\ i > Len(s)
  BY <1>1
<1>3. FwRising(u)
  <2> SUFFICES ASSUME NEW i \in 1..Len(u), NEW j \in 1..Len(u), i < j
               PROVE  u[i] < u[j]
    BY DEF FwRising
  <2>1. CASE j \in 1..Len(s)
    <3>1. i \in 1..Len(s) /\ ~(i > Len(s)) /\ ~(j > Len(s))
      BY <1>1, <2>1, SMTT(30)
    <3>2. u[i] = s[i] /\ u[j] = s[j]
      BY <1>2, <3>1, Zenon
    <3> QED
      BY <2>1, <3>1, <3>2, Zenon DEF FwRising
  <2>2. CASE i \in 1..Len(s) /\ j \notin 1..Len(s)
    <3>1. ~(i > Len(s))
      BY <1>1, <2>2
    <3>2. u[i] = s[i] /\ j - Len(s) \in 1..Len(t) /\ u[j] = t[j - Len(s)]
      BY <1>2, <2>2, <3>1, Zenon
    <3> QED
      BY <2>2, <3>2, Zenon DEF FwBefore
  <2>3. CASE i \notin 1..Len(s)
    <3>1. i - Len(s) \in 1..Len(t) /\ u[i] = t[i - Len(s)] /\ i > Len(s)
      BY <1>2, <2>3, Zenon
    <3>2. j \notin 1..Len(s) /\ i - Len(s) < j - Len(s)
      BY <1>1, <3>1, SMTT(30)
    <3>3. j - Len(s) \in 1..Len(t) /\ u[j] = t[j - Len(s)]
      BY <1>2, <3>2, Zenon
    <3> QED
      BY <3>1, <3>2, <3>3, Zenon DEF FwRising
  <2> QED
    BY <2>1, <2>2, <2>3
<1>4. ASSUME NEW r \in Seq(Nat), FwBefore(s, r), FwBefore(t, r)
      PROVE  FwBefore(u, r)
  BY <1>2, <1>4, Zenon DEF FwBefore
<1>5. ASSUME NEW m \in Nat, FwUpTo(s, m), FwUpTo(t, m)
      PROVE  FwUpTo(u, m)
  BY <1>2, <1>5, Zenon DEF FwUpTo
<1> QED
  BY <1>3, <1>4, <1>5

\* A packet that arrives is the latest of all.
LEMMA FwArrives ==
  ASSUME NEW s \in Seq(Nat), NEW n \in Nat, FwRising(s), FwUpTo(s, n)
  PROVE  /\ Append(s, n + 1) \in Seq(Nat)
         /\ FwRising(Append(s, n + 1)) /\ FwUpTo(Append(s, n + 1), n + 1)
         /\ \A r \in Seq(Nat) : FwUpTo(r, n) => FwUpTo(r, n + 1)
         /\ \A r \in Seq(Nat) : FwBefore(r, s) /\ FwUpTo(r, n) => FwBefore(r, Append(s, n + 1))
<1>1. PICK b : b = Append(s, n + 1)
  OBVIOUS
<1>2. /\ b \in Seq(Nat) /\ Len(b) = Len(s) + 1 /\ Len(s) \in Nat /\ b[Len(s) + 1] = n + 1
      /\ \A i \in 1..Len(s) : b[i] = s[i] /\ s[i] \in Nat
  BY <1>1
<1>3. ASSUME NEW i \in 1..Len(b)
      PROVE  \/ i \in 1..Len(s) /\ b[i] = s[i] /\ s[i] \in Nat
             \/ i = Len(s) + 1 /\ b[i] = n + 1
  BY <1>2
<1>4. FwRising(b) /\ FwUpTo(b, n + 1)
  <2>1. ASSUME NEW i \in 1..Len(s)
        PROVE  s[i] < n + 1
    BY <1>2 DEF FwUpTo
  <2>2. ASSUME NEW i \in 1..Len(b), NEW j \in 1..Len(b), i < j
        PROVE  b[i] < b[j]
    <3>1. i \in 1..Len(s) /\ b[i] = s[i]
      BY <1>2, <2>2, SMTT(30)
    <3>2. CASE j \in 1..Len(s)
      BY <1>2, <2>2, <3>1, <3>2, Zenon DEF FwRising
    <3>3. CASE j = Len(s) + 1
      BY <1>2, <2>1, <3>1, <3>3
    <3> QED
      BY <1>3, <3>2, <3>3
  <2>3. ASSUME NEW i \in 1..Len(b)
        PROVE  b[i] <= n + 1
    BY <1>3, <2>1, SMTT(30)
  <2> QED
    BY <2>2, <2>3 DEF FwRising, FwUpTo
<1>5. ASSUME NEW r \in Seq(Nat), FwUpTo(r, n)
      PROVE  FwUpTo(r, n + 1)
  BY <1>5 DEF FwUpTo
<1>6. ASSUME NEW r \in Seq(Nat), FwBefore(r, s), FwUpTo(r, n)
      PROVE  FwBefore(r, b)
  <2> SUFFICES ASSUME NEW i \in 1..Len(r), NEW j \in 1..Len(b)
               PROVE  r[i] < b[j]
    BY DEF FwBefore
  <2>1. r[i] \in Nat /\ r[i] <= n
    BY <1>6 DEF FwUpTo
  <2>2. CASE j \in 1..Len(s) /\ b[j] = s[j]
    BY <1>6, <2>2 DEF FwBefore
  <2>3. CASE b[j] = n + 1
    BY <2>1, <2>3
  <2> QED
    BY <1>3, <2>2, <2>3
<1> QED
  BY <1>1, <1>2, <1>4, <1>5, <1>6

LEMMA FwStart0 == FwInit => FwInv
<1> SUFFICES ASSUME FwInit
             PROVE  FwInv
  OBVIOUS
<1>1. FwPlaces
  BY DEF FwInit, FwPlaces
<1>2. FwTaken = << >> /\ << >> \in Seq(Nat) /\ << >> \in Seq(Nat \X Nat)
  BY DEF FwInit, FwTaken
<1>3. FwRising(<< >>) /\ FwBefore(<< >>, << >>) /\ FwUpTo(<< >>, 0)
  BY DEF FwRising, FwBefore, FwUpTo
<1>4. FwDown /\ FwUp
  BY <1>2, <1>3 DEF FwInit, FwDown, FwUp
<1> QED
  BY <1>1, <1>4 DEF FwInv

LEMMA FwPlacesKept == FwPlaces /\ [FwNext]_fwVars => FwPlaces'
<1> SUFFICES ASSUME FwPlaces, [FwNext]_fwVars
             PROVE  FwPlaces'
  OBVIOUS
<1> USE DEF FwPlaces
<1>1. CASE FwClientSends \/ FwClientCloses \/ FwDeviceHas
  BY <1>1 DEF FwClientSends, FwClientCloses, FwDeviceHas, fwMainVars, fwThreadVars, fwSent
<1>2. CASE FwAccept \/ FwStart \/ FwReadEnds
  BY <1>2 DEF FwAccept, FwStart, FwReadEnds, fwThreadVars, fwSent
<1>3. CASE FwRead \/ FwWrite \/ FwQuit \/ FwWaited \/ FwClose
  BY <1>3 DEF FwRead, FwWrite, FwQuit, FwWaited, FwClose, fwThreadVars, fwSent
<1>4. CASE FwOpen \/ FwOver \/ FwPollEmpty \/ FwSlept \/ FwPoll
  <2>1. UNCHANGED <<fwMain, fwSock, fwClosedUsed>>
    BY <1>4, Zenon DEF FwOpen, FwOver, FwPollEmpty, FwSlept, FwPoll, fwMainVars, fwSent
  <2>2. fwPc \in {"open", "poll", "sleep"} /\ fwPc' \in {"poll", "sleep", "write", "over"}
    BY <1>4 DEF FwOpen, FwOver, FwPollEmpty, FwSlept, FwPoll, FwAt
  <2> QED
    BY <2>1, <2>2
<1>5. CASE FwSend
  BY <1>5 DEF FwSend, FwAt, fwMainVars
<1>6. CASE UNCHANGED fwVars
  BY <1>6 DEF fwVars, fwMainVars, fwThreadVars, fwSent
<1>7. CASE FwAcceptFails \/ FwDeviceOpens \/ FwDeviceFails \/ FwExit
  BY <1>7 DEF FwAcceptFails, FwDeviceOpens, FwDeviceFails, FwExit, fwThreadVars, fwSent
<1> QED
  BY <1>1, <1>2, <1>3, <1>4, <1>5, <1>6, <1>7 DEF FwNext

LEMMA FwDownKept == FwDown /\ [FwNext]_fwVars => FwDown'
<1> SUFFICES ASSUME FwDown, [FwNext]_fwVars
             PROVE  FwDown'
  OBVIOUS
<1>1. CASE FwClientSends
  <2>1. /\ fwCome' = fwCome + 1 /\ fwFromNet' = Append(fwFromNet, fwCome + 1)
        /\ fwMainBuf' = fwMainBuf /\ fwToDev' = fwToDev /\ fwMain' = fwMain
    BY <1>1 DEF FwClientSends, fwMainVars, fwSent
  <2> QED
    BY <2>1, FwArrives DEF FwDown
<1>2. CASE FwAccept
  <2>1. /\ fwCome' = fwCome /\ fwFromNet' = << >> /\ fwMain' # "write"
        /\ fwMainBuf' = fwMainBuf /\ fwToDev' = fwToDev
    BY <1>2 DEF FwAccept, fwSent
  <2>2. FwRising(<< >>) /\ FwUpTo(<< >>, fwCome) /\ \A r : FwBefore(r, << >>)
    BY DEF FwRising, FwUpTo, FwBefore
  <2> QED
    BY <2>1, <2>2 DEF FwDown
<1>3. CASE FwRead
  <2>1. PICK n \in 1..Len(fwFromNet) :
               /\ fwMainBuf' = SubSeq(fwFromNet, 1, n)
               /\ fwFromNet' = SubSeq(fwFromNet, n + 1, Len(fwFromNet))
    BY <1>3 DEF FwRead
  <2>2. fwCome' = fwCome /\ fwToDev' = fwToDev
    BY <1>3 DEF FwRead, fwSent
  <2>3. n \in 0..Len(fwFromNet) /\ fwFromNet \in Seq(Nat) /\ fwToDev \in Seq(Nat) /\ fwCome \in Nat
    BY DEF FwDown
  <2>4. /\ fwMainBuf' \in Seq(Nat) /\ fwFromNet' \in Seq(Nat)
        /\ FwRising(fwMainBuf') /\ FwRising(fwFromNet') /\ FwBefore(fwMainBuf', fwFromNet')
        /\ FwBefore(fwToDev, fwMainBuf') /\ FwBefore(fwToDev, fwFromNet')
        /\ FwUpTo(fwMainBuf', fwCome) /\ FwUpTo(fwFromNet', fwCome)
    BY <2>1, <2>3, FwParts DEF FwDown
  <2> QED
    BY <2>2, <2>4 DEF FwDown
<1>4. CASE FwWrite
  <2>1. PICK n \in 0..Len(fwMainBuf) : fwToDev' = fwToDev \o SubSeq(fwMainBuf, 1, n)
    BY <1>4 DEF FwWrite
  <2>2. /\ fwMain = "write" /\ fwMain' # "write"
        /\ fwMainBuf' = fwMainBuf /\ fwFromNet' = fwFromNet /\ fwCome' = fwCome
    BY <1>4 DEF FwWrite, fwNet
  <2>3. fwMainBuf \in Seq(Nat) /\ fwToDev \in Seq(Nat) /\ fwFromNet \in Seq(Nat) /\ fwCome \in Nat
    BY DEF FwDown
  <2>4. PICK u : u = fwToDev \o SubSeq(fwMainBuf, 1, n)
    OBVIOUS
  <2>7. /\ u \in Seq(Nat) /\ Len(u) = Len(fwToDev) + n
        /\ \A i \in 1..Len(u) : u[i] = IF i <= Len(fwToDev) THEN fwToDev[i] ELSE fwMainBuf[i - Len(fwToDev)]
    BY <2>3, <2>4, FwSome, Zenon
  <2>9. FwRising(u) /\ FwBefore(u, fwFromNet) /\ FwUpTo(u, fwCome)
    BY <2>2, <2>3, <2>7, FwJoined DEF FwDown
  <2>10. fwToDev' = u
    BY <2>1, <2>4
  <2> QED
    BY <2>2, <2>7, <2>9, <2>10 DEF FwDown
<1>5. CASE ~(FwClientSends \/ FwAccept \/ FwRead \/ FwWrite)
  <2>1. /\ fwCome' = fwCome /\ fwFromNet' = fwFromNet
        /\ fwMainBuf' = fwMainBuf /\ fwToDev' = fwToDev
        /\ fwMain' = "write" => fwMain = "write"
    <3>1. CASE FwClientCloses \/ FwDeviceHas \/ FwStart
      BY <3>1 DEF FwClientCloses, FwDeviceHas, FwStart, fwMainVars, fwNet, fwSent
    <3>2. CASE FwReadEnds \/ FwQuit \/ FwWaited \/ FwClose
      BY <3>2 DEF FwReadEnds, FwQuit, FwWaited, FwClose, fwMainVars, fwNet, fwSent
    <3>3. CASE FwOpen \/ FwOver \/ FwPollEmpty \/ FwSlept
      BY <3>3 DEF FwOpen, FwOver, FwPollEmpty, FwSlept, fwMainVars, fwNet, fwSent
    <3>4. CASE FwPoll \/ FwSend
      BY <3>4 DEF FwPoll, FwSend, fwMainVars, fwNet, fwSent
    <3>5. CASE UNCHANGED fwVars
      BY <3>5 DEF fwVars, fwMainVars, fwNet, fwSent
    <3>6. CASE FwAcceptFails \/ FwDeviceOpens \/ FwDeviceFails \/ FwExit
      BY <3>6 DEF FwAcceptFails, FwDeviceOpens, FwDeviceFails, FwExit, fwNet, fwSent
    <3> QED
      BY <1>5, <3>1, <3>2, <3>3, <3>4, <3>5, <3>6 DEF FwNext
  <2> QED
    BY <2>1 DEF FwDown
<1> QED
  BY <1>1, <1>2, <1>3, <1>4, <1>5

LEMMA FwUpKept == FwUp /\ [FwNext]_fwVars => FwUp'
<1> SUFFICES ASSUME FwUp, [FwNext]_fwVars
             PROVE  FwUp'
  OBVIOUS
<1>0. /\ fwToNet \in Seq(Nat \X Nat) /\ fwConn \in Nat
      /\ fwBuf \in Seq(Nat) /\ fwFromDev \in Seq(Nat) /\ fwAsked \in Nat
  BY DEF FwUp
<1>1. /\ FwTaken \in Seq(Nat) /\ Len(FwTaken) = Len(fwToNet)
      /\ \A i \in 1..Len(fwToNet) : FwTaken[i] = fwToNet[i][2]
  <2>1. \A i \in 1..Len(fwToNet) : fwToNet[i] \in Nat \X Nat
    BY <1>0
  <2>2. \A i \in 1..Len(fwToNet) : fwToNet[i][2] \in Nat
    BY <2>1
  <2> QED
    BY <1>0, <2>2 DEF FwTaken
<1>2. CASE FwDeviceHas
  <2>1. /\ fwAsked' = fwAsked + 1 /\ fwFromDev' = Append(fwFromDev, fwAsked + 1)
        /\ fwBuf' = fwBuf /\ fwToNet' = fwToNet /\ fwPc' = fwPc /\ fwConn' = fwConn
    BY <1>2 DEF FwDeviceHas, fwMainVars, fwThreadVars, fwSent
  <2>2. FwTaken' = FwTaken
    BY <2>1 DEF FwTaken
  <2> QED
    BY <1>1, <2>1, <2>2, FwArrives DEF FwUp
<1>3. CASE FwStart
  <2>1. /\ fwAsked' = fwAsked /\ fwFromDev' = fwFromDev /\ fwPc' # "write"
        /\ fwBuf' = << >> /\ fwToNet' = fwToNet /\ fwConn' = fwConn
    BY <1>3 DEF FwStart, fwDev, fwSent
  <2>2. FwTaken' = FwTaken
    BY <2>1 DEF FwTaken
  <2>3. FwRising(<< >>) /\ FwUpTo(<< >>, fwAsked) /\ \A r : FwBefore(<< >>, r)
    BY DEF FwRising, FwUpTo, FwBefore
  <2> QED
    BY <2>1, <2>2, <2>3 DEF FwUp
<1>4. CASE FwPoll
  <2>1. PICK n \in 1..Len(fwFromDev) :
               /\ fwBuf' = SubSeq(fwFromDev, 1, n)
               /\ fwFromDev' = SubSeq(fwFromDev, n + 1, Len(fwFromDev))
    BY <1>4 DEF FwPoll
  <2>2. fwAsked' = fwAsked /\ fwToNet' = fwToNet /\ fwConn' = fwConn
    BY <1>4 DEF FwPoll, fwSent, fwMainVars
  <2>3. FwTaken' = FwTaken
    BY <2>2 DEF FwTaken
  <2>4. n \in 0..Len(fwFromDev)
    BY <1>0
  <2>5. /\ fwBuf' \in Seq(Nat) /\ fwFromDev' \in Seq(Nat)
        /\ FwRising(fwBuf') /\ FwRising(fwFromDev') /\ FwBefore(fwBuf', fwFromDev')
        /\ FwBefore(FwTaken, fwBuf') /\ FwBefore(FwTaken, fwFromDev')
        /\ FwUpTo(fwBuf', fwAsked) /\ FwUpTo(fwFromDev', fwAsked)
    BY <1>0, <1>1, <2>1, <2>4, FwParts DEF FwUp
  <2> QED
    BY <2>2, <2>3, <2>5 DEF FwUp
<1>5. CASE FwSend
  <2>1. PICK n \in 0..Len(fwBuf) : fwToNet' = fwToNet \o [i \in 1..n |-> <<fwConn, fwBuf[i]>>]
    BY <1>5 DEF FwSend
  <2>2. /\ fwPc = "write" /\ fwPc' # "write" /\ fwConn' = fwConn
        /\ fwBuf' = fwBuf /\ fwFromDev' = fwFromDev /\ fwAsked' = fwAsked
    BY <1>5 DEF FwSend, FwAt, fwDev, fwMainVars
  <2>3. PICK a : a = [i \in 1..n |-> <<fwConn, fwBuf[i]>>]
    OBVIOUS
  <2>4. n \in Nat /\ \A i \in 1..n : fwBuf[i] \in Nat
    BY <1>0
  <2>5. \A i \in 1..n : <<fwConn, fwBuf[i]>> \in Nat \X Nat
    BY <1>0, <2>4
  <2>6. a \in Seq(Nat \X Nat) /\ Len(a) = n /\ \A i \in 1..n : a[i] = <<fwConn, fwBuf[i]>>
    BY <2>3, <2>4, <2>5
  <2>7. PICK w : w = fwToNet \o a
    OBVIOUS
  <2>8. /\ w \in Seq(Nat \X Nat) /\ Len(w) = Len(fwToNet) + n
        /\ \A i \in 1..Len(fwToNet) + n : w[i] = IF i <= Len(fwToNet) THEN fwToNet[i] ELSE a[i - Len(fwToNet)]
    <3>1. /\ fwToNet \o a \in Seq(Nat \X Nat) /\ Len(fwToNet \o a) = Len(fwToNet) + Len(a)
          /\ \A i \in 1..Len(fwToNet) + Len(a) :
               (fwToNet \o a)[i] = IF i <= Len(fwToNet) THEN fwToNet[i] ELSE a[i - Len(fwToNet)]
      BY <1>0, <2>6, ConcatProperties, Zenon
    <3> QED
      BY <2>6, <2>7, <3>1, Zenon
  <2>9. fwToNet' = w
    BY <2>1, <2>3, <2>7
  <2>10. PICK u : u = FwTaken'
    OBVIOUS
  <2>11. u = [i \in 1..Len(w) |-> w[i][2]]
    BY <2>9, <2>10 DEF FwTaken
  <2>12. /\ u \in Seq(Nat) /\ Len(u) = Len(FwTaken) + n
         /\ \A i \in 1..Len(u) : u[i] = IF i <= Len(FwTaken) THEN FwTaken[i] ELSE fwBuf[i - Len(FwTaken)]
    <3>0. Len(fwToNet) \in Nat
      BY <1>0
    <3>1. \A i \in 1..Len(w) : w[i] \in Nat \X Nat
      BY <2>8
    <3>2. \A i \in 1..Len(w) : w[i][2] \in Nat
      BY <3>1
    <3>3. u \in Seq(Nat) /\ Len(u) = Len(w) /\ \A i \in 1..Len(w) : u[i] = w[i][2]
      BY <2>11, <3>2, <2>8
    <3>4. ASSUME NEW i \in 1..Len(w)
          PROVE  u[i] = IF i <= Len(FwTaken) THEN FwTaken[i] ELSE fwBuf[i - Len(FwTaken)]
      <4>1. CASE i \in 1..Len(fwToNet)
        <5>1. w[i] = fwToNet[i] /\ i <= Len(FwTaken)
          BY <1>1, <2>8, <4>1, <3>0
        <5> QED
          BY <1>1, <3>3, <4>1, <5>1, Zenon
      <4>2. CASE i \notin 1..Len(fwToNet)
        <5>1. i - Len(fwToNet) \in 1..n /\ ~(i <= Len(fwToNet)) /\ i \in 1..Len(fwToNet) + n
          BY <2>8, <4>2, <3>0
        <5>2. w[i] = a[i - Len(fwToNet)]
          BY <2>8, <5>1, Zenon
        <5>3. w[i] = <<fwConn, fwBuf[i - Len(fwToNet)]>>
          BY <2>6, <5>1, <5>2, Zenon
        <5>4. w[i][2] = fwBuf[i - Len(fwToNet)]
          BY <5>3
        <5> QED
          BY <1>1, <3>3, <5>1, <5>4, Zenon
      <4> QED
        BY <4>1, <4>2
    <3> QED
      BY <1>1, <2>8, <3>3, <3>4
  <2>13. FwRising(u) /\ FwBefore(u, fwFromDev) /\ FwUpTo(u, fwAsked)
    BY <1>0, <1>1, <2>2, <2>12, FwJoined DEF FwUp
  <2> QED
    BY <2>2, <2>8, <2>9, <2>10, <2>13 DEF FwUp
<1>6. CASE ~(FwDeviceHas \/ FwStart \/ FwPoll \/ FwSend)
  <2>1. /\ fwAsked' = fwAsked /\ fwFromDev' = fwFromDev
        /\ fwBuf' = fwBuf /\ fwToNet' = fwToNet
        /\ fwPc' = "write" => fwPc = "write"
    <3>1. CASE FwClientSends \/ FwClientCloses \/ FwAccept
      BY <3>1 DEF FwClientSends, FwClientCloses, FwAccept, fwThreadVars, fwDev, fwSent
    <3>2. CASE FwReadEnds \/ FwQuit \/ FwWaited \/ FwClose
      BY <3>2 DEF FwReadEnds, FwQuit, FwWaited, FwClose, fwThreadVars, fwDev, fwSent
    <3>3. CASE FwOpen \/ FwOver \/ FwPollEmpty \/ FwSlept
      BY <3>3 DEF FwOpen, FwOver, FwPollEmpty, FwSlept, FwAt, fwDev, fwSent
    <3>4. CASE FwRead \/ FwWrite
      BY <3>4 DEF FwRead, FwWrite, fwThreadVars, fwDev, fwSent
    <3>5. CASE UNCHANGED fwVars
      BY <3>5 DEF fwVars, fwThreadVars, fwDev, fwSent
    <3>6. CASE FwAcceptFails \/ FwDeviceOpens \/ FwDeviceFails \/ FwExit
      BY <3>6 DEF FwAcceptFails, FwDeviceOpens, FwDeviceFails, FwExit, fwThreadVars, fwDev, fwSent
    <3> QED
      BY <1>6, <3>1, <3>2, <3>3, <3>4, <3>5, <3>6 DEF FwNext
  <2>2. fwConn' \in Nat
    <3>1. CASE FwAccept
      BY <1>0, <3>1 DEF FwAccept
    <3>2. CASE ~FwAccept
      BY <1>0, <1>6, <3>2 DEF FwNext, fwVars, fwMainVars, FwClientSends, FwClientCloses, FwAcceptFails,
         FwDeviceOpens, FwDeviceFails, FwExit,
         FwReadEnds, FwQuit, FwWaited, FwClose, FwOpen, FwOver, FwPollEmpty, FwSlept, FwRead, FwWrite
    <3> QED
      BY <3>1, <3>2
  <2>3. FwTaken' = FwTaken
    BY <2>1 DEF FwTaken
  <2> QED
    BY <2>1, <2>2, <2>3 DEF FwUp
<1> QED
  BY <1>2, <1>3, <1>4, <1>5, <1>6

LEMMA FwKept == FwInv /\ [FwNext]_fwVars => FwInv'
  BY FwPlacesKept, FwDownKept, FwUpKept, Zenon DEF FwInv

LEMMA FwSafe == FwInv => FwThreadWithin /\ FwInOrder
<1> SUFFICES ASSUME FwInv
             PROVE  FwThreadWithin /\ FwInOrder
  OBVIOUS
<1>1. FwThreadWithin
  BY DEF FwInv, FwPlaces, FwThreadWithin
<1>2. \A i, j \in 1..Len(fwToDev) : i < j => fwToDev[i] < fwToDev[j]
  BY DEF FwInv, FwDown, FwRising
<1>3. Len(FwTaken) = Len(fwToNet) /\ \A i \in 1..Len(fwToNet) : FwTaken[i] = fwToNet[i][2]
  BY DEF FwInv, FwUp, FwTaken
<1>4. \A i, j \in 1..Len(fwToNet) : i < j => fwToNet[i][2] < fwToNet[j][2]
  BY <1>3, ZenonT(60) DEF FwInv, FwUp, FwRising
<1> QED
  BY <1>1, <1>2, <1>4 DEF FwInOrder

\* The pool as a sequence of different threads.
LEMMA EcTaken ==
  ASSUME NEW S, NEW s \in Seq(S), s # << >>, IsInjective(s)
  PROVE  /\ Head(s) \in S /\ Head(s) \in ToSet(s)
         /\ Tail(s) \in Seq(S) /\ IsInjective(Tail(s))
         /\ ToSet(Tail(s)) \subseteq ToSet(s) /\ Head(s) \notin ToSet(Tail(s))
<1>1. PICK r : r = Tail(s)
  OBVIOUS
<1>2. /\ Head(s) = s[1] /\ s[1] \in S /\ Len(s) \in Nat /\ Len(s) >= 1 /\ DOMAIN s = 1..Len(s)
      /\ r \in Seq(S) /\ Len(r) = Len(s) - 1 /\ DOMAIN r = 1..Len(r)
      /\ \A i \in 1..Len(r) : r[i] = s[i + 1]
  BY <1>1
<1>3. \A i \in DOMAIN r : i + 1 \in DOMAIN s /\ i + 1 # 1 /\ r[i] = s[i + 1]
  BY <1>2
<1>4. 1 \in DOMAIN s
  BY <1>2
<1>5. IsInjective(r)
  <2> SUFFICES ASSUME NEW i \in DOMAIN r, NEW j \in DOMAIN r, r[i] = r[j]
               PROVE  i = j
    BY DEF IsInjective
  <2>1. i + 1 = j + 1
    BY <1>3, Zenon DEF IsInjective
  <2> QED
    BY <1>2, <2>1
<1>6. ToSet(r) \subseteq ToSet(s) /\ s[1] \in ToSet(s)
  BY <1>3, <1>4, Zenon DEF ToSet
<1>7. s[1] \notin ToSet(r)
  <2> SUFFICES ASSUME NEW i \in DOMAIN r, r[i] = s[1]
               PROVE  FALSE
    BY Zenon DEF ToSet
  <2>1. i + 1 = 1
    BY <1>3, <1>4, Zenon DEF IsInjective
  <2> QED
    BY <1>3, <2>1
<1> QED
  BY <1>1, <1>2, <1>5, <1>6, <1>7

LEMMA EcReturned ==
  ASSUME NEW S, NEW s \in Seq(S), NEW e \in S, IsInjective(s), e \notin ToSet(s)
  PROVE  /\ Append(s, e) \in Seq(S) /\ IsInjective(Append(s, e))
         /\ ToSet(Append(s, e)) = ToSet(s) \cup {e}
<1>1. PICK r : r = Append(s, e)
  OBVIOUS
<1>2. /\ r \in Seq(S) /\ Len(r) = Len(s) + 1 /\ Len(s) \in Nat
      /\ DOMAIN s = 1..Len(s) /\ DOMAIN r = 1..Len(s) + 1
      /\ r[Len(s) + 1] = e /\ \A i \in 1..Len(s) : r[i] = s[i]
  BY <1>1
<1>3. /\ \A i \in DOMAIN r : i = Len(s) + 1 \/ (i \in DOMAIN s /\ r[i] = s[i])
      /\ \A i \in DOMAIN s : i \in DOMAIN r /\ r[i] = s[i]
      /\ Len(s) + 1 \in DOMAIN r
  BY <1>2
<1>4. \A i \in DOMAIN s : s[i] # e
  BY DEF ToSet
<1>5. IsInjective(r)
  <2> SUFFICES ASSUME NEW i \in DOMAIN r, NEW j \in DOMAIN r, r[i] = r[j]
               PROVE  i = j
    BY DEF IsInjective
  <2> QED
    BY <1>2, <1>3, <1>4, Zenon DEF IsInjective
<1>6. ToSet(r) = ToSet(s) \cup {e}
  <2>1. ToSet(s) \subseteq ToSet(r) /\ e \in ToSet(r)
    BY <1>2, <1>3, Zenon DEF ToSet
  <2>2. ToSet(r) \subseteq ToSet(s) \cup {e}
    <3> SUFFICES ASSUME NEW i \in DOMAIN r
                 PROVE  r[i] \in ToSet(s) \cup {e}
      BY Zenon DEF ToSet
    <3> QED
      BY <1>2, <1>3, Zenon DEF ToSet
  <2> QED
    BY <2>1, <2>2
<1> QED
  BY <1>1, <1>2, <1>5, <1>6

LEMMA EcPoolFull ==
  /\ SetToSeq(EcThreads) \in Seq(EcThreads)
  /\ IsInjective(SetToSeq(EcThreads))
<1>1. Cardinality(EcThreads) \in Nat /\ ExistsBijection(1..Cardinality(EcThreads), EcThreads)
  BY FS_CardinalityType, EcBounds
<1>2. \E f \in [1..Cardinality(EcThreads) -> EcThreads] : IsInjective(f)
  BY <1>1, Zenon DEF ExistsBijection, Bijection, Injection, Surjection
<1>3. PICK n \in Nat : n = Cardinality(EcThreads)
  BY <1>1
<1>4. SetToSeq(EcThreads) \in [1..n -> EcThreads] /\ IsInjective(SetToSeq(EcThreads))
  BY <1>2, <1>3, Zenon DEF SetToSeq
<1> QED
  BY <1>4

LEMMA EcStart == EcInit => EcInv
<1> SUFFICES ASSUME EcInit
             PROVE  EcInv
  OBVIOUS
<1>0. EcMaxConns \in Nat /\ 0 \in EcHandles
  BY EcBounds DEF EcHandles
<1>1. /\ ecMain = "accept" /\ ecHand = 0 /\ ecPool = SetToSeq(EcThreads)
      /\ ecSlot = [t \in EcThreads |-> 0] /\ ecConn = [t \in EcThreads |-> 0]
      /\ ecPc \in [EcThreads -> {"slot", "down"}]
      /\ ecBuf = [t \in EcThreads |-> << >>] /\ ecOpen = {}
      /\ ecClient = [c \in EcConns |-> "none"] /\ ecSent = [c \in EcConns |-> 0]
      /\ ecIn = [c \in EcConns |-> << >>] /\ ecBack = [c \in EcConns |-> << >>]
  BY DEF EcInit
<1>2. ecPool \in Seq(EcThreads) /\ IsInjective(ecPool)
  BY <1>1, EcPoolFull, Zenon
<1>3. << >> \in Seq(EcPackets) /\ Len(<< >>) = 0 /\ 1..0 = {}
  OBVIOUS
<1>4. EcTypes
  BY <1>0, <1>1, <1>2, <1>3 DEF EcTypes
<1>5. EcHandlesNew
  BY <1>1 DEF EcHandlesNew
<1>6. EcServing
  BY <1>1 DEF EcServing
<1>7. EcInTurn
  <2>1. \A c \in EcConns : ecClient[c] # "none" <=> c <= 0
    BY <1>0, <1>1 DEF EcConns
  <2> QED
    BY <1>0, <1>1, <2>1 DEF EcInTurn
<1>8. ToSet(ecPool) \subseteq EcThreads
  BY <1>2 DEF ToSet
<1>9. EcIdleInPool
  BY <1>1, <1>2, <1>8 DEF EcIdleInPool
<1>10. EcOneHolder
  <2>1. (Range(ecSlot) \cup Range(ecConn)) \ {0} = {}
    BY <1>1 DEF Range
  <2> QED
    BY <1>1, <2>1 DEF EcOneHolder
<1>11. \A c \in EcConns : EcPacketsOf(c)
  BY <1>1, <1>3 DEF EcPacketsOf, EcRun
<1> QED
  BY <1>4, <1>5, <1>6, <1>7, <1>9, <1>10, <1>11 DEF EcInv

\* Where main and the threads are, what they hold, and who is in the pool.
EcRunning == /\ EcHandlesNew /\ EcServing /\ EcIdleInPool /\ EcOneHolder

LEMMA EcTypesKept == EcTypes /\ EcServing /\ IsInjective(ecPool) /\ [EcNext]_ecVars => EcTypes'
<1> SUFFICES ASSUME EcTypes, EcServing, IsInjective(ecPool), [EcNext]_ecVars
             PROVE  EcTypes'
  OBVIOUS
<1> USE DEF EcTypes
<1>1. CASE EcConnect
  BY <1>1 DEF EcConnect, ecMainVars, ecThreadVars
<1>2. ASSUME NEW c \in EcConns, EcSend(c)
      PROVE  EcTypes'
  <2>1. PICK s \in Seq(EcPackets) : s = ecIn[c]
    OBVIOUS
  <2>2. ecSent[c] + 1 \in Nat
    OBVIOUS
  <2>3. <<c, ecSent[c] + 1>> \in EcPackets
    BY <2>2 DEF EcPackets
  <2>4. Append(s, <<c, ecSent[c] + 1>>) \in Seq(EcPackets)
    BY <2>3
  <2>5. ecIn' = [ecIn EXCEPT ![c] = Append(s, <<c, ecSent[c] + 1>>)] /\ ecSent' = [ecSent EXCEPT ![c] = ecSent[c] + 1]
    BY <1>2, <2>1, Zenon DEF EcSend
  <2>6. ecIn' \in [EcConns -> Seq(EcPackets)] /\ ecSent' \in [EcConns -> Nat]
    BY <2>2, <2>4, <2>5
  <2> QED
    BY <1>2, <2>6 DEF EcSend, ecMainVars, ecThreadVars
<1>3. ASSUME NEW c \in EcConns, EcShut(c)
      PROVE  EcTypes'
  BY <1>3 DEF EcShut, ecMainVars, ecThreadVars
<1>4. ASSUME NEW c \in EcConns, EcAccept(c)
      PROVE  EcTypes'
  BY <1>4 DEF EcAccept, ecThreadVars, ecClientVars, EcHandles, EcConns
<1>5. CASE EcAcceptFails
  BY <1>5 DEF EcAcceptFails, ecThreadVars, ecClientVars
<1>6. CASE EcPoolGet
  <2>1. ecGiven' \in EcThreads /\ ecPool' \in Seq(EcThreads)
    BY <1>6, EcTaken, Zenon DEF EcPoolGet
  <2> QED
    BY <1>6, <2>1 DEF EcPoolGet, ecThreadVars, ecClientVars
<1>7. CASE EcHandleConn
  BY <1>7 DEF EcHandleConn, ecClientVars
<1>8. ASSUME NEW t \in EcThreads, EcGet(t)
      PROVE  EcTypes'
  BY <1>8, EcBounds DEF EcGet, EcAt, ecMainVars, ecClientVars, EcHandles
<1>9. ASSUME NEW t \in EcThreads, EcRead(t)
      PROVE  EcTypes'
  <2>1. PICK c \in EcConns : c = ecConn[t]
    BY <1>9 DEF EcRead, EcAt, EcServing, EcHandles, EcConns
  <2>2. PICK n \in 1..Len(ecIn[c]) :
               /\ ecBuf' = [ecBuf EXCEPT ![t] = ecBuf[t] \o SubSeq(ecIn[c], 1, n)]
               /\ ecIn' = [ecIn EXCEPT ![c] = SubSeq(ecIn[c], n + 1, Len(ecIn[c]))]
    BY <1>9, <2>1, Zenon DEF EcRead
  <2>3. PICK s \in Seq(EcPackets) : s = ecIn[c]
    OBVIOUS
  <2>4. PICK b \in Seq(EcPackets) : b = ecBuf[t]
    OBVIOUS
  <2>5. /\ SubSeq(s, 1, n) \in Seq(EcPackets) /\ SubSeq(s, n + 1, Len(s)) \in Seq(EcPackets)
    <3>1. \A i \in 1..Len(s) : s[i] \in EcPackets
      BY <2>3
    <3> QED
      BY <2>2, <2>3, <3>1
  <2>6. b \o SubSeq(s, 1, n) \in Seq(EcPackets)
    BY <2>5
  <2>7. ecBuf' \in [EcThreads -> Seq(EcPackets)] /\ ecIn' \in [EcConns -> Seq(EcPackets)]
    BY <2>2, <2>3, <2>4, <2>5, <2>6
  <2> QED
    BY <1>9, <2>7 DEF EcRead, EcAt, ecMainVars, ecClientVars
<1>10. ASSUME NEW t \in EcThreads, EcWrite(t)
       PROVE  EcTypes'
  <2>1. PICK c \in EcConns : c = ecConn[t]
    BY <1>10 DEF EcWrite, EcAt, EcServing, EcHandles, EcConns
  <2>2. PICK s \in Seq(EcPackets) : s = ecBack[c]
    OBVIOUS
  <2>3. PICK b \in Seq(EcPackets) : b = ecBuf[t]
    OBVIOUS
  <2>4. ecBack' = [ecBack EXCEPT ![c] = s \o b] \/ ecBack' = ecBack
    BY <1>10, <2>1, <2>2, <2>3, Zenon DEF EcWrite, EcDelivered
  <2>5. s \o b \in Seq(EcPackets) /\ << >> \in Seq(EcPackets)
    OBVIOUS
  <2>6. ecBack' \in [EcConns -> Seq(EcPackets)] /\ ecBuf' \in [EcThreads -> Seq(EcPackets)]
    BY <1>10, <2>4, <2>5 DEF EcWrite
  <2> QED
    BY <1>10, <2>6 DEF EcWrite, EcAt, ecMainVars, ecClientVars
<1>11. ASSUME NEW t \in EcThreads, EcReadEnds(t)
       PROVE  EcTypes'
  <2>1. << >> \in Seq(EcPackets)
    OBVIOUS
  <2> QED
    BY <1>11, <2>1 DEF EcReadEnds, EcAt, ecMainVars, ecClientVars
<1>12. ASSUME NEW t \in EcThreads, EcPutBack(t)
       PROVE  EcTypes'
  <2>1. ecPool' \in Seq(EcThreads)
    BY <1>12 DEF EcPutBack
  <2> QED
    BY <1>12, <2>1 DEF EcPutBack, EcAt, ecMainVars, ecClientVars
<1>13. ASSUME NEW t \in EcThreads, EcClose(t)
       PROVE  EcTypes'
  BY <1>13, EcBounds DEF EcClose, EcAt, ecMainVars, ecClientVars, EcHandles
<1>14. CASE UNCHANGED ecVars
  BY <1>14 DEF ecVars, ecMainVars, ecThreadVars, ecClientVars
<1> QED
  BY <1>1, <1>2, <1>3, <1>4, <1>5, <1>6, <1>7, <1>8, <1>9, <1>10, <1>11, <1>12, <1>13, <1>14 DEF EcNext

\* The next client is one that has not connected.
LEMMA EcNextNone ==
  ASSUME NEW k \in EcHandles, \A c \in EcConns : ecClient[c] # "none" <=> c <= k
  PROVE  EcNextConn = k + 1
<1>1. k \in Nat /\ EcMaxConns \in Nat /\ k <= EcMaxConns
  BY EcBounds DEF EcHandles
<1>2. {c \in EcConns : ecClient[c] # "none"} = 1..k
  BY <1>1 DEF EcConns
<1>3. Cardinality(1..k) = k
  BY <1>1, FS_Interval
<1> QED
  BY <1>2, <1>3 DEF EcNextConn

LEMMA EcHandlesKept == EcTypes /\ EcServing /\ EcHandlesNew /\ EcOneHolder /\ [EcNext]_ecVars => EcHandlesNew'
<1> SUFFICES ASSUME EcTypes, EcServing, EcHandlesNew, EcOneHolder, [EcNext]_ecVars
             PROVE  EcHandlesNew'
  OBVIOUS
<1> USE DEF EcTypes, EcHandlesNew, EcHandles
<1>0. EcMaxConns \in Nat
  BY EcBounds
<1>1. CASE EcConnect \/ EcAcceptFails
  BY <1>1 DEF EcConnect, EcAcceptFails, ecMainVars, ecThreadVars
<1>2. ASSUME NEW c \in EcConns, EcSend(c) \/ EcShut(c)
      PROVE  EcHandlesNew'
  BY <1>2 DEF EcSend, EcShut, ecMainVars, ecThreadVars
<1>3. ASSUME NEW c \in EcConns, EcAccept(c)
      PROVE  EcHandlesNew'
  BY <1>0, <1>3 DEF EcAccept, ecThreadVars
<1>4. CASE EcPoolGet
  BY <1>4 DEF EcPoolGet, ecThreadVars
<1>5. CASE EcHandleConn
  BY <1>0, <1>5 DEF EcHandleConn
<1>6. ASSUME NEW t \in EcThreads, EcGet(t)
      PROVE  EcHandlesNew'
  BY <1>0, <1>6 DEF EcGet, ecMainVars
<1>7. ASSUME NEW t \in EcThreads, EcRead(t) \/ EcWrite(t) \/ EcReadEnds(t) \/ EcPutBack(t)
      PROVE  EcHandlesNew'
  BY <1>7 DEF EcRead, EcWrite, EcReadEnds, EcPutBack, ecMainVars
<1>8. ASSUME NEW t \in EcThreads, EcClose(t)
      PROVE  EcHandlesNew'
  BY <1>0, <1>8 DEF EcClose, ecMainVars
<1>9. CASE UNCHANGED ecVars
  BY <1>9 DEF ecVars, ecMainVars, ecThreadVars
<1> QED
  BY <1>1, <1>2, <1>3, <1>4, <1>5, <1>6, <1>7, <1>8, <1>9 DEF EcNext

LEMMA EcServingKept ==
  EcTypes /\ EcInTurn /\ EcServing /\ EcHandlesNew /\ EcIdleInPool /\ [EcNext]_ecVars
    => EcServing' /\ EcIdleInPool'
<1> SUFFICES ASSUME EcTypes, EcInTurn, EcServing, EcHandlesNew, EcIdleInPool, [EcNext]_ecVars
             PROVE  EcServing' /\ EcIdleInPool'
  OBVIOUS
<1> USE DEF EcServing, EcIdleInPool
<1>0. EcMaxConns \in Nat
  BY EcBounds
<1>a. /\ ecSlot \in [EcThreads -> EcHandles] /\ ecConn \in [EcThreads -> EcHandles]
      /\ ecPc \in [EcThreads -> {"down", "slot", "read", "write", "put", "close"}]
      /\ ecBuf \in [EcThreads -> Seq(EcPackets)]
      /\ ecClient \in [EcConns -> {"none", "open", "shut"}]
      /\ ecMain = "give" => ecGiven \in EcThreads
      /\ ecPool \in Seq(EcThreads)
  BY DEF EcTypes
<1>b. ToSet(ecPool) \subseteq EcThreads
  BY <1>a DEF ToSet
<1>c. \A t \in EcThreads : ecConn[t] # 0 => ecConn[t] \in EcConns
  BY <1>0, <1>a DEF EcConns, EcHandles
<1>1. CASE EcConnect
  <2>1. ecClient' = [ecClient EXCEPT ![EcNextConn] = "open"] /\ EcNextConn \in EcConns
    BY <1>1 DEF EcConnect
  <2>2. UNCHANGED <<ecMain, ecGiven, ecPool, ecSlot, ecPc, ecConn, ecBuf>>
    BY <1>1 DEF EcConnect, ecMainVars, ecThreadVars
  <2>3. ecClient[EcNextConn] # "shut"
    <3>1. PICK k \in EcHandles : \A c \in EcConns : ecClient[c] # "none" <=> c <= k
      BY Zenon DEF EcInTurn
    <3>2. EcNextConn = k + 1 /\ ~(k + 1 <= k)
      BY <1>0, <3>1, EcNextNone DEF EcHandles
    <3> QED
      BY <2>1, <3>1, <3>2
  <2>4. \A c \in EcConns : ecClient[c] = "shut" => ecClient'[c] = "shut"
    BY <1>a, <2>1, <2>3
  <2> QED
    BY <1>c, <2>2, <2>4
<1>2. ASSUME NEW c \in EcConns, EcSend(c) \/ EcShut(c)
      PROVE  EcServing' /\ EcIdleInPool'
  <2>1. UNCHANGED <<ecMain, ecGiven, ecPool, ecSlot, ecPc, ecConn, ecBuf>>
    BY <1>2 DEF EcSend, EcShut, ecMainVars, ecThreadVars
  <2>2. \A d \in EcConns : ecClient[d] = "shut" => ecClient'[d] = "shut"
    BY <1>a, <1>2 DEF EcSend, EcShut
  <2> QED
    BY <1>c, <2>1, <2>2
<1>3. ASSUME NEW c \in EcConns, EcAccept(c)
      PROVE  EcServing' /\ EcIdleInPool'
  BY <1>3 DEF EcAccept, ecThreadVars, ecClientVars
<1>4. CASE EcAcceptFails
  BY <1>4 DEF EcAcceptFails, ecThreadVars, ecClientVars
<1>5. CASE EcPoolGet
  <2>1. /\ ecPool # << >> /\ ecGiven' = Head(ecPool) /\ ecPool' = Tail(ecPool) /\ ecMain' = "give"
        /\ UNCHANGED <<ecSlot, ecPc, ecConn, ecBuf, ecClient>>
    BY <1>5 DEF EcPoolGet, ecThreadVars, ecClientVars
  <2>2. /\ ecGiven' \in ToSet(ecPool) /\ IsInjective(ecPool')
        /\ ToSet(ecPool') \subseteq ToSet(ecPool) /\ ecGiven' \notin ToSet(ecPool')
    BY <1>a, <2>1, EcTaken, Zenon
  <2> QED
    BY <2>1, <2>2
<1>6. CASE EcHandleConn
  <2>1. /\ ecMain = "give" /\ ecGiven \in EcThreads /\ ecMain' = "accept"
        /\ ecSlot' = [ecSlot EXCEPT ![ecGiven] = ecHand]
        /\ UNCHANGED <<ecPool, ecPc, ecConn, ecBuf, ecClient>>
    BY <1>a, <1>6 DEF EcHandleConn, ecClientVars
  <2>2. \A t \in EcThreads : t # ecGiven => ecSlot'[t] = ecSlot[t]
    BY <1>a, <2>1
  <2> QED
    BY <1>b, <2>1, <2>2
<1>7. ASSUME NEW t \in EcThreads, EcGet(t)
      PROVE  EcServing' /\ EcIdleInPool'
  <2>1. /\ ecPc[t] = "slot" /\ ecPc' = [ecPc EXCEPT ![t] = "read"] /\ ecSlot[t] # 0
        /\ ecConn' = [ecConn EXCEPT ![t] = ecSlot[t]] /\ ecSlot' = [ecSlot EXCEPT ![t] = 0]
        /\ UNCHANGED <<ecMain, ecGiven, ecPool, ecBuf, ecClient>>
    BY <1>7 DEF EcGet, EcAt, ecMainVars, ecClientVars
  <2>2. t \notin ToSet(ecPool) /\ (ecMain = "give" => t # ecGiven)
    BY <2>1
  <2> QED
    BY <1>a, <1>b, <2>1, <2>2
<1>8. ASSUME NEW t \in EcThreads, EcRead(t)
      PROVE  EcServing' /\ EcIdleInPool'
  <2>1. /\ ecPc[t] = "read" /\ ecPc' = [ecPc EXCEPT ![t] = "write"]
        /\ \A u \in EcThreads : u # t => ecBuf'[u] = ecBuf[u]
        /\ UNCHANGED <<ecMain, ecGiven, ecPool, ecSlot, ecConn, ecClient>>
    BY <1>a, <1>8 DEF EcRead, EcAt, ecMainVars, ecClientVars
  <2> QED
    BY <1>a, <1>b, <2>1
<1>9. ASSUME NEW t \in EcThreads, EcWrite(t)
      PROVE  EcServing' /\ EcIdleInPool'
  <2>1. /\ ecPc[t] = "write" /\ ecPc' = [ecPc EXCEPT ![t] = "read"]
        /\ ecBuf' = [ecBuf EXCEPT ![t] = << >>]
        /\ UNCHANGED <<ecMain, ecGiven, ecPool, ecSlot, ecConn, ecClient>>
    BY <1>9 DEF EcWrite, EcAt, ecMainVars, ecClientVars
  <2> QED
    BY <1>a, <1>b, <2>1
<1>10. ASSUME NEW t \in EcThreads, EcReadEnds(t)
       PROVE  EcServing' /\ EcIdleInPool'
  <2>1. /\ ecPc[t] = "read" /\ ecPc' = [ecPc EXCEPT ![t] = "put"] /\ ecClient[ecConn[t]] = "shut"
        /\ UNCHANGED <<ecMain, ecGiven, ecPool, ecSlot, ecConn, ecBuf, ecClient>>
    BY <1>10 DEF EcReadEnds, EcAt, ecMainVars, ecClientVars
  <2> QED
    BY <1>a, <1>b, <2>1
<1>11. ASSUME NEW t \in EcThreads, EcPutBack(t)
       PROVE  EcServing' /\ EcIdleInPool'
  <2>1. /\ ecPc[t] = "put" /\ ecPc' = [ecPc EXCEPT ![t] = "close"] /\ ecPool' = Append(ecPool, t)
        /\ UNCHANGED <<ecMain, ecGiven, ecSlot, ecConn, ecBuf, ecClient>>
    BY <1>11 DEF EcPutBack, EcAt, ecMainVars, ecClientVars
  <2>2. t \notin ToSet(ecPool) /\ (ecMain = "give" => t # ecGiven) /\ ecSlot[t] = 0
    BY <2>1
  <2>3. IsInjective(ecPool') /\ ToSet(ecPool') = ToSet(ecPool) \cup {t}
    <3>1. IsInjective(ecPool) /\ ecPool \in Seq(EcThreads)
      BY <1>a
    <3>2. IsInjective(Append(ecPool, t)) /\ ToSet(Append(ecPool, t)) = ToSet(ecPool) \cup {t}
      BY <2>2, <3>1, EcReturned
    <3> QED
      BY <2>1, <3>2, Zenon
  <2> QED
    BY <1>a, <1>b, <2>1, <2>2, <2>3
<1>12. ASSUME NEW t \in EcThreads, EcClose(t)
       PROVE  EcServing' /\ EcIdleInPool'
  <2>1. /\ ecPc[t] = "close" /\ ecPc' = [ecPc EXCEPT ![t] = "slot"]
        /\ ecConn' = [ecConn EXCEPT ![t] = 0]
        /\ UNCHANGED <<ecMain, ecGiven, ecPool, ecSlot, ecBuf, ecClient>>
    BY <1>12 DEF EcClose, EcAt, ecMainVars, ecClientVars
  <2> QED
    BY <1>a, <1>b, <2>1
<1>13. CASE UNCHANGED ecVars
  BY <1>13 DEF ecVars, ecMainVars, ecThreadVars, ecClientVars
<1> QED
  BY <1>1, <1>2, <1>3, <1>4, <1>5, <1>6, <1>7, <1>8, <1>9, <1>10, <1>11, <1>12, <1>13 DEF EcNext

\* EcOneHolder, handle by handle.
EcHeld(h) == \/ ecMain \in {"get", "give"} /\ h = ecHand
             \/ h # 0 /\ \E t \in EcThreads : ecSlot[t] = h \/ ecConn[t] = h

EcApart == \A t, u \in EcThreads :
             /\ ecSlot[t] = ecConn[u] => ecSlot[t] = 0
             /\ t # u => (ecSlot[t] = ecSlot[u] => ecSlot[t] = 0)
             /\ t # u => (ecConn[t] = ecConn[u] => ecConn[t] = 0)

EcHolding == (\A h : h \in ecOpen <=> EcHeld(h)) /\ EcApart

LEMMA EcHolders == EcTypes => (EcOneHolder <=> EcHolding)
<1> SUFFICES ASSUME EcTypes
             PROVE  EcOneHolder <=> (\A h : h \in ecOpen <=> EcHeld(h)) /\ EcApart
  BY DEF EcHolding
<1>1. DOMAIN ecSlot = EcThreads /\ DOMAIN ecConn = EcThreads
  BY DEF EcTypes
<1> DEFINE all == (IF ecMain \in {"get", "give"} THEN {ecHand} ELSE {})
                    \cup ((Range(ecSlot) \cup Range(ecConn)) \ {0})
<1>2. \A h : h \in Range(ecSlot) <=> \E t \in EcThreads : ecSlot[t] = h
  BY <1>1, Zenon DEF Range
<1>3. \A h : h \in Range(ecConn) <=> \E t \in EcThreads : ecConn[t] = h
  BY <1>1, Zenon DEF Range
<1>4. \A h : h \in (IF ecMain \in {"get", "give"} THEN {ecHand} ELSE {}) <=> (ecMain \in {"get", "give"} /\ h = ecHand)
  OBVIOUS
<1>5. \A h : h \in all <=> EcHeld(h)
  BY <1>2, <1>3, <1>4, Zenon DEF EcHeld
<1>6. ecOpen = all <=> \A h : h \in ecOpen <=> EcHeld(h)
  <2>1. ecOpen = all <=> \A h : h \in ecOpen <=> h \in all
    OBVIOUS
  <2> HIDE DEF all
  <2> QED
    BY <1>5, <2>1, Zenon
<1> QED
  BY <1>6 DEF EcOneHolder, EcApart

LEMMA EcHolderKept ==
  ASSUME EcTypes, EcTypes', EcServing, EcHandlesNew, EcIdleInPool, EcOneHolder, [EcNext]_ecVars
  PROVE  EcOneHolder'
<1>a. /\ ecSlot \in [EcThreads -> EcHandles] /\ ecConn \in [EcThreads -> EcHandles]
      /\ ecHand \in Nat /\ 0 \in EcHandles /\ EcMaxConns \in Nat
      /\ ecMain = "give" => ecGiven \in EcThreads
  BY EcBounds DEF EcTypes, EcHandles
<1>b. (\A h : h \in ecOpen <=> EcHeld(h)) /\ EcApart
  BY EcHolders DEF EcHolding
<1> SUFFICES (\A h : h \in ecOpen' <=> EcHeld(h)') /\ EcApart'
  <2>1. EcOneHolder' <=> EcHolding'
    BY EcHolders, PTL
  <2> QED
    BY <2>1 DEF EcHolding
<1> DEFINE Goal == (\A h : h \in ecOpen' <=> EcHeld(h)') /\ EcApart'
<1>1. ASSUME UNCHANGED <<ecMain, ecHand, ecSlot, ecConn, ecOpen>>
      PROVE  Goal
  BY <1>b, <1>1, Zenon DEF EcHeld, EcApart
<1>2. ASSUME NEW c \in EcConns, EcAccept(c)
      PROVE  Goal
  <2>1. /\ ecMain = "accept" /\ ecMain' = "get" /\ ecHand' = c /\ ecOpen' = ecOpen \cup {c}
        /\ ecSlot' = ecSlot /\ ecConn' = ecConn
    BY <1>2 DEF EcAccept, ecThreadVars
  <2>2. EcApart'
    BY <1>b, <2>1, Zenon DEF EcApart
  <2>3. \A h : h \in ecOpen' <=> EcHeld(h)'
    BY <1>b, <2>1 DEF EcHeld
  <2> QED
    BY <2>2, <2>3
<1>3. CASE EcAcceptFails
  <2>1. ecMain = "accept" /\ ecMain' = "done" /\ UNCHANGED <<ecSlot, ecConn, ecOpen>>
    BY <1>3 DEF EcAcceptFails, ecThreadVars
  <2>2. EcApart'
    BY <1>b, <2>1, Zenon DEF EcApart
  <2>3. \A h : h \in ecOpen' <=> EcHeld(h)'
    BY <1>b, <2>1 DEF EcHeld
  <2> QED
    BY <2>2, <2>3
<1>4. CASE EcPoolGet
  <2>1. ecMain = "get" /\ ecMain' = "give" /\ ecHand' = ecHand /\ UNCHANGED <<ecSlot, ecConn, ecOpen>>
    BY <1>4 DEF EcPoolGet, ecThreadVars
  <2>2. EcApart'
    BY <1>b, <2>1, Zenon DEF EcApart
  <2>3. \A h : h \in ecOpen' <=> EcHeld(h)'
    BY <1>b, <2>1 DEF EcHeld
  <2> QED
    BY <2>2, <2>3
<1>5. CASE EcHandleConn
  <2>1. /\ ecMain = "give" /\ ecGiven \in EcThreads /\ ecMain' = "accept" /\ ecHand' = ecHand
        /\ ecSlot[ecGiven] = 0 /\ ecSlot' = [ecSlot EXCEPT ![ecGiven] = ecHand]
        /\ ecConn' = ecConn /\ ecOpen' = ecOpen
    BY <1>5, <1>a DEF EcHandleConn
  <2>2. ecHand # 0 /\ \A t \in EcThreads : ecSlot[t] # ecHand /\ ecConn[t] # ecHand
    BY <2>1 DEF EcHandlesNew
  <2>3. /\ ecSlot'[ecGiven] = ecHand /\ \A t \in EcThreads : t # ecGiven => ecSlot'[t] = ecSlot[t]
    BY <1>a, <2>1
  <2>4. EcApart'
    BY <1>b, <2>1, <2>2, <2>3 DEF EcApart
  <2>5. \A h : h \in ecOpen' <=> EcHeld(h)'
    BY <1>b, <2>1, <2>2, <2>3 DEF EcHeld
  <2> QED
    BY <2>4, <2>5
<1>6. ASSUME NEW t \in EcThreads, EcGet(t)
      PROVE  Goal
  <2>1. /\ ecPc[t] = "slot" /\ ecSlot[t] # 0
        /\ ecConn' = [ecConn EXCEPT ![t] = ecSlot[t]] /\ ecSlot' = [ecSlot EXCEPT ![t] = 0]
        /\ UNCHANGED <<ecMain, ecHand, ecOpen>>
    BY <1>6 DEF EcGet, EcAt, ecMainVars
  <2>2. ecConn[t] = 0
    BY <2>1 DEF EcServing
  <2>3. /\ ecSlot'[t] = 0 /\ ecConn'[t] = ecSlot[t]
        /\ \A u \in EcThreads : u # t => ecSlot'[u] = ecSlot[u] /\ ecConn'[u] = ecConn[u]
    BY <1>a, <2>1
  <2>4. EcApart'
    BY <1>b, <2>1, <2>2, <2>3 DEF EcApart
  <2>5. \A h : h \in ecOpen' <=> EcHeld(h)'
    BY <1>b, <2>1, <2>2, <2>3 DEF EcHeld
  <2> QED
    BY <2>4, <2>5
<1>7. ASSUME NEW t \in EcThreads, EcClose(t)
      PROVE  Goal
  <2>1. /\ ecPc[t] = "close" /\ ecOpen' = ecOpen \ {ecConn[t]}
        /\ ecConn' = [ecConn EXCEPT ![t] = 0]
        /\ UNCHANGED <<ecMain, ecHand, ecSlot>>
    BY <1>7 DEF EcClose, EcAt, ecMainVars
  <2>2. ecConn[t] # 0 /\ (ecMain \in {"get", "give"} => ecConn[t] # ecHand)
    BY <2>1 DEF EcServing, EcHandlesNew
  <2>3. /\ ecConn'[t] = 0
        /\ \A u \in EcThreads : u # t => ecConn'[u] = ecConn[u]
    BY <1>a, <2>1
  <2>4. EcApart'
    BY <1>b, <2>1, <2>2, <2>3 DEF EcApart
  <2>5. /\ \A u \in EcThreads : ecSlot[u] # ecConn[t]
        /\ \A u \in EcThreads : u # t => ecConn[u] # ecConn[t]
    BY <1>b, <2>2 DEF EcApart
  <2>6. \A h : h \in ecOpen' <=> EcHeld(h)'
    BY <1>b, <2>1, <2>2, <2>3, <2>5 DEF EcHeld
  <2> QED
    BY <2>4, <2>6
<1>8. CASE ~(EcAcceptFails \/ EcPoolGet \/ EcHandleConn \/ (\E c \in EcConns : EcAccept(c))
             \/ \E t \in EcThreads : EcGet(t) \/ EcClose(t))
  <2>1. UNCHANGED <<ecMain, ecHand, ecSlot, ecConn, ecOpen>>
    <3>1. CASE EcConnect
      BY <3>1 DEF EcConnect, ecMainVars, ecThreadVars
    <3>2. ASSUME NEW c \in EcConns, EcSend(c) \/ EcShut(c)
          PROVE  UNCHANGED <<ecMain, ecHand, ecSlot, ecConn, ecOpen>>
      BY <3>2 DEF EcSend, EcShut, ecMainVars, ecThreadVars
    <3>3. ASSUME NEW t \in EcThreads, EcRead(t) \/ EcWrite(t) \/ EcReadEnds(t) \/ EcPutBack(t)
          PROVE  UNCHANGED <<ecMain, ecHand, ecSlot, ecConn, ecOpen>>
      BY <3>3 DEF EcRead, EcWrite, EcReadEnds, EcPutBack, ecMainVars
    <3>4. CASE UNCHANGED ecVars
      BY <3>4 DEF ecVars, ecMainVars, ecThreadVars
    <3> QED
      BY <1>8, <3>1, <3>2, <3>3, <3>4 DEF EcNext
  <2> QED
    BY <1>1, <2>1
<1> QED
  BY <1>2, <1>3, <1>4, <1>5, <1>6, <1>7, <1>8

LEMMA EcTurnKept == EcTypes /\ EcInTurn /\ [EcNext]_ecVars => EcInTurn'
<1> SUFFICES ASSUME EcTypes, EcInTurn, [EcNext]_ecVars
             PROVE  EcInTurn'
  OBVIOUS
<1>0. EcMaxConns \in Nat /\ ecClient \in [EcConns -> {"none", "open", "shut"}]
  BY EcBounds DEF EcTypes
<1>1. PICK k \in EcHandles : ecHand <= k /\ \A c \in EcConns : ecClient[c] # "none" <=> c <= k
  BY Zenon DEF EcInTurn
<1>2. CASE EcConnect
  <2>1. ecClient' = [ecClient EXCEPT ![EcNextConn] = "open"] /\ EcNextConn \in EcConns
    BY <1>2 DEF EcConnect
  <2>2. EcNextConn = k + 1
    BY <1>1, EcNextNone
  <2>3. k + 1 \in EcHandles /\ k + 1 \in EcConns
    BY <1>0, <2>1, <2>2 DEF EcConns, EcHandles
  <2>4. \A c \in EcConns : ecClient'[c] # "none" <=> c <= k + 1
    BY <1>0, <1>1, <2>1, <2>2, <2>3 DEF EcConns, EcHandles
  <2>5. ecHand' <= k + 1
    BY <1>0, <1>1, <1>2 DEF EcConnect, ecMainVars, EcTypes, EcHandles
  <2> QED
    BY <2>3, <2>4, <2>5, Zenon DEF EcInTurn
<1>3. CASE ~EcConnect
  <2>1. \A c \in EcConns : ecClient'[c] # "none" <=> ecClient[c] # "none"
    <3>1. ASSUME NEW c \in EcConns, EcShut(c)
          PROVE  \A d \in EcConns : ecClient'[d] # "none" <=> ecClient[d] # "none"
      BY <1>0, <3>1 DEF EcShut
    <3>2. CASE ~ \E c \in EcConns : EcShut(c)
      <4>1. ecClient' = ecClient
        BY <1>3, <3>2 DEF EcNext, ecVars, ecClientVars, EcSend, EcAccept, EcAcceptFails, EcPoolGet,
           EcHandleConn, EcGet, EcRead, EcWrite, EcReadEnds, EcPutBack, EcClose
      <4> QED
        BY <4>1
    <3> QED
      BY <3>1, <3>2
  <2>2. ecHand' <= k
    <3>1. ASSUME NEW c \in EcConns, EcAccept(c)
          PROVE  ecHand' <= k
      BY <1>1, <3>1 DEF EcAccept
    <3>2. CASE ~ \E c \in EcConns : EcAccept(c)
      <4>1. ecHand' = ecHand
        BY <1>3, <3>2 DEF EcNext, ecVars, ecMainVars, EcSend, EcShut, EcAcceptFails, EcPoolGet,
           EcHandleConn, EcGet, EcRead, EcWrite, EcReadEnds, EcPutBack, EcClose
      <4> QED
        BY <1>1, <4>1
    <3> QED
      BY <3>1, <3>2
  <2> QED
    BY <1>1, <2>1, <2>2, Zenon DEF EcInTurn
<1> QED
  BY <1>2, <1>3

LEMMA EcRunAppend ==
  ASSUME NEW s \in Seq(EcPackets), NEW c \in EcConns, NEW n \in Nat, EcRun(s, c, n)
  PROVE  LET r == Append(s, <<c, n + Len(s) + 1>>) IN Len(r) = Len(s) + 1 /\ EcRun(r, c, n)
<1>1. Len(s) \in Nat /\ n + Len(s) + 1 \in Nat /\ n + (Len(s) + 1) = n + Len(s) + 1
  OBVIOUS
<1>2. <<c, n + Len(s) + 1>> \in EcPackets
  BY <1>1 DEF EcPackets
<1>3. PICK r : r = Append(s, <<c, n + Len(s) + 1>>)
  OBVIOUS
<1>4. /\ Len(r) = Len(s) + 1 /\ r[Len(s) + 1] = <<c, n + Len(s) + 1>>
      /\ \A i \in 1..Len(s) : r[i] = s[i]
  BY <1>2, <1>3, AppendProperties
<1>5. ASSUME NEW i \in 1..Len(r)
      PROVE  r[i] = <<c, n + i>>
  <2>1. i \in 1..Len(s) \/ i = Len(s) + 1
    BY <1>1, <1>4
  <2>2. CASE i \in 1..Len(s)
    BY <1>4, <2>2, Zenon DEF EcRun
  <2>3. CASE i = Len(s) + 1
    BY <1>1, <1>4, <2>3
  <2> QED
    BY <2>1, <2>2, <2>3
<1> QED
  BY <1>3, <1>4, <1>5 DEF EcRun

LEMMA EcRunJoined ==
  ASSUME NEW s \in Seq(EcPackets), NEW r \in Seq(EcPackets), NEW c, NEW n \in Nat,
         EcRun(s, c, n), EcRun(r, c, n + Len(s))
  PROVE  Len(s \o r) = Len(s) + Len(r) /\ EcRun(s \o r, c, n)
<1>1. PICK u : u = s \o r
  OBVIOUS
<1>2. /\ Len(u) = Len(s) + Len(r) /\ Len(s) \in Nat /\ Len(r) \in Nat
      /\ \A i \in 1..Len(s) + Len(r) : u[i] = IF i <= Len(s) THEN s[i] ELSE r[i - Len(s)]
  BY <1>1, ConcatProperties
<1>3. ASSUME NEW i \in 1..Len(u)
      PROVE  u[i] = <<c, n + i>>
  <2>1. CASE i <= Len(s)
    <3>1. i \in 1..Len(s) /\ u[i] = s[i]
      BY <1>2, <2>1
    <3> QED
      BY <3>1, Zenon DEF EcRun
  <2>2. CASE ~(i <= Len(s))
    <3>1. i - Len(s) \in 1..Len(r) /\ u[i] = r[i - Len(s)] /\ (n + Len(s)) + (i - Len(s)) = n + i
      BY <1>2, <2>2
    <3>2. r[i - Len(s)] = <<c, (n + Len(s)) + (i - Len(s))>>
      BY <3>1, Zenon DEF EcRun
    <3> QED
      BY <3>1, <3>2
  <2> QED
    BY <2>1, <2>2
<1> QED
  BY <1>1, <1>2, <1>3 DEF EcRun

LEMMA EcRunParts ==
  ASSUME NEW s \in Seq(EcPackets), NEW c, NEW n \in Nat, NEW k \in 0..Len(s), EcRun(s, c, n)
  PROVE  LET a == SubSeq(s, 1, k)
             b == SubSeq(s, k + 1, Len(s)) IN
         /\ a \in Seq(EcPackets) /\ Len(a) = k /\ EcRun(a, c, n)
         /\ b \in Seq(EcPackets) /\ Len(b) = Len(s) - k /\ EcRun(b, c, n + k)
<1>1. Len(s) \in Nat /\ \A i \in 1..Len(s) : s[i] \in EcPackets
  OBVIOUS
<1>2. PICK a : a = SubSeq(s, 1, k)
  OBVIOUS
<1>3. PICK b : b = SubSeq(s, k + 1, Len(s))
  OBVIOUS
<1>4. a \in Seq(EcPackets) /\ Len(a) = k /\ \A i \in 1..k : a[i] = s[i]
  BY <1>1, <1>2
<1>5. b \in Seq(EcPackets) /\ Len(b) = Len(s) - k /\ \A i \in 1..Len(s) - k : b[i] = s[k + i]
  BY <1>1, <1>3
<1>6. ASSUME NEW i \in 1..Len(a)
      PROVE  a[i] = <<c, n + i>>
  <2>1. i \in 1..Len(s) /\ a[i] = s[i]
    BY <1>1, <1>4
  <2> QED
    BY <2>1, Zenon DEF EcRun
<1>7. ASSUME NEW i \in 1..Len(b)
      PROVE  b[i] = <<c, (n + k) + i>>
  <2>1. k + i \in 1..Len(s) /\ b[i] = s[k + i] /\ (n + k) + i = n + (k + i)
    BY <1>1, <1>5, SMTT(30)
  <2>2. s[k + i] = <<c, n + (k + i)>>
    BY <2>1, Zenon DEF EcRun
  <2> QED
    BY <2>1, <2>2
<1> QED
  BY <1>2, <1>3, <1>4, <1>5, <1>6, <1>7 DEF EcRun

\* A step that leaves a client's packets where they are.
LEMMA EcPacketsSame ==
  ASSUME NEW c \in EcConns, EcPacketsOf(c),
         ecBack'[c] = ecBack[c], ecSent'[c] = ecSent[c], ecIn'[c] = ecIn[c],
         ecClient'[c] = ecClient[c],
         \A t \in EcThreads : /\ ecConn'[t] = c <=> ecConn[t] = c
                              /\ ecConn[t] = c => ecBuf'[t] = ecBuf[t]
  PROVE  EcPacketsOf(c)'
<1>1. (\A t \in EcThreads : ecConn'[t] # c) <=> (\A t \in EcThreads : ecConn[t] # c)
  OBVIOUS
<1>2. ASSUME ecClient[c] = "open"
      PROVE  /\ EcRun(ecIn[c], c, ecSent[c] - Len(ecIn[c]))
             /\ (\A t \in EcThreads : ecConn[t] # c) => Len(ecBack[c]) + Len(ecIn[c]) = ecSent[c]
             /\ \A t \in EcThreads : ecConn[t] = c =>
                  /\ Len(ecBack[c]) + Len(ecBuf[t]) + Len(ecIn[c]) = ecSent[c]
                  /\ EcRun(ecBuf[t], c, Len(ecBack[c]))
  BY <1>2, Zenon DEF EcPacketsOf
<1>3. /\ Len(ecBack[c]) <= ecSent[c] /\ EcRun(ecBack[c], c, 0)
      /\ ecClient[c] = "none" => ecSent[c] = 0 /\ ecIn[c] = << >> /\ ecBack[c] = << >>
  BY Zenon DEF EcPacketsOf
<1>4. ASSUME ecClient'[c] = "open"
      PROVE  /\ EcRun(ecIn'[c], c, ecSent'[c] - Len(ecIn'[c]))
             /\ (\A t \in EcThreads : ecConn'[t] # c) => Len(ecBack'[c]) + Len(ecIn'[c]) = ecSent'[c]
             /\ \A t \in EcThreads : ecConn'[t] = c =>
                  /\ Len(ecBack'[c]) + Len(ecBuf'[t]) + Len(ecIn'[c]) = ecSent'[c]
                  /\ EcRun(ecBuf'[t], c, Len(ecBack'[c]))
  <2>1. EcRun(ecIn'[c], c, ecSent'[c] - Len(ecIn'[c]))
    BY <1>2, <1>4, Zenon
  <2>2. (\A t \in EcThreads : ecConn'[t] # c) => Len(ecBack'[c]) + Len(ecIn'[c]) = ecSent'[c]
    BY <1>1, <1>2, <1>4, Zenon
  <2>3. ASSUME NEW t \in EcThreads, ecConn'[t] = c
        PROVE  /\ Len(ecBack'[c]) + Len(ecBuf'[t]) + Len(ecIn'[c]) = ecSent'[c]
               /\ EcRun(ecBuf'[t], c, Len(ecBack'[c]))
    BY <1>2, <1>4, <2>3, Zenon
  <2> QED
    BY <2>1, <2>2, <2>3
<1>5. /\ Len(ecBack'[c]) <= ecSent'[c] /\ EcRun(ecBack'[c], c, 0)
      /\ ecClient'[c] = "none" => ecSent'[c] = 0 /\ ecIn'[c] = << >> /\ ecBack'[c] = << >>
  BY <1>3, Zenon
<1> QED
  BY <1>4, <1>5, Zenon DEF EcPacketsOf, EcRun

\* Of a client that has closed only what it got back matters.
LEMMA EcPacketsShut ==
  ASSUME NEW c \in EcConns, EcPacketsOf(c),
         ecBack'[c] = ecBack[c], ecSent'[c] = ecSent[c], ecClient'[c] = "shut"
  PROVE  EcPacketsOf(c)'
<1>1. Len(ecBack'[c]) <= ecSent'[c] /\ EcRun(ecBack'[c], c, 0)
  BY Zenon DEF EcPacketsOf
<1>2. ecClient'[c] # "none" /\ ecClient'[c] # "open"
  OBVIOUS
<1> QED
  BY <1>1, <1>2, Zenon DEF EcPacketsOf, EcRun

LEMMA EcPacketsKept ==
  ASSUME EcInv, [EcNext]_ecVars, NEW c \in EcConns
  PROVE  EcPacketsOf(c)'
<1>a. /\ ecSlot \in [EcThreads -> EcHandles] /\ ecConn \in [EcThreads -> EcHandles]
      /\ ecBuf \in [EcThreads -> Seq(EcPackets)]
      /\ ecClient \in [EcConns -> {"none", "open", "shut"}]
      /\ ecSent \in [EcConns -> Nat]
      /\ ecIn \in [EcConns -> Seq(EcPackets)] /\ ecBack \in [EcConns -> Seq(EcPackets)]
      /\ EcMaxConns \in Nat /\ ecHand \in Nat
  BY EcBounds DEF EcInv, EcTypes, EcHandles
<1>b. EcPacketsOf(c)
  BY DEF EcInv
<1>c. \A t \in EcThreads : ecConn[t] # 0 => ecConn[t] \in EcConns
  BY <1>a DEF EcConns, EcHandles
<1>d. PICK in \in Seq(EcPackets) : in = ecIn[c]
  BY <1>a
<1>e. PICK back \in Seq(EcPackets) : back = ecBack[c]
  BY <1>a
<1>f. PICK sent \in Nat : sent = ecSent[c]
  BY <1>a
<1>g. /\ Len(back) <= sent /\ EcRun(back, c, 0)
      /\ ecClient[c] = "none" => sent = 0 /\ in = << >> /\ back = << >>
  BY <1>b, <1>d, <1>e, <1>f, Zenon DEF EcPacketsOf
<1>h. ASSUME ecClient[c] = "open"
      PROVE  /\ EcRun(in, c, sent - Len(in))
             /\ (\A t \in EcThreads : ecConn[t] # c) => Len(back) + Len(in) = sent
             /\ \A t \in EcThreads : ecConn[t] = c =>
                  Len(back) + Len(ecBuf[t]) + Len(in) = sent /\ EcRun(ecBuf[t], c, Len(back))
  BY <1>b, <1>d, <1>e, <1>f, <1>h, Zenon DEF EcPacketsOf
<1>i. Len(in) \in Nat /\ Len(back) \in Nat
  OBVIOUS
<1>j. /\ \A t, u \in EcThreads : ecSlot[t] = ecConn[u] => ecSlot[t] = 0
      /\ \A t, u \in EcThreads : t # u => (ecConn[t] = ecConn[u] => ecConn[t] = 0)
  BY Zenon DEF EcInv, EcOneHolder
<1>1. CASE EcConnect
  <2>1. ecClient' = [ecClient EXCEPT ![EcNextConn] = "open"] /\ EcNextConn \in EcConns
    BY <1>1 DEF EcConnect
  <2>2. UNCHANGED <<ecConn, ecBuf, ecSent, ecIn, ecBack>>
    BY <1>1 DEF EcConnect, ecThreadVars
  <2>3. CASE c # EcNextConn
    <3>1. ecClient'[c] = ecClient[c]
      BY <1>a, <2>1, <2>3
    <3> QED
      BY <1>b, <2>2, <3>1, EcPacketsSame
  <2>4. CASE c = EcNextConn
    <3>1. PICK k \in EcHandles : ecHand <= k /\ \A d \in EcConns : ecClient[d] # "none" <=> d <= k
      BY Zenon DEF EcInv, EcInTurn
    <3>2. c = k + 1
      BY <2>4, <3>1, EcNextNone
    <3>3. ecClient[c] = "none" /\ \A t \in EcThreads : ecConn[t] # c
      <4>1. k \in Nat
        BY <1>a DEF EcHandles
      <4>2. ~(c <= k) /\ ~(c <= ecHand)
        BY <1>a, <3>1, <3>2, <4>1
      <4>3. ecClient[c] = "none"
        BY <3>1, <4>2
      <4> QED
        BY <4>2, <4>3 DEF EcInv, EcHandlesNew
    <3>4. in = << >> /\ back = << >> /\ sent = 0
      BY <1>g, <3>3
    <3>5. /\ ecIn'[c] = << >> /\ ecBack'[c] = << >> /\ ecSent'[c] = 0
          /\ \A t \in EcThreads : ecConn'[t] # c
          /\ ecClient'[c] = "open"
      BY <1>a, <1>d, <1>e, <1>f, <2>1, <2>2, <2>4, <3>3, <3>4
    <3>6. EcRun(<< >>, c, 0) /\ EcRun(<< >>, c, 0 - Len(<< >>)) /\ Len(<< >>) = 0
      BY DEF EcRun
    <3> QED
      BY <3>5, <3>6 DEF EcPacketsOf
  <2> QED
    BY <2>3, <2>4
<1>2. ASSUME NEW d \in EcConns, EcSend(d)
      PROVE  EcPacketsOf(c)'
  <2>1. /\ ecClient[d] = "open" /\ ecSent' = [ecSent EXCEPT ![d] = ecSent[d] + 1]
        /\ ecIn' = [ecIn EXCEPT ![d] = Append(ecIn[d], <<d, ecSent[d] + 1>>)]
        /\ UNCHANGED <<ecConn, ecBuf, ecClient, ecBack>>
    BY <1>2, Zenon DEF EcSend, ecThreadVars
  <2>2. CASE c # d
    <3>1. ecSent'[c] = ecSent[c] /\ ecIn'[c] = ecIn[c]
      BY <1>a, <2>1, <2>2
    <3> QED
      BY <1>b, <2>1, <3>1, EcPacketsSame
  <2>3. CASE c = d
    <3>1. /\ EcRun(in, c, sent - Len(in))
          /\ (\A t \in EcThreads : ecConn[t] # c) => Len(back) + Len(in) = sent
          /\ \A t \in EcThreads : ecConn[t] = c =>
               Len(back) + Len(ecBuf[t]) + Len(in) = sent /\ EcRun(ecBuf[t], c, Len(back))
      BY <1>h, <2>1, <2>3
    <3>2. PICK new : new = Append(in, <<c, sent + 1>>)
      OBVIOUS
    <3>3. /\ ecIn'[c] = new /\ ecSent'[c] = sent + 1 /\ ecBack'[c] = back
          /\ ecClient'[c] = "open"
      BY <1>a, <1>d, <1>e, <1>f, <2>1, <2>3, <3>2
    <3>4. Len(in) <= sent
      <4>1. CASE \A t \in EcThreads : ecConn[t] # c
        BY <1>i, <3>1, <4>1
      <4>2. ASSUME NEW t \in EcThreads, ecConn[t] = c
            PROVE  Len(in) <= sent
        <5>1. Len(ecBuf[t]) \in Nat
          BY <1>a
        <5> QED
          BY <1>i, <3>1, <4>2, <5>1
      <4> QED
        BY <4>1, <4>2
    <3>5. sent - Len(in) \in Nat /\ (sent - Len(in)) + Len(in) + 1 = sent + 1
      BY <1>i, <3>4
    <3>6. Len(new) = Len(in) + 1 /\ EcRun(new, c, sent - Len(in))
      BY <3>1, <3>2, <3>5, EcRunAppend
    <3>7. (sent + 1) - Len(new) = sent - Len(in)
      BY <1>i, <3>6
    <3>8. EcRun(ecIn'[c], c, ecSent'[c] - Len(ecIn'[c]))
      BY <3>3, <3>6, <3>7
    <3>9. Len(back) <= sent + 1 /\ EcRun(back, c, 0)
      BY <1>g, <1>i
    <3>10. (\A t \in EcThreads : ecConn[t] # c) => Len(back) + Len(new) = sent + 1
      BY <1>i, <3>1, <3>6
    <3>11. ASSUME NEW t \in EcThreads, ecConn[t] = c
           PROVE  Len(back) + Len(ecBuf[t]) + Len(new) = sent + 1 /\ EcRun(ecBuf[t], c, Len(back))
      <4>1. Len(ecBuf[t]) \in Nat
        BY <1>a
      <4>2. Len(back) + Len(ecBuf[t]) + Len(in) = sent /\ EcRun(ecBuf[t], c, Len(back))
        BY <3>1, <3>11, Zenon
      <4>3. PICK l \in Nat : l = Len(ecBuf[t])
        BY <4>1
      <4>4. Len(back) + l + Len(new) = sent + 1
        <5>1. PICK x \in Nat : x = Len(in)
          BY <1>i
        <5>2. PICK y \in Nat : y = Len(back)
          BY <1>i
        <5>3. y + l + x = sent /\ Len(new) = x + 1
          BY <3>6, <4>2, <4>3, <5>1, <5>2
        <5> QED
          BY <5>2, <5>3
      <4> QED
        BY <4>2, <4>3, <4>4
    <3> QED
      BY <2>1, <3>3, <3>8, <3>9, <3>10, <3>11, Zenon DEF EcPacketsOf, EcRun
  <2> QED
    BY <2>2, <2>3
<1>3. ASSUME NEW d \in EcConns, EcShut(d)
      PROVE  EcPacketsOf(c)'
  <2>1. /\ ecClient' = [ecClient EXCEPT ![d] = "shut"]
        /\ UNCHANGED <<ecConn, ecBuf, ecSent, ecIn, ecBack>>
    BY <1>3 DEF EcShut, ecThreadVars
  <2>2. CASE c # d
    <3>1. ecClient'[c] = ecClient[c]
      BY <1>a, <2>1, <2>2
    <3> QED
      BY <1>b, <2>1, <3>1, EcPacketsSame
  <2>3. CASE c = d
    <3>1. ecClient'[c] = "shut"
      BY <1>a, <2>1, <2>3
    <3> QED
      BY <1>b, <2>1, <3>1, EcPacketsShut
  <2> QED
    BY <2>2, <2>3
<1>4. CASE EcAcceptFails \/ EcPoolGet \/ EcHandleConn \/ (\E d \in EcConns : EcAccept(d))
           \/ \E t \in EcThreads : EcPutBack(t)
  <2>1. UNCHANGED <<ecConn, ecBuf, ecClient, ecSent, ecIn, ecBack>>
    BY <1>4 DEF EcAcceptFails, EcPoolGet, EcHandleConn, EcAccept, EcPutBack, ecThreadVars, ecClientVars
  <2> QED
    BY <1>b, <2>1, EcPacketsSame
<1>5. ASSUME NEW t \in EcThreads, EcGet(t)
      PROVE  EcPacketsOf(c)'
  <2>1. /\ ecPc[t] = "slot" /\ ecSlot[t] # 0
        /\ ecConn' = [ecConn EXCEPT ![t] = ecSlot[t]]
        /\ UNCHANGED <<ecBuf, ecClient, ecSent, ecIn, ecBack>>
    BY <1>5 DEF EcGet, EcAt, ecClientVars
  <2>2. ecConn[t] = 0 /\ ecBuf[t] = << >> /\ c # 0
    BY <2>1 DEF EcInv, EcServing, EcConns
  <2>3. ecConn'[t] = ecSlot[t] /\ \A u \in EcThreads : u # t => ecConn'[u] = ecConn[u]
    BY <1>a, <2>1
  <2>4. CASE ecSlot[t] # c
    <3>1. \A u \in EcThreads : ecConn'[u] = c <=> ecConn[u] = c
      BY <2>2, <2>3, <2>4
    <3> QED
      BY <1>b, <2>1, <3>1, EcPacketsSame
  <2>5. CASE ecSlot[t] = c
    <3>1. \A u \in EcThreads : ecConn[u] # c
      BY <1>j, <2>1, <2>5
    <3>2. \A u \in EcThreads : ecConn'[u] = c => u = t
      BY <2>3, <3>1
    <3>3. /\ ecBack'[c] = back /\ ecIn'[c] = in /\ ecSent'[c] = sent /\ ecClient'[c] = ecClient[c]
          /\ ecBuf'[t] = << >> /\ ecConn'[t] = c
      BY <1>d, <1>e, <1>f, <2>1, <2>2, <2>3, <2>5
    <3>4. ASSUME ecClient[c] = "open"
          PROVE  /\ EcRun(in, c, sent - Len(in)) /\ Len(back) + Len(<< >>) + Len(in) = sent
                 /\ EcRun(<< >>, c, Len(back))
      <4>1. EcRun(in, c, sent - Len(in)) /\ Len(back) + Len(in) = sent
        BY <1>h, <3>1, <3>4
      <4>2. Len(<< >>) = 0 /\ EcRun(<< >>, c, Len(back))
        BY DEF EcRun
      <4> QED
        BY <1>i, <4>1, <4>2
    <3>5. ASSUME ecClient'[c] = "open"
          PROVE  /\ EcRun(ecIn'[c], c, ecSent'[c] - Len(ecIn'[c]))
                 /\ ~(\A u \in EcThreads : ecConn'[u] # c)
                 /\ \A u \in EcThreads : ecConn'[u] = c =>
                      /\ Len(ecBack'[c]) + Len(ecBuf'[u]) + Len(ecIn'[c]) = ecSent'[c]
                      /\ EcRun(ecBuf'[u], c, Len(ecBack'[c]))
      BY <3>2, <3>3, <3>4, <3>5, Zenon
    <3>6. /\ Len(ecBack'[c]) <= ecSent'[c] /\ EcRun(ecBack'[c], c, 0)
          /\ ecClient'[c] = "none" => ecSent'[c] = 0 /\ ecIn'[c] = << >> /\ ecBack'[c] = << >>
      BY <1>g, <3>3, Zenon
    <3> QED
      BY <3>5, <3>6, Zenon DEF EcPacketsOf, EcRun
  <2> QED
    BY <2>4, <2>5
<1>6. ASSUME NEW t \in EcThreads, EcRead(t)
      PROVE  EcPacketsOf(c)'
  <2>1. PICK d \in EcConns : d = ecConn[t]
    BY <1>6, <1>c DEF EcRead, EcAt, EcInv, EcServing
  <2>2. PICK n \in 1..Len(ecIn[d]) :
               /\ ecBuf' = [ecBuf EXCEPT ![t] = ecBuf[t] \o SubSeq(ecIn[d], 1, n)]
               /\ ecIn' = [ecIn EXCEPT ![d] = SubSeq(ecIn[d], n + 1, Len(ecIn[d]))]
    BY <1>6, <2>1, Zenon DEF EcRead
  <2>3. UNCHANGED <<ecConn, ecClient, ecSent, ecBack>> /\ ecBuf[t] = << >> /\ ecConn[t] # 0
    BY <1>6 DEF EcRead, EcAt, ecClientVars, EcInv, EcServing
  <2>4. \A u \in EcThreads : u # t => ecConn[u] # d /\ ecBuf'[u] = ecBuf[u]
    BY <1>a, <1>j, <2>1, <2>2, <2>3
  <2>5. CASE c # d
    <3>1. ecIn'[c] = ecIn[c]
      BY <1>a, <2>2, <2>5
    <3>2. \A u \in EcThreads : ecConn[u] = c => ecBuf'[u] = ecBuf[u]
      BY <2>1, <2>4, <2>5
    <3> QED
      BY <1>b, <2>3, <3>1, <3>2, EcPacketsSame
  <2>6. CASE c = d
    <3>1. PICK a : a = SubSeq(in, 1, n)
      OBVIOUS
    <3>2. PICK b : b = SubSeq(in, n + 1, Len(in))
      OBVIOUS
    <3>3. n \in 0..Len(in)
      BY <1>d, <1>i, <2>2, <2>6
    <3>4. /\ \A i \in 1..Len(in) : in[i] \in EcPackets
          /\ a \in Seq(EcPackets) /\ Len(a) = n /\ b \in Seq(EcPackets) /\ Len(b) = Len(in) - n
      <4>1. \A i \in 1..Len(in) : in[i] \in EcPackets
        OBVIOUS
      <4> QED
        BY <3>1, <3>2, <3>3, <4>1
    <3>5. << >> \o a = a
      BY <3>4
    <3>6. /\ ecIn'[c] = b /\ ecBuf'[t] = a /\ ecBack'[c] = back /\ ecSent'[c] = sent
          /\ ecClient'[c] = ecClient[c]
      <4>1. ecIn'[d] = b
        BY <1>a, <1>d, <2>2, <2>6, <3>2
      <4>2. ecBuf'[t] = << >> \o a
        BY <1>a, <1>d, <2>2, <2>3, <2>6, <3>1
      <4> QED
        BY <1>e, <1>f, <2>3, <2>6, <3>5, <4>1, <4>2
    <3>7. ASSUME ecClient[c] = "open"
          PROVE  /\ EcRun(b, c, sent - Len(b)) /\ Len(back) + Len(a) + Len(b) = sent
                 /\ EcRun(a, c, Len(back))
      <4>1. EcRun(in, c, sent - Len(in)) /\ Len(back) + Len(ecBuf[t]) + Len(in) = sent
        BY <1>h, <2>1, <2>6, <3>7
      <4>2. Len(back) + Len(in) = sent
        BY <1>i, <2>3, <4>1
      <4>3. sent - Len(in) = Len(back)
        BY <1>i, <4>2
      <4>4. EcRun(in, c, Len(back))
        BY <4>1, <4>3
      <4>5. EcRun(a, c, Len(back)) /\ EcRun(b, c, Len(back) + n)
        BY <1>i, <3>1, <3>2, <3>3, <4>4, EcRunParts
      <4>6. Len(back) + n = sent - Len(b) /\ Len(back) + Len(a) + Len(b) = sent
        <5>1. PICK x \in Nat : x = Len(in)
          BY <1>i
        <5>2. PICK y \in Nat : y = Len(back)
          BY <1>i
        <5>3. n \in 0..x /\ Len(a) = n /\ Len(b) = x - n /\ y + x = sent
          BY <3>3, <3>4, <4>2, <5>1, <5>2
        <5>4. y + n = sent - Len(b) /\ y + Len(a) + Len(b) = sent
          BY <5>1, <5>2, <5>3
        <5> QED
          BY <5>2, <5>4
      <4> QED
        BY <4>5, <4>6
    <3>8. ASSUME ecClient'[c] = "open"
          PROVE  /\ EcRun(ecIn'[c], c, ecSent'[c] - Len(ecIn'[c]))
                 /\ ~(\A u \in EcThreads : ecConn'[u] # c)
                 /\ \A u \in EcThreads : ecConn'[u] = c =>
                      /\ Len(ecBack'[c]) + Len(ecBuf'[u]) + Len(ecIn'[c]) = ecSent'[c]
                      /\ EcRun(ecBuf'[u], c, Len(ecBack'[c]))
      <4>1. ecConn'[t] = c /\ \A u \in EcThreads : ecConn'[u] = c => u = t
        BY <2>1, <2>3, <2>4, <2>6
      <4> QED
        BY <3>6, <3>7, <3>8, <4>1, Zenon
    <3>9. ecClient[c] # "none"
      <4>1. in # << >>
        BY <1>d, <2>2, <2>6
      <4> QED
        BY <1>g, <4>1
    <3>10. Len(ecBack'[c]) <= ecSent'[c] /\ EcRun(ecBack'[c], c, 0) /\ ecClient'[c] # "none"
      BY <1>g, <3>6, <3>9, Zenon
    <3> QED
      BY <3>8, <3>10, Zenon DEF EcPacketsOf, EcRun
  <2> QED
    BY <2>5, <2>6
<1>7. ASSUME NEW t \in EcThreads, EcWrite(t)
      PROVE  EcPacketsOf(c)'
  <2>1. PICK d \in EcConns : d = ecConn[t]
    BY <1>7, <1>c DEF EcWrite, EcAt, EcInv, EcServing
  <2>2. /\ ecBuf' = [ecBuf EXCEPT ![t] = << >>]
        /\ UNCHANGED <<ecConn, ecClient, ecSent, ecIn>> /\ ecConn[t] # 0
    BY <1>7 DEF EcWrite, EcAt, ecClientVars, EcInv, EcServing
  <2>3. \A u \in EcThreads : u # t => ecConn[u] # d /\ ecBuf'[u] = ecBuf[u]
    BY <1>a, <1>j, <2>1, <2>2
  <2>4. /\ ecClient[d] = "open" => ecBack' = [ecBack EXCEPT ![d] = ecBack[d] \o ecBuf[t]]
        /\ ecClient[d] # "open" => ecBack' = ecBack
    BY <1>7, <2>1, Zenon DEF EcWrite, EcDelivered
  <2>5. CASE c # d
    <3>1. ecBack'[c] = ecBack[c]
      BY <1>a, <2>4, <2>5
    <3>2. \A u \in EcThreads : ecConn[u] = c => ecBuf'[u] = ecBuf[u]
      BY <2>1, <2>3, <2>5
    <3> QED
      BY <1>b, <2>2, <3>1, <3>2, EcPacketsSame
  <2>6. CASE c = d /\ ecClient[c] # "open"
    <3>1. /\ Len(ecBack'[c]) <= ecSent'[c] /\ EcRun(ecBack'[c], c, 0)
          /\ ecClient'[c] = "none" => ecSent'[c] = 0 /\ ecIn'[c] = << >> /\ ecBack'[c] = << >>
      BY <1>d, <1>e, <1>f, <1>g, <2>2, <2>4, <2>6, Zenon
    <3>2. ecClient'[c] # "open"
      BY <2>2, <2>6
    <3> QED
      BY <3>1, <3>2, Zenon DEF EcPacketsOf, EcRun
  <2>7. CASE c = d /\ ecClient[c] = "open"
    <3>1. PICK buf \in Seq(EcPackets) : buf = ecBuf[t]
      BY <1>a
    <3>2. PICK new : new = back \o buf
      OBVIOUS
    <3>3. EcRun(in, c, sent - Len(in)) /\ Len(back) + Len(buf) + Len(in) = sent /\ EcRun(buf, c, Len(back))
      BY <1>h, <2>1, <2>7, <3>1
    <3>4. /\ ecBack'[c] = new /\ ecBuf'[t] = << >> /\ ecIn'[c] = in /\ ecSent'[c] = sent
          /\ ecClient'[c] = "open"
      <4>1. ecBack'[d] = ecBack[d] \o ecBuf[t]
        BY <1>a, <2>4, <2>7
      <4>2. ecBuf'[t] = << >>
        BY <1>a, <2>2
      <4> QED
        BY <1>d, <1>e, <1>f, <2>2, <2>7, <3>1, <3>2, <4>1, <4>2
    <3>5. Len(new) = Len(back) + Len(buf) /\ EcRun(new, c, 0)
      <4>1. EcRun(buf, c, 0 + Len(back)) /\ EcRun(back, c, 0)
        BY <1>g, <1>i, <3>3
      <4> QED
        BY <3>2, <4>1, EcRunJoined
    <3>6. Len(buf) \in Nat /\ Len(<< >>) = 0 /\ EcRun(<< >>, c, Len(new))
      BY DEF EcRun
    <3>7. Len(new) <= sent /\ Len(new) + Len(<< >>) + Len(in) = sent
      BY <1>i, <3>3, <3>5, <3>6
    <3>8. ecConn'[t] = c /\ \A u \in EcThreads : ecConn'[u] = c => u = t
      BY <2>1, <2>2, <2>3, <2>7
    <3>9. /\ EcRun(ecIn'[c], c, ecSent'[c] - Len(ecIn'[c]))
          /\ ~(\A u \in EcThreads : ecConn'[u] # c)
          /\ \A u \in EcThreads : ecConn'[u] = c =>
               /\ Len(ecBack'[c]) + Len(ecBuf'[u]) + Len(ecIn'[c]) = ecSent'[c]
               /\ EcRun(ecBuf'[u], c, Len(ecBack'[c]))
      BY <3>3, <3>4, <3>6, <3>7, <3>8, Zenon
    <3>10. Len(ecBack'[c]) <= ecSent'[c] /\ EcRun(ecBack'[c], c, 0) /\ ecClient'[c] # "none"
      BY <3>4, <3>5, <3>7
    <3> QED
      BY <3>9, <3>10, Zenon DEF EcPacketsOf, EcRun
  <2> QED
    BY <2>5, <2>6, <2>7
<1>8. ASSUME NEW t \in EcThreads, EcReadEnds(t)
      PROVE  EcPacketsOf(c)'
  <2>1. PICK d \in EcConns : d = ecConn[t]
    BY <1>8, <1>c DEF EcReadEnds, EcAt, EcInv, EcServing
  <2>2. /\ ecClient[d] = "shut" /\ ecIn' = [ecIn EXCEPT ![d] = << >>]
        /\ UNCHANGED <<ecConn, ecBuf, ecClient, ecSent, ecBack>>
    BY <1>8, <2>1 DEF EcReadEnds, ecClientVars
  <2>3. CASE c # d
    <3>1. ecIn'[c] = ecIn[c]
      BY <1>a, <2>2, <2>3
    <3> QED
      BY <1>b, <2>2, <3>1, EcPacketsSame
  <2>4. CASE c = d
    BY <1>b, <2>2, <2>4, EcPacketsShut
  <2> QED
    BY <2>3, <2>4
<1>9. ASSUME NEW t \in EcThreads, EcClose(t)
      PROVE  EcPacketsOf(c)'
  <2>1. /\ ecPc[t] = "close" /\ ecConn' = [ecConn EXCEPT ![t] = 0]
        /\ UNCHANGED <<ecBuf, ecClient, ecSent, ecIn, ecBack>>
    BY <1>9 DEF EcClose, EcAt, ecClientVars
  <2>2. ecClient[ecConn[t]] = "shut" /\ c # 0
    BY <2>1 DEF EcInv, EcServing, EcConns
  <2>3. CASE ecConn[t] = c
    BY <1>b, <2>1, <2>2, <2>3, EcPacketsShut
  <2>4. CASE ecConn[t] # c
    <3>1. \A u \in EcThreads : ecConn'[u] = c <=> ecConn[u] = c
      BY <1>a, <2>1, <2>2, <2>4
    <3> QED
      BY <1>b, <2>1, <3>1, EcPacketsSame
  <2> QED
    BY <2>3, <2>4
<1>10. CASE UNCHANGED ecVars
  BY <1>10, <1>b, EcPacketsSame DEF ecVars, ecThreadVars, ecClientVars
<1> QED
  BY <1>1, <1>2, <1>3, <1>4, <1>5, <1>6, <1>7, <1>8, <1>9, <1>10 DEF EcNext

LEMMA EcKept == EcInv /\ [EcNext]_ecVars => EcInv'
<1> SUFFICES ASSUME EcInv, [EcNext]_ecVars
             PROVE  EcInv'
  OBVIOUS
<1>1. EcTypes'
  BY EcTypesKept DEF EcInv, EcIdleInPool
<1>2. EcHandlesNew' /\ EcServing' /\ EcIdleInPool' /\ EcInTurn'
  BY EcHandlesKept, EcServingKept, EcTurnKept, Zenon DEF EcInv
<1>3. EcOneHolder'
  BY <1>1, EcHolderKept DEF EcInv
<1>4. ASSUME NEW c \in EcConns
      PROVE  EcPacketsOf(c)'
  BY EcPacketsKept
<1> QED
  BY <1>1, <1>2, <1>3, <1>4 DEF EcInv

\* The packets a client got back are the first of those it sent.
LEMMA EcEchoed == EcInv => EcEchoes
<1> SUFFICES ASSUME EcInv, NEW c \in EcConns
             PROVE  IsPrefix(ecBack[c], [i \in 1..ecSent[c] |-> <<c, i>>])
  BY DEF EcEchoes
<1>1. PICK back \in Seq(EcPackets) : back = ecBack[c]
  BY DEF EcInv, EcTypes
<1>2. PICK sent \in Nat : sent = ecSent[c]
  BY DEF EcInv, EcTypes
<1>3. Len(back) <= sent /\ EcRun(back, c, 0)
  BY <1>1, <1>2, Zenon DEF EcInv, EcPacketsOf
<1>4. PICK all : all = [i \in 1..sent |-> <<c, i>>]
  OBVIOUS
<1>5. Len(all) = sent /\ all \in Seq(EcPackets)
  <2>1. \A i \in 1..sent : <<c, i>> \in EcPackets
    BY <1>2 DEF EcPackets
  <2> QED
    BY <1>2, <1>4, <2>1
<1>6. \A i \in 1..Len(back) : back[i] = all[i]
  <2> SUFFICES ASSUME NEW i \in 1..Len(back)
               PROVE  back[i] = all[i]
    OBVIOUS
  <2>1. i \in 1..sent /\ 0 + i = i
    BY <1>2, <1>3
  <2>2. back[i] = <<c, 0 + i>>
    BY <1>3, Zenon DEF EcRun
  <2> QED
    BY <1>4, <2>1, <2>2
<1>7. SubSeq(back, 1, Len(back)) = SubSeq(all, 1, Len(back))
  BY <1>3, <1>5, <1>6
<1> QED
  BY <1>1, <1>2, <1>3, <1>4, <1>5, <1>7 DEF IsPrefix

-----------------------------------------------------------------------------

WVars == <<part, vars, rmVars, cdVars, ttVars, ecVars, fwVars>>

\* The two programs of the examples, for any number of handler threads of which
\* any may not run, of connections and of packets: a thread in the pool is idle
\* (threadPool.put(this) comes last in run()'s loop but for the close); a
\* connection is held by main, one slot or one thread; a client gets back the
\* packets it sent, in order; until main() of devfwd returns, DevMonThread runs
\* only while the socket is open and never writes to one main has closed, and what
\* it and main forward stays in order, also after.
THEOREM ServersSafe == MCSpec => []ServersHold
<1>1. MCInit => EcInv /\ FwInv
  BY EcStart, FwStart0, Zenon DEF MCInit
<1>2. EcInv /\ FwInv /\ [MCNext]_WVars => EcInv' /\ FwInv'
  <2>1. [MCNext]_WVars => [EcNext]_ecVars /\ [FwNext]_fwVars
    <3>1. MCNext => [EcNext]_ecVars /\ [FwNext]_fwVars
      BY Zenon DEF MCNext
    <3>2. UNCHANGED WVars => UNCHANGED ecVars /\ UNCHANGED fwVars
      BY DEF WVars
    <3> QED
      BY <3>1, <3>2, Zenon
  <2> QED
    BY <2>1, EcKept, FwKept, Zenon
<1>3. EcInv /\ FwInv => ServersHold
  BY EcEchoed, FwSafe, Zenon DEF ServersHold, EcInv
<1> QED
  BY <1>1, <1>2, <1>3, PTL DEF MCSpec, WVars
=============================================================================
