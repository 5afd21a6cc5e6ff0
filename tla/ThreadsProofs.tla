---------------------------- MODULE ThreadsProofs ----------------------------
(***************************************************************************)
(* Proofs about the parts MCThreads puts side by side, but for RdWrLock,   *)
(* which has its own.  They are about safety: the fairness of the parts    *)
(* plays no role.                                                          *)
(***************************************************************************)
EXTENDS MCThreads, FiniteSetTheorems, SequenceTheorems, TLAPS

MCVars == <<part, vars, thVars, qtVars, plVars, aqVars, trVars>>

LEMMA StepOfPart ==
  [MCNext]_MCVars => /\ [ThNext]_thVars /\ [QtNext]_qtVars /\ [PlNext]_plVars
                     /\ [AqNext]_aqVars /\ [TrNext]_trVars
<1>1. MCNext => /\ [ThNext]_thVars /\ [QtNext]_qtVars /\ [PlNext]_plVars
                /\ [AqNext]_aqVars /\ [TrNext]_trVars
  BY Zenon DEF MCNext
<1>2. UNCHANGED MCVars => UNCHANGED <<vars, thVars, qtVars, plVars, aqVars, trVars>>
  BY DEF MCVars
<1> QED
  BY <1>1, <1>2, Zenon

-----------------------------------------------------------------------------
(* Thread.  Where the owner is says whether there is an OS thread to join. *)

ThAlive == {"run", "signal", "close", "exited"}

ThInv == /\ thPc \in {"idle", "created", "join", "timed", "timed.join", "leave"}
         /\ thPc = "idle" /\ ~active_ => os \in {"none", "joined"}
         /\ thPc = "idle" /\ active_ => os \in ThAlive
         /\ thPc \in {"created", "join", "timed", "timed.join"} => os \in ThAlive
         /\ thPc \in {"join", "timed", "timed.join"} => active_
         /\ thPc = "leave" => os = "joined"

LEMMA ThStart == ThInit => ThInv
  BY DEF ThInit, ThInv

LEMMA ThKept == ThInv /\ [ThNext]_thVars => ThInv'
<1> SUFFICES ASSUME ThInv, [ThNext]_thVars
             PROVE  ThInv'
  OBVIOUS
<1> USE DEF ThInv, ThAlive
<1>1. CASE RunReturns
  BY <1>1 DEF RunReturns
<1>2. CASE Startup
  BY <1>2 DEF Startup, SignalDone, Close
<1>3. CASE Owner
  BY <1>3 DEF Owner, ActivateSet, TimedDone, TimedOut, Join, Leave, Goto
<1>4. CASE ActivateCreate \/ ActivateFails
  BY <1>4 DEF ActivateCreate, ActivateFails, Goto
<1>5. CASE quit \/ WaitCall
  BY <1>5 DEF quit, WaitCall
<1>6. CASE UNCHANGED thVars
  BY <1>6 DEF thVars
<1> QED
  BY <1>1, <1>2, <1>3, <1>4, <1>5, <1>6 DEF ThNext

\* When a Thread's owner may destroy or activate it again (Thread.cpp: active_ is
\* false and no operation runs) there is no OS thread, or it has been joined: for
\* any number of activations, and whichever of wait() and wait(d) ended them.
THEOREM ThreadGone == MCSpec => []DestroySafe
<1>1. MCInit => ThInv
  BY ThStart, Zenon DEF MCInit
<1>2. ThInv /\ [MCNext]_MCVars => ThInv'
  BY ThKept, StepOfPart, Zenon
<1>3. ThInv => DestroySafe
  BY DEF ThInv, DestroySafe
<1> QED
  BY <1>1, <1>2, <1>3, PTL DEF MCSpec, MCVars

-----------------------------------------------------------------------------
(* QueueThread.  T() is in the queue, or in hand, only after quit_ was set; *)
(* the messages handled, the one in hand and those in the queue are in the *)
(* order of the puts.                                                      *)

QtTypes == /\ que_ \in Seq(Nat) /\ qtHandled \in Seq(Nat)
           /\ qtMsg \in Nat /\ qtSent \in Nat

QtWoken == /\ qtOwner = "quit.put" => qtQuit
           /\ qtThread = "check" /\ qtMsg = 0 => qtQuit
           /\ \A i \in 1..Len(que_) : que_[i] = 0 => qtQuit

QtOrdered ==
  /\ \A i \in 1..Len(que_) : que_[i] <= qtSent
  /\ \A i, j \in 1..Len(que_) : i < j /\ que_[j] # 0 => que_[i] < que_[j]
  /\ \A i \in 1..Len(qtHandled) :
       /\ qtHandled[i] <= qtSent
       /\ \A j \in 1..Len(que_) : que_[j] # 0 => qtHandled[i] < que_[j]
  /\ qtThread = "check" /\ qtMsg # 0 =>
       /\ qtMsg <= qtSent
       /\ \A j \in 1..Len(que_) : que_[j] # 0 => qtMsg < que_[j]
       /\ \A i \in 1..Len(qtHandled) : qtHandled[i] < qtMsg

QtInv == QtTypes /\ QtWoken /\ QtOrdered /\ QtNoPhantom

LEMMA QtStart == QtInit => QtInv
  BY DEF QtInit, QtInv, QtTypes, QtWoken, QtOrdered, QtNoPhantom

LEMMA QtKept == QtInv /\ [QtNext]_qtVars => QtInv'
<1> SUFFICES ASSUME QtInv, [QtNext]_qtVars
             PROVE  QtInv'
  OBVIOUS
<1> USE DEF QtInv, QtTypes, QtWoken, QtOrdered, QtNoPhantom
<1>1. ASSUME NEW p \in QtProducers, QtPut(p)
      PROVE  QtInv'
  <2>1. PICK n \in Nat : n = Len(que_)
    OBVIOUS
  <2>2. PICK q \in Seq(Nat) : /\ q = que_' /\ Len(q) = n + 1
                              /\ \A i \in 1..n : q[i] = que_[i]
                              /\ q[n + 1] = qtSent + 1
    <3>1. PICK x \in Nat : x = qtSent + 1
      OBVIOUS
    <3>2. PICK q \in Seq(Nat) : q = que_
      OBVIOUS
    <3>3. /\ Append(q, x) \in Seq(Nat) /\ Len(Append(q, x)) = Len(q) + 1
          /\ \A i \in 1..Len(q) : Append(q, x)[i] = q[i]
          /\ Append(q, x)[Len(q) + 1] = x
      OBVIOUS
    <3>4. que_' = Append(q, x)
      BY <1>1, <3>1, <3>2 DEF QtPut
    <3> QED
      BY <2>1, <3>1, <3>2, <3>3, <3>4
  <2>3. /\ que_' = q /\ qtSent' = qtSent + 1
        /\ UNCHANGED <<qtQuit, qtThread, qtMsg, qtOwner, qtHandled>>
    BY <1>1, <2>2 DEF QtPut
  <2>4. \A i \in 1..(n + 1) : i \in 1..n \/ (i = n + 1 /\ i \notin 1..n)
    BY <2>1
  <2>5. \A i \in 1..(n + 1) :
          \/ i \in 1..n /\ q[i] = que_[i] /\ q[i] <= qtSent /\ q[i] \in Nat
          \/ i = n + 1 /\ q[i] = qtSent + 1
    <3>1. \A i \in 1..n : que_[i] \in Nat /\ que_[i] <= qtSent
      BY <2>1
    <3> HIDE DEF QtInv, QtTypes, QtWoken, QtOrdered, QtNoPhantom
    <3> TAKE i \in 1..(n + 1)
    <3>2. CASE i \in 1..n
      BY <2>2, <3>1, <3>2
    <3>3. CASE i = n + 1
      BY <2>2, <3>3
    <3> QED
      BY <2>4, <3>2, <3>3
  <2>6. QtTypes' /\ QtNoPhantom'
    BY <2>3
  <2>7. QtWoken'
    <3>1. QtWoken /\ qtSent \in Nat /\ qtSent + 1 # 0
      OBVIOUS
    <3> HIDE DEF QtInv, QtTypes, QtOrdered, QtNoPhantom
    <3>2. \A i \in 1..Len(que_') : que_'[i] = 0 => qtQuit
      BY <2>1, <2>2, <2>3, <2>5, <3>1
    <3> QED
      BY <2>3, <3>1, <3>2
  <2>8. /\ \A i \in 1..Len(q) : q[i] <= qtSent + 1
        /\ \A i, j \in 1..Len(q) : i < j /\ q[j] # 0 => q[i] < q[j]
    <3>1. \A i, j \in 1..n : i < j /\ que_[j] # 0 => que_[i] < que_[j]
      BY <2>1
    <3> HIDE DEF QtInv, QtTypes, QtWoken, QtOrdered, QtNoPhantom
    <3>2. qtSent \in Nat
      BY DEF QtInv, QtTypes
    <3>3. \A i \in 1..Len(q) : q[i] <= qtSent + 1
      BY <2>2, <2>5, <3>2
    <3>4. \A i, j \in 1..Len(q) : i < j /\ q[j] # 0 => q[i] < q[j]
      BY <2>2, <2>5, <3>1, <3>2, SMTT(30)
    <3> QED
      BY <3>3, <3>4
  <2>9. \A i \in 1..Len(qtHandled) :
          /\ qtHandled[i] <= qtSent + 1
          /\ \A j \in 1..Len(q) : q[j] # 0 => qtHandled[i] < q[j]
    <3> TAKE i \in 1..Len(qtHandled)
    <3>1. /\ qtHandled[i] \in Nat /\ qtHandled[i] <= qtSent /\ qtSent \in Nat
          /\ \A j \in 1..n : que_[j] # 0 => qtHandled[i] < que_[j]
      BY <2>1
    <3> HIDE DEF QtInv, QtTypes, QtWoken, QtOrdered, QtNoPhantom
    <3>2. qtHandled[i] <= qtSent + 1 /\ qtHandled[i] < qtSent + 1
      BY <3>1
    <3> QED
      BY <2>2, <2>5, <3>1, <3>2
  <2>10. qtThread = "check" /\ qtMsg # 0 =>
          /\ qtMsg <= qtSent + 1
          /\ \A j \in 1..Len(q) : q[j] # 0 => qtMsg < q[j]
    <3> SUFFICES ASSUME qtThread = "check", qtMsg # 0
                 PROVE  /\ qtMsg <= qtSent + 1
                        /\ \A j \in 1..Len(q) : q[j] # 0 => qtMsg < q[j]
      OBVIOUS
    <3>1. /\ qtMsg \in Nat /\ qtMsg <= qtSent /\ qtSent \in Nat
          /\ \A j \in 1..n : que_[j] # 0 => qtMsg < que_[j]
      BY <2>1
    <3> HIDE DEF QtInv, QtTypes, QtWoken, QtOrdered, QtNoPhantom
    <3>2. qtMsg <= qtSent + 1 /\ qtMsg < qtSent + 1
      BY <3>1
    <3> QED
      BY <2>2, <2>5, <3>1, <3>2
  <2> QED
    BY <2>3, <2>6, <2>7, <2>8, <2>9, <2>10
<1>2. CASE QtQuitPut
  <2>1. PICK q \in Seq(Nat) : q = que_
    OBVIOUS
  <2>2. /\ Append(q, 0) \in Seq(Nat) /\ Len(Append(q, 0)) = Len(q) + 1
        /\ \A i \in 1..Len(q) : Append(q, 0)[i] = q[i]
        /\ Append(q, 0)[Len(q) + 1] = 0
        /\ Len(q) \in Nat
    BY <2>1
  <2>3. /\ que_' = Append(q, 0) /\ qtOwner = "quit.put" /\ qtOwner' = "idle"
        /\ UNCHANGED <<qtQuit, qtThread, qtMsg, qtSent, qtHandled>>
    BY <1>2, <2>1 DEF QtQuitPut
  <2> QED
    BY <2>1, <2>2, <2>3, SMTT(30)
<1>3. CASE QtGet
  <2>1. PICK q \in Seq(Nat) : q = que_ /\ q # << >>
    BY <1>3 DEF QtGet
  <2>2. /\ Tail(q) \in Seq(Nat) /\ Len(Tail(q)) = Len(q) - 1 /\ Len(q) \in Nat \ {0}
        /\ \A i \in 1..Len(Tail(q)) : Tail(q)[i] = q[i + 1]
        /\ Head(q) = q[1] /\ q[1] \in Nat
    BY <2>1
  <2>3. /\ que_' = Tail(q) /\ qtMsg' = q[1] /\ qtThread' = "check"
        /\ UNCHANGED <<qtQuit, qtOwner, qtSent, qtHandled>>
    BY <1>3, <2>1, <2>2 DEF QtGet
  <2> QED
    BY <2>1, <2>2, <2>3, SMTT(30)
<1>4. CASE QtCheck
  <2>1. CASE qtQuit /\ qtThread' = "exited" /\ UNCHANGED qtHandled
    BY <1>4, <2>1 DEF QtCheck
  <2>2. CASE ~qtQuit /\ qtThread' = "get" /\ qtHandled' = Append(qtHandled, qtMsg)
    <3>1. PICK n \in Nat : n = Len(qtHandled)
      OBVIOUS
    <3>2. PICK h \in Seq(Nat) : /\ h = qtHandled' /\ Len(h) = n + 1
                                /\ \A i \in 1..n : h[i] = qtHandled[i]
                                /\ h[n + 1] = qtMsg
      <4>1. PICK x \in Nat : x = qtMsg
        OBVIOUS
      <4>2. PICK h \in Seq(Nat) : h = qtHandled
        OBVIOUS
      <4>3. /\ Append(h, x) \in Seq(Nat) /\ Len(Append(h, x)) = Len(h) + 1
            /\ \A i \in 1..Len(h) : Append(h, x)[i] = h[i]
            /\ Append(h, x)[Len(h) + 1] = x
        OBVIOUS
      <4>4. qtHandled' = Append(h, x)
        BY <2>2, <4>1, <4>2
      <4> QED
        BY <3>1, <4>1, <4>2, <4>3, <4>4
    <3>3. /\ qtHandled' = h /\ qtThread' = "get" /\ qtThread = "check" /\ ~qtQuit
          /\ UNCHANGED <<que_, qtQuit, qtOwner, qtSent, qtMsg>>
      BY <1>4, <2>2, <3>2 DEF QtCheck
    <3>4. \A i \in 1..(n + 1) : i \in 1..n \/ (i = n + 1 /\ i \notin 1..n)
      BY <3>1
    <3>5. qtMsg # 0
      BY <3>3
    <3>6. \A i \in 1..(n + 1) :
            \/ i \in 1..n /\ h[i] = qtHandled[i] /\ h[i] < qtMsg
            \/ i = n + 1 /\ h[i] = qtMsg
      <4>1. \A i \in 1..n : qtHandled[i] < qtMsg
        BY <3>1, <3>3, <3>5
      <4> HIDE DEF QtInv, QtTypes, QtWoken, QtOrdered, QtNoPhantom
      <4> TAKE i \in 1..(n + 1)
      <4>2. CASE i \in 1..n
        BY <3>2, <4>1, <4>2
      <4>3. CASE i = n + 1
        BY <3>2, <4>3
      <4> QED
        BY <3>4, <4>2, <4>3
    <3>7. \A i \in 1..Len(h) :
            /\ h[i] # 0 /\ h[i] <= qtSent
            /\ \A j \in 1..Len(que_) : que_[j] # 0 => h[i] < que_[j]
      BY <3>1, <3>2, <3>3, <3>5, <3>6
    <3>8. \A i, j \in 1..Len(h) : i < j => h[i] < h[j]
      <4>1. /\ \A i, j \in 1..n : i < j => qtHandled[i] < qtHandled[j]
            /\ \A i \in 1..n : qtHandled[i] \in Nat
            /\ qtMsg \in Nat
        BY <3>1
      <4> HIDE DEF QtInv, QtTypes, QtWoken, QtOrdered, QtNoPhantom
      <4> QED
        BY <3>2, <3>6, <4>1
    <3> QED
      BY <3>2, <3>3, <3>7, <3>8
  <2> QED
    BY <1>4, <2>1, <2>2 DEF QtCheck
<1>5. ASSUME NEW p \in QtProducers, QtCall(p) \/ QtGiveUp(p)
      PROVE  QtInv'
  BY <1>5 DEF QtCall, QtGiveUp
<1>6. CASE QtActivate \/ QtJoin
  BY <1>6 DEF QtActivate, QtJoin
<1>7. CASE QtQuitFlag
  BY <1>7 DEF QtQuitFlag
<1>8. CASE UNCHANGED qtVars
  BY <1>8 DEF qtVars
<1> QED
  BY <1>1, <1>2, <1>3, <1>4, <1>5, <1>6, <1>7, <1>8 DEF QtNext

-----------------------------------------------------------------------------
(* Transfer.  The bytes got, those in the reader's memory before the place *)
(* its next turn starts at, and those on the way are the first bytes of the *)
(* writer's buffer, up to the place the writer's next turn starts at.      *)

TrCalls == [pc : {"idle", "loop", "return"}, done : Nat, all : BOOLEAN,
            asked : Nat, cut : BOOLEAN]

\* Where the next turn starts, in a call and between calls.
TrPlace(pos, call) == IF trKind = "device" /\ call.pc # "idle" THEN pos + call.done ELSE pos

TrTypes == /\ trKind \in {"device", "tcp"}
           /\ trW \in TrCalls /\ trR \in TrCalls
           /\ trWPos \in Nat /\ trRPos \in Nat
           /\ trMem \in [1..TrWant -> Nat]
           /\ trPipe \in Seq(Nat) /\ trGot \in Seq(Nat)
           /\ TrPlace(trWPos, trW) <= TrTotal /\ TrPlace(trRPos, trR) <= TrWant

\* What a loop still has to transfer is what is left of its buffer.
TrCallOK(call, left) ==
  /\ call.pc = "loop" => call.asked = call.done + left
  /\ call.pc # "loop" /\ call.all => call.done = call.asked \/ call.cut

TrBytes == /\ \A i \in 1..Len(trGot) : trGot[i] = i
           /\ \A i \in 1..TrPlace(trRPos, trR) : trMem[i] = Len(trGot) + i
           /\ \A i \in 1..Len(trPipe) :
                trPipe[i] = Len(trGot) + TrPlace(trRPos, trR) + i
           /\ Len(trGot) + TrPlace(trRPos, trR) + Len(trPipe) = TrPlace(trWPos, trW)

TrInv == /\ TrTypes /\ TrBytes
         /\ TrCallOK(trW, TrTotal - TrPlace(trWPos, trW))
         /\ TrCallOK(trR, TrWant - TrPlace(trRPos, trR))

LEMMA TrStart == TrInit => TrInv
<1> SUFFICES ASSUME TrInit
             PROVE  TrInv
  OBVIOUS
<1>1. /\ trW = TrIdle /\ trR = TrIdle /\ trWPos = 0 /\ trRPos = 0
      /\ trMem \in [1..TrWant -> Nat] /\ trPipe = << >> /\ trGot = << >>
      /\ trKind \in {"device", "tcp"}
  BY DEF TrInit
<1>2. TrIdle \in TrCalls /\ TrIdle.pc = "idle" /\ TrIdle.done = TrIdle.asked
  BY DEF TrIdle, TrCalls
<1>3. TrPlace(trWPos, trW) = 0 /\ TrPlace(trRPos, trR) = 0
  BY <1>1, <1>2 DEF TrPlace
<1> QED
  BY <1>1, <1>2, <1>3, TrBounds DEF TrInv, TrTypes, TrBytes, TrCallOK

LEMMA TrTurn ==
  ASSUME TrTypes, NEW call \in TrCalls, NEW pos \in Nat, call.pc = "loop", NEW n \in Nat,
         NEW size \in Nat, n <= size - TrPlace(pos, call),
         TrCallOK(call, size - TrPlace(pos, call))
  PROVE  /\ TrAt(pos, call) = TrPlace(pos, call) /\ TrPlace(pos, call) \in Nat
         /\ TrAfter(call, n) \in TrCalls
         /\ TrAsItGoes(pos, n) \in Nat
         /\ TrPlace(TrAsItGoes(pos, n), TrAfter(call, n)) = TrPlace(pos, call) + n
         /\ TrCallOK(TrAfter(call, n), size - (TrPlace(pos, call) + n))
<1> DEFINE next == IF call.all /\ call.done + n < call.asked THEN "loop" ELSE "return"
<1>1. TrAfter(call, n) = [pc |-> next, done |-> call.done + n, all |-> call.all,
                          asked |-> call.asked, cut |-> call.cut]
  <2>1. TrAfter(call, n) = [[call EXCEPT !.done = call.done + n] EXCEPT !.pc = next]
    BY Zenon DEF TrAfter
  <2> QED
    BY <2>1 DEF TrCalls
<1>2. /\ call.done \in Nat /\ call.all \in BOOLEAN /\ call.asked \in Nat
      /\ call.cut \in BOOLEAN /\ next \in {"loop", "return"}
  BY DEF TrCalls
<1>3. TrAfter(call, n) \in TrCalls
  BY <1>1, <1>2 DEF TrCalls
<1>4. TrAt(pos, call) = TrPlace(pos, call) /\ TrPlace(pos, call) \in Nat
  BY <1>2 DEF TrAt, TrPlace
<1>5. TrAsItGoes(pos, n) \in Nat
  BY DEF TrAsItGoes
<1>6. TrPlace(TrAsItGoes(pos, n), TrAfter(call, n)) = TrPlace(pos, call) + n
  <2>1. TrAfter(call, n).pc # "idle" /\ TrAfter(call, n).done = call.done + n
    BY <1>1, <1>2
  <2>2. CASE trKind = "device"
    BY <1>2, <2>1, <2>2 DEF TrPlace, TrAsItGoes
  <2>3. CASE trKind = "tcp"
    BY <1>2, <2>1, <2>3 DEF TrPlace, TrAsItGoes
  <2> QED
    BY <2>2, <2>3 DEF TrTypes
<1>7. TrCallOK(TrAfter(call, n), size - (TrPlace(pos, call) + n))
  <2>1. PICK place \in Nat : place = TrPlace(pos, call)
    BY <1>4
  <2>2. call.asked = call.done + (size - place) /\ n <= size - place
    BY <2>1 DEF TrCallOK
  <2>3. CASE call.all /\ call.done + n < call.asked
    BY <1>1, <1>2, <2>1, <2>2, <2>3 DEF TrCallOK
  <2>4. CASE ~(call.all /\ call.done + n < call.asked)
    BY <1>1, <1>2, <2>1, <2>2, <2>4 DEF TrCallOK
  <2> QED
    BY <2>3, <2>4
<1> QED
  BY <1>3, <1>4, <1>5, <1>6, <1>7

\* Calls that begin, are cut short or return.
LEMMA TrTurnless ==
  ASSUME TrTypes, NEW call \in TrCalls, NEW pos \in Nat, NEW size \in Nat,
         TrPlace(pos, call) <= size,
         TrCallOK(call, size - TrPlace(pos, call))
  PROVE  /\ call.pc = "idle" => \A all \in BOOLEAN :
              /\ TrCalled(all, size - pos) \in TrCalls
              /\ TrPlace(pos, TrCalled(all, size - pos)) = TrPlace(pos, call)
              /\ TrCallOK(TrCalled(all, size - pos), size - TrPlace(pos, call))
         /\ call.pc = "loop" =>
              /\ TrCut(call) \in TrCalls /\ TrPlace(pos, TrCut(call)) = TrPlace(pos, call)
              /\ TrCallOK(TrCut(call), size - TrPlace(pos, call))
         /\ call.pc = "return" =>
              LET c == [call EXCEPT !.pc = "idle"] IN
              /\ c \in TrCalls /\ TrInTheEnd(pos, call) \in Nat
              /\ TrPlace(TrInTheEnd(pos, call), c) = TrPlace(pos, call)
              /\ TrCallOK(c, size - TrPlace(pos, call))
<1>1. /\ call.done \in Nat /\ call.all \in BOOLEAN /\ call.asked \in Nat
      /\ call.cut \in BOOLEAN /\ trKind \in {"device", "tcp"}
  BY DEF TrCalls, TrTypes
<1>2. ASSUME call.pc = "idle", NEW all \in BOOLEAN
      PROVE  /\ TrCalled(all, size - pos) \in TrCalls
             /\ TrPlace(pos, TrCalled(all, size - pos)) = TrPlace(pos, call)
             /\ TrCallOK(TrCalled(all, size - pos), size - TrPlace(pos, call))
  <2>1. PICK left \in Nat : left = size - pos
    BY <1>2 DEF TrPlace
  <2>2. PICK c : c = TrCalled(all, size - pos)
    OBVIOUS
  <2>3. /\ c = [pc |-> "loop", done |-> 0, all |-> all, asked |-> left, cut |-> FALSE]
        /\ TrPlace(pos, call) = pos
    BY <1>2, <2>1, <2>2 DEF TrCalled, TrPlace
  <2>4. c \in TrCalls /\ c.pc = "loop" /\ c.done = 0 /\ c.asked = left
    BY <2>3 DEF TrCalls
  <2>5. TrPlace(pos, c) = pos
    BY <2>4 DEF TrPlace
  <2>6. TrCallOK(c, size - pos)
    BY <2>1, <2>4 DEF TrCallOK
  <2> QED
    BY <2>2, <2>3, <2>4, <2>5, <2>6
<1>3. ASSUME call.pc = "loop"
      PROVE  /\ TrCut(call) \in TrCalls /\ TrPlace(pos, TrCut(call)) = TrPlace(pos, call)
             /\ TrCallOK(TrCut(call), size - TrPlace(pos, call))
  <2>1. TrCut(call) = [pc |-> "return", done |-> call.done, all |-> call.all,
                       asked |-> call.asked, cut |-> TRUE]
    <3>1. TrCut(call) = [[call EXCEPT !.cut = TRUE] EXCEPT !.pc = "return"]
      BY Zenon DEF TrCut
    <3> QED
      BY <3>1 DEF TrCalls
  <2>2. TrCut(call) \in TrCalls
    BY <1>1, <2>1 DEF TrCalls
  <2>3. TrCut(call).pc = "return" /\ TrCut(call).done = call.done /\ TrCut(call).cut
    BY <2>1
  <2> QED
    BY <1>3, <2>2, <2>3 DEF TrPlace, TrCallOK
<1>4. ASSUME call.pc = "return"
      PROVE  LET c == [call EXCEPT !.pc = "idle"] IN
             /\ c \in TrCalls /\ TrInTheEnd(pos, call) \in Nat
             /\ TrPlace(TrInTheEnd(pos, call), c) = TrPlace(pos, call)
             /\ TrCallOK(c, size - TrPlace(pos, call))
  <2>1. PICK c : c = [call EXCEPT !.pc = "idle"]
    OBVIOUS
  <2>2. c \in TrCalls /\ c.pc = "idle" /\ c.done = call.done /\ c.all = call.all
        /\ c.asked = call.asked /\ c.cut = call.cut
    BY <2>1 DEF TrCalls
  <2>3. TrInTheEnd(pos, call) \in Nat
    BY <1>1 DEF TrInTheEnd
  <2>4. TrPlace(TrInTheEnd(pos, call), c) = TrPlace(pos, call)
    BY <1>1, <1>4, <2>2 DEF TrPlace, TrInTheEnd
  <2>5. TrCallOK(c, size - TrPlace(pos, call))
    BY <1>4, <2>2, Zenon DEF TrCallOK
  <2> QED
    BY <2>1, <2>2, <2>3, <2>4, <2>5
<1> QED
  BY <1>2, <1>3, <1>4

\* Parts of sequences.
LEMMA TrPart ==
  ASSUME NEW s \in Seq(Nat), NEW a \in Nat, NEW b \in Nat, a <= b, b <= Len(s)
  PROVE  /\ SubSeq(s, a + 1, b) \in Seq(Nat) /\ Len(SubSeq(s, a + 1, b)) = b - a
         /\ \A i \in 1..(b - a) : SubSeq(s, a + 1, b)[i] = s[a + i]
<1>1. a + 1 \in Int /\ b \in Int /\ \A i \in (a + 1)..b : s[i] \in Nat
  OBVIOUS
<1>2. /\ SubSeq(s, a + 1, b) \in Seq(Nat)
      /\ Len(SubSeq(s, a + 1, b)) = IF a + 1 <= b THEN b - (a + 1) + 1 ELSE 0
      /\ \A i \in 1..(b - (a + 1) + 1) : SubSeq(s, a + 1, b)[i] = s[(a + 1) + i - 1]
  BY <1>1, SubSeqProperties, SMTT(30)
<1>3. b - (a + 1) + 1 = b - a /\ \A i \in 1..(b - a) : (a + 1) + i - 1 = a + i
  OBVIOUS
<1>4. PICK t : t = SubSeq(s, a + 1, b)
  OBVIOUS
<1>5. /\ t \in Seq(Nat)
      /\ Len(t) = IF a + 1 <= b THEN b - (a + 1) + 1 ELSE 0
      /\ \A i \in 1..(b - (a + 1) + 1) : t[i] = s[(a + 1) + i - 1]
  BY <1>2, <1>4, Zenon
<1>6. Len(t) = b - a
  <2>1. PICK k : k = Len(t)
    OBVIOUS
  <2>2. k = IF a + 1 <= b THEN b - (a + 1) + 1 ELSE 0
    BY <1>5, <2>1, Zenon
  <2>3. k = b - a
    BY <2>2
  <2> QED
    BY <2>1, <2>3, Zenon
<1>7. \A i \in 1..(b - a) : t[i] = s[a + i]
  BY <1>3, <1>5, Zenon
<1> QED
  BY <1>4, <1>5, <1>6, <1>7, Zenon

\* A step that moves no byte keeps the order of all of them.
LEMMA TrStays ==
  ASSUME TrBytes, UNCHANGED <<trMem, trPipe, trGot>>,
         TrPlace(trWPos, trW)' = TrPlace(trWPos, trW),
         TrPlace(trRPos, trR)' = TrPlace(trRPos, trR)
  PROVE  TrBytes'
<1>1. PICK w, r : w = TrPlace(trWPos, trW) /\ r = TrPlace(trRPos, trR)
  OBVIOUS
<1>2. TrPlace(trWPos, trW)' = w /\ TrPlace(trRPos, trR)' = r
  BY <1>1
<1> QED
  BY <1>1, <1>2 DEF TrBytes

LEMMA TrKept == TrInv /\ [TrNext]_trVars => TrInv'
<1> SUFFICES ASSUME TrInv, [TrNext]_trVars
             PROVE  TrInv'
  OBVIOUS
<1>0. TrTotal \in Nat /\ TrWant \in Nat \ {0} /\ TrPipe \in Nat \ {0}
  BY TrBounds
<1>1. /\ trKind \in {"device", "tcp"} /\ trW \in TrCalls /\ trR \in TrCalls
      /\ trWPos \in Nat /\ trRPos \in Nat /\ trMem \in [1..TrWant -> Nat]
      /\ trPipe \in Seq(Nat) /\ trGot \in Seq(Nat)
      /\ TrPlace(trWPos, trW) <= TrTotal /\ TrPlace(trRPos, trR) <= TrWant
      /\ TrTypes /\ TrBytes
      /\ TrCallOK(trW, TrTotal - TrPlace(trWPos, trW))
      /\ TrCallOK(trR, TrWant - TrPlace(trRPos, trR))
  BY DEF TrInv, TrTypes
<1>2. PICK w \in Nat : w = TrPlace(trWPos, trW)
  BY <1>1 DEF TrPlace, TrCalls
<1>3. PICK r \in Nat : r = TrPlace(trRPos, trR)
  BY <1>1 DEF TrPlace, TrCalls
<1>4. PICK g \in Nat : g = Len(trGot)
  BY <1>1
<1>5. /\ w <= TrTotal /\ r <= TrWant
      /\ TrCallOK(trW, TrTotal - w) /\ TrCallOK(trR, TrWant - r)
      /\ \A i \in 1..g : trGot[i] = i
      /\ \A i \in 1..r : trMem[i] = g + i
      /\ \A i \in 1..Len(trPipe) : trPipe[i] = g + r + i
      /\ g + r + Len(trPipe) = w
  BY <1>1, <1>2, <1>3, <1>4 DEF TrBytes
<1>50. w <= TrTotal /\ r <= TrWant /\ g + r + Len(trPipe) = w
  BY <1>5
\* Steps of the writer that transfer nothing, and of the reader.
<1>6. ASSUME trW' \in TrCalls, trWPos' \in Nat, trKind' = trKind,
             TrPlace(trWPos', trW') = w, TrCallOK(trW', TrTotal - w),
             UNCHANGED <<trR, trRPos, trMem, trPipe, trGot>>
      PROVE  TrInv'
  <2>1. TrPlace(trWPos, trW)' = w /\ TrPlace(trRPos, trR)' = r
    BY <1>3, <1>6 DEF TrPlace
  <2>2. TrBytes'
    BY <1>1, <1>2, <1>3, <1>6, <2>1, TrStays
  <2>3. TrTypes'
    BY <1>1, <1>5, <1>6, <2>1 DEF TrTypes
  <2>4. (TrCallOK(trW, TrTotal - TrPlace(trWPos, trW)))'
    BY <1>6, <2>1 DEF TrCallOK
  <2>5. (TrCallOK(trR, TrWant - TrPlace(trRPos, trR)))'
    BY <1>5, <1>6, <2>1 DEF TrCallOK
  <2> QED
    BY <2>2, <2>3, <2>4, <2>5 DEF TrInv
<1>7. ASSUME trR' \in TrCalls, trRPos' \in Nat, trKind' = trKind,
             TrPlace(trRPos', trR') = r, TrCallOK(trR', TrWant - r),
             UNCHANGED <<trW, trWPos, trMem, trPipe, trGot>>
      PROVE  TrInv'
  <2>1. TrPlace(trWPos, trW)' = w /\ TrPlace(trRPos, trR)' = r
    BY <1>2, <1>7 DEF TrPlace
  <2>2. TrBytes'
    BY <1>1, <1>2, <1>3, <1>7, <2>1, TrStays
  <2>3. TrTypes'
    BY <1>1, <1>5, <1>7, <2>1 DEF TrTypes
  <2>4. (TrCallOK(trW, TrTotal - TrPlace(trWPos, trW)))'
    BY <1>5, <1>7, <2>1 DEF TrCallOK
  <2>5. (TrCallOK(trR, TrWant - TrPlace(trRPos, trR)))'
    BY <1>7, <2>1 DEF TrCallOK
  <2> QED
    BY <2>2, <2>3, <2>4, <2>5 DEF TrInv
<1>8. CASE TrWrite
  <2>1. PICK all \in BOOLEAN : trW' = TrCalled(all, TrTotal - trWPos)
    BY <1>8 DEF TrWrite
  <2>2. trW.pc = "idle" /\ UNCHANGED <<trKind, trWPos, trR, trRPos, trMem, trPipe, trGot>>
    BY <1>8 DEF TrWrite, TrReader
  <2>3. trW' \in TrCalls /\ TrPlace(trWPos, trW') = w /\ TrCallOK(trW', TrTotal - w)
    <3>1. TrTotal \in Nat
      BY <1>0
    <3>2. \A a \in BOOLEAN :
            /\ TrCalled(a, TrTotal - trWPos) \in TrCalls
            /\ TrPlace(trWPos, TrCalled(a, TrTotal - trWPos)) = TrPlace(trWPos, trW)
            /\ TrCallOK(TrCalled(a, TrTotal - trWPos), TrTotal - TrPlace(trWPos, trW))
      BY <1>1, <2>2, <3>1, TrTurnless
    <3> QED
      BY <1>2, <2>1, <3>2
  <2> QED
    BY <1>1, <1>6, <2>2, <2>3
<1>9. CASE TrWriteFails
  <2>1. trW.pc = "loop" /\ trW' = TrCut(trW)
        /\ UNCHANGED <<trKind, trWPos, trR, trRPos, trMem, trPipe, trGot>>
    BY <1>9 DEF TrWriteFails, TrReader
  <2>2. trW' \in TrCalls /\ TrPlace(trWPos, trW') = w /\ TrCallOK(trW', TrTotal - w)
    BY <1>0, <1>1, <1>2, <2>1, TrTurnless
  <2> QED
    BY <1>1, <1>6, <2>1, <2>2
<1>10. CASE TrWriteReturns
  <2>1. trW.pc = "return" /\ trW' = [trW EXCEPT !.pc = "idle"]
        /\ trWPos' = TrInTheEnd(trWPos, trW)
        /\ UNCHANGED <<trKind, trR, trRPos, trMem, trPipe, trGot>>
    BY <1>10 DEF TrWriteReturns, TrReader
  <2>2. trW' \in TrCalls /\ trWPos' \in Nat /\ TrPlace(trWPos', trW') = w
        /\ TrCallOK(trW', TrTotal - w)
    BY <1>0, <1>1, <1>2, <2>1, TrTurnless
  <2> QED
    BY <1>6, <2>1, <2>2
<1>11. CASE TrClose
  <2>1. UNCHANGED <<trKind, trW, trWPos, trR, trRPos, trMem, trPipe, trGot>>
    BY <1>11 DEF TrClose, TrReader
  <2> QED
    BY <1>1, <1>2, <1>5, <1>6, <2>1
<1>12. CASE TrRead
  <2>1. PICK all \in BOOLEAN : trR' = TrCalled(all, TrWant - trRPos)
    BY <1>12 DEF TrRead
  <2>2. trR.pc = "idle" /\ UNCHANGED <<trKind, trRPos, trW, trWPos, trMem, trPipe, trGot>>
    BY <1>12 DEF TrRead, TrWriter
  <2>3. trR' \in TrCalls /\ TrPlace(trRPos, trR') = r /\ TrCallOK(trR', TrWant - r)
    <3>1. TrWant \in Nat
      BY <1>0
    <3>2. \A a \in BOOLEAN :
            /\ TrCalled(a, TrWant - trRPos) \in TrCalls
            /\ TrPlace(trRPos, TrCalled(a, TrWant - trRPos)) = TrPlace(trRPos, trR)
            /\ TrCallOK(TrCalled(a, TrWant - trRPos), TrWant - TrPlace(trRPos, trR))
      BY <1>1, <2>2, <3>1, TrTurnless
    <3> QED
      BY <1>3, <2>1, <3>2
  <2> QED
    BY <1>1, <1>7, <2>2, <2>3
<1>13. CASE TrReadFails \/ TrReadEnd
  <2>1. trR.pc = "loop" /\ trR' = TrCut(trR)
        /\ UNCHANGED <<trKind, trRPos, trW, trWPos, trMem, trPipe, trGot>>
    BY <1>13 DEF TrReadFails, TrReadEnd, TrWriter
  <2>2. trR' \in TrCalls /\ TrPlace(trRPos, trR') = r /\ TrCallOK(trR', TrWant - r)
    BY <1>0, <1>1, <1>3, <2>1, TrTurnless
  <2> QED
    BY <1>1, <1>7, <2>1, <2>2
<1>14. CASE TrReadReturns
  <2>1. trR.pc = "return" /\ trR' = [trR EXCEPT !.pc = "idle"]
        /\ trRPos' = TrInTheEnd(trRPos, trR)
        /\ UNCHANGED <<trKind, trW, trWPos, trMem, trPipe, trGot>>
    BY <1>14 DEF TrReadReturns, TrWriter
  <2>2. trR' \in TrCalls /\ trRPos' \in Nat /\ TrPlace(trRPos', trR') = r
        /\ TrCallOK(trR', TrWant - r)
    BY <1>0, <1>1, <1>3, <2>1, TrTurnless
  <2> QED
    BY <1>7, <2>1, <2>2
<1>15. CASE TrWriteSome
  <2>1. TrAt(trWPos, trW) = w
    BY <1>1, <1>2, <1>15, TrTurn DEF TrAt, TrPlace, TrWriteSome
  <2>2. PICK n \in 1..TrLeast(TrTotal - w, TrPipe - Len(trPipe)) :
          /\ trPipe' = trPipe \o [i \in 1..n |-> w + i]
          /\ trW' = TrAfter(trW, n)
          /\ trWPos' = TrAsItGoes(trWPos, n)
    BY <1>15, <2>1 DEF TrWriteSome
  <2>3. n \in Nat /\ n <= TrTotal - w
    BY <1>0, <1>1, <1>2, <2>2 DEF TrLeast
  <2>4. trW.pc = "loop" /\ UNCHANGED <<trKind, trR, trRPos, trMem, trGot>>
    BY <1>15 DEF TrWriteSome, TrReader
  <2>5. /\ trW' \in TrCalls /\ trWPos' \in Nat
        /\ TrPlace(trWPos', trW') = w + n /\ TrCallOK(trW', TrTotal - (w + n))
    BY <1>0, <1>1, <1>2, <2>2, <2>3, <2>4, TrTurn
  <2>6. TrPlace(trWPos, trW)' = w + n /\ TrPlace(trRPos, trR)' = r
    BY <1>3, <2>4, <2>5 DEF TrPlace
  <2>7. PICK l \in Nat : l = Len(trPipe)
    BY <1>1
  <2>8. PICK p \in Seq(Nat) : /\ p = trPipe' /\ Len(p) = l + n
                              /\ \A i \in 1..l : p[i] = trPipe[i]
                              /\ \A i \in 1..n : p[l + i] = w + i
    <3>1. PICK q \in Seq(Nat) : q = trPipe /\ Len(q) = l
      BY <1>1, <2>7
    <3>2. PICK m \in Seq(Nat) : m = [i \in 1..n |-> w + i] /\ Len(m) = n
                                /\ \A i \in 1..n : m[i] = w + i
      <4>1. PICK m : m = [i \in 1..n |-> w + i]
        OBVIOUS
      <4>2. m \in [1..n -> Nat] /\ \A i \in 1..n : m[i] = w + i
        BY <2>3, <4>1
      <4>3. m \in Seq(Nat) /\ Len(m) = n
        BY <2>3, <4>2
      <4> QED
        BY <4>1, <4>2, <4>3, Zenon
    <3>3. /\ q \o m \in Seq(Nat) /\ Len(q \o m) = l + n
          /\ \A i \in 1..l : (q \o m)[i] = q[i]
          /\ \A i \in 1..n : (q \o m)[l + i] = m[i]
      <4>1. /\ q \o m \in Seq(Nat) /\ Len(q \o m) = Len(q) + Len(m)
            /\ \A i \in 1..Len(q) : (q \o m)[i] = q[i]
            /\ \A i \in 1..Len(m) : (q \o m)[Len(q) + i] = m[i]
        OBVIOUS
      <4>2. Len(q) = l /\ Len(m) = n
        BY <3>1, <3>2, Zenon
      <4> QED
        BY <4>1, <4>2
    <3> QED
      BY <2>2, <3>1, <3>2, <3>3
  <2>9. \A i \in 1..(l + n) : p[i] = g + r + i
    <3> TAKE i \in 1..(l + n)
    <3>1. CASE i \in 1..l
      BY <1>5, <2>7, <2>8, <3>1
    <3>2. CASE i \in (l + 1)..(l + n)
      <4>1. i - l \in 1..n /\ l + (i - l) = i
        BY <2>3, <2>7, <3>2
      <4>2. p[l + (i - l)] = w + (i - l)
        BY <2>8, <4>1
      <4>3. w + (i - l) = g + r + i
        BY <1>50, <2>7
      <4> QED
        BY <4>1, <4>2, <4>3
    <3> QED
      BY <2>3, <2>7, <3>1, <3>2
  <2>10. TrBytes'
    BY <1>3, <1>4, <1>5, <2>3, <2>4, <2>6, <2>7, <2>8, <2>9 DEF TrBytes
  <2>11. TrTypes'
    <3>1. w + n <= TrTotal
      BY <1>0, <2>3
    <3> QED
      BY <1>1, <1>50, <2>4, <2>5, <2>6, <2>8, <3>1 DEF TrTypes
  <2>12. (TrCallOK(trW, TrTotal - TrPlace(trWPos, trW)))'
    BY <2>5, <2>6 DEF TrCallOK
  <2>13. (TrCallOK(trR, TrWant - TrPlace(trRPos, trR)))'
    BY <1>5, <2>4, <2>6 DEF TrCallOK
  <2> QED
    BY <2>10, <2>11, <2>12, <2>13 DEF TrInv
<1>16. CASE TrReadSome
  <2>1. TrAt(trRPos, trR) = r
    BY <1>1, <1>3, <1>16 DEF TrAt, TrPlace, TrReadSome
  <2>2. PICK n \in 1..TrLeast(TrWant - r, Len(trPipe)) :
          /\ trMem' = [i \in 1..TrWant |-> IF i - r \in 1..n THEN trPipe[i - r] ELSE trMem[i]]
          /\ trPipe' = SubSeq(trPipe, n + 1, Len(trPipe))
          /\ trR' = TrAfter(trR, n)
          /\ trRPos' = TrAsItGoes(trRPos, n)
    BY <1>16, <2>1 DEF TrReadSome
  <2>3. PICK l \in Nat : l = Len(trPipe)
    BY <1>1
  <2>4. n \in Nat /\ n <= TrWant - r /\ n <= l
    BY <1>0, <1>3, <2>2, <2>3 DEF TrLeast
  <2>5. trR.pc = "loop" /\ UNCHANGED <<trKind, trW, trWPos, trGot>>
    BY <1>16 DEF TrReadSome, TrWriter
  <2>6. /\ trR' \in TrCalls /\ trRPos' \in Nat
        /\ TrPlace(trRPos', trR') = r + n /\ TrCallOK(trR', TrWant - (r + n))
    BY <1>0, <1>1, <1>3, <2>2, <2>4, <2>5, TrTurn
  <2>7. TrPlace(trWPos, trW)' = w /\ TrPlace(trRPos, trR)' = r + n
    BY <1>2, <2>5, <2>6 DEF TrPlace
  <2>8. PICK p \in Seq(Nat) : /\ p = trPipe' /\ Len(p) = l - n
                              /\ \A i \in 1..(l - n) : p[i] = trPipe[n + i]
    <3>1. PICK q \in Seq(Nat) : q = trPipe /\ Len(q) = l
      BY <1>1, <2>3
    <3>2. /\ SubSeq(q, n + 1, l) \in Seq(Nat) /\ Len(SubSeq(q, n + 1, l)) = l - n
          /\ \A i \in 1..(l - n) : SubSeq(q, n + 1, l)[i] = q[n + i]
      <4>1. n <= l /\ l <= Len(q)
        BY <2>4, <3>1
      <4> QED
        BY <2>3, <2>4, <3>1, <4>1, TrPart, Zenon
    <3> QED
      BY <2>2, <2>3, <3>1, <3>2
  <2>9. \A i \in 1..(l - n) : p[i] = g + (r + n) + i
    <3> TAKE i \in 1..(l - n)
    <3>1. n + i \in 1..l
      BY <2>3, <2>4
    <3>2. p[i] = g + r + (n + i)
      BY <1>5, <2>3, <2>8, <3>1
    <3> QED
      BY <1>3, <1>4, <2>4, <3>2
  <2>10. trMem' \in [1..TrWant -> Nat] /\ \A i \in 1..(r + n) : trMem'[i] = g + i
    <3>1. ASSUME NEW i \in 1..TrWant
          PROVE  /\ trMem'[i] \in Nat
                 /\ i <= r + n => trMem'[i] = g + i
      <4>1. i \in Nat
        BY <1>0
      <4>2. CASE i - r \in 1..n
        <5>1. i - r \in 1..l
          BY <2>3, <2>4, <4>2
        <5>2. trMem'[i] = g + r + (i - r)
          BY <1>5, <2>2, <2>3, <4>2, <5>1
        <5> QED
          BY <1>3, <1>4, <4>1, <5>2, SMTT(30)
      <4>3. CASE i - r \notin 1..n
        <5>1. trMem'[i] = trMem[i] /\ trMem[i] \in Nat
          BY <1>1, <2>2, <4>3
        <5>2. i <= r + n => i \in 1..r
          BY <1>3, <2>4, <4>1, <4>3
        <5> QED
          BY <1>5, <5>1, <5>2
      <4> QED
        BY <4>2, <4>3
    <3>2. trMem' = [i \in 1..TrWant |-> trMem'[i]]
      BY <2>2
    <3>3. \A i \in 1..(r + n) : i \in 1..TrWant /\ i <= r + n
      BY <1>0, <1>3, <2>4
    <3> QED
      BY <3>1, <3>2, <3>3
  <2>11. TrBytes'
    <3>1. g + (r + n) + (l - n) = w
      BY <1>50, <2>3, <2>4, SMTT(30)
    <3> QED
      BY <1>4, <1>5, <2>5, <2>7, <2>8, <2>9, <2>10, <3>1 DEF TrBytes
  <2>12. TrTypes'
    <3>1. r + n <= TrWant
      BY <1>0, <1>3, <2>4
    <3> QED
      BY <1>1, <1>5, <2>5, <2>6, <2>7, <2>8, <2>10, <3>1 DEF TrTypes
  <2>13. (TrCallOK(trR, TrWant - TrPlace(trRPos, trR)))'
    BY <2>6, <2>7 DEF TrCallOK
  <2>14. (TrCallOK(trW, TrTotal - TrPlace(trWPos, trW)))'
    BY <1>5, <2>5, <2>7 DEF TrCallOK
  <2> QED
    BY <2>11, <2>12, <2>13, <2>14 DEF TrInv
<1>17. CASE TrTake
  <2>1. /\ trR.pc = "idle" /\ trGot' = trGot \o SubSeq(trMem, 1, trRPos) /\ trRPos' = 0
        /\ UNCHANGED <<trKind, trR, trMem, trPipe, trW, trWPos>>
    BY <1>17 DEF TrTake, TrWriter
  <2>2. r = trRPos /\ TrPlace(trRPos, trR)' = 0 /\ TrPlace(trWPos, trW)' = w
    BY <1>2, <1>3, <2>1 DEF TrPlace
  <2>3. PICK s \in Seq(Nat) : /\ s = trGot' /\ Len(s) = g + r
                              /\ \A i \in 1..g : s[i] = trGot[i]
                              /\ \A i \in 1..r : s[g + i] = trMem[i]
    <3>1. PICK q \in Seq(Nat) : q = trGot /\ Len(q) = g
      BY <1>1, <1>4
    <3>2. PICK m \in Seq(Nat) : m = trMem /\ Len(m) = TrWant
      BY <1>0, <1>1
    <3>3. PICK t \in Seq(Nat) : t = SubSeq(m, 1, r) /\ Len(t) = r
                                /\ \A i \in 1..r : t[i] = m[i]
      <4>1. 0 <= r /\ r <= Len(m) /\ 0 + 1 = 1 /\ r - 0 = r /\ \A i \in 1..r : 0 + i = i
        BY <1>50, <3>2
      <4>2. /\ SubSeq(m, 0 + 1, r) \in Seq(Nat) /\ Len(SubSeq(m, 0 + 1, r)) = r - 0
            /\ \A i \in 1..(r - 0) : SubSeq(m, 0 + 1, r)[i] = m[0 + i]
        BY <4>1, TrPart
      <4> QED
        BY <4>1, <4>2, Zenon
    <3>4. /\ q \o t \in Seq(Nat) /\ Len(q \o t) = g + r
          /\ \A i \in 1..g : (q \o t)[i] = q[i]
          /\ \A i \in 1..r : (q \o t)[g + i] = t[i]
      <4>1. /\ q \o t \in Seq(Nat) /\ Len(q \o t) = Len(q) + Len(t)
            /\ \A i \in 1..Len(q) : (q \o t)[i] = q[i]
            /\ \A i \in 1..Len(t) : (q \o t)[Len(q) + i] = t[i]
        OBVIOUS
      <4>2. Len(q) = g /\ Len(t) = r
        BY <3>1, <3>3, Zenon
      <4> QED
        BY <4>1, <4>2
    <3>5. trGot' = q \o t
      BY <2>1, <2>2, <3>1, <3>2, <3>3, Zenon
    <3>6. \A i \in 1..g : (q \o t)[i] = trGot[i]
      BY <3>1, <3>4, Zenon
    <3>7. \A i \in 1..r : (q \o t)[g + i] = trMem[i]
      BY <3>2, <3>3, <3>4, Zenon
    <3> QED
      BY <3>4, <3>5, <3>6, <3>7, Zenon
  <2>4. \A i \in 1..(g + r) : s[i] = i
    <3> TAKE i \in 1..(g + r)
    <3>1. CASE i \in 1..g
      BY <1>5, <2>3, <3>1
    <3>2. CASE i \in (g + 1)..(g + r)
      <4>1. i - g \in 1..r /\ g + (i - g) = i
        BY <1>3, <1>4, <3>2
      <4>2. s[g + (i - g)] = g + (i - g)
        BY <1>5, <2>3, <4>1
      <4> QED
        BY <4>1, <4>2
    <3> QED
      BY <1>3, <1>4, <3>1, <3>2
  <2>5. TrBytes'
    BY <1>3, <1>4, <1>5, <2>1, <2>2, <2>3, <2>4 DEF TrBytes
  <2>6. TrTypes'
    BY <1>0, <1>1, <1>5, <2>1, <2>2, <2>3, SMTT(30) DEF TrTypes
  <2>7. (TrCallOK(trR, TrWant - TrPlace(trRPos, trR)))'
    BY <1>5, <2>1, <2>2 DEF TrCallOK
  <2>8. (TrCallOK(trW, TrTotal - TrPlace(trWPos, trW)))'
    BY <1>5, <2>1, <2>2 DEF TrCallOK
  <2> QED
    BY <2>5, <2>6, <2>7, <2>8 DEF TrInv
<1>18. CASE UNCHANGED trVars
  <2>1. UNCHANGED <<trKind, trW, trWPos, trR, trRPos, trMem, trPipe, trGot>>
    BY <1>18 DEF trVars
  <2> QED
    BY <1>1, <1>2, <1>5, <1>6, <2>1
<1> QED
  BY <1>8, <1>9, <1>10, <1>11, <1>12, <1>13, <1>14, <1>15, <1>16, <1>17, <1>18 DEF TrNext

\* A sequence of the numbers from 1 on.
LEMMA TrCounting ==
  ASSUME NEW s \in Seq(Nat), NEW n \in Nat, Len(s) = n, \A i \in 1..n : s[i] = i
  PROVE  s = TrUpTo(n)
<1>1. s = [i \in 1..n |-> s[i]]
  OBVIOUS
<1>2. [i \in 1..n |-> s[i]] = [i \in 1..n |-> i]
  OBVIOUS
<1> QED
  BY <1>1, <1>2 DEF TrUpTo

LEMMA TrOrdered == TrInv => TrInOrder /\ TrAllOrError
<1> SUFFICES ASSUME TrInv
             PROVE  TrInOrder /\ TrAllOrError
  OBVIOUS
<1>1. TrAllOrError
  BY Zenon DEF TrInv, TrCallOK, TrAllOrError
<1>2. ASSUME trR.pc = "idle"
      PROVE  /\ trGot \o SubSeq(trMem, 1, trRPos) = TrUpTo(Len(trGot) + trRPos)
             /\ trW.pc = "idle" =>
                  trGot \o SubSeq(trMem, 1, trRPos) \o trPipe = TrUpTo(trWPos)
  <2>0. /\ TrWant \in Nat /\ trMem \in [1..TrWant -> Nat] /\ trPipe \in Seq(Nat)
        /\ trGot \in Seq(Nat) /\ trRPos \in Nat /\ trWPos \in Nat
        /\ TrPlace(trRPos, trR) = trRPos /\ trRPos <= TrWant
    BY <1>2, TrBounds DEF TrInv, TrTypes, TrPlace
  <2>1. PICK q \in Seq(Nat), g \in Nat : q = trGot /\ Len(q) = g
    BY <2>0
  <2>2. PICK p \in Seq(Nat), l \in Nat : p = trPipe /\ Len(p) = l
    BY <2>0
  <2>3. PICK r \in Nat : r = trRPos
    BY <2>0
  <2>4. PICK t \in Seq(Nat) : t = SubSeq(trMem, 1, r) /\ Len(t) = r
                              /\ \A i \in 1..r : t[i] = trMem[i]
    <3>1. PICK m \in Seq(Nat) : m = trMem /\ Len(m) = TrWant
      BY <2>0
    <3>2. 0 <= r /\ r <= Len(m) /\ 0 + 1 = 1 /\ r - 0 = r /\ \A i \in 1..r : 0 + i = i
      BY <2>0, <2>3, <3>1
    <3>3. /\ SubSeq(m, 0 + 1, r) \in Seq(Nat) /\ Len(SubSeq(m, 0 + 1, r)) = r - 0
          /\ \A i \in 1..(r - 0) : SubSeq(m, 0 + 1, r)[i] = m[0 + i]
      BY <3>2, TrPart
    <3> QED
      BY <3>1, <3>2, <3>3, ZenonT(60)
  <2>5. /\ \A i \in 1..g : q[i] = i
        /\ \A i \in 1..r : t[i] = g + i
        /\ \A i \in 1..l : p[i] = g + r + i
        /\ trW.pc = "idle" => g + r + l = trWPos
    <3>1. trW.pc = "idle" => TrPlace(trWPos, trW) = trWPos
      BY DEF TrPlace
    <3> QED
      BY <2>0, <2>1, <2>2, <2>3, <2>4, <3>1 DEF TrInv, TrBytes
  <2>6. PICK u \in Seq(Nat) : u = q \o t /\ Len(u) = g + r /\ \A i \in 1..(g + r) : u[i] = i
    <3>1. /\ q \o t \in Seq(Nat) /\ Len(q \o t) = g + r
          /\ \A i \in 1..g : (q \o t)[i] = q[i]
          /\ \A i \in 1..r : (q \o t)[g + i] = t[i]
      BY <2>1, <2>4, SMTT(30)
    <3>2. PICK u \in Seq(Nat) : u = q \o t /\ Len(u) = g + r
                                /\ (\A i \in 1..g : u[i] = i)
                                /\ (\A i \in 1..r : u[g + i] = g + i)
      BY <2>5, <3>1, ZenonT(60)
    <3>3. ASSUME NEW i \in 1..(g + r)
          PROVE  u[i] = i
      <4>1. i \in 1..g \/ (i - g \in 1..r /\ g + (i - g) = i)
        OBVIOUS
      <4> QED
        BY <3>2, <4>1
    <3> QED
      BY <3>2, <3>3
  <2>7. PICK k \in Nat : k = g + r
    OBVIOUS
  <2>8. Len(u) = k /\ (\A i \in 1..k : u[i] = i) /\ (\A i \in 1..l : p[i] = k + i)
    BY <2>5, <2>6, <2>7, Zenon
  <2>9. PICK v \in Seq(Nat) : v = u \o p /\ Len(v) = k + l /\ \A i \in 1..(k + l) : v[i] = i
    <3>1. /\ u \o p \in Seq(Nat) /\ Len(u \o p) = k + l
          /\ \A i \in 1..k : (u \o p)[i] = u[i]
          /\ \A i \in 1..l : (u \o p)[k + i] = p[i]
      <4>1. /\ u \o p \in Seq(Nat) /\ Len(u \o p) = Len(u) + Len(p)
            /\ \A i \in 1..Len(u) : (u \o p)[i] = u[i]
            /\ \A i \in 1..Len(p) : (u \o p)[Len(u) + i] = p[i]
        OBVIOUS
      <4>2. Len(u) = k /\ Len(p) = l
        BY <2>2, <2>8, Zenon
      <4> QED
        BY <4>1, <4>2
    <3>2. PICK v : v = u \o p
      OBVIOUS
    <3>3. /\ v \in Seq(Nat) /\ v = u \o p /\ Len(v) = k + l
          /\ \A i \in 1..k : v[i] = u[i]
          /\ \A i \in 1..l : v[k + i] = p[i]
      BY <3>1, <3>2, Zenon
    <3>4. (\A i \in 1..k : v[i] = i) /\ (\A i \in 1..l : v[k + i] = k + i)
      BY <2>8, <3>3, Zenon
    <3>5. ASSUME NEW i \in 1..(k + l)
          PROVE  v[i] = i
      <4>1. i \in 1..k \/ (i - k \in 1..l /\ k + (i - k) = i)
        OBVIOUS
      <4> QED
        BY <3>4, <4>1
    <3> QED
      BY <3>3, <3>5
  <2>10. u = TrUpTo(k)
    BY <2>8, TrCounting
  <2>11. v = TrUpTo(k + l)
    <3>1. k + l \in Nat
      OBVIOUS
    <3> QED
      BY <2>9, <3>1, TrCounting
  <2>12. trGot \o SubSeq(trMem, 1, trRPos) = u /\ u \o trPipe = v
    BY <2>1, <2>2, <2>3, <2>4, <2>6, <2>9, Zenon
  <2>13. Len(trGot) + trRPos = k /\ (trW.pc = "idle" => trWPos = k + l)
    BY <2>1, <2>3, <2>5, <2>7, Zenon
  <2> QED
    BY <2>10, <2>11, <2>12, <2>13, Zenon
<1> QED
  BY <1>1, <1>2, Zenon DEF TrInOrder

-----------------------------------------------------------------------------
(* AcqBufQueue.  A buffer is in one place, in a thread's hands or at one   *)
(* position of one queue.  Between the frames a stage has passed on and    *)
(* those the next has are the frame in the next one's hands and those in   *)
(* its queue, one after the other, each as far as the stages before made it. *)

\* Place 0 of a stage is the thread's hands, place i position i of its queue.
AqIn(b, s, i) == IF i = 0 THEN aqHand[s] = b ELSE i <= Len(aqQue[s]) /\ aqQue[s][i] = b

AqHas(s) == IF aqHand[s] = 0 THEN 0 ELSE 1

\* How soon the buffer of a place is passed on.
AqTurn(s, i) == IF i = 0 THEN 1 ELSE AqHas(s) + i

AqTypes == /\ aqQue \in [AqStage -> Seq(AqAll)]
           /\ aqHand \in [AqStage -> 0..AqBufs]
           /\ aqData \in [AqAll -> [frame : Nat, work : Nat]]
           /\ aqFrames \in Nat
           /\ aqDone \in Seq([frame : Nat, work : Nat])

AqOnce == \A b \in AqAll, s, t \in AqStage, i, j \in Nat :
            AqIn(b, s, i) /\ AqIn(b, t, j) => s = t /\ i = j

AqSomewhere == \A b \in AqAll : \E s \in AqStage, i \in Nat : AqIn(b, s, i)

\* cnt[s]: the frames stage s has passed on.
AqCounts(cnt) ==
  /\ cnt[0] = aqFrames /\ cnt[AqQues - 1] = Len(aqDone)
  /\ \A s \in AqStage \ {0} :
       /\ cnt[s - 1] = cnt[s] + AqHas(s) + Len(aqQue[s])
       /\ \A b \in AqAll, i \in Nat : AqIn(b, s, i) =>
            aqData[b].frame = cnt[s] + AqTurn(s, i) /\ aqData[b].work = s

AqInv == /\ AqTypes /\ AqOnce /\ AqSomewhere /\ AqInOrder
         /\ \E cnt \in [AqStage -> Nat] : AqCounts(cnt)

LEMMA AqStages ==
  /\ 0 \in AqStage /\ AqQues - 1 \in AqStage /\ AqStage \subseteq Nat /\ AqQues - 1 # 0
  /\ \A s \in AqStage : \/ s = AqQues - 1 /\ (s + 1) % AqQues = 0
                        \/ /\ s # AqQues - 1 /\ (s + 1) % AqQues = s + 1
                           /\ s + 1 \in AqStage /\ s + 1 # 0
  /\ \A s \in AqStage \ {0} : s - 1 \in AqStage
<1>1. AqQues \in Nat /\ AqQues > 1
  BY AqBounds
<1>2. ASSUME NEW s \in AqStage, s # AqQues - 1
      PROVE  (s + 1) % AqQues = s + 1 /\ s + 1 \in AqStage /\ s + 1 # 0
  <2>1. s + 1 \in 0..(AqQues - 1)
    BY <1>1, <1>2 DEF AqStage
  <2> QED
    BY <1>1, <2>1 DEF AqStage
<1>3. AqQues % AqQues = 0
  BY <1>1
<1>4. (AqQues - 1) + 1 = AqQues
  BY <1>1
<1> QED
  BY <1>1, <1>2, <1>3, <1>4 DEF AqStage

LEMMA AqStart == AqInit => AqInv
<1> SUFFICES ASSUME AqInit
             PROVE  AqInv
  OBVIOUS
<1>0. AqBufs \in Nat
  BY AqBounds
<1>1. PICK q : q = [i \in AqAll |-> i]
  OBVIOUS
<1>2. q \in Seq(AqAll) /\ Len(q) = AqBufs /\ \A i \in AqAll : q[i] = i
  BY <1>0, <1>1 DEF AqAll
<1>3. /\ aqQue = [s \in AqStage |-> IF s = 0 THEN q ELSE << >>]
      /\ aqHand = [s \in AqStage |-> 0] /\ aqData = [b \in AqAll |-> AqBlank]
      /\ aqFrames = 0 /\ aqDone = << >>
  BY <1>1 DEF AqInit
<1>4. /\ aqQue[0] = q /\ \A s \in AqStage : s # 0 => aqQue[s] = << >>
      /\ \A s \in AqStage : aqHand[s] = 0
  BY <1>3, AqStages
<1>5. AqTypes
  BY <1>0, <1>2, <1>3 DEF AqTypes, AqBlank
<1>6. \A b \in AqAll, s \in AqStage, i \in Nat : AqIn(b, s, i) <=> s = 0 /\ i = b
  BY <1>0, <1>2, <1>4, AqStages DEF AqIn, AqAll
<1>7. AqOnce /\ AqSomewhere
  BY <1>0, <1>6, AqStages DEF AqOnce, AqSomewhere, AqAll
<1>8. AqInOrder
  BY <1>3 DEF AqInOrder
<1>9. \E cnt \in [AqStage -> Nat] : AqCounts(cnt)
  <2>1. PICK cnt : cnt = [s \in AqStage |-> 0]
    OBVIOUS
  <2>2. cnt \in [AqStage -> Nat] /\ \A s \in AqStage : cnt[s] = 0
    BY <2>1
  <2>3. \A s \in AqStage \ {0} : AqHas(s) = 0 /\ Len(aqQue[s]) = 0
    BY <1>4 DEF AqHas
  <2>4. AqCounts(cnt)
    <3>1. cnt[0] = 0 /\ cnt[AqQues - 1] = 0 /\ aqFrames = 0 /\ Len(aqDone) = 0
      BY <1>3, <2>2, AqStages
    <3>2. ASSUME NEW s \in AqStage \ {0}
          PROVE  /\ cnt[s - 1] = cnt[s] + AqHas(s) + Len(aqQue[s])
                 /\ \A b \in AqAll, i \in Nat : ~AqIn(b, s, i)
      <4>1. cnt[s - 1] = 0 /\ cnt[s] = 0 /\ 0 = 0 + 0 + 0
        BY <2>2, AqStages
      <4> QED
        BY <1>6, <2>3, <4>1
    <3> QED
      BY <3>1, <3>2, Zenon DEF AqCounts
  <2> QED
    BY <2>2, <2>4
<1> QED
  BY <1>5, <1>7, <1>8, <1>9 DEF AqInv

LEMMA AqKeptGet == ASSUME AqInv, NEW s \in AqStage, AqGet(s) PROVE AqInv'
<1>1. AqTypes /\ AqOnce /\ AqSomewhere /\ AqInOrder /\ aqHand[s] = 0 /\ aqQue[s] # << >>
  BY Zenon DEF AqInv, AqGet
<1>2. PICK q \in Seq(AqAll), k \in Nat : q = aqQue[s] /\ Len(q) = k + 1
  <2>1. PICK q \in Seq(AqAll) : q = aqQue[s] /\ q # << >>
    BY <1>1 DEF AqTypes
  <2>2. Len(q) - 1 \in Nat /\ Len(q) = (Len(q) - 1) + 1
    BY <2>1
  <2> QED
    BY <2>1, <2>2
<1>3. PICK t : t = Tail(q)
  OBVIOUS
<1>4. /\ t \in Seq(AqAll) /\ Len(t) = k /\ \A i \in 1..k : t[i] = q[i + 1]
      /\ Head(q) = q[1] /\ q[1] \in AqAll
  <2>1. /\ Tail(q) \in Seq(AqAll) /\ Len(Tail(q)) = Len(q) - 1
        /\ \A i \in 1..(Len(q) - 1) : Tail(q)[i] = q[i + 1]
        /\ Head(q) = q[1] /\ q[1] \in AqAll
    BY <1>2
  <2>2. Len(q) - 1 = k
    BY <1>2
  <2> QED
    BY <1>3, <2>1, <2>2, Zenon
<1>5. /\ aqHand' = [aqHand EXCEPT ![s] = q[1]] /\ aqQue' = [aqQue EXCEPT ![s] = t]
      /\ UNCHANGED <<aqData, aqFrames, aqDone>>
  BY <1>2, <1>3, <1>4 DEF AqGet
<1>6. /\ aqHand'[s] = q[1] /\ aqQue'[s] = t
      /\ \A u \in AqStage : u # s => aqHand'[u] = aqHand[u] /\ aqQue'[u] = aqQue[u]
  BY <1>1, <1>5 DEF AqTypes
<1>7. AqAll \subseteq 0..AqBufs /\ 0 \notin AqAll
  BY AqBounds DEF AqAll
<1>8. AqTypes'
  BY <1>1, <1>4, <1>5, <1>7 DEF AqTypes
\* What was at the head of the queue is in hand, and the rest comes nearer.
<1>9. \A b \in AqAll, u \in AqStage, j \in Nat :
        AqIn(b, u, j)' <=> \/ u # s /\ AqIn(b, u, j)
                           \/ u = s /\ AqIn(b, s, j + 1)
  <2> TAKE b \in AqAll, u \in AqStage, j \in Nat
  <2>1. CASE u # s
    BY <1>6, <2>1, Zenon DEF AqIn
  <2>2. CASE u = s /\ j = 0
    <3>1. AqIn(b, s, 0 + 1) <=> q[1] = b
      BY <1>2 DEF AqIn
    <3> QED
      BY <1>6, <2>2, <3>1 DEF AqIn
  <2>3. CASE u = s /\ j # 0
    <3>1. AqIn(b, s, j + 1) <=> j + 1 <= k + 1 /\ q[j + 1] = b
      BY <1>2, <2>3 DEF AqIn
    <3>2. AqIn(b, u, j)' <=> j <= k /\ t[j] = b
      BY <1>4, <1>6, <2>3 DEF AqIn
    <3>3. j <= k => t[j] = q[j + 1]
      BY <1>4, <2>3
    <3>4. j + 1 <= k + 1 <=> j <= k
      OBVIOUS
    <3> QED
      BY <2>3, <3>1, <3>2, <3>3, <3>4, Zenon
  <2> QED
    BY <2>1, <2>2, <2>3
<1>10. AqOnce'
  <2> SUFFICES ASSUME NEW b \in AqAll, NEW u \in AqStage, NEW v \in AqStage, NEW i \in Nat,
                      NEW j \in Nat, AqIn(b, u, i)', AqIn(b, v, j)'
               PROVE  u = v /\ i = j
    BY DEF AqOnce
  <2>1. AqIn(b, u, IF u = s THEN i + 1 ELSE i) /\ AqIn(b, v, IF v = s THEN j + 1 ELSE j)
    BY <1>9
  <2>2. PICK x \in Nat, y \in Nat : /\ x = IF u = s THEN i + 1 ELSE i
                                    /\ y = IF v = s THEN j + 1 ELSE j
    OBVIOUS
  <2>3. u = v /\ x = y
    BY <1>1, <2>1, <2>2 DEF AqOnce
  <2> QED
    BY <2>2, <2>3
<1>11. AqSomewhere'
  <2> SUFFICES ASSUME NEW b \in AqAll
               PROVE  \E u \in AqStage, i \in Nat : AqIn(b, u, i)'
    BY DEF AqSomewhere
  <2>1. PICK u \in AqStage, i \in Nat : AqIn(b, u, i)
    BY <1>1 DEF AqSomewhere
  <2>2. CASE u # s
    BY <1>9, <2>1, <2>2
  <2>3. CASE u = s
    <3>1. i # 0
      BY <1>1, <1>7, <2>1, <2>3 DEF AqIn
    <3>2. i - 1 \in Nat /\ (i - 1) + 1 = i
      BY <3>1
    <3> QED
      BY <1>9, <2>1, <2>3, <3>2
  <2> QED
    BY <2>2, <2>3
<1>12. ASSUME NEW cnt \in [AqStage -> Nat], AqCounts(cnt)
       PROVE  AqCounts(cnt)'
  <2>1. /\ cnt[0] = aqFrames' /\ cnt[AqQues - 1] = Len(aqDone')
    BY <1>5, <1>12 DEF AqCounts
  <2>2. AqHas(s) = 0 /\ AqHas(s)' = 1
    BY <1>1, <1>4, <1>6, <1>7 DEF AqHas
  <2>3. ASSUME NEW u \in AqStage \ {0}
        PROVE  /\ cnt[u - 1] = cnt[u] + AqHas(u)' + Len(aqQue'[u])
               /\ \A b \in AqAll, i \in Nat : AqIn(b, u, i)' =>
                    aqData'[b].frame = cnt[u] + AqTurn(u, i)' /\ aqData'[b].work = u
    <3>1. /\ cnt[u - 1] = cnt[u] + AqHas(u) + Len(aqQue[u]) /\ cnt[u] \in Nat
          /\ \A b \in AqAll, i \in Nat : AqIn(b, u, i) =>
               aqData[b].frame = cnt[u] + AqTurn(u, i) /\ aqData[b].work = u
      BY <1>12 DEF AqCounts
    <3>2. CASE u # s
      <4>1. AqHas(u)' = AqHas(u) /\ aqQue'[u] = aqQue[u]
        BY <1>6, <3>2 DEF AqHas
      <4>2. \A i \in Nat : AqTurn(u, i)' = AqTurn(u, i)
        BY <4>1 DEF AqTurn
      <4>3. \A b \in AqAll, i \in Nat : AqIn(b, u, i)' => AqIn(b, u, i)
        BY <1>9, <3>2
      <4>4. aqData' = aqData
        BY <1>5
      <4> QED
        BY <3>1, <4>1, <4>2, <4>3, <4>4, Zenon
    <3>3. CASE u = s
      <4>1. cnt[u - 1] = cnt[u] + AqHas(u)' + Len(aqQue'[u])
        <5>1. Len(aqQue[u]) = k + 1 /\ AqHas(u) = 0 /\ Len(aqQue'[u]) = k /\ AqHas(u)' = 1
          BY <1>2, <1>4, <1>6, <2>2, <3>3
        <5> QED
          BY <3>1, <5>1
      <4>2. \A i \in Nat : AqTurn(s, i)' = i + 1 /\ AqTurn(s, i + 1) = i + 1
        BY <2>2 DEF AqTurn
      <4>3. \A b \in AqAll, i \in Nat : AqIn(b, u, i)' => AqIn(b, s, i + 1) /\ i + 1 \in Nat
        BY <1>9, <3>3
      <4>4. aqData' = aqData
        BY <1>5
      <4> QED
        <5>1. ASSUME NEW b \in AqAll, NEW i \in Nat, AqIn(b, u, i)'
              PROVE  aqData'[b].frame = cnt[u] + AqTurn(u, i)' /\ aqData'[b].work = u
          <6>1. /\ aqData[b].frame = cnt[s] + AqTurn(s, i + 1) /\ aqData[b].work = s
            BY <3>1, <3>3, <4>3, <5>1, Zenon
          <6>2. AqTurn(s, i + 1) = AqTurn(s, i)'
            BY <4>2, Zenon
          <6> QED
            BY <3>3, <4>4, <6>1, <6>2, Zenon
        <5> QED
          BY <4>1, <5>1, Zenon
    <3> QED
      BY <3>2, <3>3
  <2> QED
    BY <2>1, <2>3, Zenon DEF AqCounts
<1>13. AqInOrder'
  BY <1>1, <1>5 DEF AqInOrder
<1> QED
  BY <1>8, <1>10, <1>11, <1>12, <1>13, Zenon DEF AqInv

LEMMA AqKeptPass == ASSUME AqInv, NEW s \in AqStage, AqPass(s) PROVE AqInv'
<1>1. AqTypes /\ AqOnce /\ AqSomewhere /\ AqInOrder
  BY Zenon DEF AqInv
<1>2. PICK nx \in AqStage : nx = (s + 1) % AqQues
  BY AqStages
<1>3. PICK a \in AqAll : a = aqHand[s]
  BY <1>1, AqBounds DEF AqPass, AqTypes, AqAll
<1>4. PICK q \in Seq(AqAll), k \in Nat : q = aqQue[nx] /\ Len(q) = k
  BY <1>1 DEF AqTypes
<1>5. PICK d \in [frame : Nat, work : Nat] : d = aqData[a]
  BY <1>1 DEF AqTypes
<1>6. PICK w \in [frame : Nat, work : Nat] :
        /\ w = IF s = 0 THEN [frame |-> aqFrames + 1, work |-> 1]
               ELSE [aqData[a] EXCEPT !.work = @ + 1]
        /\ s = 0 => w.frame = aqFrames + 1 /\ w.work = 1
        /\ s # 0 => w.frame = d.frame /\ w.work = d.work + 1
  <2>1. CASE s = 0
    <3>1. PICK w : w = [frame |-> aqFrames + 1, work |-> 1]
      OBVIOUS
    <3>2. w \in [frame : Nat, work : Nat] /\ w.frame = aqFrames + 1 /\ w.work = 1
      BY <1>1, <3>1 DEF AqTypes
    <3> QED
      BY <2>1, <3>1, <3>2, Zenon
  <2>2. CASE s # 0
    <3>1. PICK w : w = [d EXCEPT !.work = @ + 1]
      OBVIOUS
    <3>2. w \in [frame : Nat, work : Nat] /\ w.frame = d.frame /\ w.work = d.work + 1
      BY <3>1
    <3> QED
      BY <1>5, <2>2, <3>1, <3>2, Zenon
  <2> QED
    BY <2>1, <2>2
<1>7. PICK p \in Seq(AqAll) : p = Append(q, a) /\ Len(p) = k + 1
                              /\ (\A i \in 1..k : p[i] = q[i]) /\ p[k + 1] = a
  <2>1. /\ Append(q, a) \in Seq(AqAll) /\ Len(Append(q, a)) = Len(q) + 1
        /\ \A i \in 1..Len(q) : Append(q, a)[i] = q[i]
        /\ Append(q, a)[Len(q) + 1] = a
    OBVIOUS
  <2> QED
    BY <1>4, <2>1
<1>8. /\ aqQue' = [aqQue EXCEPT ![nx] = p] /\ aqHand' = [aqHand EXCEPT ![s] = 0]
      /\ aqData' = [aqData EXCEPT ![a] = w]
      /\ aqFrames' = IF s = 0 THEN aqFrames + 1 ELSE aqFrames
      /\ aqDone' = IF s = AqQues - 1 THEN Append(aqDone, w) ELSE aqDone
  <2>1. aqQue' = [aqQue EXCEPT ![nx] = Append(aqQue[nx], a)]
    BY <1>2, <1>3 DEF AqPass
  <2>2. aqData' = [aqData EXCEPT ![a] = w]
    BY <1>3, <1>6, Zenon DEF AqPass
  <2>3. /\ aqHand' = [aqHand EXCEPT ![s] = 0]
        /\ aqFrames' = IF s = 0 THEN aqFrames + 1 ELSE aqFrames
        /\ aqDone' = IF s = AqQues - 1 THEN Append(aqDone, w) ELSE aqDone
    BY <1>3, <1>6, Zenon DEF AqPass
  <2> QED
    BY <1>4, <1>7, <2>1, <2>2, <2>3, Zenon
<1>9. /\ aqHand'[s] = 0 /\ aqQue'[nx] = p /\ aqData'[a] = w
      /\ \A u \in AqStage : u # s => aqHand'[u] = aqHand[u]
      /\ \A u \in AqStage : u # nx => aqQue'[u] = aqQue[u]
      /\ \A b \in AqAll : b # a => aqData'[b] = aqData[b]
  BY <1>1, <1>8 DEF AqTypes
<1>10. /\ 0 \notin AqAll /\ AqBufs \in Nat /\ nx # s
       /\ s = AqQues - 1 => nx = 0
       /\ s # AqQues - 1 => nx = s + 1 /\ nx # 0
  <2>1. 0 \notin AqAll /\ AqBufs \in Nat /\ s \in Nat /\ s # s + 1
    BY AqBounds, AqStages DEF AqAll
  <2>2. CASE s = AqQues - 1
    BY <1>2, <2>1, <2>2, AqStages, Zenon
  <2>3. CASE s # AqQues - 1
    BY <1>2, <2>1, <2>3, AqStages, Zenon
  <2> QED
    BY <2>1, <2>2, <2>3, Zenon
<1>11. AqTypes'
  <2>1. aqDone' \in Seq([frame : Nat, work : Nat])
    <3>1. Append(aqDone, w) \in Seq([frame : Nat, work : Nat])
      BY <1>1 DEF AqTypes
    <3> QED
      BY <1>1, <1>8, <3>1 DEF AqTypes
  <2> QED
    BY <1>1, <1>8, <1>10, <2>1 DEF AqTypes
\* What was in hand is at the end of the next queue.
<1>12. \A b \in AqAll, u \in AqStage, j \in Nat :
         AqIn(b, u, j)' <=> \/ u = nx /\ j = k + 1 /\ AqIn(b, s, 0)
                            \/ ~(u = s /\ j = 0) /\ ~(u = nx /\ j = k + 1) /\ AqIn(b, u, j)
  <2> TAKE b \in AqAll, u \in AqStage, j \in Nat
  <2>1. CASE j = 0
    <3>1. k + 1 # 0
      OBVIOUS
    <3>2. AqIn(b, u, j)' <=> aqHand'[u] = b
      BY <2>1, Zenon DEF AqIn
    <3>3. AqIn(b, u, j) <=> aqHand[u] = b
      BY <2>1, Zenon DEF AqIn
    <3> QED
      BY <1>9, <1>10, <2>1, <3>1, <3>2, <3>3, Zenon
  <2>2. CASE j # 0 /\ u # nx
    BY <1>9, <2>2, Zenon DEF AqIn
  <2>3. CASE j # 0 /\ u = nx
    <3>1. AqIn(b, u, j)' <=> j <= k + 1 /\ p[j] = b
      BY <1>7, <1>9, <2>3 DEF AqIn
    <3>2. AqIn(b, u, j) <=> j <= k /\ q[j] = b
      BY <1>4, <2>3 DEF AqIn
    <3>3. AqIn(b, s, 0) <=> a = b
      BY <1>3 DEF AqIn
    <3>4. CASE j <= k
      <4>1. p[j] = q[j] /\ j # k + 1 /\ j <= k + 1
        BY <1>7, <2>3, <3>4
      <4> QED
        BY <2>3, <3>1, <3>2, <3>4, <4>1, Zenon
    <3>5. CASE j = k + 1
      BY <1>7, <2>3, <3>1, <3>3, <3>5
    <3>6. CASE j > k + 1
      BY <2>3, <3>1, <3>2, <3>6
    <3> QED
      BY <3>4, <3>5, <3>6
  <2> QED
    BY <2>1, <2>2, <2>3
<1>13. \A b \in AqAll : ~AqIn(b, nx, k + 1) /\ (AqIn(b, s, 0) <=> b = a)
  BY <1>3, <1>4 DEF AqIn
<1>14. AqOnce'
  <2> SUFFICES ASSUME NEW b \in AqAll, NEW u \in AqStage, NEW v \in AqStage, NEW i \in Nat,
                      NEW j \in Nat, AqIn(b, u, i)', AqIn(b, v, j)'
               PROVE  u = v /\ i = j
    BY DEF AqOnce
  <2>1. \A x, y \in AqStage, m, n \in Nat : AqIn(b, x, m) /\ AqIn(b, y, n) => x = y /\ m = n
    BY <1>1, Zenon DEF AqOnce
  <2>2. /\ \/ u = nx /\ i = k + 1 /\ AqIn(b, s, 0)
           \/ ~(u = s /\ i = 0) /\ AqIn(b, u, i)
        /\ \/ v = nx /\ j = k + 1 /\ AqIn(b, s, 0)
           \/ ~(v = s /\ j = 0) /\ AqIn(b, v, j)
    BY <1>12, Zenon
  <2> QED
    BY <2>1, <2>2
<1>15. AqSomewhere'
  <2> SUFFICES ASSUME NEW b \in AqAll
               PROVE  \E u \in AqStage, i \in Nat : AqIn(b, u, i)'
    BY DEF AqSomewhere
  <2>1. PICK u \in AqStage, i \in Nat : AqIn(b, u, i)
    BY <1>1 DEF AqSomewhere
  <2>2. CASE u = s /\ i = 0
    <3>1. k + 1 \in Nat
      OBVIOUS
    <3>2. AqIn(b, nx, k + 1)'
      BY <1>12, <2>1, <2>2, <3>1, Zenon
    <3> QED
      BY <3>1, <3>2, Zenon
  <2>3. CASE ~(u = s /\ i = 0)
    <3>1. AqIn(b, u, i)'
      BY <1>12, <1>13, <2>1, <2>3, Zenon
    <3> QED
      BY <3>1, Zenon
  <2> QED
    BY <2>2, <2>3
<1>16. AqInOrder'
  <2>1. PICK cnt \in [AqStage -> Nat] : AqCounts(cnt)
    BY DEF AqInv
  <2>2. CASE s # AqQues - 1
    BY <1>1, <1>8, <2>2 DEF AqInOrder
  <2>3. CASE s = AqQues - 1
    <3>1. s # 0
      BY <2>3, AqStages
    <3>2. PICK n \in Nat : n = Len(aqDone)
      BY <1>1 DEF AqTypes
    <3>3. w = [frame |-> n + 1, work |-> AqQues]
      <4>1. d.frame = cnt[s] + AqTurn(s, 0) /\ d.work = s /\ cnt[s] = n
        BY <1>5, <1>13, <2>1, <2>3, <3>1, <3>2, ZenonT(60) DEF AqCounts
      <4>2. AqTurn(s, 0) = 1 /\ s + 1 = AqQues
        BY <2>3, AqBounds DEF AqTurn
      <4>3. w.frame = n + 1 /\ w.work = AqQues
        BY <1>6, <3>1, <4>1, <4>2
      <4> HIDE <1>6
      <4>4. w = [frame |-> w.frame, work |-> w.work]
        OBVIOUS
      <4> QED
        BY <4>3, <4>4, Zenon
    <3>4. PICK h \in Seq([frame : Nat, work : Nat]) : h = aqDone /\ Len(h) = n
      BY <1>1, <3>2 DEF AqTypes
    <3>5. PICK x : x = Append(h, w)
      OBVIOUS
    <3>6. Len(x) = n + 1 /\ (\A i \in 1..n : x[i] = h[i]) /\ x[n + 1] = w
      <4>1. /\ Len(Append(h, w)) = Len(h) + 1 /\ Append(h, w)[Len(h) + 1] = w
            /\ \A i \in 1..Len(h) : Append(h, w)[i] = h[i]
        OBVIOUS
      <4> QED
        BY <3>4, <3>5, <4>1, Zenon
    <3>7. aqDone' = x
      BY <1>8, <2>3, <3>4, <3>5, Zenon
    <3>8. \A i \in 1..n : h[i] = [frame |-> i, work |-> AqQues]
      BY <1>1, <3>4, Zenon DEF AqInOrder
    <3>9. \A i \in 1..(n + 1) : i \in 1..n \/ i = n + 1
      OBVIOUS
    <3>10. \A i \in 1..(n + 1) : x[i] = [frame |-> i, work |-> AqQues]
      BY <3>3, <3>6, <3>8, <3>9, Zenon
    <3> QED
      BY <3>6, <3>7, <3>10, Zenon DEF AqInOrder
  <2> QED
    BY <2>2, <2>3
<1>17. ASSUME NEW cnt \in [AqStage -> Nat], AqCounts(cnt)
       PROVE  \E c \in [AqStage -> Nat] : AqCounts(c)'
  <2>1. PICK c : c = [cnt EXCEPT ![s] = @ + 1]
    OBVIOUS
  <2>2. c \in [AqStage -> Nat] /\ c[s] = cnt[s] + 1
        /\ \A u \in AqStage : u # s => c[u] = cnt[u]
    BY <2>1
  <2>3. c[0] = aqFrames' /\ c[AqQues - 1] = Len(aqDone')
    <3>1. cnt[0] = aqFrames /\ cnt[AqQues - 1] = Len(aqDone)
      BY <1>17 DEF AqCounts
    <3>2. Len(Append(aqDone, w)) = Len(aqDone) + 1
      BY <1>1 DEF AqTypes
    <3> QED
      BY <1>8, <2>2, <3>1, <3>2, AqStages
  <2>4. \A u \in AqStage : u # s => AqHas(u)' = AqHas(u)
    BY <1>9 DEF AqHas
  <2>5. AqHas(s) = 1 /\ AqHas(s)' = 0
    BY <1>3, <1>9, <1>10 DEF AqHas
  <2>6. \A u \in AqStage \ {0} :
          /\ cnt[u - 1] = cnt[u] + AqHas(u) + Len(aqQue[u])
          /\ \A b \in AqAll, i \in Nat : AqIn(b, u, i) =>
               aqData[b].frame = cnt[u] + AqTurn(u, i) /\ aqData[b].work = u
    BY <1>17, Zenon DEF AqCounts
  <2>7. ASSUME NEW u \in AqStage \ {0}
        PROVE  c[u - 1] = c[u] + AqHas(u)' + Len(aqQue'[u])
    <3>0. cnt[u - 1] = cnt[u] + AqHas(u) + Len(aqQue[u]) /\ u - 1 \in AqStage
          /\ u \in Nat /\ cnt[u] \in Nat /\ AqHas(u) \in Nat /\ Len(aqQue[u]) \in Nat
          /\ cnt[u - 1] \in Nat
      BY <1>1, <2>6, AqStages DEF AqTypes, AqHas
    <3>1. CASE u = s
      <4>1. u - 1 # s /\ u # nx /\ c[u - 1] = cnt[u - 1] /\ aqQue'[u] = aqQue[u]
        BY <1>9, <1>10, <2>2, <3>0, <3>1
      <4> QED
        BY <2>2, <2>5, <3>0, <3>1, <4>1
    <3>2. CASE u = nx
      <4>1. u - 1 = s /\ u # s
        BY <1>10, <3>0, <3>2, AqStages
      <4>2. Len(aqQue'[u]) = k + 1 /\ Len(aqQue[u]) = k /\ AqHas(u)' = AqHas(u) /\ c[u] = cnt[u]
        BY <1>4, <1>7, <1>9, <2>2, <2>4, <3>2, <4>1
      <4>3. c[u - 1] = cnt[s] + 1 /\ cnt[s] = cnt[u] + AqHas(u) + k
        BY <2>2, <3>0, <4>1, <4>2, Zenon
      <4>4. (cnt[u] + AqHas(u) + k) + 1 = cnt[u] + AqHas(u) + (k + 1)
        BY <3>0, SMTT(30)
      <4> QED
        BY <4>2, <4>3, <4>4, Zenon
    <3>3. CASE u # s /\ u # nx
      <4>1. u - 1 # s
        <5>1. s \in Nat /\ (s # AqQues - 1 => nx = s + 1)
          BY <1>10, AqStages
        <5>2. u - 1 = s => u = s + 1
          BY <3>0
        <5>3. u # (AqQues - 1) + 1
          BY AqBounds DEF AqStage
        <5> QED
          BY <3>3, <5>1, <5>2, <5>3
      <4>2. c[u - 1] = cnt[u - 1] /\ c[u] = cnt[u] /\ AqHas(u)' = AqHas(u)
            /\ aqQue'[u] = aqQue[u]
        BY <1>9, <2>2, <2>4, <3>0, <3>3, <4>1
      <4> QED
        BY <3>0, <4>2
    <3> QED
      BY <3>1, <3>2, <3>3
  <2>8. ASSUME NEW u \in AqStage \ {0}, NEW b \in AqAll, NEW i \in Nat, AqIn(b, u, i)'
        PROVE  aqData'[b].frame = c[u] + AqTurn(u, i)' /\ aqData'[b].work = u
    <3>1. CASE u = nx /\ i = k + 1 /\ AqIn(b, s, 0)
      <4>1. b = a /\ nx = s + 1 /\ u # s /\ s \in Nat
        BY <1>10, <1>13, <3>1, AqStages
      <4>2. aqData'[b] = w /\ c[u] = cnt[u] /\ AqHas(u)' = AqHas(u)
        BY <1>9, <2>2, <2>4, <4>1
      <4>3. /\ cnt[s] = cnt[u] + AqHas(u) + k /\ cnt[u] \in Nat /\ AqHas(u) \in Nat
            /\ cnt[s] \in Nat
        <5>1. u - 1 = s /\ Len(aqQue[u]) = k
          BY <1>4, <3>1, <4>1
        <5>2. cnt[u - 1] = cnt[u] + AqHas(u) + Len(aqQue[u])
          BY <2>6
        <5> QED
          BY <5>1, <5>2 DEF AqHas
      <4>4. AqTurn(u, i)' = AqHas(u) + (k + 1)
        BY <3>1, <4>2 DEF AqTurn
      <4>5. w.frame = cnt[s] + 1 /\ w.work = s + 1
        <5>1. CASE s = 0
          <6>1. cnt[0] = aqFrames
            BY <1>17 DEF AqCounts
          <6> QED
            BY <1>6, <5>1, <6>1
        <5>2. CASE s # 0
          <6>1. d.frame = cnt[s] + AqTurn(s, 0) /\ d.work = s
            BY <1>5, <1>13, <2>6, <5>2, ZenonT(60)
          <6>2. AqTurn(s, 0) = 1
            BY DEF AqTurn
          <6> QED
            BY <1>6, <5>2, <6>1, <6>2
        <5> QED
          BY <5>1, <5>2
      <4> QED
        BY <3>1, <4>1, <4>2, <4>3, <4>4, <4>5, SMTT(30)
    <3>2. CASE ~(u = s /\ i = 0) /\ AqIn(b, u, i)
      <4>1. b # a
        <5>1. AqIn(a, s, 0)
          BY <1>13
        <5> QED
          BY <1>1, <3>2, <5>1 DEF AqOnce
      <4>2. aqData'[b] = aqData[b]
        BY <1>9, <4>1
      <4>3. aqData[b].frame = cnt[u] + AqTurn(u, i) /\ aqData[b].work = u
        BY <2>6, <3>2
      <4>4. c[u] + AqTurn(u, i)' = cnt[u] + AqTurn(u, i)
        <5>1. CASE u # s
          BY <2>2, <2>4, <5>1 DEF AqTurn
        <5>2. CASE u = s
          <6>1. AqTurn(u, i)' = i /\ AqTurn(u, i) = 1 + i
            BY <2>5, <3>2, <5>2 DEF AqTurn
          <6> QED
            BY <2>2, <5>2, <6>1
        <5> QED
          BY <5>1, <5>2
      <4> QED
        BY <4>2, <4>3, <4>4
    <3> QED
      BY <1>12, <2>8, <3>1, <3>2
  <2>9. AqCounts(c)'
    BY <2>3, <2>7, <2>8 DEF AqCounts
  <2> QED
    BY <2>2, <2>9
<1> QED
  BY <1>11, <1>14, <1>15, <1>16, <1>17, Zenon DEF AqInv

LEMMA AqKept == AqInv /\ [AqNext]_aqVars => AqInv'
<1>1. ASSUME AqInv, UNCHANGED aqVars
      PROVE  AqInv'
  <2>1. UNCHANGED <<aqQue, aqHand, aqData, aqFrames, aqDone>>
    BY <1>1 DEF aqVars
  <2>2. AqTypes' /\ AqInOrder'
    BY <1>1, <2>1 DEF AqInv, AqTypes, AqInOrder
  <2>3. \A b \in AqAll, s \in AqStage, i \in Nat :
          (AqIn(b, s, i)' <=> AqIn(b, s, i)) /\ AqTurn(s, i)' = AqTurn(s, i)
    BY <2>1, Zenon DEF AqIn, AqTurn, AqHas
  <2>4. AqOnce' /\ AqSomewhere'
    <3>1. AqOnce'
      BY <1>1, <2>3, ZenonT(60) DEF AqInv, AqOnce
    <3>2. AqSomewhere'
      BY <1>1, <2>3, Zenon DEF AqInv, AqSomewhere
    <3> QED
      BY <3>1, <3>2
  <2>5. ASSUME NEW cnt \in [AqStage -> Nat], AqCounts(cnt)
        PROVE  AqCounts(cnt)'
    <3>1. \A s \in AqStage : AqHas(s)' = AqHas(s)
      BY <2>1, Zenon DEF AqHas
    <3> QED
      <4>1. cnt[0] = aqFrames' /\ cnt[AqQues - 1] = Len(aqDone')
        BY <2>1, <2>5, Zenon DEF AqCounts
      <4>2. ASSUME NEW s \in AqStage \ {0}
            PROVE  cnt[s - 1] = cnt[s] + AqHas(s)' + Len(aqQue'[s])
        BY <2>1, <2>5, <3>1, Zenon DEF AqCounts
      <4>3. ASSUME NEW s \in AqStage \ {0}, NEW b \in AqAll, NEW i \in Nat, AqIn(b, s, i)'
            PROVE  aqData'[b].frame = cnt[s] + AqTurn(s, i)' /\ aqData'[b].work = s
        <5>1. AqIn(b, s, i) /\ AqTurn(s, i)' = AqTurn(s, i)
          BY <2>3, <4>3, Zenon
        <5>2. aqData[b].frame = cnt[s] + AqTurn(s, i) /\ aqData[b].work = s
          BY <2>5, <5>1, Zenon DEF AqCounts
        <5> QED
          BY <2>1, <5>1, <5>2, Zenon
      <4> QED
        BY <4>1, <4>2, <4>3, Zenon DEF AqCounts
  <2> QED
    BY <1>1, <2>2, <2>4, <2>5, Zenon DEF AqInv
<1> QED
  BY <1>1, AqKeptGet, AqKeptPass, Zenon DEF AqNext

LEMMA AqHolders == AqInv => AqOneHolder
<1> SUFFICES ASSUME AqInv
             PROVE  AqOneHolder
  OBVIOUS
<1>1. AqTypes /\ AqOnce /\ AqSomewhere /\ AqBufs \in Nat
  BY AqBounds, Zenon DEF AqInv
<1>2. ASSUME NEW b \in AqAll
      PROVE  LET places == {s \in AqStage : aqHand[s] = b}
                 queues == {s \in AqStage : b \in ToSet(aqQue[s])}
             IN \E p \in AqStage : \/ places = {p} /\ queues = {}
                                   \/ queues = {p} /\ places = {}
  <2>1. PICK p \in AqStage, k \in Nat : AqIn(b, p, k)
    BY <1>1 DEF AqSomewhere
  <2>2. \A s \in AqStage, i \in Nat : AqIn(b, s, i) => s = p /\ i = k
    BY <1>1, <2>1, Zenon DEF AqOnce
  <2>3. \A s \in AqStage : aqHand[s] = b <=> AqIn(b, s, 0)
    BY DEF AqIn
  <2>4. ASSUME NEW s \in AqStage
        PROVE  b \in ToSet(aqQue[s]) <=> \E i \in Nat : i # 0 /\ AqIn(b, s, i)
    <3>1. PICK q \in Seq(AqAll), n \in Nat : q = aqQue[s] /\ n = Len(q)
      BY <1>1 DEF AqTypes
    <3>2. b \in ToSet(q) <=> \E i \in 1..n : q[i] = b
      BY <3>1 DEF ToSet
    <3>3. \A i \in Nat : i # 0 => (AqIn(b, s, i) <=> i <= n /\ q[i] = b)
      BY <3>1 DEF AqIn
    <3>4. \A i \in Nat : i # 0 /\ i <= n <=> i \in 1..n
      OBVIOUS
    <3>5. \A i \in 1..n : i \in Nat
      OBVIOUS
    <3> QED
      BY <3>1, <3>2, <3>3, <3>4, <3>5, Zenon
  <2>5. CASE k = 0
    <3>1. {s \in AqStage : aqHand[s] = b} = {p}
      BY <2>1, <2>2, <2>3, <2>5
    <3>2. {s \in AqStage : b \in ToSet(aqQue[s])} = {}
      BY <2>2, <2>4, <2>5, Zenon
    <3> QED
      BY <3>1, <3>2
  <2>6. CASE k # 0
    <3>1. {s \in AqStage : aqHand[s] = b} = {}
      BY <2>2, <2>3, <2>6
    <3>2. {s \in AqStage : b \in ToSet(aqQue[s])} = {p}
      BY <2>1, <2>2, <2>4, <2>6, Zenon
    <3> QED
      BY <3>1, <3>2
  <2> QED
    BY <2>5, <2>6
\* As many buffers as the queue takes are all the buffers there are.
<1>3. ASSUME NEW s \in AqStage, Len(aqQue[s]) = AqBufs, NEW t \in AqStage, aqHand[t] # 0
      PROVE  FALSE
  <2>1. PICK b \in AqAll : b = aqHand[t]
    BY <1>1, <1>3 DEF AqTypes, AqAll
  <2>2. PICK q \in Seq(AqAll) : q = aqQue[s] /\ Len(q) = AqBufs
    BY <1>1, <1>3 DEF AqTypes
  <2>3. \A i \in AqAll : i \in Nat /\ i # 0 /\ q[i] \in AqAll /\ AqIn(q[i], s, i)
    BY <1>1, <2>2 DEF AqIn, AqAll
  <2>4. q \in Injection(AqAll, AqAll)
    <3>1. q \in [AqAll -> AqAll]
      BY <2>2 DEF AqAll
    <3>2. ASSUME NEW i \in AqAll, NEW j \in AqAll, q[i] = q[j]
          PROVE  i = j
      BY <1>1, <2>3, <3>2 DEF AqOnce
    <3> QED
      BY <3>1, <3>2 DEF Injection, IsInjective
  <2>5. IsFiniteSet(AqAll)
    BY <1>1, FS_Interval DEF AqAll
  <2>6. q \in Surjection(AqAll, AqAll)
    BY <2>4, <2>5, FS_Injection
  <2>7. PICK i \in AqAll : q[i] = b
    BY <2>6 DEF Surjection
  <2>8. AqIn(b, t, 0)
    BY <2>1 DEF AqIn
  <2> QED
    BY <1>1, <2>3, <2>7, <2>8 DEF AqOnce
<1> QED
  BY <1>2, <1>3, Zenon DEF AqOneHolder

-----------------------------------------------------------------------------
(* Pools.  An object is at one position of the queue, with one client, in  *)
(* the owner's hand or dropped, and never in two of these places.          *)

PlTypes == /\ plQue \in Seq(0..PlMaxCap) /\ plCap \in 0..PlMaxCap
           /\ plSize \in [PlObjects -> Nat] /\ plWant \in Nat
           /\ plLeft \in Nat /\ plHand \in 0..PlMaxCap
           /\ plPc \in [PlClients -> {"idle", "get", "use", "put"}]
           /\ plHeld \in [PlClients -> 0..PlMaxCap]
           /\ plLost \subseteq PlObjects
           /\ plResized \in Nat

PlApart ==
  /\ \A i, j \in 1..Len(plQue) : i # j /\ plQue[i] # 0 => plQue[i] # plQue[j]
  /\ \A c, d \in PlClients : c # d /\ plHeld[c] # 0 => plHeld[c] # plHeld[d]
  /\ \A i \in 1..Len(plQue) :
       /\ plQue[i] \notin plLost
       /\ plQue[i] # 0 => plQue[i] # plHand /\ \A c \in PlClients : plQue[i] # plHeld[c]
  /\ \A c \in PlClients :
       plHeld[c] \notin plLost /\ (plHeld[c] # 0 => plHeld[c] # plHand)
  /\ plHand \notin plLost

\* A client has an object while it uses it and until it is given back; nobody
\* calls before the constructor is through.
PlCallers == /\ \A c \in PlClients : plHeld[c] # 0 <=> plPc[c] \in {"use", "put"}
             /\ ~PlBuilt => \A c \in PlClients : plPc[c] = "idle"

\* The owner has a buffer in hand only in the loop, which meets no null pointer.
PlLoop == /\ plHand # 0 => plLeft > 0
          /\ plLeft > 0 => \A i \in 1..Len(plQue) : plQue[i] # 0

\* In the constructor the buffers without their size are those the turns left
\* will meet: the queue's first.
PlRound ==
  plResized = 0 /\ plLeft > 0 =>
    /\ Len(plQue) = IF plHand = 0 THEN plCap ELSE plCap - 1
    /\ plLeft <= plCap
    /\ plHand # 0 => plSize[plHand] = plWant
    /\ \A o \in 1..plCap : \/ plSize[o] = plWant
                           \/ \E i \in 1..(IF plHand = 0 THEN plLeft ELSE plLeft - 1) :
                                plQue[i] = o

\* Before the first resize() the objects are as many as the queue takes.
PlFirst ==
  plResized = 0 => /\ \A i \in 1..Len(plQue) : plQue[i] <= plCap
                   /\ \A c \in PlClients : plHeld[c] <= plCap
                   /\ plHand <= plCap

\* Nobody has anything to give back when nothing was out.
PlNothingOut ==
  plResized > 0 /\ plOutThen = 0 => plCap > 0 /\ \A c \in PlClients : plHeld[c] = 0

\* With nothing out, the loop of resize_buffers() stays at its first turn: no
\* client brings a buffer, and the queue was emptied.
PlFirstTurn ==
  plResized > 0 /\ plOutThen = 0 => plLeft = plCap /\ plQue = << >> /\ plHand = PlNull

PlInv == /\ PlTypes /\ PlApart /\ PlCallers /\ PlLoop /\ PlRound /\ PlFirst
         /\ PlNothingOut /\ PlSized /\ PlFirstTurn

LEMMA PlStart == PlInit => PlInv
<1> SUFFICES ASSUME PlInit
             PROVE  PlInv
  OBVIOUS
<1>0. PlMaxCap \in Nat
  BY PlBounds
<1>1. plCap \in 0..PlMaxCap /\ plCap \in Nat
  BY <1>0 DEF PlInit
<1>2. PICK q : q = plQue
  OBVIOUS
<1>3. q = [i \in 1..plCap |-> i]
  BY <1>2 DEF PlInit
<1>4. q \in Seq(0..PlMaxCap) /\ Len(q) = plCap /\ \A i \in 1..plCap : q[i] = i
  <2>1. q \in [1..plCap -> 0..PlMaxCap]
    BY <1>0, <1>1, <1>3
  <2>2. \A i \in 1..plCap : q[i] = i
    BY <1>3
  <2> HIDE <1>3
  <2>3. q \in Seq(0..PlMaxCap) /\ Len(q) = plCap
    <3>1. ASSUME NEW S, NEW k \in Nat, NEW f \in [1..k -> S]
          PROVE  f \in Seq(S) /\ Len(f) = k
      OBVIOUS
    <3> QED
      BY <1>1, <2>1, <3>1
  <2> QED
    BY <2>2, <2>3
<1>5. /\ plSize = [o \in PlObjects |-> 0] /\ plWant = 1 /\ plLeft = plCap /\ plHand = 0
      /\ plResized = 0 /\ plLost = {} /\ plPc = [c \in PlClients |-> "idle"]
      /\ plHeld = [c \in PlClients |-> 0]
  BY DEF PlInit, PlNull
<1> USE <1>0, <1>1, <1>2, <1>4, <1>5
<1> HIDE DEF PlInit
<1>6. PlTypes
  BY DEF PlTypes
<1>7. PlApart
  BY DEF PlApart
<1>8. PlCallers
  BY DEF PlCallers
<1>9. PlLoop
  BY DEF PlLoop
<1>10. PlRound
  BY DEF PlRound
<1>11. PlFirst
  BY DEF PlFirst
<1>12. PlNothingOut /\ PlFirstTurn
  BY DEF PlNothingOut, PlFirstTurn
<1>13. PlSized
  BY DEF PlSized
<1> QED
  BY <1>6, <1>7, <1>8, <1>9, <1>10, <1>11, <1>12, <1>13 DEF PlInv

\* Clients that call, give up or are done: only where they stand changes.
LEMMA PlKeptMoves ==
  ASSUME PlInv, UNCHANGED <<plQue, plCap, plSize, plWant, plLeft, plHand, plHeld, plLost,
                            plResized, plOutThen>>,
         plPc' \in [PlClients -> {"idle", "get", "use", "put"}], PlCallers'
  PROVE  PlInv'
<1>1. PlTypes'
  BY DEF PlInv, PlTypes
<1>2. PlApart'
  BY DEF PlInv, PlApart
<1>3. PlLoop' /\ PlRound'
  BY DEF PlInv, PlLoop, PlRound
<1>4. PlFirst' /\ PlNothingOut' /\ PlSized' /\ PlFirstTurn'
  BY DEF PlInv, PlFirst, PlNothingOut, PlSized, PlFirstTurn
<1> QED
  BY <1>1, <1>2, <1>3, <1>4 DEF PlInv

LEMMA PlKeptCalls ==
  ASSUME PlInv, NEW c \in PlClients, PlCall(c) \/ PlGetFails(c) \/ PlDone(c) \/ UNCHANGED plVars
  PROVE  PlInv'
<1>1. UNCHANGED <<plQue, plCap, plSize, plWant, plLeft, plHand, plHeld, plLost, plResized,
                  plOutThen>>
  BY Zenon DEF PlCall, PlGetFails, PlDone, plVars, plQueue, plOwner, plTurns
<1>2. PlTypes /\ PlCallers
  BY DEF PlInv
<1>3. plPc' \in [PlClients -> {"idle", "get", "use", "put"}] /\ PlCallers'
  <2>1. CASE PlCall(c)
    BY <1>1, <1>2, <2>1 DEF PlTypes, PlCallers, PlCall, PlBuilt
  <2>2. CASE PlGetFails(c)
    BY <1>1, <1>2, <2>2 DEF PlTypes, PlCallers, PlGetFails, PlBuilt
  <2>3. CASE PlDone(c)
    BY <1>1, <1>2, <2>3 DEF PlTypes, PlCallers, PlDone, PlBuilt
  <2>4. CASE UNCHANGED plVars
    BY <1>1, <1>2, <2>4 DEF PlTypes, PlCallers, PlBuilt, plVars
  <2> QED
    BY <2>1, <2>2, <2>3, <2>4
<1> QED
  BY <1>1, <1>3, PlKeptMoves

LEMMA PlKeptGet == ASSUME PlInv, NEW c \in PlClients, PlGet(c) PROVE PlInv'
<1>0. PlTypes /\ PlApart /\ PlCallers /\ PlLoop /\ PlFirst /\ PlSized /\ PlFirstTurn
      /\ PlMaxCap \in Nat
  BY PlBounds DEF PlInv
<1>1. PICK q \in Seq(0..PlMaxCap), n \in Nat : q = plQue /\ n + 1 = Len(q)
  <2>1. PICK q \in Seq(0..PlMaxCap) : q = plQue /\ q # << >>
    BY <1>0 DEF PlTypes, PlGet
  <2>2. Len(q) - 1 \in Nat /\ (Len(q) - 1) + 1 = Len(q)
    BY <2>1
  <2> QED
    BY <2>1, <2>2
<1>2. PICK t : t = Tail(q)
  OBVIOUS
<1>3. PICK x \in 0..PlMaxCap : x = q[1] /\ x = Head(q)
  <2>1. 1 \in 1..Len(q)
    BY <1>1
  <2>2. q[1] \in 0..PlMaxCap
    <3>1. ASSUME NEW S, NEW s \in Seq(S), 1 \in 1..Len(s)
          PROVE  s[1] \in S
      BY <3>1
    <3> QED
      BY <2>1, <3>1
  <2>3. Head(q) = q[1]
    OBVIOUS
  <2> QED
    BY <2>2, <2>3
<1>4. t \in Seq(0..PlMaxCap) /\ Len(t) = n /\ \A i \in 1..n : t[i] = q[i + 1]
  <2>1. /\ Tail(q) \in Seq(0..PlMaxCap) /\ Len(Tail(q)) = Len(q) - 1
        /\ \A i \in 1..(Len(q) - 1) : Tail(q)[i] = q[i + 1]
    BY <1>1
  <2>2. Len(q) - 1 = n
    BY <1>1
  <2> QED
    BY <1>2, <2>1, <2>2, Zenon
<1>5. /\ plQue' = t /\ plHeld' = [plHeld EXCEPT ![c] = x] /\ plPc[c] = "get"
      /\ plPc' = [plPc EXCEPT ![c] = IF x = 0 THEN "idle" ELSE "use"]
      /\ UNCHANGED <<plCap, plSize, plWant, plLeft, plHand, plLost, plResized, plOutThen>>
  BY <1>1, <1>2, <1>3, Zenon DEF PlGet, plOwner, plTurns, PlNull
<1>6. plHeld'[c] = x /\ plHeld[c] = 0 /\ \A d \in PlClients : d # c => plHeld'[d] = plHeld[d]
  BY <1>0, <1>5 DEF PlTypes, PlCallers
<1>7. PlBuilt /\ PlBuilt' /\ ~(plResized > 0 /\ plOutThen = 0)
  <2>1. plQue # << >>
    BY DEF PlGet
  <2> QED
    BY <1>0, <1>5, <2>1 DEF PlCallers, PlBuilt, PlFirstTurn
<1>8. PlTypes'
  BY <1>0, <1>4, <1>5 DEF PlTypes
<1>9. PlCallers'
  BY <1>0, <1>5, <1>6, <1>7 DEF PlCallers, PlTypes
<1>10. \A i \in 1..n : i + 1 \in 1..(n + 1) /\ 1 \in 1..(n + 1) /\ i + 1 # 1
  OBVIOUS
<1>11. PlApart'
  <2>0. /\ \A i, j \in 1..(n + 1) : i # j /\ q[i] # 0 => q[i] # q[j]
        /\ \A i \in 1..(n + 1) :
             /\ q[i] \notin plLost
             /\ q[i] # 0 => q[i] # plHand /\ \A d \in PlClients : q[i] # plHeld[d]
    BY <1>0, <1>1, Zenon DEF PlApart
  <2>1. \A i, j \in 1..n : i # j /\ t[i] # 0 => t[i] # t[j]
    <3> TAKE i, j \in 1..n
    <3>1. i # j => i + 1 # j + 1
      OBVIOUS
    <3>2. i # j /\ q[i + 1] # 0 => q[i + 1] # q[j + 1]
      BY <1>10, <2>0, <3>1, Zenon
    <3>3. t[i] = q[i + 1] /\ t[j] = q[j + 1]
      BY <1>4, Zenon
    <3> QED
      BY <3>2, <3>3, Zenon
  <2>2. \A i \in 1..n : x # 0 => t[i] # x
    BY <1>3, <1>4, <1>10, <2>0, ZenonT(60)
  <2>3. \A i \in 1..n : /\ t[i] \notin plLost
                        /\ t[i] # 0 => t[i] # plHand /\ \A d \in PlClients : t[i] # plHeld[d]
    <3> TAKE i \in 1..n
    <3>1. /\ q[i + 1] \notin plLost
          /\ q[i + 1] # 0 => /\ q[i + 1] # plHand
                             /\ \A d \in PlClients : q[i + 1] # plHeld[d]
      BY <1>10, <2>0, Zenon
    <3>2. t[i] = q[i + 1]
      BY <1>4, Zenon
    <3> QED
      BY <3>1, <3>2, Zenon
  <2>4. x \notin plLost /\ (x # 0 => x # plHand /\ \A d \in PlClients : x # plHeld[d])
    <3>1. 1 \in 1..(n + 1)
      OBVIOUS
    <3> QED
      BY <1>3, <2>0, <3>1, Zenon
  <2> QED
    BY <1>0, <1>4, <1>5, <1>6, <2>1, <2>2, <2>3, <2>4 DEF PlApart
<1>12. PlLoop'
  BY <1>0, <1>1, <1>4, <1>5, <1>10 DEF PlLoop
<1>13. PlFirst'
  <2>1. plResized = 0 => (\A i \in 1..n : t[i] <= plCap) /\ x <= plCap
    BY <1>0, <1>1, <1>3, <1>4, <1>10 DEF PlFirst
  <2> QED
    BY <1>0, <1>4, <1>5, <1>6, <2>1 DEF PlFirst
<1>14. PlRound' /\ PlNothingOut' /\ PlSized' /\ PlFirstTurn'
  <2>1. ~(plResized' = 0 /\ plLeft' > 0)
    BY <1>0, <1>5, <1>7 DEF PlBuilt, PlTypes
  <2>2. ~(plResized' > 0 /\ plOutThen' = 0)
    BY <1>5, <1>7
  <2>3. PlSized'
    BY <1>0, <1>5 DEF PlSized
  <2> QED
    BY <2>1, <2>2, <2>3, Zenon DEF PlRound, PlNothingOut, PlFirstTurn
<1> QED
  BY <1>8, <1>9, <1>11, <1>12, <1>13, <1>14 DEF PlInv

\* Something is put at the end of the queue: what a client or the owner had,
\* or a null pointer.
LEMMA PlPutAt ==
  ASSUME PlTypes, NEW x \in 0..PlMaxCap
  PROVE  \E p \in Seq(0..PlMaxCap), n \in Nat :
           /\ p = Append(plQue, x) /\ n = Len(plQue) /\ Len(p) = n + 1
           /\ \A i \in 1..(n + 1) : (i \in 1..n /\ p[i] = plQue[i]) \/ (i = n + 1 /\ p[i] = x)
<1>1. PICK n \in Nat : n = Len(plQue)
  BY DEF PlTypes
<1>2. PICK p : p = Append(plQue, x)
  OBVIOUS
<1>3. p \in Seq(0..PlMaxCap) /\ Len(p) = n + 1 /\ (\A i \in 1..n : p[i] = plQue[i])
      /\ p[n + 1] = x
  <2>1. ASSUME NEW S, NEW q \in Seq(S), NEW y \in S
        PROVE  /\ Append(q, y) \in Seq(S) /\ Len(Append(q, y)) = Len(q) + 1
               /\ \A i \in 1..Len(q) : Append(q, y)[i] = q[i]
               /\ Append(q, y)[Len(q) + 1] = y
    OBVIOUS
  <2>2. plQue \in Seq(0..PlMaxCap)
    BY DEF PlTypes
  <2>3. /\ Append(plQue, x) \in Seq(0..PlMaxCap)
        /\ Len(Append(plQue, x)) = Len(plQue) + 1
        /\ \A i \in 1..Len(plQue) : Append(plQue, x)[i] = plQue[i]
        /\ Append(plQue, x)[Len(plQue) + 1] = x
    BY <2>1, <2>2
  <2> QED
    BY <1>1, <1>2, <2>3, Zenon
<1>4. \A i \in 1..(n + 1) : i \in 1..n \/ i = n + 1
  OBVIOUS
<1>5. \A i \in 1..(n + 1) : (i \in 1..n /\ p[i] = plQue[i]) \/ (i = n + 1 /\ p[i] = x)
  <2> TAKE i \in 1..(n + 1)
  <2>1. CASE i \in 1..n
    BY <1>3, <2>1, Zenon
  <2>2. CASE i = n + 1
    BY <1>3, <2>2, Zenon
  <2> QED
    BY <1>4, <2>1, <2>2, Zenon
<1> QED
  BY <1>1, <1>2, <1>3, <1>5, Zenon

LEMMA PlKeptPut == ASSUME PlInv, NEW c \in PlClients, PlPut(c) PROVE PlInv'
<1>0. PlTypes /\ PlApart /\ PlCallers /\ PlLoop /\ PlFirst /\ PlSized /\ PlNothingOut
      /\ PlMaxCap \in Nat
  BY PlBounds DEF PlInv
<1>1. PICK x \in 0..PlMaxCap : x = plHeld[c] /\ x # 0 /\ plPc[c] = "put"
  BY <1>0 DEF PlTypes, PlCallers, PlPut
<1>2. PICK p \in Seq(0..PlMaxCap), n \in Nat :
        /\ p = Append(plQue, x) /\ n = Len(plQue) /\ Len(p) = n + 1
        /\ \A i \in 1..(n + 1) : (i \in 1..n /\ p[i] = plQue[i]) \/ (i = n + 1 /\ p[i] = x)
  BY <1>0, PlPutAt
<1>3. /\ plQue' = p /\ plHeld' = [plHeld EXCEPT ![c] = 0]
      /\ plPc' = [plPc EXCEPT ![c] = "idle"]
      /\ UNCHANGED <<plCap, plSize, plWant, plLeft, plHand, plLost, plResized, plOutThen>>
  BY <1>1, <1>2, Zenon DEF PlPut, plOwner, plTurns, PlNull
<1>4. plHeld'[c] = 0 /\ \A d \in PlClients : d # c => plHeld'[d] = plHeld[d]
  BY <1>0, <1>3 DEF PlTypes
<1>5. PlBuilt /\ PlBuilt' /\ ~(plResized > 0 /\ plOutThen = 0)
  BY <1>0, <1>1, <1>3 DEF PlCallers, PlBuilt, PlNothingOut
<1>6. PlTypes'
  BY <1>0, <1>2, <1>3 DEF PlTypes
<1>7. PlCallers'
  BY <1>0, <1>3, <1>4, <1>5 DEF PlCallers, PlTypes
<1>8. /\ x \notin plLost /\ x # plHand
      /\ \A i \in 1..n : plQue[i] # 0 => plQue[i] # x
      /\ \A d \in PlClients : d # c => x # plHeld[d]
  BY <1>0, <1>1, <1>2, Zenon DEF PlApart
<1>9. PlApart'
  <2>1. /\ \A i, j \in 1..n : i # j /\ plQue[i] # 0 => plQue[i] # plQue[j]
        /\ \A i \in 1..n :
             /\ plQue[i] \notin plLost
             /\ plQue[i] # 0 => /\ plQue[i] # plHand
                                /\ \A d \in PlClients : plQue[i] # plHeld[d]
    BY <1>0, <1>2, Zenon DEF PlApart
  <2>2. \A i, j \in 1..(n + 1) : i # j /\ p[i] # 0 => p[i] # p[j]
    BY <1>1, <1>2, <1>8, <2>1
  <2>3. \A i \in 1..(n + 1) :
          /\ p[i] \notin plLost
          /\ p[i] # 0 => p[i] # plHand /\ \A d \in PlClients : d # c => p[i] # plHeld[d]
    BY <1>2, <1>8, <2>1, ZenonT(60)
  <2>4. 0 \notin plLost
    BY <1>0 DEF PlTypes, PlObjects
  <2> QED
    BY <1>0, <1>2, <1>3, <1>4, <2>2, <2>3, <2>4 DEF PlApart
<1>10. PlLoop'
  BY <1>0, <1>1, <1>2, <1>3 DEF PlLoop
<1>11. PlFirst'
  BY <1>0, <1>1, <1>2, <1>3, <1>4 DEF PlFirst, PlTypes
<1>12. PlRound' /\ PlNothingOut' /\ PlSized' /\ PlFirstTurn'
  <2>1. ~(plResized' = 0 /\ plLeft' > 0)
    BY <1>0, <1>3, <1>5 DEF PlBuilt, PlTypes
  <2>2. ~(plResized' > 0 /\ plOutThen' = 0)
    BY <1>3, <1>5
  <2>3. PlSized'
    BY <1>0, <1>3 DEF PlSized
  <2> QED
    BY <2>1, <2>2, <2>3, Zenon DEF PlRound, PlNothingOut, PlFirstTurn
<1> QED
  BY <1>6, <1>7, <1>9, <1>10, <1>11, <1>12 DEF PlInv

LEMMA PlKeptRelease == PlInv /\ PlRelease => PlInv'
<1> SUFFICES ASSUME PlInv, PlRelease
             PROVE  PlInv'
  OBVIOUS
<1>0. PlTypes /\ PlApart /\ PlCallers /\ PlLoop /\ PlFirst /\ PlSized /\ PlNothingOut
      /\ PlFirstTurn /\ PlMaxCap \in Nat
  BY PlBounds DEF PlInv
<1>1. 0 \in 0..PlMaxCap
  BY <1>0
<1>2. PICK p \in Seq(0..PlMaxCap), n \in Nat :
        /\ p = Append(plQue, 0) /\ n = Len(plQue) /\ Len(p) = n + 1
        /\ \A i \in 1..(n + 1) : (i \in 1..n /\ p[i] = plQue[i]) \/ (i = n + 1 /\ p[i] = 0)
  BY <1>0, <1>1, PlPutAt
<1>3. /\ plQue' = p /\ PlBuilt /\ plLeft = 0
      /\ UNCHANGED <<plCap, plSize, plWant, plLeft, plHand, plLost, plResized, plOutThen,
                     plPc, plHeld>>
  BY <1>2, Zenon DEF PlRelease, plOwner, plTurns, PlNull
<1>4. PlTypes'
  BY <1>0, <1>2, <1>3 DEF PlTypes
<1>5. PlCallers'
  BY <1>0, <1>3 DEF PlCallers, PlBuilt
<1>6. PlApart'
  <2>1. /\ \A i, j \in 1..n : i # j /\ plQue[i] # 0 => plQue[i] # plQue[j]
        /\ \A i \in 1..n :
             /\ plQue[i] \notin plLost
             /\ plQue[i] # 0 => /\ plQue[i] # plHand
                                /\ \A d \in PlClients : plQue[i] # plHeld[d]
    BY <1>0, <1>2, Zenon DEF PlApart
  <2>2. \A i, j \in 1..(n + 1) : i # j /\ p[i] # 0 => p[i] # p[j]
    BY <1>2, <2>1
  <2>3. 0 \notin plLost
    BY <1>0 DEF PlTypes, PlObjects
  <2>4. \A i \in 1..(n + 1) :
          /\ p[i] \notin plLost
          /\ p[i] # 0 => p[i] # plHand /\ \A d \in PlClients : p[i] # plHeld[d]
    BY <1>2, <2>1, <2>3, ZenonT(60)
  <2> QED
    BY <1>0, <1>2, <1>3, <2>2, <2>3, <2>4 DEF PlApart
<1>7. PlLoop'
  BY <1>0, <1>3 DEF PlLoop
<1>8. PlFirst'
  BY <1>0, <1>2, <1>3 DEF PlFirst, PlTypes
<1>9. ~(plResized > 0 /\ plOutThen = 0)
  BY <1>0, <1>3 DEF PlFirstTurn, PlNothingOut, PlTypes
<1>10. PlRound' /\ PlNothingOut' /\ PlSized' /\ PlFirstTurn'
  BY <1>0, <1>3, <1>9 DEF PlRound, PlNothingOut, PlSized, PlFirstTurn
<1> QED
  BY <1>4, <1>5, <1>6, <1>7, <1>8, <1>10 DEF PlInv

LEMMA PlKeptResizeGet == PlInv /\ PlResizeGet => PlInv'
<1> SUFFICES ASSUME PlInv, PlResizeGet
             PROVE  PlInv'
  OBVIOUS
<1>0. PlTypes /\ PlApart /\ PlCallers /\ PlLoop /\ PlFirst /\ PlSized /\ PlNothingOut
      /\ PlFirstTurn /\ PlRound /\ PlMaxCap \in Nat
  BY PlBounds DEF PlInv
<1>1. PICK q \in Seq(0..PlMaxCap), n \in Nat : q = plQue /\ n + 1 = Len(q)
  <2>1. PICK q \in Seq(0..PlMaxCap) : q = plQue /\ q # << >>
    BY <1>0 DEF PlTypes, PlResizeGet
  <2>2. Len(q) - 1 \in Nat /\ (Len(q) - 1) + 1 = Len(q)
    BY <2>1
  <2> QED
    BY <2>1, <2>2
<1>2. PICK t : t = Tail(q)
  OBVIOUS
<1>3. PICK x \in 0..PlMaxCap : x = q[1] /\ x = Head(q)
  <2>1. 1 \in 1..Len(q)
    BY <1>1
  <2>2. q[1] \in 0..PlMaxCap
    <3>1. ASSUME NEW S, NEW s \in Seq(S), 1 \in 1..Len(s)
          PROVE  s[1] \in S
      BY <3>1
    <3> QED
      BY <2>1, <3>1
  <2>3. Head(q) = q[1]
    OBVIOUS
  <2> QED
    BY <2>2, <2>3
<1>4. t \in Seq(0..PlMaxCap) /\ Len(t) = n /\ \A i \in 1..n : t[i] = q[i + 1]
  <2>1. /\ Tail(q) \in Seq(0..PlMaxCap) /\ Len(Tail(q)) = Len(q) - 1
        /\ \A i \in 1..(Len(q) - 1) : Tail(q)[i] = q[i + 1]
    BY <1>1
  <2>2. Len(q) - 1 = n
    BY <1>1
  <2> QED
    BY <1>2, <2>1, <2>2, Zenon
<1>5. /\ plQue' = t /\ plHand' = x /\ plHand = 0 /\ plLeft > 0
      /\ plSize' = [plSize EXCEPT ![x] = plWant]
      /\ UNCHANGED <<plCap, plWant, plLeft, plHeld, plLost, plResized, plOutThen, plPc>>
  BY <1>1, <1>2, <1>3, Zenon DEF PlResizeGet, plTurns, PlNull
<1>6. 1 \in 1..(n + 1) /\ \A i \in 1..n : i + 1 \in 1..(n + 1) /\ i + 1 # 1
  OBVIOUS
<1>7. x # 0 /\ x \in PlObjects
  BY <1>0, <1>1, <1>3, <1>5, <1>6 DEF PlLoop, PlObjects
<1>8. plSize'[x] = plWant /\ \A o \in PlObjects : o # x => plSize'[o] = plSize[o]
  BY <1>0, <1>5, <1>7 DEF PlTypes
<1>9. ~(plResized > 0 /\ plOutThen = 0)
  <2>1. plQue # << >>
    BY DEF PlResizeGet
  <2> QED
    BY <1>0, <2>1 DEF PlFirstTurn
<1>10. PlTypes'
  BY <1>0, <1>4, <1>5 DEF PlTypes
<1>11. PlCallers'
  BY <1>0, <1>5 DEF PlCallers, PlBuilt
<1>12. PlApart'
  <2>0. /\ \A i, j \in 1..(n + 1) : i # j /\ q[i] # 0 => q[i] # q[j]
        /\ \A i \in 1..(n + 1) :
             /\ q[i] \notin plLost
             /\ q[i] # 0 => \A d \in PlClients : q[i] # plHeld[d]
    BY <1>0, <1>1, Zenon DEF PlApart
  <2>1. \A i, j \in 1..n : i # j /\ t[i] # 0 => t[i] # t[j]
    <3> TAKE i, j \in 1..n
    <3>1. i # j => i + 1 # j + 1
      OBVIOUS
    <3>2. i # j /\ q[i + 1] # 0 => q[i + 1] # q[j + 1]
      BY <1>6, <2>0, <3>1, Zenon
    <3>3. t[i] = q[i + 1] /\ t[j] = q[j + 1]
      BY <1>4, Zenon
    <3> QED
      BY <3>2, <3>3, Zenon
  <2>2. \A i \in 1..n : t[i] # x
    BY <1>3, <1>4, <1>6, <1>7, <2>0, ZenonT(60)
  <2>3. \A i \in 1..n : /\ t[i] \notin plLost
                        /\ t[i] # 0 => \A d \in PlClients : t[i] # plHeld[d]
    <3> TAKE i \in 1..n
    <3>1. /\ q[i + 1] \notin plLost
          /\ q[i + 1] # 0 => \A d \in PlClients : q[i + 1] # plHeld[d]
      BY <1>6, <2>0, Zenon
    <3>2. t[i] = q[i + 1]
      BY <1>4, Zenon
    <3> QED
      BY <3>1, <3>2, Zenon
  <2>4. x \notin plLost /\ \A d \in PlClients : x # plHeld[d]
    BY <1>3, <1>6, <1>7, <2>0, Zenon
  <2> QED
    BY <1>0, <1>4, <1>5, <2>1, <2>2, <2>3, <2>4 DEF PlApart
<1>13. PlLoop'
  BY <1>0, <1>1, <1>4, <1>5, <1>6 DEF PlLoop
<1>14. PlFirst'
  <2>1. plResized = 0 => (\A i \in 1..n : t[i] <= plCap) /\ x <= plCap
    BY <1>0, <1>1, <1>3, <1>4, <1>6 DEF PlFirst
  <2> QED
    BY <1>0, <1>4, <1>5, <2>1 DEF PlFirst
\* The turn got the first of those that have not their size.
<1>15. PlRound'
  <2> SUFFICES ASSUME plResized = 0
               PROVE  /\ Len(t) = plCap - 1 /\ plLeft <= plCap
                      /\ \A o \in 1..plCap : \/ plSize'[o] = plWant
                                             \/ \E i \in 1..(plLeft - 1) : t[i] = o
    BY <1>5, <1>7, <1>8 DEF PlRound
  <2>1. /\ n + 1 = plCap /\ plLeft <= plCap /\ plLeft \in Nat /\ plCap \in 0..PlMaxCap
        /\ \A o \in 1..plCap : plSize[o] = plWant \/ \E i \in 1..plLeft : q[i] = o
    BY <1>0, <1>1, <1>5 DEF PlRound, PlTypes
  <2>2. ASSUME NEW o \in 1..plCap, plSize'[o] # plWant
        PROVE  \E i \in 1..(plLeft - 1) : t[i] = o
    <3>1. o # x /\ plSize[o] # plWant
      BY <1>0, <1>8, <2>1, <2>2, SMTT(30) DEF PlObjects
    <3>2. PICK i \in 1..plLeft : q[i] = o
      BY <2>1, <3>1
    <3>3. i # 1
      BY <1>3, <3>1, <3>2
    <3>4. i - 1 \in 1..(plLeft - 1) /\ i - 1 \in 1..n /\ (i - 1) + 1 = i
      BY <2>1, <3>3
    <3>5. t[i - 1] = o
      BY <1>4, <3>2, <3>4, Zenon
    <3> QED
      BY <3>4, <3>5
  <2> QED
    BY <1>4, <2>1, <2>2
<1>16. PlNothingOut' /\ PlSized' /\ PlFirstTurn'
  BY <1>5, <1>9 DEF PlNothingOut, PlSized, PlFirstTurn
<1> QED
  BY <1>10, <1>11, <1>12, <1>13, <1>14, <1>15, <1>16 DEF PlInv

LEMMA PlKeptResizePut == PlInv /\ PlResizePut => PlInv'
<1> SUFFICES ASSUME PlInv, PlResizePut
             PROVE  PlInv'
  OBVIOUS
<1>0. PlTypes /\ PlApart /\ PlCallers /\ PlLoop /\ PlFirst /\ PlSized /\ PlNothingOut
      /\ PlFirstTurn /\ PlRound /\ PlMaxCap \in Nat
  BY PlBounds DEF PlInv
<1>1. PICK x \in 0..PlMaxCap : x = plHand /\ x # 0 /\ plLeft > 0
  BY <1>0 DEF PlTypes, PlLoop, PlResizePut, PlNull
<1>2. PICK p \in Seq(0..PlMaxCap), n \in Nat :
        /\ p = Append(plQue, x) /\ n = Len(plQue) /\ Len(p) = n + 1
        /\ \A i \in 1..(n + 1) : (i \in 1..n /\ p[i] = plQue[i]) \/ (i = n + 1 /\ p[i] = x)
  BY <1>0, PlPutAt
<1>3. /\ plQue' = p /\ plHand' = 0 /\ plLeft' = plLeft - 1
      /\ UNCHANGED <<plCap, plSize, plWant, plHeld, plLost, plResized, plOutThen, plPc>>
  BY <1>1, <1>2, Zenon DEF PlResizePut, plTurns, PlNull
<1>4. ~(plResized > 0 /\ plOutThen = 0)
  BY <1>0, <1>1 DEF PlFirstTurn, PlNull
<1>5. PlTypes'
  <2>1. plLeft - 1 \in Nat /\ 0 \in 0..PlMaxCap
    BY <1>0, <1>1 DEF PlTypes
  <2> QED
    BY <1>0, <1>2, <1>3, <2>1 DEF PlTypes
<1>6. PlCallers'
  <2>1. ~PlBuilt' => ~PlBuilt
    BY <1>0, <1>1, <1>3 DEF PlBuilt, PlTypes
  <2> QED
    BY <1>0, <1>3, <2>1 DEF PlCallers
<1>7. PlApart'
  <2>1. /\ \A i, j \in 1..n : i # j /\ plQue[i] # 0 => plQue[i] # plQue[j]
        /\ \A i \in 1..n :
             /\ plQue[i] \notin plLost
             /\ plQue[i] # 0 => /\ plQue[i] # x
                                /\ \A d \in PlClients : plQue[i] # plHeld[d]
        /\ \A d \in PlClients : plHeld[d] \notin plLost /\ x # plHeld[d]
        /\ x \notin plLost
    BY <1>0, <1>1, <1>2, Zenon DEF PlApart
  <2>2. \A i, j \in 1..(n + 1) : i # j /\ p[i] # 0 => p[i] # p[j]
    BY <1>2, <2>1
  <2>3. 0 \notin plLost
    BY <1>0 DEF PlTypes, PlObjects
  <2>4. \A i \in 1..(n + 1) :
          /\ p[i] \notin plLost
          /\ p[i] # 0 => \A d \in PlClients : p[i] # plHeld[d]
    BY <1>2, <2>1, ZenonT(60)
  <2> QED
    BY <1>0, <1>2, <1>3, <2>1, <2>2, <2>3, <2>4 DEF PlApart
<1>8. PlLoop'
  BY <1>0, <1>1, <1>2, <1>3 DEF PlLoop, PlTypes
<1>9. PlFirst'
  <2>1. plResized = 0 => (\A i \in 1..(n + 1) : p[i] <= plCap) /\ 0 <= plCap
    BY <1>0, <1>1, <1>2 DEF PlFirst, PlTypes
  <2> QED
    BY <1>0, <1>2, <1>3, <2>1 DEF PlFirst
<1>10. plResized = 0 =>
         /\ n + 1 = plCap /\ plLeft <= plCap
         /\ \A o \in 1..plCap : plSize[o] = plWant \/ \E i \in 1..(plLeft - 1) : p[i] = o
  <2> SUFFICES ASSUME plResized = 0
               PROVE  /\ n + 1 = plCap /\ plLeft <= plCap
                      /\ \A o \in 1..plCap :
                           plSize[o] = plWant \/ \E i \in 1..(plLeft - 1) : p[i] = o
    OBVIOUS
  <2>1. /\ n = plCap - 1 /\ plLeft <= plCap /\ plLeft \in Nat /\ plCap \in 0..PlMaxCap
        /\ \A o \in 1..plCap : plSize[o] = plWant \/ \E i \in 1..(plLeft - 1) : plQue[i] = o
    BY <1>0, <1>1, <1>2 DEF PlRound, PlTypes
  <2>2. \A i \in 1..(plLeft - 1) : i \in 1..(n + 1) /\ i # n + 1
    BY <2>1
  <2>3. \A i \in 1..(plLeft - 1) : p[i] = plQue[i]
    BY <1>2, <2>2, Zenon
  <2>4. n + 1 = plCap
    BY <2>1
  <2> QED
    BY <2>1, <2>3, <2>4, Zenon
<1>11. PlRound'
  <2>1. plLeft \in Nat /\ plCap \in Nat
    BY <1>0 DEF PlTypes
  <2> QED
    BY <1>2, <1>3, <1>10, <2>1 DEF PlRound
<1>12. PlSized'
  <2>1. plLeft - 1 = 0 => \A i \in 1..(plLeft - 1) : FALSE
    BY <1>0 DEF PlTypes
  <2> QED
    BY <1>3, <1>10, <2>1 DEF PlSized
<1>13. PlNothingOut' /\ PlFirstTurn'
  BY <1>3, <1>4 DEF PlNothingOut, PlFirstTurn
<1> QED
  BY <1>5, <1>6, <1>7, <1>8, <1>9, <1>11, <1>12, <1>13 DEF PlInv

LEMMA PlKeptResize == ASSUME PlInv, NEW n \in 1..PlMaxCap, PlResize(n) PROVE PlInv'
<1>0. PlTypes /\ PlApart /\ PlCallers /\ PlLoop /\ PlMaxCap \in Nat
  BY PlBounds DEF PlInv
<1>1. /\ plQue' = << >> /\ plCap' = n /\ plLeft' = n /\ plResized' = plResized + 1
      /\ plWant' = plWant + 1 /\ plOutThen' = Cardinality(PlOut) /\ plLeft = 0
      /\ plLost' = plLost \cup (ToSet(plQue) \ {0}) /\ PlBuilt
      /\ UNCHANGED <<plSize, plHand, plPc, plHeld>>
  BY Zenon DEF PlResize, PlNull
<1>2. plHand = 0 /\ n > 0 /\ n \in Nat
  BY <1>0, <1>1 DEF PlLoop
<1>3. PICK k \in Nat : k = Len(plQue)
  BY <1>0 DEF PlTypes
<1>4. \A o : o \in ToSet(plQue) <=> \E i \in 1..k : plQue[i] = o
  BY <1>3 DEF ToSet
<1>5. \A i \in 1..k : plQue[i] \in 0..PlMaxCap
  <2>1. ASSUME NEW S, NEW s \in Seq(S)
        PROVE  \A i \in 1..Len(s) : s[i] \in S
    OBVIOUS
  <2> QED
    BY <1>0, <1>3, <2>1 DEF PlTypes
<1>6. plLost' \subseteq PlObjects
  <2>1. ToSet(plQue) \ {0} \subseteq PlObjects
    BY <1>0, <1>4, <1>5 DEF PlObjects
  <2> QED
    BY <1>0, <1>1, <2>1 DEF PlTypes
<1>7. PlTypes'
  BY <1>0, <1>1, <1>2, <1>6 DEF PlTypes
<1>8. PlApart'
  <2>1. 0 \notin plLost'
    BY <1>6 DEF PlObjects
  <2>2. ASSUME NEW c \in PlClients
        PROVE  plHeld[c] \notin plLost'
    <3>1. plHeld[c] \notin plLost
      BY <1>0 DEF PlApart
    <3>2. plHeld[c] \notin ToSet(plQue) \ {0}
      BY <1>0, <1>3, <1>4 DEF PlApart
    <3> QED
      BY <1>1, <3>1, <3>2
  <2> QED
    BY <1>0, <1>1, <1>2, <2>1, <2>2 DEF PlApart
<1>9. PlCallers' /\ PlLoop' /\ PlRound' /\ PlFirst' /\ PlSized'
  <2>1. plResized' > 0 /\ plResized' # 0
    BY <1>0, <1>1 DEF PlTypes
  <2> QED
    BY <1>0, <1>1, <1>2, <2>1 DEF PlCallers, PlLoop, PlRound, PlFirst, PlSized, PlBuilt
<1>10. PlNothingOut' /\ PlFirstTurn'
  <2>1. ASSUME plOutThen' = 0, NEW c \in PlClients
        PROVE  plHeld[c] = 0
    <3>1. PlOut \subseteq PlObjects
      BY <1>0 DEF PlTypes, PlOut, PlObjects, PlNull
    <3>2. IsFiniteSet(PlObjects)
      BY <1>0, FS_Interval DEF PlObjects
    <3>3. IsFiniteSet(PlOut)
      BY <3>1, <3>2, FS_Subset
    <3>4. PlOut = {}
      BY <1>1, <2>1, <3>3, FS_EmptySet
    <3> QED
      BY <3>4 DEF PlOut, PlNull
  <2> QED
    BY <1>1, <1>2, <2>1 DEF PlNothingOut, PlFirstTurn, PlNull
<1> QED
  BY <1>7, <1>8, <1>9, <1>10 DEF PlInv

LEMMA PlKeptDestroy == PlInv /\ PlDestroy => PlInv'
<1> SUFFICES ASSUME PlInv, PlDestroy
             PROVE  PlInv'
  OBVIOUS
<1>0. PlTypes /\ PlApart /\ PlCallers /\ PlLoop /\ PlNothingOut /\ PlFirstTurn
      /\ PlMaxCap \in Nat
  BY PlBounds DEF PlInv
<1>1. /\ plQue' = << >> /\ plCap' = 0 /\ plLeft = 0 /\ PlBuilt /\ plCap > 0
      /\ plLost' = plLost \cup (ToSet(plQue) \ {0})
      /\ \A c \in PlClients : plPc[c] = "idle"
      /\ UNCHANGED <<plSize, plHand, plPc, plHeld, plLeft, plResized, plWant, plOutThen>>
  BY Zenon DEF PlDestroy, PlNull, plOwner, plTurns
<1>2. plHand = 0 /\ \A c \in PlClients : plHeld[c] = 0
  BY <1>0, <1>1 DEF PlLoop, PlCallers
<1>3. PICK k \in Nat : k = Len(plQue)
  BY <1>0 DEF PlTypes
<1>4. \A o : o \in ToSet(plQue) <=> \E i \in 1..k : plQue[i] = o
  BY <1>3 DEF ToSet
<1>5. \A i \in 1..k : plQue[i] \in 0..PlMaxCap
  <2>1. ASSUME NEW S, NEW s \in Seq(S)
        PROVE  \A i \in 1..Len(s) : s[i] \in S
    OBVIOUS
  <2> QED
    BY <1>0, <1>3, <2>1 DEF PlTypes
<1>6. plLost' \subseteq PlObjects
  <2>1. ToSet(plQue) \ {0} \subseteq PlObjects
    BY <1>0, <1>4, <1>5 DEF PlObjects
  <2> QED
    BY <1>0, <1>1, <2>1 DEF PlTypes
<1>7. PlTypes'
  BY <1>0, <1>1, <1>2, <1>6 DEF PlTypes
<1>8. PlApart'
  <2>1. 0 \notin plLost'
    BY <1>6 DEF PlObjects
  <2> QED
    BY <1>0, <1>1, <1>2, <2>1 DEF PlApart
<1>9. ~(plResized > 0 /\ plOutThen = 0)
  BY <1>0, <1>1 DEF PlFirstTurn, PlTypes
<1>10. PlCallers' /\ PlLoop' /\ PlRound' /\ PlFirst' /\ PlSized'
  BY <1>0, <1>1, <1>2 DEF PlCallers, PlLoop, PlRound, PlFirst, PlSized, PlBuilt
<1>11. PlNothingOut' /\ PlFirstTurn'
  BY <1>1, <1>9 DEF PlNothingOut, PlFirstTurn
<1> QED
  BY <1>7, <1>8, <1>10, <1>11 DEF PlInv

LEMMA PlKept == PlInv /\ [PlNext]_plVars => PlInv'
<1>1. ASSUME PlInv, UNCHANGED plVars
      PROVE  PlInv'
  <2>1. UNCHANGED <<plQue, plCap, plSize, plWant, plLeft, plHand, plHeld, plLost, plResized,
                    plOutThen, plPc>>
    BY <1>1, Zenon DEF plVars, plQueue, plOwner, plTurns
  <2>2. plPc' \in [PlClients -> {"idle", "get", "use", "put"}] /\ PlCallers'
    BY <1>1, <2>1 DEF PlInv, PlTypes, PlCallers, PlBuilt
  <2> QED
    BY <1>1, <2>1, <2>2, PlKeptMoves
<1> QED
  BY <1>1, PlKeptCalls, PlKeptGet, PlKeptPut, PlKeptRelease, PlKeptResizeGet, PlKeptResizePut,
     PlKeptResize, PlKeptDestroy, Zenon DEF PlNext

\* Before the first resize() a full queue holds all objects there are.
LEMMA PlHolders == PlInv => PlOnePlace /\ PlSized /\ PlPutBlocked
<1> SUFFICES ASSUME PlInv
             PROVE  PlOnePlace /\ PlPutBlocked
  BY DEF PlInv
<1>1. PlTypes /\ PlApart /\ PlCallers /\ PlFirst /\ PlMaxCap \in Nat
  BY PlBounds DEF PlInv
<1>2. PlOnePlace
  <2>1. \A o \in PlObjects : ~(PlIn(o) /\ o \in PlOut \cup plLost \cup {plHand})
    <3>1. 0 \notin PlObjects
      BY DEF PlObjects
    <3> QED
      BY <1>1, <3>1 DEF PlApart, PlIn, PlOut, PlNull
  <2>2. (PlOut \cup ({plHand} \ {PlNull})) \cap plLost = {}
    BY <1>1 DEF PlApart, PlOut, PlNull
  <2> QED
    BY <1>1, <2>1, <2>2, Zenon DEF PlOnePlace, PlApart, PlNull
<1>3. ASSUME NEW c \in PlClients, plPc[c] = "put", Len(plQue) >= plCap, ~PlIn(PlNull),
             ~(plResized > 0)
      PROVE  FALSE
  <2>1. PICK b \in 1..plCap : b = plHeld[c] /\ b # 0
    BY <1>1, <1>3 DEF PlTypes, PlCallers, PlFirst
  <2>2. PICK k \in Nat : k = plCap
    BY <1>1 DEF PlTypes
  <2>3. \A i \in 1..k : i \in 1..Len(plQue)
    BY <1>1, <1>3, <2>2 DEF PlTypes
  <2>4. PICK f : f = [i \in 1..k |-> plQue[i]]
    OBVIOUS
  <2>5. \A i \in 1..k : f[i] = plQue[i]
    BY <2>4
  <2>6. \A i \in 1..k : plQue[i] \in 1..k
    <3>1. \A i \in 1..Len(plQue) : plQue[i] \in 0..PlMaxCap
      <4>1. ASSUME NEW S, NEW s \in Seq(S)
            PROVE  \A i \in 1..Len(s) : s[i] \in S
        OBVIOUS
      <4> QED
        BY <1>1, <4>1 DEF PlTypes
    <3>2. \A i \in 1..Len(plQue) : plQue[i] # 0 /\ plQue[i] <= plCap
      BY <1>1, <1>3 DEF PlTypes, PlFirst, PlIn, PlNull
    <3> QED
      BY <2>2, <2>3, <3>1, <3>2
  <2>7. f \in Injection(1..k, 1..k)
    <3>1. f \in [1..k -> 1..k]
      BY <2>4, <2>6
    <3>2. ASSUME NEW i \in 1..k, NEW j \in 1..k, f[i] = f[j]
          PROVE  i = j
      <4>1. plQue[i] # 0 /\ plQue[i] = plQue[j]
        BY <2>5, <2>6, <3>2
      <4> QED
        BY <1>1, <2>3, <4>1 DEF PlApart
    <3> QED
      BY <3>1, <3>2 DEF Injection, IsInjective
  <2>8. IsFiniteSet(1..k)
    BY FS_Interval
  <2>9. f \in Surjection(1..k, 1..k)
    BY <2>7, <2>8, FS_Injection
  <2>10. PICK i \in 1..k : f[i] = b
    BY <2>1, <2>2, <2>9 DEF Surjection
  <2>11. plQue[i] = plHeld[c] /\ plQue[i] # 0 /\ i \in 1..Len(plQue)
    BY <2>1, <2>3, <2>5, <2>10
  <2> QED
    BY <1>1, <2>11 DEF PlApart
<1> QED
  BY <1>2, <1>3, Zenon DEF PlPutBlocked

-----------------------------------------------------------------------------

\* An object of a pool, and a buffer of the acquisition ring, is with one client
\* or thread or at one place of one queue, through any get, put, resize and end
\* of the pool: no two threads write into one buffer.  Giving back finds room
\* but after a resize() or behind release()'s null pointers, and the constructor's
\* loop gives every buffer its size (ObjPool.h, BufPool.h, AcqBufQueue.h).
\* Nothing is said of what resize() gives: it need not come to an end.
THEOREM HoldersSafe == MCSpec => []OneHolder
<1>1. MCInit => PlInv /\ AqInv
  BY PlStart, AqStart, Zenon DEF MCInit
<1>2. (PlInv /\ AqInv) /\ [MCNext]_MCVars => (PlInv /\ AqInv)'
  BY PlKept, AqKept, StepOfPart, Zenon
<1>3. PlInv /\ AqInv => OneHolder
  BY PlHolders, AqHolders, Zenon DEF OneHolder
<1> QED
  BY <1>1, <1>2, <1>3, PTL DEF MCSpec, MCVars

\* What one thread hands to the next comes out in order, once and whole, for any
\* number of messages, frames and bytes: a QueueThread handles no null pointer
\* before quit() and no message twice or out of order, a frame leaves the ring
\* worked on by every stage, and the buffers of read_n() and write_n() say, after
\* errors too, how far the bytes came (QueueThread.cpp, AcqBufQueue.h, Device.cpp,
\* Socket.cpp).
THEOREM HandedOnInOrder == MCSpec => []InOrder
<1>1. MCInit => QtInv /\ AqInv /\ TrInv
  BY QtStart, AqStart, TrStart, Zenon DEF MCInit
<1>2. (QtInv /\ AqInv /\ TrInv) /\ [MCNext]_MCVars => (QtInv /\ AqInv /\ TrInv)'
  BY QtKept, AqKept, TrKept, StepOfPart, Zenon
<1>3. QtInv /\ AqInv /\ TrInv => InOrder
  BY TrOrdered, Zenon DEF QtInv, AqInv, InOrder
<1> QED
  BY <1>1, <1>2, <1>3, PTL DEF MCSpec, MCVars
=============================================================================
