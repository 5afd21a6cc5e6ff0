---------------------------- MODULE AcqBufQueue ----------------------------
(***************************************************************************)
(* AcqBufQueue of src/CtrlrFx/AcqBufQueue.h, as its one client in the      *)
(* repository uses it, examples/data/AcqDemo: a ring of MsgQueues, each    *)
(* with room for all buffers, the first filled with empty ones, and one    *)
(* thread between each queue and the next.  The first thread fills a       *)
(* buffer, the last empties it.  The queues are the bounded FIFOs that     *)
(* MsgQueue implements.  clear() and release() call members that MsgQueue  *)
(* does not have; threads here come to no end.                             *)
(***************************************************************************)
EXTENDS Integers, Sequences, SequencesExt

CONSTANTS AqQues,     \* nque: queues, and threads
          AqBufs,     \* nbuf: buffers, and the capacity of each queue
          AqMaxFrames \* bound: frames acquired

ASSUME AqBounds == AqQues \in Nat \ {0, 1} /\ {AqBufs, AqMaxFrames} \subseteq Nat

VARIABLES aqQue,      \* by queue: buffers
          aqHand,     \* by thread: its buffer, or 0
          aqData,     \* by buffer: the frame in it and how many threads worked on it
          aqFrames,   \* frames acquired
          aqDone      \* the frames the last thread has finished with

aqVars == <<aqQue, aqHand, aqData, aqFrames, aqDone>>

AqStage == 0..(AqQues - 1)
AqAll == 1..AqBufs
AqBlank == [frame |-> 0, work |-> 0]

\* resize(nque, nbuf, sz): fresh queues, and the buffers put into the first.
AqInit == /\ aqQue = [s \in AqStage |-> IF s = 0 THEN [i \in AqAll |-> i] ELSE << >>]
          /\ aqHand = [s \in AqStage |-> 0]
          /\ aqData = [b \in AqAll |-> AqBlank]
          /\ aqFrames = 0 /\ aqDone = << >>

\* get() from the thread's own queue.
AqGet(s) == /\ aqHand[s] = 0 /\ aqQue[s] # << >>
            /\ s = 0 => aqFrames < AqMaxFrames
            /\ aqHand' = [aqHand EXCEPT ![s] = Head(aqQue[s])]
            /\ aqQue' = [aqQue EXCEPT ![s] = Tail(@)]
            /\ UNCHANGED <<aqData, aqFrames, aqDone>>

AqRoom(s) == Len(aqQue[s]) < AqBufs

\* Bug seeded: the thread puts the buffer on before it works on it.
AqPassUnworked(s) ==
  LET next == (s + 1) % AqQues IN
  /\ aqHand[s] # 0 /\ AqRoom(next)
  /\ aqQue' = [aqQue EXCEPT ![next] = Append(@, aqHand[s])]
  /\ aqHand' = [aqHand EXCEPT ![s] = 0]
  /\ IF s = 0 THEN aqFrames' = aqFrames + 1 ELSE UNCHANGED aqFrames
  /\ IF s = AqQues - 1 THEN aqDone' = Append(aqDone, aqData[aqHand[s]]) ELSE UNCHANGED aqDone
  /\ UNCHANGED aqData

\* Bug seeded: the last thread keeps the empty buffer for itself.
AqPassLost(s) ==
  LET b == aqHand[s] IN
  /\ b # 0
  /\ aqQue' = IF s = AqQues - 1 THEN aqQue ELSE [aqQue EXCEPT ![s + 1] = Append(@, b)]
  /\ aqHand' = [aqHand EXCEPT ![s] = 0]
  /\ IF s = 0 THEN aqFrames' = aqFrames + 1 ELSE UNCHANGED aqFrames
  /\ IF s = AqQues - 1 THEN aqDone' = Append(aqDone, aqData[b]) ELSE UNCHANGED aqDone
  /\ UNCHANGED aqData

\* Work on the buffer, in place, and put() into the next queue; the first
\* thread clears and fills, the last takes the frame out.
AqPass(s) ==
  LET next == (s + 1) % AqQues
      b == aqHand[s]
      worked == IF s = 0 THEN [frame |-> aqFrames + 1, work |-> 1]
                ELSE [aqData[b] EXCEPT !.work = @ + 1]
  IN /\ b # 0 /\ AqRoom(next)
     /\ aqQue' = [aqQue EXCEPT ![next] = Append(@, b)]
     /\ aqHand' = [aqHand EXCEPT ![s] = 0]
     /\ aqData' = [aqData EXCEPT ![b] = worked]
     /\ IF s = 0 THEN aqFrames' = aqFrames + 1 ELSE UNCHANGED aqFrames
     /\ IF s = AqQues - 1 THEN aqDone' = Append(aqDone, worked) ELSE UNCHANGED aqDone

AqNext == \E s \in AqStage : AqGet(s) \/ AqPass(s)

\* Every thread runs; no two wait for one queue.
AqFairness == \A s \in AqStage : WF_aqVars(AqGet(s)) /\ WF_aqVars(AqPass(s))

AqSpec == AqInit /\ [][AqNext]_aqVars /\ AqFairness

-----------------------------------------------------------------------------

\* The frames come out of the last stage complete, each once and in order,
\* although no thread waits for another except at the queues.
AqInOrder == \A i \in 1..Len(aqDone) : aqDone[i] = [frame |-> i, work |-> AqQues]

\* A buffer is in one queue or one thread's hands, so a put never waits, and
\* no thread writes into a buffer another one has.
AqOneHolder ==
  /\ \A b \in AqAll : LET places == {s \in AqStage : aqHand[s] = b}
                          queues == {s \in AqStage : b \in ToSet(aqQue[s])}
                      IN \E p \in AqStage : \/ places = {p} /\ queues = {}
                                            \/ queues = {p} /\ places = {}
  /\ \A s \in AqStage : Len(aqQue[s]) = AqBufs => \A t \in AqStage : aqHand[t] = 0

\* Once frames are acquired, all there are to come come out at the other end: the
\* buffers go round, and the ring of queues never jams.
AqFlows == aqFrames > 0 ~> Len(aqDone) = AqMaxFrames
=============================================================================
