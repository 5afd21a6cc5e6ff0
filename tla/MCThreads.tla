------------------------------ MODULE MCThreads ------------------------------
(***************************************************************************)
(* The parts where several threads may come to wait for ever, side by      *)
(* side: in each behaviour one part moves, chosen at the start, and the    *)
(* others rest.  The fairness of a part is that of its own module, asked   *)
(* of it only in the behaviours in which it moves.                         *)
(***************************************************************************)
EXTENDS RdWrLock, Thread, QueueThread, Pools, AcqBufQueue, Transfer

VARIABLE part

Parts == {"rdwr", "thread", "quethread", "pools", "frames", "transfer"}

\* Where a resting part has several initial states it takes one of them.
AtRest == /\ part # "pools" => plCap = 0
          /\ part # "transfer" => trKind = "device"

MCInit == /\ part \in Parts
          /\ Init /\ ThInit /\ QtInit /\ PlInit /\ AqInit /\ TrInit
          /\ AtRest

MCNext ==
  /\ UNCHANGED part
  /\ IF part = "rdwr" THEN Next ELSE UNCHANGED vars
  /\ IF part = "thread" THEN ThNext ELSE UNCHANGED thVars
  /\ IF part = "quethread" THEN QtNext ELSE UNCHANGED qtVars
  /\ IF part = "pools" THEN PlNext ELSE UNCHANGED plVars
  /\ IF part = "frames" THEN AqNext ELSE UNCHANGED aqVars
  /\ IF part = "transfer" THEN TrNext ELSE UNCHANGED trVars

RdWrFair == \A t \in Threads : /\ WF_vars(part = "rdwr" /\ Retry(t))
                               /\ WF_vars(part = "rdwr" /\ RdUnlock(t))
                               /\ WF_vars(part = "rdwr" /\ WrUnlock(t))

ThreadFair == /\ WF_thVars(part = "thread" /\ Startup)
              /\ WF_thVars(part = "thread" /\ Owner)
              /\ WF_thVars(part = "thread" /\ quit_ /\ RunReturns)

QueThreadFair == /\ WF_qtVars(part = "quethread" /\ QtGet)
                 /\ WF_qtVars(part = "quethread" /\ QtCheck)
                 /\ SF_qtVars(part = "quethread" /\ QtQuitPut)

PoolsFair == /\ \A c \in PlClients : /\ WF_plVars(part = "pools" /\ PlDone(c))
                                     /\ SF_plVars(part = "pools" /\ PlPut(c))
             /\ SF_plVars(part = "pools" /\ PlResizeGet)
             /\ SF_plVars(part = "pools" /\ PlResizePut)

FramesFair == \A s \in AqStage : /\ WF_aqVars(part = "frames" /\ AqGet(s))
                                 /\ WF_aqVars(part = "frames" /\ AqPass(s))

TransferFair ==
  /\ WF_trVars(part = "transfer" /\ TrWrite) /\ WF_trVars(part = "transfer" /\ TrWriteSome)
  /\ WF_trVars(part = "transfer" /\ TrWriteReturns) /\ WF_trVars(part = "transfer" /\ TrRead)
  /\ WF_trVars(part = "transfer" /\ TrReadSome) /\ WF_trVars(part = "transfer" /\ TrReadReturns)
  /\ WF_trVars(part = "transfer" /\ TrReadEnd) /\ WF_trVars(part = "transfer" /\ TrClose)
  /\ SF_trVars(part = "transfer" /\ TrTake)

MCSpec == /\ MCInit
          /\ [][MCNext]_<<part, vars, thVars, qtVars, plVars, aqVars, trVars>>
          /\ RdWrFair /\ ThreadFair /\ QueThreadFair /\ PoolsFair /\ FramesFair /\ TransferFair

-----------------------------------------------------------------------------

\* A pooled object and an acquisition buffer are in one place at any time; a
\* pool's constructor gives every buffer its size, and giving one back blocks
\* only behind the null pointers of release() or after a resize().
OneHolder == PlOnePlace /\ PlSized /\ PlPutBlocked /\ AqOneHolder

\* What one thread hands on to the next comes out in order, once, whole: the
\* messages of a QueueThread, the frames of the pipeline, the bytes of a transfer.
InOrder == QtNoPhantom /\ AqInOrder /\ TrInOrder /\ TrAllOrError

\* A resize of a pool that can end does, frames and bytes arrive.
Flows == PlResizeEnds /\ AqFlows /\ TrArrives
=============================================================================
