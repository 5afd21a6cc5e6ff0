----------------------------- MODULE CircQueue -----------------------------
(***************************************************************************)
(* CircQueue of src/CtrlrFx/CircQueue.h, used as its header says it is     *)
(* meant to be: data goes in or out of an interrupt routine while a        *)
(* background task works the other end.  The interrupt routine runs to its *)
(* end between two steps of the background task, so its put and get are    *)
(* single steps; a background operation takes a step for each access to    *)
(* what the other side writes.                                             *)
(*                                                                         *)
(* Pointers are offsets from base_, end_ is cqCap.  A put or get of one    *)
(* item is the block operation with n = 1: full() is remaining() = 0.  The *)
(* specialisations for bytes copy with memcpy and wrap the same way.  The  *)
(* k-th item put is the number k.  Statements are taken in program order,  *)
(* which the code leaves to the compiler (nothing is volatile).            *)
(***************************************************************************)
EXTENDS Integers, Sequences

CONSTANTS CqMaxCap,    \* bound: the largest capacity
          CqMaxItems,  \* bound: items put in all
          CqBlocks     \* heap blocks: two are enough, an old and a new one

ASSUME CqBounds == CqMaxCap \in Nat \ {0} /\ CqMaxItems \in Nat

VARIABLES cqBase, cqCap, cqOwn, \* the memory, its size, whether it is owned
          cqRing,      \* its contents, by offset
          cqPut, cqGet,
          cqLive,      \* heap blocks that were the queue's to delete and live on
          cqUntaken,   \* those of them that came with a capacity of zero
          cqIsr,       \* the end the interrupt routine works: "put" or "get"
          cqOp,        \* the background task's operation
          cqSent, cqTaken, \* items put, items got
          cqGot        \* what the last get returned

cqMemory == <<cqBase, cqCap, cqOwn, cqLive, cqUntaken, cqIsr>>
cqVars == <<cqMemory, cqRing, cqPut, cqGet, cqOp, cqSent, cqTaken, cqGot>>

CqIdle == [at |-> "idle", n |-> 0, buf |-> << >>]

CqTypeOK ==
  /\ cqBase \in CqBlocks \cup {"null", "static"}
  /\ cqCap \in 0..CqMaxCap
  /\ cqOwn \in BOOLEAN
  /\ cqRing \in [0..(cqCap - 1) -> 0..CqMaxItems]
  /\ cqPut \in 0..cqCap /\ cqGet \in 0..cqCap
  /\ cqLive \subseteq CqBlocks /\ cqUntaken \subseteq CqBlocks
  /\ cqIsr \in {"put", "get"}
  /\ cqOp.at \in {"idle", "put.copy", "get.size", "get.copy"}
  /\ cqSent \in 0..CqMaxItems /\ cqTaken \in 0..cqSent

-----------------------------------------------------------------------------
(* Pointer arithmetic.                                                     *)

\* size(): the signed difference of the pointers, made positive.
CqSize == IF cqPut >= cqGet THEN cqPut - cqGet ELSE cqPut - cqGet + cqCap

\* Bug seeded: the slot kept free for the comparison is not counted.
CqRemainingAll == cqCap - CqSize

\* remaining(): one slot stays free to tell full from empty.
CqRemaining == cqCap - CqSize - 1

\* The pointer after a block of n: nwrap is end_ - p, and wraps for n = nwrap.
CqAdvance(p, n) == IF n < cqCap - p THEN p + n ELSE n - (cqCap - p)

CqLeast(a, b) == IF a < b THEN a ELSE b

-----------------------------------------------------------------------------
(* The memory.  These run while neither side uses the queue.               *)

CqQuiet == cqOp = CqIdle

\* Bug seeded: nothing is deleted.
CqDeallocNever == cqLive

\* dealloc(): what is left to delete afterwards.
CqDealloc == IF cqOwn THEN cqLive \ {cqBase} ELSE cqLive

\* The queue is empty again, with other memory: what it held is lost.
CqEmptied(cap) == /\ cqCap' = cap
                  /\ cqRing' = [i \in 0..(cap - 1) |-> 0]
                  /\ cqPut' = 0 /\ cqGet' = 0
                  /\ cqTaken' = cqSent
                  /\ cqGot' = << >>
                  /\ UNCHANGED <<cqIsr, cqOp, cqSent>>

\* resize(cap), and the constructor with a capacity: new memory, owned, is
\* allocated before the old is deleted.
CqResize(cap) == /\ CqQuiet /\ cap > 0
                 /\ \E b \in CqBlocks \ cqLive :
                      /\ cqBase' = b
                      /\ cqLive' = CqDealloc \cup {b}
                 /\ cqOwn' = TRUE
                 /\ CqEmptied(cap)
                 /\ UNCHANGED cqUntaken

\* set(arr, cap, own), with static memory or with a block from the heap.
CqSet(cap) == /\ CqQuiet /\ cap > 0
              /\ \/ /\ cqBase' = "static" /\ cqOwn' = FALSE
                    /\ cqLive' = CqDealloc
                 \/ \E b \in CqBlocks \ cqLive :
                      /\ cqBase' = b /\ cqOwn' = TRUE
                      /\ cqLive' = CqDealloc \cup {b}
              /\ CqEmptied(cap)
              /\ UNCHANGED cqUntaken

\* set(arr, 0, true) is a destroy(): arr, which was to be the queue's, is let go.
CqSetEmpty == /\ CqQuiet
              /\ \E b \in CqBlocks \ cqLive :
                   /\ cqLive' = CqDealloc \cup {b}
                   /\ cqUntaken' = cqUntaken \cup {b}
              /\ cqBase' = "null" /\ cqOwn' = FALSE
              /\ CqEmptied(0)

\* destroy(), to which resize(0), set(arr, 0, false) and the destructor come down.
CqDestroy == /\ CqQuiet
             /\ cqLive' = CqDealloc
             /\ cqBase' = "null" /\ cqOwn' = FALSE
             /\ CqEmptied(0)
             /\ UNCHANGED cqUntaken

CqInit == /\ cqBase = "null" /\ cqCap = 0 /\ cqOwn = FALSE
          /\ cqLive = {} /\ cqUntaken = {}
          /\ cqRing = << >>
          /\ cqPut = 0 /\ cqGet = 0
          /\ cqIsr \in {"put", "get"}
          /\ cqOp = CqIdle
          /\ cqSent = 0 /\ cqTaken = 0 /\ cqGot = << >>

-----------------------------------------------------------------------------
(* The background task.  It may not use a queue without memory.            *)

\* A put reads get_ once, in remaining(), and learns how many it may copy.
CqPutRoom(n) == /\ CqQuiet /\ cqIsr = "get" /\ cqCap > 0
                /\ CqLeast(n, CqRemaining) > 0
                /\ cqSent + n <= CqMaxItems
                /\ cqOp' = [at |-> "put.copy", n |-> CqLeast(n, CqRemaining), buf |-> << >>]
                /\ UNCHANGED <<cqMemory, cqRing, cqPut, cqGet, cqSent, cqTaken, cqGot>>

\* The elements are copied one by one, buf counts them.
CqPutCopy == /\ cqOp.at = "put.copy" /\ Len(cqOp.buf) < cqOp.n
             /\ LET item == cqSent + Len(cqOp.buf) + 1 IN
                /\ cqRing' = [cqRing EXCEPT ![CqAdvance(cqPut, Len(cqOp.buf))] = item]
                /\ cqOp' = [cqOp EXCEPT !.buf = Append(@, item)]
             /\ UNCHANGED <<cqMemory, cqPut, cqGet, cqSent, cqTaken, cqGot>>

\* Bug seeded: put_ moves before the elements are there.
CqPutPublishEarly == /\ cqOp.at = "put.copy"
                     /\ cqPut' = CqAdvance(cqPut, cqOp.n)
                     /\ cqSent' = cqSent + cqOp.n
                     /\ cqOp' = CqIdle
                     /\ UNCHANGED <<cqMemory, cqRing, cqGet, cqTaken, cqGot>>

\* Moving put_ shows them to the other side, all at once.
CqPutPublish == /\ cqOp.at = "put.copy" /\ Len(cqOp.buf) = cqOp.n
                /\ cqPut' = CqAdvance(cqPut, cqOp.n)
                /\ cqSent' = cqSent + cqOp.n
                /\ cqOp' = CqIdle
                /\ UNCHANGED <<cqMemory, cqRing, cqGet, cqTaken, cqGot>>

\* A get reads put_ in empty(), and the block get again in size(): more may
\* have arrived in between.
CqGetTest(n) == /\ CqQuiet /\ cqIsr = "put" /\ cqCap > 0
                /\ cqPut # cqGet
                /\ cqOp' = [at |-> "get.size", n |-> n, buf |-> << >>]
                /\ UNCHANGED <<cqMemory, cqRing, cqPut, cqGet, cqSent, cqTaken, cqGot>>

CqGetSize == /\ cqOp.at = "get.size"
             /\ cqOp' = [cqOp EXCEPT !.at = "get.copy", !.n = CqLeast(@, CqSize)]
             /\ UNCHANGED <<cqMemory, cqRing, cqPut, cqGet, cqSent, cqTaken, cqGot>>

CqGetCopy == /\ cqOp.at = "get.copy" /\ Len(cqOp.buf) < cqOp.n
             /\ cqOp' = [cqOp EXCEPT !.buf =
                           Append(@, cqRing[CqAdvance(cqGet, Len(@))])]
             /\ UNCHANGED <<cqMemory, cqRing, cqPut, cqGet, cqSent, cqTaken, cqGot>>

\* Moving get_ gives the slots back.
CqGetPublish == /\ cqOp.at = "get.copy" /\ Len(cqOp.buf) = cqOp.n
                /\ cqGet' = CqAdvance(cqGet, cqOp.n)
                /\ cqTaken' = cqTaken + cqOp.n
                /\ cqGot' = cqOp.buf
                /\ cqOp' = CqIdle
                /\ UNCHANGED <<cqMemory, cqRing, cqPut, cqSent>>

-----------------------------------------------------------------------------
(* The interrupt routine, at any moment of the background task.            *)

CqIsrPut(n) ==
  LET m == CqLeast(n, CqRemaining)
      Slot(i) == CqAdvance(cqPut, i)
  IN /\ cqIsr = "put" /\ cqCap > 0 /\ m > 0
     /\ cqSent + n <= CqMaxItems
     /\ cqRing' = [s \in DOMAIN cqRing |->
                     IF \E i \in 0..(m - 1) : s = Slot(i)
                     THEN cqSent + 1 + CHOOSE i \in 0..(m - 1) : s = Slot(i)
                     ELSE cqRing[s]]
     /\ cqPut' = CqAdvance(cqPut, m)
     /\ cqSent' = cqSent + m
     /\ UNCHANGED <<cqMemory, cqGet, cqOp, cqTaken, cqGot>>

CqIsrGet(n) ==
  LET m == CqLeast(n, CqSize) IN
  /\ cqIsr = "get" /\ m > 0
  /\ cqGot' = [i \in 1..m |-> cqRing[CqAdvance(cqGet, i - 1)]]
  /\ cqGet' = CqAdvance(cqGet, m)
  /\ cqTaken' = cqTaken + m
  /\ UNCHANGED <<cqMemory, cqRing, cqPut, cqOp, cqSent>>

CqNext == \/ \E c \in 1..CqMaxCap : CqResize(c) \/ CqSet(c)
          \/ CqSetEmpty \/ CqDestroy
          \/ \E n \in 1..CqMaxCap : \/ CqPutRoom(n) \/ CqGetTest(n)
                                    \/ CqIsrPut(n) \/ CqIsrGet(n)
          \/ CqPutCopy \/ CqPutPublish
          \/ CqGetSize \/ CqGetCopy \/ CqGetPublish

CqSpec == CqInit /\ [][CqNext]_cqVars

-----------------------------------------------------------------------------
(* Properties.                                                             *)

\* The queue's promise to both sides, with no lock: size() is what was put and
\* not got, it leaves one slot free (CircQueue.h:127-128), and those items stand
\* in the ring in the order they were put.
CqHolds == cqCap > 0 =>
  /\ CqSize = cqSent - cqTaken
  /\ CqSize < cqCap
  /\ \A i \in 1..CqSize : cqRing[CqAdvance(cqGet, i - 1)] = cqTaken + i

\* What a get returned is what was put next, in order, with no item lost,
\* repeated or caught half written, whichever side the interrupt routine is.
CqDelivered == \A i \in 1..Len(cqGot) : cqGot[i] = cqTaken - Len(cqGot) + i

\* Every block the queue allocated, or was given with room for an item, is deleted
\* when the queue lets go of it, and no other memory is.  A block given to own
\* with a capacity of zero is the exception: set() returns before it takes it, although
\* CircQueue.h:102-103 says that the queue "should delete it on destruction".
CqMemoryKept == cqLive \ cqUntaken = IF cqOwn THEN {cqBase} ELSE {}

\* What the ring promises the interrupt routine and the background task, with no
\* lock between them: size and contents that agree with what was put and got
\* (CqHolds), and every item delivered once, whole and in order (CqDelivered).
\* It holds one item less than its capacity, as remaining()'s comment says
\* (CircQueue.h:127-128); CircQueueTest.cpp:80-99 expects one more.
CqInOrder == CqTypeOK /\ CqHolds /\ CqDelivered
=============================================================================
