------------------------------ MODULE Buffers ------------------------------
(***************************************************************************)
(* Two buffers in use: "heap", a Buffer (src/CtrlrFx/Buffer.h) that may    *)
(* own its memory, and "fixed", a FixedBuffer (FixedBuffer.h) of BfFixed   *)
(* cells.  They are written, flipped, read and copied to each other.  The  *)
(* k-th item put is the number k, 0 is a cell nobody wrote.                *)
(*                                                                         *)
(* The client does what the header asks: it puts and gets single items     *)
(* only when there is room (the header's @todo), goes back to a mark only  *)
(* while that is one, and gives a destroyed buffer new memory before it    *)
(* uses it again.                                                          *)
(***************************************************************************)
EXTENDS Buffer, FiniteSets

CONSTANTS BfMaxCap,    \* bound: largest capacity of the heap buffer
          BfFixed,     \* N of the FixedBuffer
          BfMaxItems,  \* bound: items put in all
          BfBlocks,    \* heap blocks
          BfArrayAt    \* the address of the client's array, in items

ASSUME BfBounds == /\ BfMaxCap \in Nat /\ BfFixed \in Nat /\ BfMaxItems \in Nat
                   /\ BfArrayAt \in Nat \ {0}

VARIABLES bfBuf,     \* the two buffers
          bfMode,    \* by buffer: "write" or "read", as its user uses it
          bfLog,     \* by buffer: the items that belong in it, from base_ on
          bfMarked,  \* by buffer: the mark is one its user can go back to
          bfBase, bfOwn,  \* the heap buffer's memory
          bfLive,    \* heap blocks not deleted
          bfSent     \* items put in all

bfVars == <<bfBuf, bfMode, bfLog, bfMarked, bfBase, bfOwn, bfLive, bfSent>>
bfHeap == <<bfBase, bfOwn, bfLive>>

BfNames == {"heap", "fixed"}
BfJunk(n) == [i \in 1..n |-> 0]

BfInit == /\ bfBuf = [o \in BfNames |-> BuNew(BfJunk(IF o = "heap" THEN 0 ELSE BfFixed), 0)]
          /\ bfMode = [o \in BfNames |-> "write"]
          /\ bfLog = [o \in BfNames |-> << >>]
          /\ bfMarked = [o \in BfNames |-> TRUE]
          /\ bfBase = "null" /\ bfOwn = FALSE /\ bfLive = {}
          /\ bfSent = 0

-----------------------------------------------------------------------------
(* Memory of the heap buffer.                                              *)

\* Bug seeded: nothing is deleted.
BfDeallocNever == bfLive

\* dealloc(): what is live afterwards.
BfDealloc == IF bfOwn THEN bfLive \ {bfBase} ELSE bfLive

BfFresh(b, log, mode) == /\ bfBuf' = [bfBuf EXCEPT !["heap"] = b]
                         /\ bfLog' = [bfLog EXCEPT !["heap"] = log]
                         /\ bfMode' = [bfMode EXCEPT !["heap"] = mode]
                         /\ UNCHANGED bfSent

\* resize(cap): the old memory goes first, then the new comes.
BfResize(cap) == \E m \in BfBlocks \ BfDealloc :
                   /\ bfBase' = m /\ bfOwn' = TRUE
                   /\ bfLive' = BfDealloc \cup {m}
                   /\ BfFresh(BuNew(BfJunk(cap), 0), << >>, "write")
                   /\ bfMarked' = [bfMarked EXCEPT !["heap"] = TRUE]

\* assign(arr, sz, cap, own), with an array that already holds one new item:
\* the client's own, or one from the heap.
BfAssign(cap) == /\ cap > 0 /\ bfSent < BfMaxItems
                 /\ \/ /\ bfBase' = "array" /\ bfOwn' = FALSE /\ bfLive' = BfDealloc
                    \/ \E m \in BfBlocks \ bfLive :
                         /\ bfBase' = m /\ bfOwn' = TRUE
                         /\ bfLive' = BfDealloc \cup {m}
                 /\ bfBuf' = [bfBuf EXCEPT !["heap"] =
                       BuNew([i \in 1..cap |-> IF i = 1 THEN bfSent + 1 ELSE 0], 1)]
                 /\ bfLog' = [bfLog EXCEPT !["heap"] = <<bfSent + 1>>]
                 /\ bfMode' = [bfMode EXCEPT !["heap"] = "write"]
                 /\ bfMarked' = [bfMarked EXCEPT !["heap"] = TRUE]
                 /\ bfSent' = bfSent + 1

\* What lim_, end_, pos_ and mark_ are as offsets once they are null and base_ is
\* not: capacity() and size() return such a number as a huge size_t.
BfGone == [mem |-> << >>, cap |-> -BfArrayAt, pos |-> -BfArrayAt,
           lim |-> -BfArrayAt, mark |-> -BfArrayAt]

\* destroy() and the destructor: memory that is not owned stays in base_, and
\* the other pointers are null.
BfDestroy == /\ bfLive' = BfDealloc
             /\ bfBase' = IF bfOwn THEN "null" ELSE bfBase
             /\ bfOwn' = FALSE
             /\ BfFresh(IF bfOwn \/ bfBase = "null" THEN BuNew(<< >>, 0) ELSE BfGone,
                        << >>, "write")
             /\ bfMarked' = [bfMarked EXCEPT !["heap"] = TRUE]

-----------------------------------------------------------------------------
(* Use.                                                                    *)

\* "The buffer object can only be reused if new memory is assigned to it."
BfUsable(o) == bfBuf[o].cap >= 0

BfUse(o, b, log) == /\ BfUsable(o)
                    /\ bfBuf' = [bfBuf EXCEPT ![o] = b]
                    /\ bfLog' = [bfLog EXCEPT ![o] = log]
                    /\ UNCHANGED bfHeap

BfItems(n) == [i \in 1..n |-> bfSent + i]

\* put(v) with room, and put(arr, n) which looks for itself.
BfPut(o, n) ==
  /\ bfMode[o] = "write" /\ bfSent + n <= BfMaxItems
  /\ n = 1 => BuFits(bfBuf[o], 1)
  /\ LET b == BuPut(bfBuf[o], BfItems(n)) IN
     BfUse(o, b, IF b.pos = bfBuf[o].pos THEN bfLog[o]
                 ELSE SubSeq(bfLog[o], 1, bfBuf[o].pos) \o BfItems(n))
  /\ bfSent' = bfSent + n
  /\ UNCHANGED <<bfMode, bfMarked>>

BfFill(o) ==
  /\ bfMode[o] = "write" /\ bfSent < BfMaxItems
  /\ BfUse(o, BuFill(bfBuf[o], bfSent + 1),
           SubSeq(bfLog[o], 1, bfBuf[o].pos)
             \o [i \in 1..BuAvailable(bfBuf[o]) |-> bfSent + 1])
  /\ bfSent' = bfSent + 1
  /\ UNCHANGED <<bfMode, bfMarked>>

\* get(p) and get(arr, n), all or nothing.
BfGet(o, n) == /\ bfMode[o] = "read"
               /\ BfUse(o, BuGet(bfBuf[o], n), bfLog[o])
               /\ UNCHANGED <<bfMode, bfMarked, bfSent>>

BfFlip(o) == /\ bfMode[o] = "write"
             /\ BfUse(o, BuFlip(bfBuf[o]), SubSeq(bfLog[o], 1, bfBuf[o].pos))
             /\ bfMode' = [bfMode EXCEPT ![o] = "read"]
             /\ bfMarked' = [bfMarked EXCEPT ![o] = TRUE]
             /\ UNCHANGED bfSent

\* clear() and clear(sz).
BfClear(o, sz) == /\ BfUse(o, BuClear(bfBuf[o], sz), << >>)
                  /\ bfMode' = [bfMode EXCEPT ![o] = "write"]
                  /\ bfMarked' = [bfMarked EXCEPT ![o] = TRUE]
                  /\ UNCHANGED bfSent

\* reserve(n): the last n cells are kept free, of those not written yet.
BfReserve(o, n) == /\ bfMode[o] = "write" /\ n <= bfBuf[o].cap - bfBuf[o].pos
                   /\ BfUse(o, BuReserve(bfBuf[o], n),
                            SubSeq(bfLog[o], 1, bfBuf[o].pos))
                   /\ bfMarked' = [bfMarked EXCEPT ![o] = bfBuf[o].mark <= bfBuf[o].cap - n]
                   /\ UNCHANGED <<bfMode, bfSent>>

BfMark(o) == /\ BfUse(o, BuMark(bfBuf[o]), bfLog[o])
             /\ bfMarked' = [bfMarked EXCEPT ![o] = TRUE]
             /\ UNCHANGED <<bfMode, bfSent>>

\* reset() and rewind(), reading again or writing again from there.
BfReset(o) == /\ \/ bfMarked[o] /\ BfUse(o, BuReset(bfBuf[o]), bfLog[o])
                                /\ UNCHANGED bfMarked
                 \/ /\ BfUse(o, BuRewind(bfBuf[o]), bfLog[o])
                    /\ bfMarked' = [bfMarked EXCEPT ![o] = TRUE]
              /\ UNCHANGED <<bfMode, bfSent>>

\* compact(), while reading: the mark is none until it is set again.
BfCompact(o) == /\ bfMode[o] = "read"
                /\ BfUse(o, BuCompact(bfBuf[o]),
                         SubSeq(bfLog[o], bfBuf[o].pos + 1, Len(bfLog[o])))
                /\ bfMarked' = [bfMarked EXCEPT ![o] = @ /\ bfBuf[o].pos = 0]
                /\ UNCHANGED <<bfMode, bfSent>>

-----------------------------------------------------------------------------
(* Copies.                                                                 *)

BfCopied(o, from) == /\ bfLog' = [bfLog EXCEPT ![o] = bfLog[from]]
                     /\ bfMode' = [bfMode EXCEPT ![o] = bfMode[from]]
                     /\ bfMarked' = [bfMarked EXCEPT ![o] = bfMarked[from]]
                     /\ UNCHANGED bfSent

\* operator= and the copy constructor of a Buffer: new memory of the same
\* capacity, then the copy.
BfCopyFixed == \E m \in BfBlocks \ BfDealloc :
                 /\ bfBase' = m /\ bfOwn' = TRUE
                 /\ bfLive' = BfDealloc \cup {m}
                 /\ bfBuf' = [bfBuf EXCEPT !["heap"] =
                       BuCopyOf(BuNew(BfJunk(bfBuf["fixed"].cap), 0), bfBuf["fixed"])]
                 /\ BfCopied("heap", "fixed")

\* operator= of a FixedBuffer: into the memory it has, or nothing.
BfCopyHeap == /\ BfUsable("heap")
              /\ bfBuf' = [bfBuf EXCEPT !["fixed"] = BuCopyOf(@, bfBuf["heap"])]
              /\ IF bfBuf["heap"].lim <= BfFixed THEN BfCopied("fixed", "heap")
                 ELSE UNCHANGED <<bfLog, bfMode, bfMarked, bfSent>>
              /\ UNCHANGED bfHeap

BfNext == \/ \E c \in 0..BfMaxCap : BfResize(c) \/ BfAssign(c)
          \/ BfDestroy \/ BfCopyFixed \/ BfCopyHeap
          \/ \E o \in BfNames :
               \/ \E n \in 1..BfMaxCap : BfPut(o, n) \/ BfGet(o, n) \/ BfClear(o, n)
                                      \/ BfReserve(o, n)
               \/ BfFill(o) \/ BfFlip(o) \/ BfMark(o) \/ BfReset(o) \/ BfCompact(o)

BfSpec == BfInit /\ [][BfNext]_bfVars

-----------------------------------------------------------------------------

\* The pointers of a buffer that has memory, or never had, are in order: nothing
\* in the interface, used as the header asks, takes the position past the limit
\* or the limit past the memory. The unchecked put(v) and get() rely on it.
\* After destroy() of memory that is not owned they are not, although Buffer.h:123
\* says that "The buffer will will be left with a zero capacity": see BfGone.
BfPointers == \A o \in BfNames : BfUsable(o) =>
  /\ 0 <= bfBuf[o].pos /\ bfBuf[o].pos <= bfBuf[o].lim /\ bfBuf[o].lim <= bfBuf[o].cap
  /\ bfMarked[o] => bfBuf[o].mark \in 0..bfBuf[o].lim

\* A buffer holds what was put into it, or into the buffer it was copied from,
\* in order, whatever was done to either since.
BfHolds == \A o \in BfNames : BfUsable(o) =>
  /\ \A i \in 1..Len(bfLog[o]) : bfBuf[o].mem[i] = bfLog[o][i]
  /\ bfMode[o] = "read" => Len(bfLog[o]) = bfBuf[o].lim

\* A buffer deletes the memory it owns, once, and no other.
BfOwns == bfLive = IF bfOwn THEN {bfBase} ELSE {}

\* A buffer keeps what was put into it, between pointers that stay in order,
\* until destroy() takes its memory and again once it has new memory.
BfKeeps == BfPointers /\ BfHolds
=============================================================================
