------------------------------ MODULE BinStream ------------------------------
(***************************************************************************)
(* An OutMemBinStream and an InMemBinStream (src/CtrlrFx/MemBinStream.h)   *)
(* over the same memory, the way a request or a reply is put together and  *)
(* taken apart: the streams' inserters and extractors                      *)
(* (src/CtrlrFx/BinStream.h, src/src/io/BinStream/BinStream.cpp), the      *)
(* buffer below them (BinStreamBuf.h, BinStreamBuf.cpp, MemBinStream.cpp)  *)
(* and their positioning.                                                  *)
(*                                                                         *)
(* A cell of the memory is a byte of a field of a value put by a call, a   *)
(* zero of alignment, or a byte of something older.  A position is the     *)
(* number of cells before the next pointer.                                *)
(***************************************************************************)
EXTENDS Integers, Sequences, FiniteSets

CONSTANTS BsCap,      \* the memory's size
          BsMaxCalls, \* bound: values put into it
          BsTypes     \* the types of values put

ASSUME BsBounds == BsCap \in Nat /\ BsMaxCalls \in Nat

VARIABLES bsAlign, bsSwap,  \* align_, swap_ of both streams
          bsMem,            \* the memory
          bsP, bsG,         \* pnext_ - pbegin_ and gnext_ - gbegin_
          bsCalls,          \* the values put: what, where from, good() after it
          bsRead,           \* which of them the reader comes to next, less one
          bsGot             \* what it got last: call, good(), value

bsVars == <<bsAlign, bsSwap, bsMem, bsP, bsG, bsCalls, bsRead, bsGot>>

BsOld == [call |-> 0, field |-> 0, byte |-> 0]
BsZero == [call |-> 0, field |-> 0, byte |-> 1]
BsNone == [call |-> 0, good |-> TRUE, value |-> << >>]

\* What an inserter comes down to: fields of some bytes, aligned and swapped
\* ("word") or not. A ByteBuffer goes as its length and its bytes.
BsFields == [byte    |-> <<[n |-> 1, word |-> FALSE]>>,
             int16   |-> <<[n |-> 2, word |-> TRUE]>>,
             int32   |-> <<[n |-> 4, word |-> TRUE]>>,
             float   |-> <<[n |-> 4, word |-> FALSE]>>,
             block   |-> <<[n |-> 3, word |-> FALSE]>>,
             empty   |-> <<[n |-> 2, word |-> TRUE], [n |-> 0, word |-> FALSE]>>,
             buffer  |-> <<[n |-> 2, word |-> TRUE], [n |-> 2, word |-> FALSE]>>]

ASSUME BsTypesOk ==
  BsTypes \subseteq {"byte", "int16", "int32", "float", "block", "empty", "buffer"}

BsCells(k, j, n) == [i \in 1..n |-> [call |-> k, field |-> j, byte |-> i]]
BsReversed(s) == [i \in 1..Len(s) |-> s[Len(s) + 1 - i]]
BsLeast(a, b) == IF a < b THEN a ELSE b

\* How many of n bytes there is room for, or are left, at pos. seekpos() can
\* have gone past the end.
BsThere(pos, n) == IF pos >= BsCap THEN 0 ELSE BsLeast(n, BsCap - pos)

\* palign() and galign(): single bytes up to a multiple of n, as far as they go.
BsAlignment(pos, n, word) ==
  IF bsAlign /\ word THEN pos + BsThere(pos, (n - (pos % n)) % n) ELSE pos

\* swap_bytes() of a word.
BsOrdered(s, word) == IF bsSwap /\ word THEN BsReversed(s) ELSE s

BsStored(mem, pos, s) ==
  [i \in 1..BsCap |-> IF i - pos \in 1..Len(s) THEN s[i - pos] ELSE mem[i]]

BsInit == /\ bsAlign \in BOOLEAN /\ bsSwap \in BOOLEAN
          /\ bsMem = [i \in 1..BsCap |-> BsOld]
          /\ bsP = 0 /\ bsG = 0
          /\ bsCalls = << >> /\ bsRead = 0 /\ bsGot = BsNone

-----------------------------------------------------------------------------
(* The writer.                                                             *)

BsZeros(s, start) ==
  BsStored(s.mem, s.pos, [i \in 1..(start - s.pos) |-> BsZero])

\* Bug seeded: the word is aligned after the room for it was looked at.
BsPutFieldEarly(s, k, j, f) ==
  LET start == BsAlignment(s.pos, f.n, f.word)
      all == BsOrdered(BsCells(k, j, f.n), f.word)
  IN [mem  |-> BsStored(BsZeros(s, start), start, all),
      pos  |-> start + BsThere(start, f.n),
      good |-> BsThere(s.pos, f.n) = f.n]

\* Bug seeded: insert() swaps, and aligns after it what it did not swap.
BsPutFieldHost(s, k, j, f) ==
  LET start == BsAlignment(s.pos, f.n, f.word)
  IN [mem  |-> BsStored(BsZeros(s, start), start, BsCells(k, j, f.n)),
      pos  |-> start + BsThere(start, f.n),
      good |-> BsThere(start, f.n) = f.n]

\* insert() or write(): as much as there is room for, from the (aligned)
\* position; good() when that is all of it, whatever it was before.
BsPutField(s, k, j, f) ==
  LET start == BsAlignment(s.pos, f.n, f.word)
      all == BsOrdered(BsCells(k, j, f.n), f.word)
  IN [mem  |-> BsStored(BsZeros(s, start), start, all),
      pos  |-> start + BsThere(start, f.n),
      good |-> BsThere(start, f.n) = f.n]

BsPutAll(k, t) ==
  LET one == BsPutField([mem |-> bsMem, pos |-> bsP, good |-> TRUE], k, 1, BsFields[t][1])
  IN IF Len(BsFields[t]) = 1 THEN one ELSE BsPutField(one, k, 2, BsFields[t][2])

BsUnread == bsGot' = BsNone /\ UNCHANGED <<bsAlign, bsSwap, bsG, bsRead>>

\* operator<<, put() and write().
BsPut(t) ==
  LET k == Len(bsCalls) + 1
      after == BsPutAll(k, t)
  IN /\ Len(bsCalls) < BsMaxCalls
     /\ bsMem' = after.mem
     /\ bsP' = after.pos
     /\ bsCalls' = Append(bsCalls, [type |-> t, at |-> bsP, good |-> after.good])
     /\ BsUnread

\* seekpos() ahead: leaves out what is there and is not checked against the end.
BsSeekOn == /\ \E pos \in (bsP + 1)..(BsCap + 1) : bsP' = pos
            /\ UNCHANGED <<bsMem, bsCalls>> /\ BsUnread

\* seekoff(off, cur) or (off, end) in range; out of range nothing moves.
BsSeekOff == /\ \E pos \in 0..BsCap : pos > bsP /\ bsP' = pos
             /\ UNCHANGED <<bsMem, bsCalls>> /\ BsUnread

\* Back to where the k-th value began, to put others there: only while the
\* reader has not come to them. What was there is old.
BsSeekBack(k) ==
  /\ bsRead < k
  /\ bsP' = bsCalls[k].at
  /\ bsMem' = [i \in 1..BsCap |-> IF i > bsP' THEN BsOld ELSE bsMem[i]]
  /\ bsCalls' = SubSeq(bsCalls, 1, k - 1)
  /\ BsUnread

\* Both streams' reset(), for the next message.
BsReset == /\ bsP' = 0 /\ bsG' = 0
           /\ bsMem' = [i \in 1..BsCap |-> BsOld]
           /\ bsCalls' = << >> /\ bsRead' = 0 /\ bsGot' = BsNone
           /\ UNCHANGED <<bsAlign, bsSwap>>

-----------------------------------------------------------------------------
(* The reader.                                                             *)

\* extract() or get(): as much as is left, from the (aligned) position.
BsGetField(pos, f) ==
  LET start == BsAlignment(pos, f.n, f.word)
      there == BsThere(start, f.n)
  IN [pos   |-> start + there,
      good  |-> there = f.n,
      value |-> BsOrdered(SubSeq(bsMem, start + 1, start + there), f.word)]

BsCome == bsRead < Len(bsCalls) /\ bsG = bsCalls[bsRead + 1].at

BsGot(got) == /\ bsG' = got.pos
              /\ bsRead' = bsRead + 1
              /\ bsGot' = [call |-> bsRead + 1, good |-> got.good, value |-> got.value]
              /\ UNCHANGED <<bsAlign, bsSwap, bsMem, bsP, bsCalls>>

\* operator>>, get() and read() of a value of one field.
BsGet == /\ BsCome
         /\ LET fields == BsFields[bsCalls[bsRead + 1].type]
            IN Len(fields) = 1 /\ BsGot(BsGetField(bsG, fields[1]))

\* operator>>(ByteBuffer&): as many bytes as the length says. A length that is
\* not read whole is not looked at by the code: such a read is left out.
BsGetBuffer ==
  /\ BsCome
  /\ LET fields == BsFields[bsCalls[bsRead + 1].type]
         length == BsGetField(bsG, fields[1])
         k == length.value[1].call
         n == IF k > 0 /\ length.value = BsCells(k, 1, 2)
              THEN BsFields[bsCalls[k].type][2].n ELSE 0
         bytes == BsGetField(length.pos, [n |-> n, word |-> FALSE])
     IN /\ Len(fields) = 2
        /\ length.good
        /\ BsGot([bytes EXCEPT !.value = length.value \o bytes.value])

\* seekg() to where the k-th value was put, told by tellp().
BsSeekTo(k) == /\ bsG' = bsCalls[k].at /\ bsRead' = k - 1
               /\ bsGot' = BsNone
               /\ UNCHANGED <<bsAlign, bsSwap, bsMem, bsP, bsCalls>>

\* unget() of a byte that was got.
BsUnget == /\ bsRead > 0 /\ bsCalls[bsRead].type = "byte" /\ bsCalls[bsRead].good
           /\ bsG = bsCalls[bsRead].at + 1
           /\ bsG' = bsG - 1 /\ bsRead' = bsRead - 1
           /\ bsGot' = BsNone
           /\ UNCHANGED <<bsAlign, bsSwap, bsMem, bsP, bsCalls>>

BsNext == \/ \E t \in BsTypes : BsPut(t)
          \/ BsSeekOn \/ BsSeekOff
          \/ \E k \in DOMAIN bsCalls : BsSeekBack(k) \/ BsSeekTo(k)
          \/ BsReset \/ BsGet \/ BsGetBuffer \/ BsUnget

BsSpec == BsInit /\ [][BsNext]_bsVars

-----------------------------------------------------------------------------

BsWhole(k) == LET fields == BsFields[bsCalls[k].type] IN
  IF Len(fields) = 1 THEN BsCells(k, 1, fields[1].n)
                     ELSE BsCells(k, 1, fields[1].n) \o BsCells(k, 2, fields[2].n)

\* What is got is what was put, of every type, at any alignment, swapped or
\* not, after any positioning of either stream; and a read fails exactly if the
\* write at that place did.
BsRoundTrip == bsGot.call \in DOMAIN bsCalls =>
  /\ bsGot.good = bsCalls[bsGot.call].good
  /\ bsGot.good => bsGot.value = BsWhole(bsGot.call)

\* The stream is good after an insertion exactly if all of the value is in the
\* memory, except for an empty buffer: the write of its no bytes makes the
\* stream good again when its length did not go in.
BsStateTells == \A k \in DOMAIN bsCalls :
  bsCalls[k].type # "empty" =>
    (bsCalls[k].good <=> \A i \in DOMAIN BsWhole(k) :
                            \E c \in 1..BsCap : bsMem[c] = BsWhole(k)[i])

\* The two streams agree on every value, and the state says whether it is there.
BsAgrees == BsRoundTrip /\ BsStateTells
=============================================================================
