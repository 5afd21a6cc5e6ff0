------------------------------- MODULE Stack -------------------------------
(***************************************************************************)
(* Stack of src/CtrlrFx/Stack.h: a stack in a buffer of fixed size, with   *)
(* block push and pop that move what fits.  One task uses it; every        *)
(* operation is a step.  The k-th item accepted is the number k.  Whether  *)
(* the buffer is owned is not modelled.                                    *)
(***************************************************************************)
EXTENDS Integers, Sequences

CONSTANTS StMaxCap,    \* bound: the largest capacity
          StMaxItems   \* bound: items pushed in all

ASSUME StBounds == StMaxCap \in Nat /\ StMaxItems \in Nat

VARIABLES stSz, stCap, stBase,  \* sz_, cap_ and the memory, by offset
          stPushed,    \* items pushed so far
          stOut,       \* what the last pop took
          stBlock      \* what the last push accepted, up to the second pop after it

stVars == <<stSz, stCap, stBase, stPushed, stOut, stBlock>>

StTypeOK == /\ stCap \in 0..StMaxCap /\ stSz \in 0..stCap
            /\ stBase \in [0..(stCap - 1) -> 0..StMaxItems]
            /\ stPushed \in 0..StMaxItems

StInit == /\ stSz = 0 /\ stCap = 0 /\ stBase = << >>
          /\ stPushed = 0 /\ stOut = << >> /\ stBlock = << >>

StLeast(a, b) == IF a < b THEN a ELSE b

\* resize() and set(): other memory, nothing in it.
StSet(cap) == /\ stCap' = cap
              /\ stBase' = [i \in 0..(cap - 1) |-> 0]
              /\ stSz' = 0
              /\ stOut' = << >> /\ stBlock' = << >>
              /\ UNCHANGED stPushed

\* Bug seeded: a block that does not fit is pushed beyond cap_.
StPushBlockUnchecked(n) ==
  /\ stPushed + n <= StMaxItems
  /\ stSz' = stSz + n
  /\ stBase' = [i \in DOMAIN stBase |->
                  IF i >= stSz /\ i < stSz + n THEN stPushed + i - stSz + 1 ELSE stBase[i]]
  /\ stPushed' = stPushed + n
  /\ stBlock' = [i \in 1..n |-> stPushed + i]
  /\ stOut' = << >>
  /\ UNCHANGED stCap

\* push(buf, n): the first of the block that fit; push(v) is the case n = 1.
StPushBlock(n) ==
  LET m == StLeast(n, stCap - stSz) IN
  /\ stPushed + m <= StMaxItems
  /\ stSz' = stSz + m
  /\ stBase' = [i \in DOMAIN stBase |->
                  IF i >= stSz /\ i < stSz + m THEN stPushed + i - stSz + 1 ELSE stBase[i]]
  /\ stPushed' = stPushed + m
  /\ stBlock' = [i \in 1..m |-> stPushed + i]
  /\ stOut' = << >>
  /\ UNCHANGED stCap

\* Bug seeded: the block comes out top first.
StPopBlockReversed(n) ==
  LET m == StLeast(n, stSz) IN
  /\ stSz' = stSz - m
  /\ stOut' = [i \in 1..m |-> stBase[stSz - i]]
  /\ stBlock' = IF stOut = << >> THEN stBlock ELSE << >>
  /\ UNCHANGED <<stCap, stBase, stPushed>>

\* pop(buf, n): the top n, the topmost last; pop() and pop(p) are n = 1.
StPopBlock(n) ==
  LET m == StLeast(n, stSz) IN
  /\ stSz' = stSz - m
  /\ stOut' = [i \in 1..m |-> stBase[stSz - m + i - 1]]
  /\ stBlock' = IF stOut = << >> THEN stBlock ELSE << >>
  /\ UNCHANGED <<stCap, stBase, stPushed>>

StNext == \/ \E cap \in 0..StMaxCap : StSet(cap)
          \/ \E n \in 1..StMaxCap : StPushBlock(n) \/ StPopBlock(n)

StSpec == StInit /\ [][StNext]_stVars

-----------------------------------------------------------------------------

\* "When you push an array, then pop it, you get the same array back", also
\* when only part of it fitted; and items never pass each other: what is on
\* the stack is in the order of the pushes, with no item twice.
StLifo == /\ Len(stOut) > 0 /\ Len(stOut) = Len(stBlock) => stOut = stBlock
          /\ \A i, j \in 0..(stSz - 1) : i < j => stBase[i] < stBase[j]
          /\ \A i \in 0..(stSz - 1) : stBase[i] \in 1..stPushed
=============================================================================
