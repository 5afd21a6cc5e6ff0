------------------------------ MODULE BufCodec ------------------------------
(***************************************************************************)
(* The encoders and decoders of src/CtrlrFx/BufCodec.h over a ByteBuffer,  *)
(* the buffer as in module Buffer: BinNativeEncoder/-Decoder, which the    *)
(* remote objects use, and BinSwapEncoder/-Decoder.  A message is encoded, *)
(* flipped and decoded by the same calls (module DistObjSrvr is about the  *)
(* messages; this one is about what a call does to the bytes).             *)
(*                                                                         *)
(* Byte j of the k-th value encoded is <<<<"value", k>>, j>>; the count    *)
(* before an array is the value <<"count", n>>.  A native decoder may also *)
(* be asked for more than the message holds.                               *)
(***************************************************************************)
EXTENDS Buffer

CONSTANTS BcCap,      \* bytes in the buffer
          BcArray,    \* bytes in an array that is encoded
          BcMaxCalls  \* bound: calls in a message

ASSUME BcBounds == BcCap \in Nat /\ BcArray \in Nat \ {0} /\ BcMaxCalls \in Nat

VARIABLES bcKind,   \* "native" or "swap"
          bcBuf, good_,
          bcMode,   \* "encode" or "decode"
          bcCalls,  \* the calls that made the message: their width, and whether they worked
          bcNext,   \* calls the decoder made
          bcBack,   \* calls made when the mark was set
          bcGot     \* which call the decoder made last, whether it worked, what it got

bcVars == <<bcKind, bcBuf, good_, bcMode, bcCalls, bcNext, bcBack, bcGot>>

\* Widths of the strict inserters: byte, bool and char, the 16 and the 32 bit
\* integers; and an array of bytes.
BcTypes == {"byte", "int16", "int32", "array"}
BcWidth(t) == CASE t = "byte" -> 1 [] t = "int16" -> 2 [] t = "int32" -> 4
                [] t = "array" -> BcArray
BcNone == [call |-> 0, ok |-> FALSE, cells |-> << >>]

BcJunk == <<<<"junk", 0>>, 0>>
BcBytes(v, w) == [j \in 1..w |-> <<v, j>>]
BcCountOf(n) == BcBytes(<<"count", n>>, 2)
BcReversed(cells) == [j \in 1..Len(cells) |-> cells[Len(cells) + 1 - j]]

\* What a value of type t that is the k-th of the message looks like to its user.
BcValue(k, t) == BcBytes(<<"value", k>>, BcWidth(t))

BcInit == /\ bcKind \in {"native", "swap"}
          /\ bcBuf = BuNew([i \in 1..BcCap |-> BcJunk], 0) /\ good_ = TRUE
          /\ bcMode = "encode"
          /\ bcCalls = << >> /\ bcNext = 0 /\ bcBack = 0 /\ bcGot = BcNone

-----------------------------------------------------------------------------
(* One call on a coder, a record of buffer and good_: c. The result is the *)
(* coder after it and what the call got or did.                            *)

BcCoder == [buf |-> bcBuf, good |-> good_]

\* Bug seeded: the encoder writes where it stands.
BcPutNativeUnaligned(c, cells) ==
  IF c.good THEN [buf |-> BuPut(c.buf, cells), good |-> BuFits(c.buf, Len(cells))]
  ELSE c

\* put(v): nothing on a bad coder; otherwise aligned to the width, whole or
\* not at all, and bad from then on if it did not fit. The alignment stays.
BcPutNative(c, cells) ==
  LET a == BuAlign(c.buf, Len(cells)) IN
  IF c.good THEN [buf |-> BuPut(a, cells), good |-> BuFits(a, Len(cells))] ELSE c

\* Bug seeded: an array that does not fit leaves the coder good.
BcPutArrayForgives(c, cells) ==
  LET counted == BcPutNative(c, BcCountOf(Len(cells))) IN
  IF counted.good THEN [counted EXCEPT !.buf = BuPut(counted.buf, cells)] ELSE counted

\* put(arr, n) of both encoders: the count, then the bytes, with no alignment
\* to speak of. A count whose bytes do not fit stays in the buffer.
BcPutArray(c, cells) ==
  LET counted == BcPutNative(c, BcCountOf(Len(cells))) IN
  IF counted.good
  THEN [buf |-> BuPut(counted.buf, cells), good |-> BuFits(counted.buf, Len(cells))]
  ELSE counted

\* put_swap2() and put_swap4(): no alignment, good_ neither read nor written.
BcPutSwap(c, cells) ==
  IF BuAvailable(c.buf) < Len(cells) THEN c
  ELSE [c EXCEPT !.buf = BuStored(c.buf, BcReversed(cells))]

BcPut(c, t, cells) ==
  IF t = "array" THEN BcPutArray(c, cells)
  ELSE IF bcKind = "native" \/ t = "byte" THEN BcPutNative(c, cells)
  ELSE BcPutSwap(c, cells)

\* get(p): the mirror of put(v). What it got is the third part.
BcGetNative(c, w) ==
  LET a == BuAlign(c.buf, w) IN
  IF ~c.good THEN [c |-> c, ok |-> FALSE, cells |-> << >>]
  ELSE [c |-> [buf |-> BuGet(a, w), good |-> BuFits(a, w)],
        ok |-> BuFits(a, w),
        cells |-> IF BuFits(a, w) THEN BuCells(a, w) ELSE << >>]

\* get(arr, n): as many as the count says, at most n.
BcGetArray(c, n) ==
  LET counted == BcGetNative(c, 2)
      nc == counted.cells[1][1][2]
      m == IF nc < n THEN nc ELSE n
      b == counted.c.buf
  IN IF ~counted.ok THEN counted
     ELSE [c |-> [buf |-> BuGet(b, m), good |-> BuFits(b, m)],
           ok |-> BuFits(b, m),
           cells |-> IF BuFits(b, m) THEN BuCells(b, m) ELSE << >>]

BcGetSwap(c, w) ==
  IF BuAvailable(c.buf) < w THEN [c |-> c, ok |-> FALSE, cells |-> << >>]
  ELSE [c |-> [c EXCEPT !.buf = BuMoved(c.buf, w)],
        ok |-> TRUE, cells |-> BcReversed(BuCells(c.buf, w))]

BcGet(c, t) ==
  IF t = "array" THEN BcGetArray(c, BcArray)
  ELSE IF bcKind = "native" \/ t = "byte" THEN BcGetNative(c, BcWidth(t))
  ELSE BcGetSwap(c, BcWidth(t))

-----------------------------------------------------------------------------
(* Encoding.                                                               *)

\* A call worked if its bytes are the last in the buffer. (A client of the
\* array call can tell from good_ only: put(arr, n) always returns 0.)
BcEncode(t) ==
  LET k == Len(bcCalls) + 1
      w == BcWidth(t)
      c == BcPut(BcCoder, t, BcValue(k, t))
      worked == /\ w <= c.buf.pos
                /\ SubSeq(c.buf.mem, c.buf.pos - w + 1, c.buf.pos)
                     \in {BcValue(k, t), BcReversed(BcValue(k, t))}
  IN /\ bcMode = "encode" /\ k <= BcMaxCalls
     /\ bcBuf' = c.buf /\ good_' = c.good
     /\ bcCalls' = Append(bcCalls, [type |-> t, ok |-> worked])
     /\ UNCHANGED <<bcKind, bcMode, bcNext, bcBack, bcGot>>

\* mark(), while all is well; reset() makes the coder good again and drops
\* what came after the mark.
BcMark == /\ good_
          /\ bcBuf' = BuMark(bcBuf)
          /\ bcBack' = IF bcMode = "encode" THEN Len(bcCalls) ELSE bcNext
          /\ UNCHANGED <<bcKind, good_, bcMode, bcCalls, bcNext, bcGot>>

\* What an encoder leaves behind when it goes back stays in memory: junk to
\* the message that is written over it.
BcForgotten(b) == [b EXCEPT !.mem = [i \in 1..b.cap |-> IF i <= b.pos THEN @[i] ELSE BcJunk]]

BcBackTo(b, n) == /\ good_' = TRUE /\ bcBack' = n
                  /\ IF bcMode = "encode"
                     THEN /\ bcBuf' = BcForgotten(b)
                          /\ bcCalls' = SubSeq(bcCalls, 1, n) /\ UNCHANGED bcNext
                     ELSE bcBuf' = b /\ bcNext' = n /\ UNCHANGED bcCalls
                  /\ bcGot' = BcNone
                  /\ UNCHANGED <<bcKind, bcMode>>

BcReset == BcBackTo(BuReset(bcBuf), bcBack)
BcRewind == BcBackTo(BuRewind(bcBuf), 0)

\* clear() of the encoder, or of the buffer with a size less than its
\* capacity (as DistObjSrvr does): a new message.
BcClear(sz) == /\ bcKind = "swap" => sz = BcCap
               /\ bcBuf' = BcForgotten(BuClear(bcBuf, sz)) /\ good_' = TRUE
               /\ bcMode' = "encode" /\ bcCalls' = << >> /\ bcNext' = 0 /\ bcBack' = 0
               /\ bcGot' = BcNone
               /\ UNCHANGED bcKind

\* The buffer is flipped and a decoder made for it.
BcFlip == /\ bcMode = "encode"
          /\ bcBuf' = BuFlip(bcBuf) /\ good_' = TRUE
          /\ bcMode' = "decode" /\ bcNext' = 0 /\ bcBack' = 0
          /\ UNCHANGED <<bcKind, bcCalls, bcGot>>

-----------------------------------------------------------------------------
(* Decoding.                                                               *)

\* The next call of those that made the message, or after all of them one
\* more. A swap decoder is not asked for more: once an alignment has taken
\* the position past the limit, its available() is a huge number.
BcDecode(t) ==
  LET g == BcGet(BcCoder, t) IN
  /\ bcMode = "decode"
  /\ IF bcNext < Len(bcCalls) THEN t = bcCalls[bcNext + 1].type
     ELSE bcKind = "native" /\ bcNext < BcMaxCalls
  /\ bcBuf' = g.c.buf /\ good_' = g.c.good
  /\ bcNext' = bcNext + 1
  /\ bcGot' = [call |-> bcNext', ok |-> g.ok, cells |-> g.cells]
  /\ UNCHANGED <<bcKind, bcMode, bcCalls, bcBack>>

BcNext == \/ \E t \in BcTypes : BcEncode(t) \/ BcDecode(t)
          \/ BcMark \/ BcReset \/ BcRewind \/ BcFlip
          \/ \E sz \in {BcCap - 3, BcCap} : BcClear(sz)

BcSpec == BcInit /\ [][BcNext]_bcVars

-----------------------------------------------------------------------------

\* The decoder gets from each call what the same call of the encoder gave, and
\* fails where that failed: the two agree on every alignment, on what a
\* refused value leaves behind and on the order of bytes.
BcRoundTrip == bcGot.call \in DOMAIN bcCalls =>
  /\ bcGot.ok = bcCalls[bcGot.call].ok
  /\ bcGot.ok => bcGot.cells = BcValue(bcGot.call, bcCalls[bcGot.call].type)

\* A message that is too short does not decode: a native decoder returns no
\* byte from beyond the limit of the message.
BcNothingMore == bcGot.call > Len(bcCalls) => ~bcGot.ok

\* good_ of a native encoder is false exactly from the first value that was
\* not stored whole, until the client goes back (BufCodec.h:52).
BcGoodTells == bcKind = "native" /\ bcMode = "encode"
                 => good_ = (\A i \in 1..Len(bcCalls) : bcCalls[i].ok)

\* Encoder and decoder agree: on each value and each failure, at the end of the
\* message, and in what good() tells.
BcAgrees == BcRoundTrip /\ BcNothingMore /\ BcGoodTells
=============================================================================
