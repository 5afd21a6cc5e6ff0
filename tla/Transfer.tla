------------------------------- MODULE Transfer -------------------------------
(***************************************************************************)
(* A thread writes a ByteBuffer to a descriptor and another one reads the  *)
(* bytes into buffers of its own: read(), read_n(), write() and write_n()  *)
(* of an InDevice and an OutDevice (src/src/io/Device/Device.cpp) or of    *)
(* two TcpSockets (src/src/io/net/Socket.cpp).  The system between them    *)
(* keeps a few bytes, takes and gives any part of what it is asked for and *)
(* fails now and then.  Who is left with part of the work calls again.     *)
(***************************************************************************)
EXTENDS Integers, Sequences

CONSTANTS TrTotal,  \* bytes in the writer's buffer
          TrWant,   \* capacity of the reader's buffer
          TrPipe,   \* bytes the system keeps
          TrErrors  \* bound: calls of the system that fail

ASSUME TrBounds == TrTotal \in Nat /\ TrWant \in Nat \ {0} /\ TrPipe \in Nat \ {0}

VARIABLES trKind,    \* "device" or "tcp"
          trW, trR,  \* the writer's and the reader's call
          trWPos, trRPos, \* the positions of their buffers
          trMem,     \* the memory of the reader's buffer
          trPipe,    \* the bytes on the way; byte k of the buffer is k
          trClosed,  \* the writer is done with the descriptor
          trGot,     \* the bytes the reader took from its buffers
          trErrs     \* failures so far

trVars == <<trKind, trW, trR, trWPos, trRPos, trMem, trPipe, trClosed, trGot, trErrs>>

\* A call: where it stands, what it has transferred, whether it is read_n() or
\* write_n(), what was asked, and whether the system said error or end.
TrIdle == [pc |-> "idle", done |-> 0, all |-> TRUE, asked |-> 0, cut |-> FALSE]
TrCalled(all, n) == [pc |-> "loop", done |-> 0, all |-> all, asked |-> n, cut |-> FALSE]
TrUpTo(n) == [i \in 1..n |-> i]
TrLeast(a, b) == IF a < b THEN a ELSE b

TrInit == /\ trKind \in {"device", "tcp"}
          /\ trW = TrIdle /\ trR = TrIdle
          /\ trWPos = 0 /\ trRPos = 0
          /\ trMem = [i \in 1..TrWant |-> 0]
          /\ trPipe = << >> /\ trClosed = FALSE /\ trGot = << >>
          /\ trErrs = 0

\* Bug seeded: write_n() and read_n() give up after one part.
TrAfterOnce(call, n) ==
  [call EXCEPT !.done = call.done + n, !.pc = "return"]

\* The loop goes on while there is something left to transfer.
TrAfter(call, n) ==
  [call EXCEPT !.done = call.done + n,
               !.pc = IF call.all /\ call.done + n < call.asked THEN "loop" ELSE "return"]

TrCut(call) == [call EXCEPT !.cut = TRUE, !.pc = "return"]

\* The socket's loops move the position of the buffer as they go, the device's
\* functions once, by what the loop over the memory returned.
TrAsItGoes(pos, n) == IF trKind = "tcp" THEN pos + n ELSE pos

\* Bug seeded: an error in the middle is returned as an error, and the buffer's
\* position stays where it was.
TrInTheEndUnlessCut(pos, call) ==
  IF trKind = "device" /\ ~call.cut THEN pos + call.done ELSE pos

TrInTheEnd(pos, call) == IF trKind = "device" THEN pos + call.done ELSE pos

\* Where in the buffer's memory a turn of the loop starts.
TrAt(pos, call) == IF trKind = "device" THEN pos + call.done ELSE pos

-----------------------------------------------------------------------------
TrReader == <<trR, trRPos, trMem, trGot>>
TrWriter == <<trW, trWPos, trClosed>>

\* write(buf) or write_n(buf).
TrWrite == /\ trW.pc = "idle" /\ trWPos < TrTotal
           /\ \E all \in BOOLEAN : trW' = TrCalled(all, TrTotal - trWPos)
           /\ UNCHANGED <<trKind, trWPos, trPipe, trClosed, trErrs, TrReader>>

TrWriteSome ==
  LET at == TrAt(trWPos, trW) IN
  /\ trW.pc = "loop"
  /\ \E n \in 1..TrLeast(TrTotal - at, TrPipe - Len(trPipe)) :
       /\ trPipe' = trPipe \o [i \in 1..n |-> at + i]
       /\ trW' = TrAfter(trW, n)
       /\ trWPos' = TrAsItGoes(trWPos, n)
  /\ UNCHANGED <<trKind, trClosed, trErrs, TrReader>>

TrWriteFails == /\ trW.pc = "loop" /\ trErrs < TrErrors
                /\ trErrs' = trErrs + 1
                /\ trW' = TrCut(trW)
                /\ UNCHANGED <<trKind, trWPos, trPipe, trClosed, TrReader>>

TrWriteReturns == /\ trW.pc = "return"
                  /\ trW' = [trW EXCEPT !.pc = "idle"]
                  /\ trWPos' = TrInTheEnd(trWPos, trW)
                  /\ UNCHANGED <<trKind, trPipe, trClosed, trErrs, TrReader>>

\* All is written: the descriptor is closed.
TrClose == /\ trW.pc = "idle" /\ trWPos = TrTotal /\ ~trClosed
           /\ trClosed' = TRUE
           /\ UNCHANGED <<trKind, trW, trWPos, trPipe, trErrs, TrReader>>

-----------------------------------------------------------------------------

\* read(buf) or read_n(buf).
TrRead == /\ trR.pc = "idle" /\ trRPos < TrWant
          /\ \E all \in BOOLEAN : trR' = TrCalled(all, TrWant - trRPos)
          /\ UNCHANGED <<trKind, trRPos, trMem, trPipe, trGot, trErrs, TrWriter>>

TrReadSome ==
  LET at == TrAt(trRPos, trR) IN
  /\ trR.pc = "loop"
  /\ \E n \in 1..TrLeast(TrWant - at, Len(trPipe)) :
       /\ trMem' = [i \in 1..TrWant |-> IF i - at \in 1..n THEN trPipe[i - at] ELSE trMem[i]]
       /\ trPipe' = SubSeq(trPipe, n + 1, Len(trPipe))
       /\ trR' = TrAfter(trR, n)
       /\ trRPos' = TrAsItGoes(trRPos, n)
  /\ UNCHANGED <<trKind, trGot, trErrs, TrWriter>>

TrReadFails == /\ trR.pc = "loop" /\ trErrs < TrErrors
               /\ trErrs' = trErrs + 1
               /\ trR' = TrCut(trR)
               /\ UNCHANGED <<trKind, trRPos, trMem, trPipe, trGot, TrWriter>>

\* 0 bytes: the other side is closed and nothing is on the way.
TrReadEnd == /\ trR.pc = "loop" /\ trClosed /\ trPipe = << >>
             /\ trR' = TrCut(trR)
             /\ UNCHANGED <<trKind, trRPos, trMem, trPipe, trGot, trErrs, TrWriter>>

TrReadReturns == /\ trR.pc = "return"
                 /\ trR' = [trR EXCEPT !.pc = "idle"]
                 /\ trRPos' = TrInTheEnd(trRPos, trR)
                 /\ UNCHANGED <<trKind, trMem, trPipe, trGot, trErrs, TrWriter>>

\* The reader takes what is in its buffer and clears it.
TrTake == /\ trR.pc = "idle" /\ trRPos > 0
          /\ trGot' = trGot \o SubSeq(trMem, 1, trRPos)
          /\ trRPos' = 0
          /\ UNCHANGED <<trKind, trR, trMem, trPipe, trErrs, TrWriter>>

TrNext == \/ TrWrite \/ TrWriteSome \/ TrWriteFails \/ TrWriteReturns \/ TrClose
          \/ TrRead \/ TrReadSome \/ TrReadFails \/ TrReadEnd \/ TrReadReturns \/ TrTake

\* Both threads run, the system moves the bytes it can, and the reader takes
\* its bytes in the end.
TrFairness ==
  /\ WF_trVars(TrWrite) /\ WF_trVars(TrWriteSome) /\ WF_trVars(TrWriteReturns)
  /\ WF_trVars(TrRead) /\ WF_trVars(TrReadSome) /\ WF_trVars(TrReadReturns)
  /\ WF_trVars(TrReadEnd) /\ WF_trVars(TrClose) /\ SF_trVars(TrTake)

TrSpec == TrInit /\ [][TrNext]_trVars /\ TrFairness

-----------------------------------------------------------------------------

\* The bytes come once each and in order, and the positions of the two buffers
\* say between calls how far they came, whatever parts the system took and
\* gave, also when a call was cut short by an error and made again.
TrInOrder ==
  /\ trR.pc = "idle" => trGot \o SubSeq(trMem, 1, trRPos)
                          = TrUpTo(Len(trGot) + trRPos)
  /\ trR.pc = "idle" /\ trW.pc = "idle" =>
       trGot \o SubSeq(trMem, 1, trRPos) \o trPipe = TrUpTo(trWPos)

\* "This will always be the number of bytes requested unless" an error or the
\* end is met (Device.h:27-41): read_n() and write_n() do not stop in between.
TrAllOrError == \A call \in {trR, trW} :
  call.pc = "idle" /\ call.all => call.done = call.asked \/ call.cut

\* Once the writer begins, calls made again after errors bring all of its
\* buffer to the other side.
TrArrives == trW.pc = "loop" ~> (trGot = TrUpTo(TrTotal))
=============================================================================
