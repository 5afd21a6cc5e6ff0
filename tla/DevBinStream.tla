---------------------------- MODULE DevBinStream ----------------------------
(***************************************************************************)
(* InDevBinStream and OutDevBinStream of src/CtrlrFx/DevBinStream.h with   *)
(* their buffers (src/src/io/BinStream/DevBinStream.cpp) over a file       *)
(* descriptor: the stream is read or written byte by byte, the device      *)
(* block by block.  The block functions the two buffers define have other  *)
(* parameters than the virtual ones of BinStreamBuf, which are the ones    *)
(* called and come down to the same single byte steps.                     *)
(*                                                                         *)
(* The device takes any part of what it is offered, gives any part of what *)
(* it has, or fails.  Byte k of the device, or of what is put, is k.       *)
(***************************************************************************)
EXTENDS Integers, Sequences, FiniteSets

CONSTANTS DsBuf,      \* BUF_SIZE
          DsBack,     \* BACK_BUF_SIZE
          DsMaxBytes, \* bound: bytes put, or bytes the device has
          DsHandles   \* descriptors open() returns; 0 is one like the others

ASSUME DsHandlesOk == DsHandles \subseteq Nat
ASSUME DsBounds == DsBuf \in Nat \ {0} /\ DsBack \in Nat /\ DsMaxBytes \in Nat

VARIABLES dsKind,    \* "in" or "out": which of the two streams this is
          dsFd,      \* m_rd or m_wr
          dsOpened,  \* the descriptors this stream opened and has not closed
          dsFail,    \* failbit
          dsArea,    \* the bytes of the get or put area
          dsNext,    \* bytes of the area before gnext_ or pnext_
          dsDevice,  \* bytes written, or what read() gave so far
          dsDone,    \* bytes the client was told were put, or has got
          dsPending, \* a byte is on its way through overflow()
          dsShort,   \* a write took a part of the buffer
          dsEof      \* the device was read at its end

dsVars == <<dsKind, dsFd, dsOpened, dsFail, dsArea, dsNext, dsDevice, dsDone,
            dsPending, dsShort, dsEof>>

DsLeast(a, b) == IF a < b THEN a ELSE b
DsUpTo(n) == [i \in 1..n |-> i]

DsInit == /\ dsKind \in {"in", "out"}
          /\ dsFd = -1 /\ dsOpened = {} /\ dsFail = FALSE
          /\ dsArea = IF dsKind = "in" THEN << >> ELSE [i \in 1..DsBuf |-> 0]
          /\ dsNext = 0
          /\ dsDevice = << >> /\ dsDone = 0
          /\ dsPending = FALSE /\ dsShort = FALSE /\ dsEof = FALSE

-----------------------------------------------------------------------------
(* The output stream.                                                      *)

\* Bug seeded: after a partial write the whole buffer is written again.
DoSyncAgain(n) ==
  /\ dsDevice' = dsDevice \o SubSeq(dsArea, 1, n)
  /\ dsNext' = IF n = dsNext THEN 0 ELSE dsNext
  /\ dsShort' = (dsShort \/ n < dsNext)

\* Bug seeded: what was written whole stays in the buffer.
DoSyncKept(n) ==
  /\ dsDevice' = dsDevice \o SubSeq(dsArea, 1, n)
  /\ dsNext' = dsNext
  /\ dsShort' = (dsShort \/ n < dsNext)

\* sync() when the device takes n bytes: the pointer goes back by n, the bytes
\* stay where they are.
DoSync(n) ==
  /\ dsDevice' = dsDevice \o SubSeq(dsArea, 1, n)
  /\ dsNext' = dsNext - n
  /\ dsShort' = (dsShort \/ n < dsNext)

DsUnused == UNCHANGED <<dsKind, dsEof>>
DsNoDevice == UNCHANGED <<dsDevice, dsShort>>

\* put(by) with room in the buffer, at once or when overflow() has made some.
\* write(buf, n) is n of these until one fails.  Nothing looks whether the stream
\* is open.
DoPut == /\ dsKind = "out"
         /\ dsDone < DsMaxBytes
         /\ dsNext < DsBuf
         /\ dsArea' = [dsArea EXCEPT ![dsNext + 1] = dsDone + 1]
         /\ dsNext' = dsNext + 1
         /\ dsDone' = dsDone + 1
         /\ dsFail' = FALSE
         /\ dsPending' = FALSE
         /\ UNCHANGED <<dsFd, dsOpened>> /\ DsUnused /\ DsNoDevice

\* put(by) without room: into overflow().
DoPutFull == /\ dsKind = "out" /\ ~dsPending
             /\ dsDone < DsMaxBytes
             /\ dsNext = DsBuf
             /\ dsPending' = TRUE
             /\ UNCHANGED <<dsFd, dsOpened, dsFail, dsArea, dsNext, dsDone>>
             /\ DsUnused /\ DsNoDevice

\* overflow(): sync() fails and so does the put; or it makes room and sputc()
\* stores the byte (DoPut); or the device took nothing, and sputc() comes back
\* to overflow(), one call deeper.
DoOverflow == /\ dsPending /\ dsNext = DsBuf
              /\ \/ dsPending' = FALSE /\ dsFail' = TRUE /\ UNCHANGED dsNext /\ DsNoDevice
                 \/ /\ dsFd >= 0 /\ UNCHANGED <<dsPending, dsFail>>
                    /\ \E n \in 0..DsBuf : DoSync(n)
              /\ UNCHANGED <<dsFd, dsOpened, dsArea, dsDone>> /\ DsUnused

\* flush().
DoFlush == /\ dsKind = "out" /\ ~dsPending
           /\ \/ dsFail' = TRUE /\ UNCHANGED dsNext /\ DsNoDevice
              \/ dsFd >= 0 /\ dsFail' = FALSE /\ \E n \in 0..dsNext : DoSync(n)
           /\ UNCHANGED <<dsFd, dsOpened, dsArea, dsDone, dsPending>> /\ DsUnused

\* The first half of open(), and close() and the destructor: what sync() did
\* is not looked at, and what it left goes to the next device.
DoClosed == \/ UNCHANGED dsNext /\ DsNoDevice
            \/ dsFd >= 0 /\ \E n \in 0..dsNext : DoSync(n)

DoClose == /\ dsKind = "out" /\ ~dsPending
           /\ DoClosed
           /\ dsFd' = -1 /\ dsOpened' = dsOpened \ {dsFd}
           /\ UNCHANGED <<dsFail, dsArea, dsDone, dsPending>> /\ DsUnused

\* Bug seeded: the descriptor in use is not closed.
DsTakeOver(fd, left) == dsFd' = fd /\ dsOpened' = dsOpened \cup {fd}

\* ::open() once close() has left the descriptors of left: a free one, or -1.
DsTake(fd, left) == /\ fd \notin left
                    /\ dsFd' = fd
                    /\ dsOpened' = left \cup ({fd} \ {-1})

DoOpen(fd) == /\ dsKind = "out" /\ ~dsPending
              /\ DoClosed
              /\ DsTake(fd, dsOpened \ {dsFd})
              /\ dsFail' = (fd = -1)
              /\ UNCHANGED <<dsArea, dsDone, dsPending>> /\ DsUnused

-----------------------------------------------------------------------------
(* The input stream. dsDevice is what read() gave so far, from whichever    *)
(* descriptor m_rd named.                                                  *)

DiKept == SubSeq(dsArea, 1 + dsNext - DsLeast(dsNext, DsBack), dsNext)

\* Bug seeded: the bytes kept for unget are not in front of the new ones.
DiFillOverKept(n) ==
  LET new == [i \in 1..n |-> Len(dsDevice) + i] IN
  /\ dsArea' = SubSeq(new, 1, DsLeast(n, Len(DiKept))) \o new
  /\ dsNext' = DsLeast(n, Len(DiKept))
  /\ dsDevice' = dsDevice \o new

\* fill_buf() when the device gives n bytes: the last few bytes read stay in
\* front of them.
DiFill(n) ==
  LET new == [i \in 1..n |-> Len(dsDevice) + i] IN
  /\ dsArea' = DiKept \o new
  /\ dsNext' = Len(DiKept)
  /\ dsDevice' = dsDevice \o new

\* get() with a byte in the buffer: sbumpc(). get(buf, n) is n of these.
DiGet == /\ dsKind = "in" /\ dsNext < Len(dsArea)
         /\ dsNext' = dsNext + 1
         /\ dsDone' = dsArea[dsNext + 1]
         /\ dsFail' = FALSE
         /\ UNCHANGED <<dsKind, dsFd, dsOpened, dsArea, dsDevice, dsPending, dsShort, dsEof>>

\* get() without: uflow() calls underflow(), which fills the buffer. On an
\* error the area is gone (nothing in it was still to be got).  Nothing looks
\* whether the stream is open: after a failed open() the read of -1 fails, after
\* close() it is one of descriptor 0, whatever that is in the process.
DiRefill == /\ dsKind = "in" /\ dsNext = Len(dsArea) /\ ~dsEof
            /\ \/ /\ dsFail' = TRUE
                  /\ dsArea' = << >> /\ dsNext' = 0
                  /\ UNCHANGED <<dsDevice, dsEof>>
               \/ /\ dsFd >= 0
                  /\ \E n \in 1..DsLeast(DsBuf, DsMaxBytes - Len(dsDevice)) : DiFill(n)
                  /\ UNCHANGED <<dsFail, dsEof>>
               \/ /\ dsFd >= 0 /\ Len(dsDevice) = DsMaxBytes
                  /\ dsEof' = TRUE
                  /\ DiFill(0)
                  /\ UNCHANGED dsFail
            /\ UNCHANGED <<dsKind, dsFd, dsOpened, dsDone, dsPending, dsShort>>

\* The end of the device is not an error: underflow() returns what stands
\* behind the end of the area, a byte nobody wrote, and from then on the
\* pointer is past the end, so the device is not asked again.
DiPastEnd == /\ dsEof /\ dsNext >= Len(dsArea) /\ dsNext < DsBuf + DsBack + 2
             /\ dsNext' = dsNext + 1
             /\ dsFail' = FALSE
             /\ UNCHANGED <<dsKind, dsFd, dsOpened, dsArea, dsDevice, dsDone,
                            dsPending, dsShort, dsEof>>

\* unget(): one back, if the area has one.
DiUnget == /\ dsKind = "in" /\ ~dsEof
           /\ IF dsNext > 0
              THEN dsNext' = dsNext - 1 /\ dsDone' = dsArea[dsNext] - 1 /\ dsFail' = FALSE
              ELSE dsFail' = TRUE /\ UNCHANGED <<dsNext, dsDone>>
           /\ UNCHANGED <<dsKind, dsFd, dsOpened, dsArea, dsDevice, dsPending, dsShort, dsEof>>

\* close() does nothing for descriptor 0, also when open() gave it, and sets any
\* other to 0, which is_open() takes for an open one.
DiLeft == IF dsFd = 0 THEN dsOpened ELSE dsOpened \ {dsFd}

DiClose == /\ dsKind = "in"
           /\ dsFd' = 0 /\ dsOpened' = DiLeft
           /\ UNCHANGED <<dsKind, dsFail, dsArea, dsNext, dsDevice, dsDone,
                          dsPending, dsShort, dsEof>>

\* open() does not empty the area: what the old device left is got first.
DiOpen(fd) == /\ dsKind = "in"
              /\ DsTake(fd, DiLeft)
              /\ dsFail' = (fd = -1)
              /\ UNCHANGED <<dsKind, dsArea, dsNext, dsDevice, dsDone, dsPending, dsShort, dsEof>>

DsNext == \/ DoPut \/ DoPutFull \/ DoOverflow \/ DoFlush \/ DoClose
          \/ DiGet \/ DiRefill \/ DiPastEnd \/ DiUnget \/ DiClose
          \/ \E fd \in DsHandles \cup {-1} : DoOpen(fd) \/ DiOpen(fd)

DsSpec == DsInit /\ [][DsNext]_dsVars

-----------------------------------------------------------------------------

\* sync() moves the put pointer back by what the device took and by no more,
\* whether writes fail or not: the bytes on the device and those in the buffer
\* are as many as were put.  Which bytes they are is not said here.
DoCount == dsKind = "out" => Len(dsDevice) + dsNext = dsDone

\* As long as the device took every buffer whole they are the bytes put, once
\* each and in order.
DoInOrder == dsKind = "out" /\ ~dsShort
               => dsDevice \o SubSeq(dsArea, 1, dsNext) = DsUpTo(dsDone)

\* sync() "synchronizes the buffer with the data store by writing the buffer
\* out" (DevBinStream.cpp:262): what is on the device and what is still in the
\* buffer are the bytes put, in order, also when it could write a part only.
DoSynced == dsKind = "out" => dsDevice \o SubSeq(dsArea, 1, dsNext) = DsUpTo(dsDone)

\* What is got is what read() gave, byte after byte, through refills, failed
\* reads, ungets, close() and open(), until the end of the device.
DiInOrder == dsKind = "in" =>
  /\ dsDevice = DsUpTo(Len(dsDevice))
  /\ ~dsEof => SubSeq(dsArea, dsNext + 1, Len(dsArea))
                 = [i \in 1..(Len(dsArea) - dsNext) |-> dsDone + i]
  /\ ~dsEof => dsDone + Len(dsArea) - dsNext = Len(dsDevice)
  /\ \A i \in 1..DsLeast(dsNext, Len(dsArea)) : ~dsEof => dsArea[i] = dsDone - dsNext + i

\* The stream has open exactly the descriptor it holds, through failed opens and
\* opens without a close.  Not so for a descriptor 0 of the input stream, which
\* close() takes for none (DevBinStream.cpp:75): that one may be left open.
DsDescriptor == LET lost == IF dsKind = "in" THEN {0} ELSE {} IN
                dsOpened \ lost = ({dsFd} \cap DsHandles) \ lost

\* The number of bytes put is always kept; what they are, and their order, as long
\* as no write was short (DoSynced is what a short one breaks).  What is got is
\* what was read, in order.
DsInOrder == DoCount /\ DoInOrder /\ DiInOrder
=============================================================================
