----------------------------- MODULE DevForward -----------------------------
(***************************************************************************)
(* The forwarder of the examples (net/devfwd): main takes one TCP client   *)
(* after the other, sends what comes on the socket to a device, and starts *)
(* a DevMonThread that polls the device and sends what it reads out of the *)
(* same socket.  Packets are numbers.                                      *)
(***************************************************************************)
EXTENDS Integers, Sequences, SequencesExt

CONSTANTS FwMaxConns,  \* bound: connections
          FwMaxPackets \* bound: packets in each direction

ASSUME FwBounds == {FwMaxConns, FwMaxPackets} \subseteq Nat

VARIABLES fwMain,      \* "accept", "start", "device", "read", "write", "quit", "wait", "close";
                       \* "return" when App::main() has, "done" when the process ended
          fwConn,      \* the number of the connection
          fwSock,      \* sock is open
          fwShut,      \* the client has closed
          fwPc,        \* DevMonThread: "none", "open", "poll", "sleep", "write", "over"
          fwQuit,      \* its quit_
          fwMainBuf, fwBuf,   \* main's buf and the thread's
          fwFromNet, fwToDev, \* packets coming on the socket; taken by the device
          fwFromDev, fwToNet, \* packets the device has; on the socket, with the connection
          fwCome, fwAsked,    \* packets that came: on the socket, at the device
          fwClosedUsed        \* the thread used sock when it was closed

fwMainVars == <<fwMain, fwConn, fwSock, fwMainBuf>>
fwThreadVars == <<fwPc, fwBuf>>
fwNet == <<fwShut, fwFromNet, fwCome>>
fwDev == <<fwFromDev, fwAsked>>
fwSent == <<fwToDev, fwToNet, fwClosedUsed>>
fwVars == <<fwMainVars, fwThreadVars, fwQuit, fwNet, fwDev, fwSent>>

FwInit == /\ fwMain = "accept" /\ fwConn = 0 /\ fwSock = FALSE /\ fwShut = TRUE
          /\ fwPc = "none" /\ fwQuit = FALSE
          /\ fwMainBuf = << >> /\ fwBuf = << >>
          /\ fwFromNet = << >> /\ fwToDev = << >> /\ fwFromDev = << >> /\ fwToNet = << >>
          /\ fwCome = 0 /\ fwAsked = 0
          /\ fwClosedUsed = FALSE

-----------------------------------------------------------------------------
(* The client, and the device.                                             *)

FwClientSends == /\ fwSock /\ ~fwShut /\ fwCome < FwMaxPackets
                 /\ fwCome' = fwCome + 1
                 /\ fwFromNet' = Append(fwFromNet, fwCome')
                 /\ UNCHANGED <<fwMainVars, fwThreadVars, fwQuit, fwShut, fwDev, fwSent>>

FwClientCloses == /\ fwSock /\ ~fwShut
                  /\ fwShut' = TRUE
                  /\ UNCHANGED <<fwMainVars, fwThreadVars, fwQuit, fwFromNet, fwCome, fwDev, fwSent>>

FwDeviceHas == /\ fwAsked < FwMaxPackets
               /\ fwAsked' = fwAsked + 1
               /\ fwFromDev' = Append(fwFromDev, fwAsked')
               /\ UNCHANGED <<fwMainVars, fwThreadVars, fwQuit, fwNet, fwSent>>

-----------------------------------------------------------------------------
(* main().                                                                 *)

FwAccept == /\ fwMain = "accept" /\ fwConn < FwMaxConns
            /\ fwMain' = "start"
            /\ fwConn' = fwConn + 1 /\ fwSock' = TRUE
            /\ fwShut' = FALSE /\ fwFromNet' = << >>
            /\ UNCHANGED <<fwMainBuf, fwThreadVars, fwQuit, fwCome, fwDev, fwSent>>

FwAcceptFails == /\ fwMain = "accept"
                 /\ fwMain' = "return"
                 /\ UNCHANGED <<fwConn, fwSock, fwMainBuf, fwThreadVars, fwQuit, fwNet, fwDev, fwSent>>

\* A new DevMonThread is activated.
FwStart == /\ fwMain = "start"
           /\ fwPc' = "open" /\ fwQuit' = FALSE /\ fwBuf' = << >>
           /\ fwMain' = "device"
           /\ UNCHANGED <<fwConn, fwSock, fwMainBuf, fwNet, fwDev, fwSent>>

\* The device is opened for output.
FwDeviceOpens == /\ fwMain = "device"
                 /\ fwMain' = "read"
                 /\ UNCHANGED <<fwConn, fwSock, fwMainBuf, fwThreadVars, fwQuit, fwNet, fwDev, fwSent>>

\* It is not: main returns, which destroys dev_thread, whose destructor neither
\* stops the thread nor waits for it, and closes sock.
FwDeviceFails == /\ fwMain = "device"
                 /\ fwMain' = "return"
                 /\ fwSock' = FALSE
                 /\ UNCHANGED <<fwConn, fwMainBuf, fwThreadVars, fwQuit, fwNet, fwDev, fwSent>>

\* The process ends, with its threads.
FwExit == /\ fwMain = "return"
          /\ fwMain' = "done"
          /\ UNCHANGED <<fwConn, fwSock, fwMainBuf, fwThreadVars, fwQuit, fwNet, fwDev, fwSent>>

FwRead == /\ fwMain = "read"
          /\ \E n \in 1..Len(fwFromNet) :
               /\ fwMainBuf' = SubSeq(fwFromNet, 1, n)
               /\ fwFromNet' = SubSeq(fwFromNet, n + 1, Len(fwFromNet))
          /\ fwMain' = "write"
          /\ UNCHANGED <<fwConn, fwSock, fwThreadVars, fwQuit, fwShut, fwCome, fwDev, fwSent>>

\* odev.write(buf.rewind()) once: the device takes a part, and the rest is
\* cleared away by the next read.
FwWrite == /\ fwMain = "write"
           /\ \E n \in 0..Len(fwMainBuf) : fwToDev' = fwToDev \o SubSeq(fwMainBuf, 1, n)
           /\ fwMain' = "read"
           /\ UNCHANGED <<fwConn, fwSock, fwMainBuf, fwThreadVars, fwQuit, fwNet, fwDev, fwToNet, fwClosedUsed>>

FwReadEnds == /\ fwMain = "read" /\ fwShut
              /\ fwMain' = "quit"
              /\ UNCHANGED <<fwConn, fwSock, fwMainBuf, fwThreadVars, fwQuit, fwNet, fwDev, fwSent>>

\* Bug seeded: quit() does not wait for the thread.
FwQuitOnly == /\ fwMain = "quit"
              /\ fwQuit' = TRUE
              /\ fwMain' = "close"
              /\ UNCHANGED <<fwConn, fwSock, fwMainBuf, fwThreadVars, fwNet, fwDev, fwSent>>

\* Bug seeded: quit() waits without setting quit_.
FwWaitOnly == /\ fwMain = "quit"
              /\ fwMain' = "wait"
              /\ UNCHANGED <<fwConn, fwSock, fwMainBuf, fwThreadVars, fwQuit, fwNet, fwDev, fwSent>>

\* DevMonThread::quit(): quit_, and then wait().
FwQuit == /\ fwMain = "quit"
          /\ fwQuit' = TRUE
          /\ fwMain' = "wait"
          /\ UNCHANGED <<fwConn, fwSock, fwMainBuf, fwThreadVars, fwNet, fwDev, fwSent>>

FwWaited == /\ fwMain = "wait" /\ fwPc = "over"
            /\ fwMain' = "close"
            /\ UNCHANGED <<fwConn, fwSock, fwMainBuf, fwThreadVars, fwQuit, fwNet, fwDev, fwSent>>

FwClose == /\ fwMain = "close"
           /\ fwSock' = FALSE
           /\ fwMain' = "accept"
           /\ UNCHANGED <<fwConn, fwMainBuf, fwThreadVars, fwQuit, fwNet, fwDev, fwSent>>

-----------------------------------------------------------------------------
(* DevMonThread::run().                                                    *)

FwAt(from, to) == fwMain # "done" /\ fwPc = from /\ fwPc' = to

\* quit_ reads as q: what it was set to, or anything once dev_thread is no more.
FwSeesQuit(q) == fwQuit = q \/ fwMain = "return"

\* The device is opened, or run() returns at once.
FwOpen == /\ FwAt("open", "poll") \/ FwAt("open", "over")
          /\ UNCHANGED <<fwMainVars, fwBuf, fwQuit, fwNet, fwDev, fwSent>>

FwOver == /\ FwSeesQuit(TRUE) /\ FwAt("poll", "over")
          /\ UNCHANGED <<fwMainVars, fwBuf, fwQuit, fwNet, fwDev, fwSent>>

\* Nothing there: sleep(250).
FwPollEmpty == /\ FwSeesQuit(FALSE) /\ fwFromDev = << >> /\ FwAt("poll", "sleep")
               /\ UNCHANGED <<fwMainVars, fwBuf, fwQuit, fwNet, fwDev, fwSent>>

FwSlept == /\ FwAt("sleep", "poll")
           /\ UNCHANGED <<fwMainVars, fwBuf, fwQuit, fwNet, fwDev, fwSent>>

\* Bug seeded: the buffer is not cleared before the read.
FwPollUncleared ==
  /\ FwSeesQuit(FALSE) /\ FwAt("poll", "write")
  /\ \E n \in 1..Len(fwFromDev) :
       /\ fwBuf' = fwBuf \o SubSeq(fwFromDev, 1, n)
       /\ fwFromDev' = SubSeq(fwFromDev, n + 1, Len(fwFromDev))
  /\ UNCHANGED <<fwMainVars, fwQuit, fwNet, fwAsked, fwSent>>

\* idev.read(buf.clear()).
FwPoll ==
  /\ FwSeesQuit(FALSE) /\ FwAt("poll", "write")
  /\ \E n \in 1..Len(fwFromDev) :
       /\ fwBuf' = SubSeq(fwFromDev, 1, n)
       /\ fwFromDev' = SubSeq(fwFromDev, n + 1, Len(fwFromDev))
  /\ UNCHANGED <<fwMainVars, fwQuit, fwNet, fwAsked, fwSent>>

\* sock_.write(buf.flip()) once: the connection takes a part, or nothing; the
\* rest is cleared away by the next read. A socket that is closed takes nothing.
FwSend ==
  /\ FwAt("write", "poll")
  /\ \E n \in 0..Len(fwBuf) :
       /\ ~fwSock => n = 0
       /\ fwToNet' = fwToNet \o [i \in 1..n |-> <<fwConn, fwBuf[i]>>]
  /\ fwClosedUsed' = (fwClosedUsed \/ ~fwSock)
  /\ UNCHANGED <<fwMainVars, fwBuf, fwQuit, fwNet, fwDev, fwToDev>>

FwNext == \/ FwClientSends \/ FwClientCloses \/ FwDeviceHas
          \/ FwAccept \/ FwAcceptFails \/ FwStart \/ FwDeviceOpens \/ FwDeviceFails \/ FwExit
          \/ FwRead \/ FwWrite \/ FwReadEnds
          \/ FwQuit \/ FwWaited \/ FwClose
          \/ FwOpen \/ FwOver \/ FwPollEmpty \/ FwSlept \/ FwPoll \/ FwSend

-----------------------------------------------------------------------------

\* Until main returns, the thread lives inside its connection: it never writes to
\* a socket that main has closed (whose number may by then be another
\* connection's), and there is never one of an earlier connection beside a new
\* one.  Once main returns because the output device does not open, it does,
\* although devfwd.cpp:66 says that "The thread is only run while the TCP socket is
\* open".
FwThreadWithin == fwMain \notin {"return", "done"} =>
  /\ ~fwClosedUsed
  /\ fwPc \notin {"none", "over"} => fwSock
  /\ fwMain \in {"accept", "start"} => fwPc \in {"none", "over"}

\* What goes out keeps the order in which it came, in both directions, and
\* nothing is sent twice; short writes may leave packets out.
FwInOrder ==
  /\ \A i, j \in 1..Len(fwToDev) : i < j => fwToDev[i] < fwToDev[j]
  /\ \A i, j \in 1..Len(fwToNet) : i < j => fwToNet[i][2] < fwToNet[j][2]

\* After a client has closed, main is ready for the next one.
FwReady == fwShut /\ fwSock ~> fwMain \in {"accept", "done"}
=============================================================================
