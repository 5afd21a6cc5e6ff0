----------------------------- MODULE EchoServer -----------------------------
(***************************************************************************)
(* The multi-threaded echo server of the examples (net/echo/MtEchoServer): *)
(* main accepts connections and hands each, through the thread's MsgSlot,  *)
(* to a thread of a ThreadPool; the thread echoes until the client closes, *)
(* and puts itself back into the pool.  It composes what Sockets, Pools    *)
(* and MsgSlot model: the pool is a bounded FIFO of threads and a slot is  *)
(* one of capacity one.  main() ignores the result of activate(), so a     *)
(* thread in the pool may not run.  Nobody calls quit() on a handler.      *)
(***************************************************************************)
EXTENDS Integers, FiniteSets, Sequences, SequencesExt

CONSTANTS EcThreads,     \* threadArr
          EcMaxConns,    \* bound: connections
          EcMaxPackets   \* bound: packets that the clients send in all

ASSUME EcBounds == {EcMaxConns, EcMaxPackets} \subseteq Nat /\ IsFiniteSet(EcThreads)

VARIABLES ecMain,        \* main: "accept", "get", "give", "done"
          ecHand,        \* the connection main has in sock, or its release()d handle
          ecGiven,       \* the thread main got from the pool
          ecPool,        \* threadPool
          ecSlot,        \* by thread: the connection in msg_, or 0
          ecPc,          \* by thread: "down", "slot", "read", "write", "put", "close"
          ecConn, ecBuf, \* by thread: sock and buf
          ecOpen,        \* the connections the server has not closed
          ecClient,      \* by connection: "none", "open", "shut"
          ecSent,        \* by connection: how many packets its client sent; it numbers them
          ecIn, ecBack   \* by connection: packets on their way to the server; echoed in all

ecMainVars == <<ecMain, ecHand, ecGiven>>
ecThreadVars == <<ecSlot, ecPc, ecConn, ecBuf>>
ecClientVars == <<ecClient, ecSent>>
ecVars == <<ecMainVars, ecThreadVars, ecClientVars, ecPool, ecOpen, ecIn, ecBack>>

EcConns == 1..EcMaxConns
EcUp == {t \in EcThreads : ecPc[t] # "down"}
EcRuns == ecMain # "done"

\* The pool is full, and main has called activate() on every thread.
EcInit == /\ ecMain = "accept" /\ ecHand = 0
          /\ ecPool = SetToSeq(EcThreads)
          /\ ecGiven = Head(ecPool)
          /\ ecSlot = [t \in EcThreads |-> 0]
          /\ ecPc \in [EcThreads -> {"slot", "down"}]
          /\ ecConn = [t \in EcThreads |-> 0]
          /\ ecBuf = [t \in EcThreads |-> << >>]
          /\ ecOpen = {}
          /\ ecClient = [c \in EcConns |-> "none"]
          /\ ecIn = [c \in EcConns |-> << >>]
          /\ ecSent = [c \in EcConns |-> 0]
          /\ ecBack = ecIn

-----------------------------------------------------------------------------
(* Clients.                                                                *)

EcNextConn == Cardinality({c \in EcConns : ecClient[c] # "none"}) + 1

EcConnect == /\ EcNextConn \in EcConns
             /\ ecClient' = [ecClient EXCEPT ![EcNextConn] = "open"]
             /\ UNCHANGED <<ecMainVars, ecThreadVars, ecSent, ecPool, ecOpen, ecIn, ecBack>>

EcSend(c) == /\ ecClient[c] = "open" /\ FoldFunction(+, 0, ecSent) < EcMaxPackets
             /\ ecSent' = [ecSent EXCEPT ![c] = @ + 1]
             /\ ecIn' = [ecIn EXCEPT ![c] = Append(@, <<c, ecSent[c] + 1>>)]
             /\ UNCHANGED <<ecMainVars, ecThreadVars, ecClient, ecPool, ecOpen, ecBack>>

EcShut(c) == /\ ecClient[c] = "open"
             /\ ecClient' = [ecClient EXCEPT ![c] = "shut"]
             /\ UNCHANGED <<ecMainVars, ecThreadVars, ecSent, ecPool, ecOpen, ecIn, ecBack>>

-----------------------------------------------------------------------------
(* main().                                                                 *)

EcAccept(c) == /\ ecMain = "accept"
               /\ c = ecHand + 1 /\ ecClient[c] # "none"
               /\ ecHand' = c
               /\ ecOpen' = ecOpen \cup {c}
               /\ ecMain' = "get"
               /\ UNCHANGED <<ecGiven, ecThreadVars, ecClientVars, ecPool, ecIn, ecBack>>

\* accept() fails: main() returns and the process ends.
EcAcceptFails == /\ ecMain = "accept"
                 /\ ecMain' = "done"
                 /\ UNCHANGED <<ecHand, ecGiven, ecThreadVars, ecClientVars, ecPool, ecOpen, ecIn, ecBack>>

\* threadPool.get().
EcPoolGet == /\ ecMain = "get" /\ ecPool # << >>
             /\ ecGiven' = Head(ecPool) /\ ecPool' = Tail(ecPool)
             /\ ecMain' = "give"
             /\ UNCHANGED <<ecHand, ecThreadVars, ecClientVars, ecOpen, ecIn, ecBack>>

\* handle_conn(sock.release()): put() waits for an empty slot.
EcHandleConn == /\ ecMain = "give" /\ ecSlot[ecGiven] = 0
                /\ ecSlot' = [ecSlot EXCEPT ![ecGiven] = ecHand]
                /\ ecMain' = "accept"
                /\ UNCHANGED <<ecHand, ecGiven, ecPc, ecConn, ecBuf, ecClientVars, ecPool, ecOpen, ecIn, ecBack>>

-----------------------------------------------------------------------------
(* EchoConnHandler::run().                                                 *)

EcAt(t, from, to) == EcRuns /\ ecPc[t] = from /\ ecPc' = [ecPc EXCEPT ![t] = to]

EcGet(t) == /\ EcAt(t, "slot", "read") /\ ecSlot[t] # 0
            /\ ecConn' = [ecConn EXCEPT ![t] = ecSlot[t]]
            /\ ecSlot' = [ecSlot EXCEPT ![t] = 0]
            /\ UNCHANGED <<ecMainVars, ecBuf, ecClientVars, ecPool, ecOpen, ecIn, ecBack>>

\* sock.read(buf): some of what has arrived.
EcRead(t) ==
  LET c == ecConn[t] IN
  /\ EcAt(t, "read", "write")
  /\ \E n \in 1..Len(ecIn[c]) :
       /\ ecBuf' = [ecBuf EXCEPT ![t] = @ \o SubSeq(ecIn[c], 1, n)]
       /\ ecIn' = [ecIn EXCEPT ![c] = SubSeq(@, n + 1, Len(@))]
  /\ UNCHANGED <<ecMainVars, ecSlot, ecConn, ecClientVars, ecPool, ecOpen, ecBack>>

EcDelivered(t, c) ==
  IF ecClient[c] = "open" THEN ecBack' = [ecBack EXCEPT ![c] = @ \o ecBuf[t]] ELSE UNCHANGED ecBack

\* Bug seeded: the buffer is not cleared before the next read.
EcWriteUncleared(t) ==
  /\ EcAt(t, "write", "read")
  /\ EcDelivered(t, ecConn[t])
  /\ UNCHANGED <<ecMainVars, ecSlot, ecConn, ecBuf, ecClientVars, ecPool, ecOpen, ecIn>>

\* sock.write_n(buf.flip()), and the buf.clear() behind it: a client that has
\* closed gets nothing any more; the result is not looked at.
EcWrite(t) ==
  /\ EcAt(t, "write", "read")
  /\ EcDelivered(t, ecConn[t])
  /\ ecBuf' = [ecBuf EXCEPT ![t] = << >>]
  /\ UNCHANGED <<ecMainVars, ecSlot, ecConn, ecClientVars, ecPool, ecOpen, ecIn>>

\* read() returns 0 or fails, with what is still on its way lost.
EcReadEnds(t) ==
  /\ EcAt(t, "read", "put") /\ ecClient[ecConn[t]] = "shut"
  /\ ecIn' = [ecIn EXCEPT ![ecConn[t]] = << >>]
  /\ UNCHANGED <<ecMainVars, ecSlot, ecConn, ecBuf, ecClientVars, ecPool, ecOpen, ecBack>>

\* Bug seeded: the thread does not return to the pool.
EcPutBackNot(t) == /\ EcAt(t, "put", "close")
                   /\ UNCHANGED <<ecMainVars, ecSlot, ecConn, ecBuf, ecPool, ecClientVars, ecOpen, ecIn, ecBack>>

\* Bug seeded: the thread puts itself back twice.
EcPutBackTwice(t) == /\ EcAt(t, "put", "close")
                     /\ ecPool' = ecPool \o <<t, t>>
                     /\ UNCHANGED <<ecMainVars, ecSlot, ecConn, ecBuf, ecClientVars, ecOpen, ecIn, ecBack>>

\* threadPool.put(this), with sock still open.
EcPutBack(t) == /\ EcAt(t, "put", "close")
                /\ Len(ecPool) < Cardinality(EcThreads)
                /\ ecPool' = Append(ecPool, t)
                /\ UNCHANGED <<ecMainVars, ecSlot, ecConn, ecBuf, ecClientVars, ecOpen, ecIn, ecBack>>

\* Bug seeded: the handle is not closed.
EcCloseNot(t) == /\ EcAt(t, "close", "slot")
                 /\ ecConn' = [ecConn EXCEPT ![t] = 0]
                 /\ UNCHANGED <<ecMainVars, ecSlot, ecBuf, ecOpen, ecClientVars, ecPool, ecIn, ecBack>>

\* The end of the loop's body, where sock is destroyed.
EcClose(t) == /\ EcAt(t, "close", "slot")
              /\ ecOpen' = ecOpen \ {ecConn[t]}
              /\ ecConn' = [ecConn EXCEPT ![t] = 0]
              /\ UNCHANGED <<ecMainVars, ecSlot, ecBuf, ecClientVars, ecPool, ecIn, ecBack>>

EcNext == \/ EcConnect
          \/ \E c \in EcConns : EcSend(c) \/ EcShut(c) \/ EcAccept(c)
          \/ EcAcceptFails \/ EcPoolGet \/ EcHandleConn
          \/ \E t \in EcThreads : \/ EcGet(t) \/ EcRead(t) \/ EcWrite(t) \/ EcReadEnds(t)
                                  \/ EcPutBack(t) \/ EcClose(t)

-----------------------------------------------------------------------------

\* A thread in the pool has nothing in its slot and no client to read from,
\* and is there once: main never waits in handle_conn(), and no client's
\* connection queues up behind another one's.
EcIdleInPool ==
  /\ IsInjective(ecPool)
  /\ \A t \in ToSet(ecPool) : ecSlot[t] = 0 /\ ecPc[t] \in {"down", "slot", "close"}
  /\ ecMain = "give" => ecSlot[ecGiven] = 0

\* What a client gets back is a beginning of what it sent, and of nobody else's.
EcEchoes == \A c \in EcConns : IsPrefix(ecBack[c], [i \in 1..ecSent[c] |-> <<c, i>>])

\* Every connection that is open has one holder: main, one slot, or one thread.
\* So a pool of n threads bounds the open connections, at 2n + 1: a thread is in
\* the pool again before its socket is closed, and may hold that one and have
\* the next one in its slot, while main has one more in its hand.
EcOneHolder ==
  /\ ecOpen = (IF ecMain \in {"get", "give"} THEN {ecHand} ELSE {}) \cup ((Range(ecSlot) \cup Range(ecConn)) \ {0})
  /\ \A t, u \in EcThreads : /\ ecSlot[t] = ecConn[u] => ecSlot[t] = 0
                             /\ t # u => (ecSlot[t] = ecSlot[u] => ecSlot[t] = 0)
                             /\ t # u => (ecConn[t] = ecConn[u] => ecConn[t] = 0)

\* While a thread of the pool runs and clients close some time, main finds a
\* thread for every connection: threads serve what is in their slots and return.
EcPlaced == ecMain = "get" /\ EcUp # {} ~> ecMain = "accept"
=============================================================================
