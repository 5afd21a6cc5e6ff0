-------------------------------- MODULE Sockets -------------------------------
(***************************************************************************)
(* Who owns the socket handles of a process: Socket, UdpSocket and         *)
(* TcpSocket (src/CtrlrFx/Socket.h, src/src/io/net/Socket.cpp),            *)
(* TcpAcceptor and TcpConnector (src/src/io/net).  The system gives out    *)
(* any handle that is not open, and none when all are.                     *)
(***************************************************************************)
EXTENDS Integers, FiniteSets

CONSTANTS SoAcceptors, SoConnectors, SoStreams, SoUdps, \* the objects
          SoHandles \* the handles the system has, none of them negative

ASSUME SoKinds == SoAcceptors \cap (SoConnectors \cup SoStreams \cup SoUdps) = {}
ASSUME SoHandlesOk == SoHandles \subseteq Nat

VARIABLES soSock,      \* sock_ of each object
          soTemp,      \* a handle on its way: returned by release() or accept(),
                       \* or in a SocketRef
          soOpen,      \* the handles that are open
          soListening, \* those that are bound and listening
          soLost       \* history: those an open() or connect() that failed
                       \* released to nobody

soVars == <<soSock, soTemp, soOpen, soListening, soLost>>

SoInvalid == -1
SoClients == SoConnectors \cup SoStreams
SoObjects == SoAcceptors \cup SoClients \cup SoUdps
SoHeld == {soSock[o] : o \in SoObjects} \cup {soTemp}

SoInit == /\ soSock = [o \in SoObjects |-> SoInvalid] /\ soTemp = SoInvalid
          /\ soOpen = {} /\ soListening = {} /\ soLost = {}

\* create(): a handle, or INVALID_SOCKET when the system has none.
SoCreated(h) == IF SoHandles = soOpen THEN h = SoInvalid ELSE h \in SoHandles \ soOpen

\* reset(h) when h, if new, has just been opened: the old handle is closed
\* unless it is the same one.
SoTake(o, h, new) ==
  /\ soSock' = [soSock EXCEPT ![o] = h]
  /\ soOpen' = (soOpen \cup new) \ ({soSock[o]} \ {h})
  /\ UNCHANGED soLost

\* The result of release() is dropped: nobody has h, if it is a handle.
SoLose(h) == soLost' = soLost \cup ({h} \ {SoInvalid})

SoHeard(new) == soListening' = (soListening \cap soOpen') \cup new

-----------------------------------------------------------------------------

\* close(), and the destructor.
SoClose(o) == /\ SoTake(o, SoInvalid, {})
              /\ SoHeard({})
              /\ UNCHANGED soTemp

\* UdpSocket's constructors: a bind() that fails is not looked at.
SoUdp(o, h) == /\ soSock[o] = SoInvalid
               /\ SoCreated(h)
               /\ SoTake(o, h, {h} \ {SoInvalid})
               /\ SoHeard({}) /\ UNCHANGED soTemp

\* TcpSocket::open(): nothing if it is open.
SoOpen(o, h) == /\ soSock[o] = SoInvalid
                /\ SoCreated(h)
                /\ SoTake(o, h, {h} \ {SoInvalid})
                /\ SoHeard({}) /\ UNCHANGED soTemp

\* TcpConnector::connect() and its constructor: a new socket in place of the
\* old one; if ::connect() fails the object gives the handle up, open.
SoConnect(o, h) ==
  /\ SoCreated(h)
  /\ \/ h # SoInvalid /\ SoTake(o, h, {h})
     \/ /\ soOpen' = (soOpen \cup ({h} \ {SoInvalid})) \ {soSock[o]}
        /\ soSock' = [soSock EXCEPT ![o] = SoInvalid]
        /\ SoLose(h)
  /\ SoHeard({}) /\ UNCHANGED soTemp

\* Bug seeded: listen() is not looked at.
SoAcceptOpenDeaf(o, h) ==
  /\ soSock[o] = SoInvalid
  /\ SoCreated(h)
  /\ SoTake(o, h, {h} \ {SoInvalid})
  /\ \/ SoHeard({h} \ {SoInvalid})
     \/ SoHeard({})
  /\ UNCHANGED soTemp

\* TcpAcceptor::open(): nothing if it is open. If setsockopt(), bind() or
\* listen() fails the object gives the handle up, open.
SoAcceptOpen(o, h) ==
  /\ soSock[o] = SoInvalid
  /\ SoCreated(h)
  /\ \/ SoTake(o, h, {h} \ {SoInvalid}) /\ SoHeard({h} \ {SoInvalid})
     \/ /\ soOpen' = soOpen \cup ({h} \ {SoInvalid})
        /\ SoHeard({}) /\ SoLose(h) /\ UNCHANGED soSock
  /\ UNCHANGED soTemp

\* accept(): a new handle, or INVALID_SOCKET, in a temporary TcpSocket.
SoAccept(o, h) == /\ soTemp = SoInvalid
                  /\ soSock[o] \in soListening
                  /\ SoCreated(h)
                  /\ soTemp' = h
                  /\ soOpen' = soOpen \cup ({h} \ {SoInvalid})
                  /\ UNCHANGED <<soSock, soListening, soLost>>

\* Bug seeded: the object keeps the handle it gives away.
SoReleaseKept(o) == /\ soTemp = SoInvalid
                    /\ soTemp' = soSock[o]
                    /\ UNCHANGED <<soSock, soOpen, soListening, soLost>>

\* release(), and the conversion to a SocketRef.
SoRelease(o) == /\ soTemp = SoInvalid
                /\ soTemp' = soSock[o]
                /\ soSock' = [soSock EXCEPT ![o] = SoInvalid]
                /\ UNCHANGED <<soOpen, soListening, soLost>>

\* operator=(SocketRef), reset() with a released handle.
SoGiven(o) == /\ soTemp # SoInvalid
              /\ SoTake(o, soTemp, {})
              /\ soTemp' = SoInvalid
              /\ SoHeard({})

\* The temporary is destroyed.
SoDropped == /\ soTemp # SoInvalid
             /\ soOpen' = soOpen \ {soTemp}
             /\ SoHeard({})
             /\ soTemp' = SoInvalid
             /\ UNCHANGED <<soSock, soLost>>

\* The copy constructor, and Socket::operator=(Socket&) but for itself: the
\* other one's handle is taken from it.
SoAssign(o, p) == /\ o # p
                  /\ soSock' = [soSock EXCEPT ![o] = soSock[p], ![p] = SoInvalid]
                  /\ soOpen' = soOpen \ {soSock[o]}
                  /\ SoHeard({}) /\ UNCHANGED <<soTemp, soLost>>

SoNext == \/ \E o \in SoObjects : SoClose(o)
          \/ \E h \in SoHandles \cup {SoInvalid} :
               \/ \E o \in SoUdps : SoUdp(o, h)
               \/ \E o \in SoClients : SoOpen(o, h)
               \/ \E o \in SoConnectors : SoConnect(o, h)
               \/ \E o \in SoAcceptors : SoAcceptOpen(o, h) \/ SoAccept(o, h)
          \/ \E o \in SoClients \cup SoUdps : SoRelease(o)
          \/ \E o \in SoClients : SoGiven(o)
          \/ SoDropped
          \/ \E o \in SoStreams, p \in SoClients : SoAssign(o, p)

SoSpec == SoInit /\ [][SoNext]_soVars

-----------------------------------------------------------------------------

\* A handle an object has is open, and no other object has it: it is used by
\* one only, and closed once, through every transfer, failure and reuse of the
\* handle by the system.  Every open handle has such an owner but for those of
\* an open() or connect() that failed (SoNoLeak is what these break).
SoStrict ==
  /\ SoHeld \ {SoInvalid} = soOpen \ soLost
  /\ \A o, p \in SoObjects : o # p /\ soSock[o] = soSock[p] => soSock[o] = SoInvalid
  /\ soTemp # SoInvalid => \A o \in SoObjects : soSock[o] # soTemp

\* An acceptor that is open is listening: accept() is not called on a socket
\* whose bind() or listen() failed.
SoListens == \A o \in SoAcceptors :
  soSock[o] # SoInvalid => soSock[o] \in soListening

\* "If a Socket object has a valid, open socket, then it owns the handle and
\* will close it when the object is destroyed" (Socket.h:52-53): a handle a
\* class opened is always somebody's.
SoNoLeak == soOpen \subseteq SoHeld
=============================================================================
