-------------------------------- MODULE Devices -------------------------------
(***************************************************************************)
(* Who closes the file descriptors of a process: DeviceBase and the        *)
(* InDevice, OutDevice and Device built on it (src/CtrlrFx/Device.h,       *)
(* src/src/io/Device/Device.cpp), and a client that opens some itself and  *)
(* lends or gives them to device objects.                                  *)
(***************************************************************************)
EXTENDS Integers, FiniteSets

CONSTANTS DvObjects, \* the device objects
          DvHandles  \* the descriptors the system has, none of them negative

ASSUME DvHandlesOk == DvHandles \subseteq Nat

VARIABLES dvFd, dvOwn, \* fd_ and own_ of each object
          dvOpen,      \* the descriptors that are open
          dvMine,      \* those the client has to close itself
          dvDropped,   \* history: those it gave to the constructor of a Device
          dvReassigned \* history: an object was assigned what it owned, to own

dvVars == <<dvFd, dvOwn, dvOpen, dvMine, dvDropped, dvReassigned>>
dvHistory == <<dvDropped, dvReassigned>>

DvInvalid == -1
DvFds == DvHandles \cup {DvInvalid}

\* The default constructor does not set own_.
DvInit == /\ dvFd = [o \in DvObjects |-> DvInvalid]
          /\ dvOwn \in [DvObjects -> BOOLEAN]
          /\ dvOpen = {} /\ dvMine = {}
          /\ dvDropped = {} /\ dvReassigned = FALSE

\* What close() closes.
DvToClose(o) == IF dvOwn[o] THEN {dvFd[o]} \cap DvHandles ELSE {}

\* close(): only a descriptor that is open and owned.
DvClose(o) == /\ DvToClose(o) # {}
              /\ dvFd' = [dvFd EXCEPT ![o] = DvInvalid]
              /\ dvOwn' = [dvOwn EXCEPT ![o] = FALSE]
              /\ dvOpen' = dvOpen \ DvToClose(o)
              /\ UNCHANGED <<dvMine, dvHistory>>

\* The destructor, and DeviceBase() in its place.
DvRenew(o) == /\ dvFd' = [dvFd EXCEPT ![o] = DvInvalid]
              /\ \E own \in BOOLEAN : dvOwn' = [dvOwn EXCEPT ![o] = own]
              /\ dvOpen' = dvOpen \ DvToClose(o)

\* An object without a descriptor.
DvAnew(o) == DvRenew(o) /\ UNCHANGED <<dvMine, dvHistory>>

\* Device(fd, own), of a descriptor of the client's, lent or given.  DeviceBase is
\* a virtual base: Device constructs it without arguments, and what it hands to
\* InDevice and OutDevice is not used.
DvConstruct(o, fd, own) ==
  /\ fd \in dvMine
  /\ DvRenew(o)
  /\ dvMine' = IF own THEN dvMine \ {fd} ELSE dvMine
  /\ dvDropped' = IF own THEN dvDropped \cup {fd} ELSE dvDropped
  /\ UNCHANGED dvReassigned

\* open(): closes, opens and owns, the descriptor or the failure.
DvOpen(o, fd) == /\ fd \notin dvOpen \ DvToClose(o)
                 /\ dvFd' = [dvFd EXCEPT ![o] = fd]
                 /\ dvOwn' = [dvOwn EXCEPT ![o] = TRUE]
                 /\ dvOpen' = (dvOpen \ DvToClose(o)) \cup ({fd} \cap DvHandles)
                 /\ UNCHANGED <<dvMine, dvHistory>>

\* Bug seeded: assign() does not close what the object has.
DvAssignOver(o, fd, own) ==
  /\ fd \in dvMine
  /\ dvFd' = [dvFd EXCEPT ![o] = fd]
  /\ dvOwn' = [dvOwn EXCEPT ![o] = own]
  /\ dvMine' = IF own THEN dvMine \ {fd} ELSE dvMine
  /\ UNCHANGED <<dvOpen, dvHistory>>

\* assign(), and the constructors of InDevice and OutDevice with a descriptor: one
\* of the client's, lent or given, or the one the object has and owns, which is
\* closed before it is taken.
DvAssign(o, fd, own) ==
  /\ fd \in dvMine \cup DvToClose(o)
  /\ dvOpen' = dvOpen \ DvToClose(o)
  /\ dvFd' = [dvFd EXCEPT ![o] = fd]
  /\ dvOwn' = [dvOwn EXCEPT ![o] = own]
  /\ dvMine' = IF own THEN dvMine \ {fd} ELSE dvMine
  /\ dvReassigned' = (dvReassigned \/ (own /\ fd \in DvToClose(o)))
  /\ UNCHANGED dvDropped

\* claim(): the client leaves the descriptor it lent to the object.
DvClaim(o) == /\ dvFd[o] \in dvMine /\ ~dvOwn[o]
              /\ dvOwn' = [dvOwn EXCEPT ![o] = TRUE]
              /\ dvMine' = dvMine \ {dvFd[o]}
              /\ UNCHANGED <<dvFd, dvOpen, dvHistory>>

\* The client opens a descriptor, and closes it even while a device still has it.
DvClientOpens(fd) == /\ fd \in DvHandles \ dvOpen
                     /\ dvOpen' = dvOpen \cup {fd} /\ dvMine' = dvMine \cup {fd}
                     /\ UNCHANGED <<dvFd, dvOwn, dvHistory>>

DvClientCloses(fd) == /\ fd \in dvMine
                      /\ dvOpen' = dvOpen \ {fd} /\ dvMine' = dvMine \ {fd}
                      /\ UNCHANGED <<dvFd, dvOwn, dvHistory>>

DvNext == \/ \E o \in DvObjects :
               \/ DvClose(o) \/ DvAnew(o) \/ DvClaim(o)
               \/ \E fd \in DvFds : DvOpen(o, fd)
               \/ \E fd \in DvFds, own \in BOOLEAN :
                    DvAssign(o, fd, own) \/ DvConstruct(o, fd, own)
          \/ \E fd \in DvHandles : DvClientOpens(fd) \/ DvClientCloses(fd)

DvSpec == DvInit /\ [][DvNext]_dvVars

-----------------------------------------------------------------------------

DvOwned(o) == IF dvOwn[o] THEN {dvFd[o]} \cap DvHandles ELSE {}

\* Every open descriptor is somebody's to close, the client's or one device's,
\* and what a device will close is open and still its own, although own_ starts
\* undefined, descriptors are lent and claimed, and the system reuses numbers.
\* But for the descriptors given to the constructor of a Device, which nobody
\* closes although Device.h:312-313 says that the object "should close it upon
\* destruction", and until an object is assigned the descriptor it owns, to own
\* it: assign() closes it first, and the object owns a number that is not open.
DvOneCloser == ~dvReassigned =>
  /\ dvOpen \ dvDropped = dvMine \cup UNION {DvOwned(o) : o \in DvObjects}
  /\ \A o \in DvObjects : DvOwned(o) \cap dvMine = {}
  /\ \A o, p \in DvObjects : o # p => DvOwned(o) \cap DvOwned(p) = {}
=============================================================================
