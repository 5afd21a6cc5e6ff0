-------------------------------- MODULE MCData --------------------------------
(***************************************************************************)
(* The containers, streams, numbers and handles side by side: in each      *)
(* behaviour one part moves, chosen at the start, and the others rest at   *)
(* one of their initial states.  Nothing connects them; one run checks all.*)
(***************************************************************************)
EXTENDS MsgSlot, CircQueue, Stack, KeyArray, SeqLock, AtomicCounter, PosixTime,
        Buffers, BufCodec, DevBinStream, BinStream, Sockets, Devices

VARIABLE part

Parts == {"slot", "ring", "stack", "keys", "seqlock", "counter", "time", "buffers",
          "codec", "devstream", "binstream", "sockets", "devices"}

\* Where a resting part has several initial states it takes one of them.
AtRest == /\ part # "slot" => extras = {}
          /\ part # "ring" => cqIsr = "put"
          /\ part # "seqlock" => ctr_ = 0
          /\ part # "codec" => bcKind = "native"
          /\ part # "devstream" => dsKind = "in"
          /\ part # "binstream" => ~bsAlign /\ ~bsSwap
          /\ part # "devices" => \A o \in DvObjects : ~dvOwn[o]

MCInit == /\ part \in Parts
          /\ Init /\ CqInit /\ StInit /\ KyInit /\ SlInit /\ AcInit /\ TmInit /\ BfInit
          /\ BcInit /\ DsInit /\ BsInit /\ SoInit /\ DvInit
          /\ AtRest

MCNext ==
  /\ UNCHANGED part
  /\ IF part = "slot" THEN Next ELSE UNCHANGED vars
  /\ IF part = "ring" THEN CqNext ELSE UNCHANGED cqVars
  /\ IF part = "stack" THEN StNext ELSE UNCHANGED stVars
  /\ IF part = "keys" THEN KyNext ELSE UNCHANGED kyVars
  /\ IF part = "seqlock" THEN SlNext ELSE UNCHANGED slVars
  /\ IF part = "counter" THEN AcNext ELSE UNCHANGED acVars
  /\ IF part = "time" THEN TmNext ELSE UNCHANGED tmVars
  /\ IF part = "buffers" THEN BfNext ELSE UNCHANGED bfVars
  /\ IF part = "codec" THEN BcNext ELSE UNCHANGED bcVars
  /\ IF part = "devstream" THEN DsNext ELSE UNCHANGED dsVars
  /\ IF part = "binstream" THEN BsNext ELSE UNCHANGED bsVars
  /\ IF part = "sockets" THEN SoNext ELSE UNCHANGED soVars
  /\ IF part = "devices" THEN DvNext ELSE UNCHANGED dvVars

MCSpec == MCInit /\ [][MCNext]_<<part, vars, cqVars, stVars, kyVars, slVars, acVars,
                                 tmVars, bfVars, bcVars, dsVars, bsVars, soVars, dvVars>>

-----------------------------------------------------------------------------

\* The containers with one user: what was put is there, once, in its place, and
\* is what comes out.
ContainersKeep == StTypeOK /\ StLifo /\ KyLedger /\ KyAnswer

\* What a Socket, Device, device stream, Buffer or CircQueue holds and owns is open
\* or allocated and no other's, so that it is given back once, and everything
\* open or allocated has such an owner, through transfers, failed calls and reuse
\* of a number by the system.  Five cases have none, named in the parts: the socket
\* of an open() or connect() that failed (soLost), a descriptor given to Device's
\* constructor (dvDropped), a device assigned what it owns (dvReassigned),
\* descriptor 0 of an input stream, and a block set with a capacity of zero
\* (cqUntaken).
OneOwner == SoStrict /\ SoListens /\ DvOneCloser /\ DsDescriptor /\ BfOwns /\ CqMemoryKept

\* The two counters read without waiting, or without atomic instructions: no
\* update is lost and no reader takes a half-made value for a whole one.
CountersExact == SlAccepted /\ AcExact
=============================================================================
