------------------------------- MODULE Pools -------------------------------
(***************************************************************************)
(* The pools of src/CtrlrFx: ObjPool (ObjPool.h) is a MsgQueue of pointers *)
(* to free objects, and BufPool (BufPool.h) one of buffers, all of one     *)
(* size. ThreadPool and MemPool lend and take back the same way. The queue *)
(* is the bounded FIFO that MsgQueue implements. A client gives back what  *)
(* it got, once. An object is a number, its size is the buffer's; 0 is the *)
(* null pointer of release().                                              *)
(*                                                                         *)
(* The pool's owner calls resize(), which the queue does not allow while   *)
(* threads are inside an operation, and in no other way waits for clients. *)
(***************************************************************************)
EXTENDS Integers, FiniteSets, Sequences, SequencesExt

CONSTANTS PlClients,
          PlMaxCap,    \* bound: the largest capacity; so many objects exist
          PlMaxResize  \* bound: calls of resize()

ASSUME PlBounds == PlMaxCap \in Nat \ {0} /\ PlMaxResize \in Nat

VARIABLES plQue, plCap,  \* the MsgQueue
          plSize,        \* by object: the buffer's size; 0 until resized
          plWant,        \* the size resize_buffers() gives
          plLeft, plHand,\* resize_buffers(): turns left, the buffer in hand
          plPc,          \* by client: "idle", "get", "use", "put"
          plHeld,        \* by client: the object it has
          plLost,        \* objects that resize() or the pool's end dropped
          plResized,     \* calls of resize()
          plOutThen      \* objects out when resize() was called last

plQueue == <<plQue, plCap>>
plTurns == <<plWant, plResized, plOutThen>>
plOwner == <<plTurns, plLeft, plHand>>
plVars == <<plQueue, plSize, plOwner, plPc, plHeld, plLost>>

PlObjects == 1..PlMaxCap
PlNull == 0
PlIn(o) == \E i \in 1..Len(plQue) : plQue[i] = o
PlOut == {plHeld[c] : c \in PlClients} \ {PlNull}

\* ObjPool(n), up to the loop of resize_buffers(sz); or BufPool(), an empty pool.
PlInit == /\ plCap \in 0..PlMaxCap
          /\ plQue = [i \in 1..plCap |-> i]
          /\ plSize = [o \in PlObjects |-> 0]
          /\ plWant = 1 /\ plLeft = plCap /\ plHand = PlNull
          /\ plResized = 0 /\ plOutThen = 0
          /\ plPc = [c \in PlClients |-> "idle"]
          /\ plHeld = [c \in PlClients |-> PlNull]
          /\ plLost = {}

-----------------------------------------------------------------------------
(* Clients. Nobody uses the pool before its constructor is through.        *)

PlBuilt == plResized > 0 \/ plLeft = 0

PlCall(c) == /\ PlBuilt /\ plCap > 0 /\ plPc[c] = "idle"
             /\ plPc' = [plPc EXCEPT ![c] = "get"]
             /\ UNCHANGED <<plQueue, plSize, plOwner, plHeld, plLost>>

\* get(), and the other gets when they succeed. A null pointer sends the
\* client home.
PlGet(c) == /\ plPc[c] = "get" /\ plQue # << >>
            /\ plQue' = Tail(plQue)
            /\ plHeld' = [plHeld EXCEPT ![c] = Head(plQue)]
            /\ plPc' = [plPc EXCEPT ![c] = IF Head(plQue) = PlNull THEN "idle" ELSE "use"]
            /\ UNCHANGED <<plCap, plSize, plOwner, plLost>>

\* tryget(), or the wait with a bound, gives up.
PlGetFails(c) == /\ plPc[c] = "get" /\ plQue = << >>
                 /\ plPc' = [plPc EXCEPT ![c] = "idle"]
                 /\ UNCHANGED <<plQueue, plSize, plOwner, plHeld, plLost>>

PlDone(c) == /\ plPc[c] = "use"
             /\ plPc' = [plPc EXCEPT ![c] = "put"]
             /\ UNCHANGED <<plQueue, plSize, plOwner, plHeld, plLost>>

\* Bug seeded: the client keeps using what it gave back.
PlPutKept(c) == /\ plPc[c] = "put" /\ Len(plQue) < plCap
                /\ plQue' = Append(plQue, plHeld[c])
                /\ plPc' = [plPc EXCEPT ![c] = "use"]
                /\ UNCHANGED <<plCap, plHeld, plSize, plOwner, plLost>>

PlPut(c) == /\ plPc[c] = "put" /\ Len(plQue) < plCap
            /\ plQue' = Append(plQue, plHeld[c])
            /\ plHeld' = [plHeld EXCEPT ![c] = PlNull]
            /\ plPc' = [plPc EXCEPT ![c] = "idle"]
            /\ UNCHANGED <<plCap, plSize, plOwner, plLost>>

\* release(): tryput(0), while no resize_buffers() would get it.
PlRelease == /\ PlBuilt /\ plLeft = 0
             /\ Len(plQue) < plCap
             /\ plQue' = Append(plQue, PlNull)
             /\ UNCHANGED <<plCap, plSize, plOwner, plPc, plHeld, plLost>>

-----------------------------------------------------------------------------
(* The owner.                                                              *)

\* Bug seeded: a turn waits until all the buffers are there.
PlResizeGetOfAll == /\ plLeft > 0 /\ plHand = PlNull /\ Len(plQue) = plCap /\ plCap > 0
                    /\ plHand' = Head(plQue)
                    /\ plQue' = Tail(plQue)
                    /\ plSize' = [plSize EXCEPT ![Head(plQue)] = plWant]
                    /\ UNCHANGED <<plCap, plTurns, plLeft, plPc, plHeld, plLost>>

\* resize_buffers(): a turn gets a buffer, resizes it and puts it back.
PlResizeGet == /\ plLeft > 0 /\ plHand = PlNull /\ plQue # << >>
               /\ plHand' = Head(plQue)
               /\ plQue' = Tail(plQue)
               /\ plSize' = [plSize EXCEPT ![Head(plQue)] = plWant]
               /\ UNCHANGED <<plCap, plTurns, plLeft, plPc, plHeld, plLost>>

\* Bug seeded: the buffer is put back in front.
PlResizePutFront == /\ plHand # PlNull /\ Len(plQue) < plCap
                    /\ plQue' = <<plHand>> \o plQue
                    /\ plHand' = PlNull
                    /\ plLeft' = plLeft - 1
                    /\ UNCHANGED <<plCap, plTurns, plSize, plPc, plHeld, plLost>>

PlResizePut == /\ plHand # PlNull /\ Len(plQue) < plCap
               /\ plQue' = Append(plQue, plHand)
               /\ plHand' = PlNull
               /\ plLeft' = plLeft - 1
               /\ UNCHANGED <<plCap, plTurns, plSize, plPc, plHeld, plLost>>

\* resize(n, sz): the queue is emptied and gets another capacity, and then
\* resize_buffers() asks it for n buffers. No new ones are made.
PlResize(n) == /\ PlBuilt /\ plLeft = 0
               /\ \A c \in PlClients : plPc[c] \in {"idle", "use"}
               /\ plResized < PlMaxResize
               /\ plResized' = plResized + 1
               /\ plOutThen' = Cardinality(PlOut)
               /\ plLost' = plLost \cup (ToSet(plQue) \ {PlNull})
               /\ plQue' = << >> /\ plCap' = n
               /\ plWant' = plWant + 1 /\ plLeft' = n
               /\ UNCHANGED <<plSize, plHand, plPc, plHeld>>

\* ~ObjPool(): tryget() and delete until the queue is empty. Objects that are
\* out are not deleted. A BufPool() may come in its place.
PlDestroy == /\ PlBuilt /\ plCap > 0 /\ plLeft = 0
             /\ \A c \in PlClients : plPc[c] = "idle"
             /\ plLost' = plLost \cup (ToSet(plQue) \ {PlNull})
             /\ plQue' = << >> /\ plCap' = 0
             /\ UNCHANGED <<plSize, plOwner, plPc, plHeld>>

PlNext == \/ \E c \in PlClients : PlCall(c) \/ PlGet(c) \/ PlGetFails(c) \/ PlDone(c) \/ PlPut(c)
          \/ PlRelease \/ PlResizeGet \/ PlResizePut
          \/ (\E n \in 1..PlMaxCap : PlResize(n)) \/ PlDestroy

\* Clients give back what they use; the owner's loop goes on when it can.
PlFairness == /\ \A c \in PlClients : WF_plVars(PlDone(c)) /\ SF_plVars(PlPut(c))
              /\ SF_plVars(PlResizeGet) /\ SF_plVars(PlResizePut)

PlSpec == PlInit /\ [][PlNext]_plVars /\ PlFairness

-----------------------------------------------------------------------------

\* Every object is in one place: in the queue once, with one client, in the
\* owner's hand, or dropped. No two clients ever share one.
PlOnePlace ==
  /\ \A i, j \in 1..Len(plQue) : i # j /\ plQue[i] # PlNull => plQue[i] # plQue[j]
  /\ \A c, d \in PlClients : c # d /\ plHeld[c] # PlNull => plHeld[c] # plHeld[d]
  /\ \A o \in PlObjects : ~(PlIn(o) /\ o \in PlOut \cup plLost \cup {plHand})
  /\ (PlOut \cup ({plHand} \ {PlNull})) \cap plLost = {}

\* The constructor gives every buffer its size: the loop's gets and puts go
\* round the queue once. (In a pool in use they need not.)
PlSized == plResized = 0 /\ plLeft = 0 => \A o \in 1..plCap : plSize[o] = plWant

\* Giving back blocks only while the null pointers of release() take up room
\* in the queue, or after a resize() that made it smaller than the number of
\* objects that were out.
PlPutBlocked == \A c \in PlClients :
  plPc[c] = "put" /\ Len(plQue) >= plCap => PlIn(PlNull) \/ plResized > 0

\* resize() comes to an end, with the buffers it allocated in the queue, as the
\* comment above it promises (BufPool.h:85-87). The code allocates none: it drops
\* what the queue held and then waits for n buffers to be given back.
PlResizeFills == plResized > 0 ~> plLeft = 0

\* With something out, as clients give it back, resize() ends, unless more was
\* out than the queue now holds.
PlResizeEnds == plLeft > 0 /\ (plResized = 0 \/ plOutThen \in 1..plCap) ~> plLeft = 0
=============================================================================
