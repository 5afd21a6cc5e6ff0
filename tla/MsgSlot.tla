------------------------------ MODULE MsgSlot ------------------------------
(***************************************************************************)
(* MsgSlot<T> of src/CtrlrFx/MsgSlot.h: a rendezvous cell for one message. *)
(* semEmpty_ and semFull_ are declared BinarySemaphore, which the POSIX    *)
(* port defines as the counting Semaphore ("TODO: This isn't really a      *)
(* binary semaphore"), so their counts are not capped here either.         *)
(* val_ is only touched under lock_, for one assignment, so a step that    *)
(* locks, assigns and unlocks is atomic to every other thread.             *)
(***************************************************************************)
EXTENDS Integers, Sequences, FiniteSets

CONSTANTS Threads,    \* the threads that share the slot
          Values,     \* the messages
          NoMsg,      \* a thread's local that holds no message
          Junk,       \* val_ before the first put
          MaxTokens   \* bound: signal() is called only below this many tokens

ASSUME SlotValueAssumption == NoMsg \notin Values /\ Junk \notin Values \cup {NoMsg}
ASSUME SlotBound == MaxTokens \in Nat \ {0}
ASSUME SlotThreadAssumption == IsFiniteSet(Threads)

VARIABLES val_,       \* the value in the slot
          semEmpty,   \* count of semEmpty_
          semFull,    \* count of semFull_
          pc, how,    \* each thread's place in its operation, and its patience
          msg,        \* each thread's message
          extras      \* which of signal() and reset() the clients use, fixed

sems == <<semEmpty, semFull>>
vars == <<val_, sems, pc, how, msg, extras>>

Hows == {"block", "timed", "try"}
PCs == {"idle", "put.acquire", "put.store", "put.post",
        "get.acquire", "get.read", "get.post"}

TypeOK == /\ val_ \in Values \cup {Junk}
          /\ semEmpty \in 0..MaxTokens
          /\ semFull \in 0..MaxTokens
          /\ pc \in [Threads -> PCs]
          /\ how \in [Threads -> Hows]
          /\ msg \in [Threads -> Values \cup {NoMsg, Junk}]
          /\ extras \subseteq {"signal", "reset"}

Init == /\ val_ = Junk
        /\ semEmpty = 1
        /\ semFull = 0
        /\ pc = [t \in Threads |-> "idle"]
        /\ how = [t \in Threads |-> "block"]
        /\ msg = [t \in Threads |-> NoMsg]
        /\ extras \in SUBSET {"signal", "reset"}

InFlight == {t \in Threads : pc[t] \in {"put.store", "put.post", "get.read", "get.post"}}

\* What the two semaphores and the operations under way hold between them.
Tokens == semEmpty + semFull + Cardinality(InFlight)

Goto(t, from, to) == pc[t] = from /\ pc' = [pc EXCEPT ![t] = to]
Patience(t, h) == how' = [how EXCEPT ![t] = h]
SetMsg(t, m) == msg' = [msg EXCEPT ![t] = m]

\* A timed acquire may give up at any time, a try only on a count of zero.
AcquireFails(t, count) == how[t] = "timed" \/ (how[t] = "try" /\ count = 0)

-----------------------------------------------------------------------------
(* put(v), put(v,d), tryput(v).                                            *)

PutCall(t) == \E v \in Values, h \in Hows :
  /\ Goto(t, "idle", "put.acquire")
  /\ Patience(t, h)
  /\ SetMsg(t, v)
  /\ UNCHANGED <<val_, sems, extras>>

\* Bug seeded: tryacquire()'s outcome is ignored, as in signal().
PutAcquireUnchecked(t) == /\ Goto(t, "put.acquire", "put.store")
                          /\ semEmpty' = IF semEmpty > 0 THEN semEmpty - 1 ELSE 0
                          /\ Patience(t, "block")
                          /\ UNCHANGED <<val_, semFull, msg, extras>>

PutAcquire(t) == /\ Goto(t, "put.acquire", "put.store")
                 /\ semEmpty > 0
                 /\ semEmpty' = semEmpty - 1
                 /\ Patience(t, "block")
                 /\ UNCHANGED <<val_, semFull, msg, extras>>

PutFail(t) == /\ AcquireFails(t, semEmpty)
              /\ Goto(t, "put.acquire", "idle")
              /\ Patience(t, "block")
              /\ SetMsg(t, NoMsg)
              /\ UNCHANGED <<val_, sems, extras>>

\* do_put(): val_ = val, under lock_
PutStore(t) == /\ Goto(t, "put.store", "put.post")
               /\ val_' = msg[t]
               /\ UNCHANGED <<sems, how, msg, extras>>

\* do_put(): semFull_.release()
PutPost(t) == /\ Goto(t, "put.post", "idle")
              /\ semFull' = semFull + 1
              /\ SetMsg(t, NoMsg)
              /\ UNCHANGED <<val_, semEmpty, how, extras>>

\* signal(v): the outcome of semEmpty_.tryacquire() is dropped; do_put() follows.
SignalCall(t) == \E v \in Values :
  /\ "signal" \in extras
  /\ Tokens < MaxTokens
  /\ Goto(t, "idle", "put.store")
  /\ semEmpty' = IF semEmpty > 0 THEN semEmpty - 1 ELSE 0
  /\ SetMsg(t, v)
  /\ UNCHANGED <<val_, semFull, how, extras>>

\* reset(): semFull_.tryacquire(), and nothing else.
Reset(t) == /\ "reset" \in extras
            /\ pc[t] = "idle"
            /\ semFull > 0
            /\ semFull' = semFull - 1
            /\ UNCHANGED <<val_, semEmpty, pc, how, msg, extras>>

-----------------------------------------------------------------------------
(* get(), get(p), get(p,d), tryget(p).                                     *)

GetCall(t) == \E h \in Hows :
  /\ Goto(t, "idle", "get.acquire")
  /\ Patience(t, h)
  /\ UNCHANGED <<val_, sems, msg, extras>>

\* Bug seeded: a getter goes on when its wait gives up.
GetAcquireUnchecked(t) == /\ Goto(t, "get.acquire", "get.read")
                          /\ semFull' = IF semFull > 0 THEN semFull - 1 ELSE 0
                          /\ Patience(t, "block")
                          /\ UNCHANGED <<val_, semEmpty, msg, extras>>

GetAcquire(t) == /\ Goto(t, "get.acquire", "get.read")
                 /\ semFull > 0
                 /\ semFull' = semFull - 1
                 /\ Patience(t, "block")
                 /\ UNCHANGED <<val_, semEmpty, msg, extras>>

GetFail(t) == /\ AcquireFails(t, semFull)
              /\ Goto(t, "get.acquire", "idle")
              /\ Patience(t, "block")
              /\ UNCHANGED <<val_, sems, msg, extras>>

\* do_get(): *val = val_, under lock_
GetRead(t) == /\ Goto(t, "get.read", "get.post")
              /\ SetMsg(t, val_)
              /\ UNCHANGED <<val_, sems, how, extras>>

\* Bug seeded: the slot is not handed back.
GetPostForgotten(t) == /\ Goto(t, "get.post", "idle")
                       /\ SetMsg(t, NoMsg)
                       /\ UNCHANGED <<val_, sems, how, extras>>

\* do_get(): semEmpty_.release()
GetPost(t) == /\ Goto(t, "get.post", "idle")
              /\ semEmpty' = semEmpty + 1
              /\ SetMsg(t, NoMsg)
              /\ UNCHANGED <<val_, semFull, how, extras>>

Step(t) == \/ PutAcquire(t) \/ PutFail(t) \/ PutStore(t) \/ PutPost(t)
           \/ GetAcquire(t) \/ GetFail(t) \/ GetRead(t) \/ GetPost(t)

CallOp(t) == PutCall(t) \/ GetCall(t) \/ SignalCall(t) \/ Reset(t)

Next == \E t \in Threads : CallOp(t) \/ Step(t)

Spec == Init /\ [][Next]_vars

-----------------------------------------------------------------------------
(* Properties.                                                             *)

\* Put, get, their time-outs and failed tries hand on exactly the token they
\* took.  What signal() and reset() do to it goes one way each: without signal()
\* there is never a second token, so never two threads in the cell; without
\* reset() the one there is never gets lost.  The other halves do not hold, against
\* the class's comments: a signal() to an occupied slot posts semFull_ again where
\* it should be "overwriting any existing message" (MsgSlot.h:61), and reset() takes
\* the token of semFull_ and gives none to semEmpty_, which leaves a slot that is
\* neither empty nor full (MsgSlot.h:34-35).
TokenLedger == /\ "signal" \notin extras => Tokens <= 1
               /\ "reset" \notin extras => Tokens >= 1

\* get() never returns the slot's initial content: whatever signal() and
\* reset() do to the counts, a full token follows a store.
NoUnsetRead == \A t \in Threads : pc[t] \in {"get.read", "get.post"} =>
                 val_ # Junk /\ msg[t] # Junk

Occupied == semFull > 0 \/ \E t \in Threads : pc[t] \in {"put.post", "get.read"}

AbsOp == [t \in Threads |->
            CASE pc[t] \in {"put.acquire", "put.store"} -> "put"
              [] pc[t] = "put.post" -> "putDone"
              [] pc[t] \in {"get.acquire", "get.read"} -> "get"
              [] pc[t] = "get.post" -> "getDone"
              [] OTHER -> "idle"]

Fifo == INSTANCE BoundedFifo WITH q <- IF Occupied THEN <<val_>> ELSE << >>,
                                  qcap <- 1, op <- AbsOp, MaxCap <- 1

\* For clients that use neither signal() nor reset() the slot implements the
\* bounded FIFO of capacity one.
FifoSpec == /\ extras = {} => Fifo!AInit
            /\ [][extras = {} => Fifo!ANext \/ UNCHANGED Fifo!avars]_vars

\* The two semaphores of a slot and its one cell: put, get and their time-outs
\* neither make nor lose the token of the cell, signal() never loses it and
\* reset() never makes a second one; and nobody reads the cell before something
\* was stored in it.
SlotTokens == TypeOK /\ TokenLedger /\ NoUnsetRead
=============================================================================
