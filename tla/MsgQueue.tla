------------------------------ MODULE MsgQueue ------------------------------
(***************************************************************************)
(* MsgQueue<T,LockType> of src/CtrlrFx/MsgQueue.h: the bounded queue that  *)
(* CtrlrFx threads use to pass messages.  A ring of slots, a mutex around  *)
(* the ring's pointers, and two counting semaphores: slotSem_ counts the   *)
(* free slots, dataSem_ the messages.  The ring pointers are offsets from  *)
(* buf_, the capacity end_-buf_ is the variable `cap'.                     *)
(*                                                                         *)
(* A thread's position in an operation is pc[t]; how[t] says whether the   *)
(* operation waits for ever, for a bounded time, or not at all.            *)
(***************************************************************************)
EXTENDS Naturals, Sequences, FiniteSets

CONSTANTS Threads,   \* the threads that share the queue
          Values,    \* the messages clients put (T() included, see release())
          NoMsg,     \* a thread's local that holds no message
          Junk,      \* what a slot of a fresh buffer holds
          NoThread,  \* "nobody" as the owner of lock_
          MaxCap     \* the largest capacity clients ask for

ASSUME CapAssumption == MaxCap \in Nat \ {0}
ASSUME ThreadAssumption == IsFiniteSet(Threads) /\ NoThread \notin Threads
ASSUME ValueAssumption == NoMsg \notin Values /\ Junk \notin Values

VARIABLES buf,       \* the slots
          cap,       \* end_ - buf_
          put_,      \* next slot to put, relative to buf_
          get_,      \* next slot to get, relative to buf_
          sz_,       \* the number of elements
          slotSem,   \* count of slotSem_
          dataSem,   \* count of dataSem_
          lock,      \* the thread that holds lock_
          pc, how,   \* each thread's place in its operation, and its patience
          val        \* each thread's message (the argument v, or *p)

ring == <<buf, cap, put_, get_, sz_>>
sems == <<slotSem, dataSem>>
vars == <<ring, sems, lock, pc, how, val>>

Hows == {"block", "timed", "try"}

PutPCs == {"put.acquire", "put.lock", "put.store", "put.link", "put.post"}
GetPCs == {"get.acquire", "get.lock", "get.read", "get.link", "get.post"}
PeekPCs == {"peek.check", "peek.lock", "peek.read", "peek.return"}
PCs == {"idle"} \cup PutPCs \cup GetPCs \cup PeekPCs

\* The places at which a thread is between lock_.acquire() and its release.
Critical == {"put.store", "put.link", "get.read", "get.link", "peek.read"}

TypeOK == /\ buf \in [0..(MaxCap - 1) -> Values \cup {Junk}]
          /\ cap \in 0..MaxCap
          /\ put_ \in 0..MaxCap
          /\ get_ \in 0..MaxCap
          /\ sz_ \in Nat
          /\ slotSem \in Nat
          /\ dataSem \in Nat
          /\ lock \in Threads \cup {NoThread}
          /\ pc \in [Threads -> PCs]
          /\ how \in [Threads -> Hows]
          /\ val \in [Threads -> Values \cup {NoMsg, Junk}]

-----------------------------------------------------------------------------
\* Bug seeded: the pointer runs past end_.
nextNoWrap(p) == p + 1

next(p) == IF p + 1 = cap THEN 0 ELSE p + 1

\* MsgQueue(size_t cap): resize(cap), on semaphores that start at zero.
Init == /\ cap \in 0..MaxCap
        /\ buf = [i \in 0..(MaxCap - 1) |-> Junk]
        /\ put_ = 0
        /\ get_ = 0
        /\ sz_ = 0
        /\ slotSem = cap
        /\ dataSem = 0
        /\ lock = NoThread
        /\ pc = [t \in Threads |-> "idle"]
        /\ how = [t \in Threads |-> "block"]
        /\ val = [t \in Threads |-> NoMsg]

Goto(t, from, to) == pc[t] = from /\ pc' = [pc EXCEPT ![t] = to]

SetVal(t, m) == val' = [val EXCEPT ![t] = m]

\* A call: the thread enters an operation with its argument and its patience.
Call(t, to, h, m) == /\ Goto(t, "idle", to)
                     /\ how' = [how EXCEPT ![t] = h]
                     /\ SetVal(t, m)
                     /\ UNCHANGED <<ring, sems, lock>>

\* The operation returns to the client: its locals go away.
Return(t, from) == /\ Goto(t, from, "idle")
                   /\ SetVal(t, NoMsg)
                   /\ UNCHANGED <<ring, lock, how>>

Lock(t, from, to) == /\ Goto(t, from, to)
                     /\ lock = NoThread
                     /\ lock' = t
                     /\ UNCHANGED <<ring, sems, how, val>>

\* Semaphore::acquire() has nothing to do with the clock; a timed acquire may
\* give up whatever the count is when the thread runs again (sem_timedwait()
\* does not look once more after its timeout); tryacquire() fails on zero only.
AcquireFails(t, count) == \/ how[t] = "timed"
                          \/ how[t] = "try" /\ count = 0

-----------------------------------------------------------------------------
(* put(v), put(v,d), tryput(v), and release(), which is put(T()).          *)

PutCall(t) == \E v \in Values, h \in Hows : Call(t, "put.acquire", h, v)

\* Bug seeded: sem_wait()'s outcome is ignored.
PutAcquireUnchecked(t) == /\ Goto(t, "put.acquire", "put.lock")
                          /\ slotSem' = IF slotSem > 0 THEN slotSem - 1 ELSE 0
                          /\ how' = [how EXCEPT ![t] = "block"]
                          /\ UNCHANGED <<ring, dataSem, lock, val>>

PutAcquire(t) == /\ Goto(t, "put.acquire", "put.lock")
                 /\ slotSem > 0
                 /\ slotSem' = slotSem - 1
                 /\ how' = [how EXCEPT ![t] = "block"]
                 /\ UNCHANGED <<ring, dataSem, lock, val>>

PutFail(t) == /\ AcquireFails(t, slotSem)
              /\ Goto(t, "put.acquire", "idle")
              /\ how' = [how EXCEPT ![t] = "block"]
              /\ SetVal(t, NoMsg)
              /\ UNCHANGED <<ring, sems, lock>>

PutLock(t) == Lock(t, "put.lock", "put.store")

\* Bug seeded: the message goes to the slot of the oldest one.
PutStoreAtGet(t) == /\ Goto(t, "put.store", "put.link")
                    /\ buf' = [buf EXCEPT ![get_] = val[t]]
                    /\ UNCHANGED <<cap, put_, get_, sz_, sems, lock, how, val>>

\* do_put(): *put_ = v
PutStore(t) == /\ Goto(t, "put.store", "put.link")
               /\ buf' = [buf EXCEPT ![put_] = val[t]]
               /\ UNCHANGED <<cap, put_, get_, sz_, sems, lock, how, val>>

\* Bug seeded: the guard is not released.
PutLinkKeepsLock(t) == /\ Goto(t, "put.link", "put.post")
                       /\ put_' = next(put_)
                       /\ sz_' = sz_ + 1
                       /\ UNCHANGED <<buf, cap, get_, sems, lock, how, val>>

\* do_put(): put_ = next(put_); sz_++; g.release()
PutLink(t) == /\ Goto(t, "put.link", "put.post")
              /\ put_' = next(put_)
              /\ sz_' = sz_ + 1
              /\ lock' = NoThread
              /\ UNCHANGED <<buf, cap, get_, sems, how, val>>

\* Bug seeded: the message is never announced.
PutPostForgotten(t) == Return(t, "put.post") /\ UNCHANGED sems

\* do_put(): dataSem_.post()
PutPost(t) == /\ Return(t, "put.post")
              /\ dataSem' = dataSem + 1
              /\ UNCHANGED slotSem

-----------------------------------------------------------------------------
(* get(), get(p), get(p,d), tryget(p).                                     *)

GetCall(t) == \E h \in Hows : Call(t, "get.acquire", h, NoMsg)

GetAcquire(t) == /\ Goto(t, "get.acquire", "get.lock")
                 /\ dataSem > 0
                 /\ dataSem' = dataSem - 1
                 /\ how' = [how EXCEPT ![t] = "block"]
                 /\ UNCHANGED <<ring, slotSem, lock, val>>

GetFail(t) == /\ AcquireFails(t, dataSem)
              /\ Goto(t, "get.acquire", "idle")
              /\ how' = [how EXCEPT ![t] = "block"]
              /\ UNCHANGED <<ring, sems, lock, val>>

GetLock(t) == Lock(t, "get.lock", "get.read")

\* do_get(): *p = *get_
GetRead(t) == /\ Goto(t, "get.read", "get.link")
              /\ SetVal(t, buf[get_])
              /\ UNCHANGED <<ring, sems, lock, how>>

\* Bug seeded: the count goes down twice.
GetLinkTwice(t) == /\ Goto(t, "get.link", "get.post")
                   /\ get_' = next(get_)
                   /\ sz_' = sz_ - 2
                   /\ lock' = NoThread
                   /\ UNCHANGED <<buf, cap, put_, sems, how, val>>

\* Bug seeded: the newest message is dropped instead of the oldest.
GetLinkNewest(t) == /\ Goto(t, "get.link", "get.post")
                    /\ put_' = IF put_ = 0 THEN cap - 1 ELSE put_ - 1
                    /\ sz_' = sz_ - 1
                    /\ lock' = NoThread
                    /\ UNCHANGED <<buf, cap, get_, sems, how, val>>

\* do_get(): get_ = next(get_); sz_--; g.release()
GetLink(t) == /\ Goto(t, "get.link", "get.post")
              /\ get_' = next(get_)
              /\ sz_' = sz_ - 1
              /\ lock' = NoThread
              /\ UNCHANGED <<buf, cap, put_, sems, how, val>>

\* Bug seeded: the slot is never given back.
GetPostForgotten(t) == Return(t, "get.post") /\ UNCHANGED sems

\* do_get(): slotSem_.post()
GetPost(t) == /\ Return(t, "get.post")
              /\ slotSem' = slotSem + 1
              /\ UNCHANGED dataSem

-----------------------------------------------------------------------------
(* peek(p): sz_ is read without the lock, then once more with it.          *)

PeekCall(t) == Call(t, "peek.check", "block", NoMsg)

PeekCheck(t) == /\ Goto(t, "peek.check", IF sz_ # 0 THEN "peek.lock" ELSE "idle")
                /\ UNCHANGED <<ring, sems, lock, how, val>>

PeekLock(t) == Lock(t, "peek.lock", "peek.read")

\* The second check, the copy, and the guard's destructor.
PeekRead(t) == /\ Goto(t, "peek.read", IF sz_ # 0 THEN "peek.return" ELSE "idle")
               /\ val' = [val EXCEPT ![t] = IF sz_ # 0 THEN buf[get_] ELSE @]
               /\ lock' = NoThread
               /\ UNCHANGED <<ring, sems, how>>

PeekReturn(t) == Return(t, "peek.return") /\ UNCHANGED sems

-----------------------------------------------------------------------------
(* resize(c) and set_buffer(): "not thread safe", so only while no thread  *)
(* is inside the queue.  destroy() drains both semaphores and zeroes the   *)
(* ring; then one post per slot of the new buffer (none when c = 0).       *)

Resize(c) == /\ \A t \in Threads : pc[t] = "idle"
             /\ cap' = c
             /\ buf' = [i \in 0..(MaxCap - 1) |-> Junk]
             /\ put_' = 0
             /\ get_' = 0
             /\ sz_' = 0
             /\ slotSem' = c
             /\ dataSem' = 0
             /\ UNCHANGED <<lock, pc, how, val>>

Step(t) == \/ PutAcquire(t) \/ PutFail(t) \/ PutLock(t)
           \/ PutStore(t) \/ PutLink(t) \/ PutPost(t)
           \/ GetAcquire(t) \/ GetFail(t) \/ GetLock(t)
           \/ GetRead(t) \/ GetLink(t) \/ GetPost(t)
           \/ PeekCheck(t) \/ PeekLock(t) \/ PeekRead(t) \/ PeekReturn(t)

CallOp(t) == PutCall(t) \/ GetCall(t) \/ PeekCall(t)

Next == \/ \E t \in Threads : CallOp(t) \/ Step(t)
        \/ \E c \in 0..MaxCap : Resize(c)

Spec == Init /\ [][Next]_vars

\* A runnable thread is scheduled eventually, and the OS mutex lets in a thread
\* that waits while others lock and unlock it; nobody is obliged to call, and
\* nothing is assumed of whom a semaphore wakes.
Fairness == \A t \in Threads :
  /\ WF_vars(Step(t))
  /\ SF_vars(PutLock(t) \/ GetLock(t) \/ PeekLock(t))

LiveSpec == Spec /\ Fairness

-----------------------------------------------------------------------------
(* The status operations, as functions of the state they read under lock_. *)
(* The bodies of full() and empty() are exchanged in the code.             *)

size == sz_
remaining == cap - sz_
full == size = 0
empty == remaining = 0

-----------------------------------------------------------------------------
(* Properties.                                                             *)

At(P) == {t \in Threads : pc[t] \in P}

\* The slot of the i-th message (from 0, oldest first).
Slot(i) == IF get_ + i < cap THEN get_ + i ELSE get_ + i - cap

\* The messages in the ring, oldest first.
Contents == [i \in 1..sz_ |-> buf[Slot(i - 1)]]

\* lock_ excludes: exactly the thread that holds it is in a critical section.
LockInv == \A t \in Threads : pc[t] \in Critical <=> lock = t

\* put_, get_ and sz_ stay in step, in every state another thread can see.
RingInv == /\ IF cap > 0 THEN get_ < cap ELSE get_ = 0
           /\ sz_ <= cap
           /\ put_ = Slot(sz_)

\* Claims: putters that own a free slot, getters that own a message, and the
\* threads that are about to post what they have linked or freed.
PutHeldPCs == {"put.lock", "put.store", "put.link"}
GetHeldPCs == {"get.lock", "get.read", "get.link"}
PutPostPCs == {"put.post"}
GetPostPCs == {"get.post"}

PutHeld == At(PutHeldPCs)
GetHeld == At(GetHeldPCs)
PutPosting == At(PutPostPCs)
GetPosting == At(GetPostPCs)

\* Every message counted by sz_ is announced by dataSem_, or its putter is
\* about to announce it, or a getter has claimed it and not yet unlinked it.
DataAccounting ==
  sz_ = dataSem + Cardinality(PutPosting) + Cardinality(GetHeld)

\* Every free slot is announced by slotSem_, or its getter is about to
\* announce it, or a putter has claimed it and not yet linked it.
SlotAccounting ==
  cap = sz_ + slotSem + Cardinality(GetPosting) + Cardinality(PutHeld)

\* The places at which a thread's message is its client's.
Carrying == PutPCs \cup {"get.post", "peek.return"}

\* Every slot between get_ and put_ holds a message that was put, and what a
\* thread has stored or read under the lock is still what the slot holds.
StoredInv ==
  /\ \A i \in 0..(sz_ - 1) : buf[Slot(i)] \in Values
  /\ \A t \in Threads :
       /\ pc[t] \in Carrying => val[t] \in Values
       /\ pc[t] = "put.link" => buf[put_] = val[t]
       /\ pc[t] = "get.link" => buf[get_] = val[t]

\* do_put() writes a slot no unread message occupies, and do_get() reads a
\* slot a message was put in (MsgQueue.h:304-334: neither checks).
NoOverwrite == \A t \in Threads :
  /\ pc[t] = "put.store" => sz_ < cap /\ \A i \in 0..(sz_ - 1) : put_ # Slot(i)
  /\ pc[t] \in {"get.read", "get.link"} => sz_ > 0 /\ buf[get_] \in Values

\* With no operation under way past its acquire, the counts are exact: no
\* message and no slot is ever lost, so no later get or put waits in vain.
QuiescentExact ==
  (\A t \in Threads : pc[t] \in {"idle", "put.acquire", "get.acquire"})
     => dataSem = sz_ /\ slotSem = cap - sz_

\* The queue implements the bounded FIFO, its operations taking effect when
\* they change sz_ under the lock.
OpOf(place) ==
  CASE place = "idle" -> "idle"
    [] place \in {"put.acquire", "put.lock", "put.store", "put.link"} -> "put"
    [] place = "put.post" -> "putDone"
    [] place \in {"get.acquire", "get.lock", "get.read", "get.link"} -> "get"
    [] place \in {"get.post", "peek.return"} -> "getDone"
    [] OTHER -> "peek"

AbsOp == [t \in Threads |-> OpOf(pc[t])]

AbsMsg == [t \in Threads |-> IF pc[t] \in Carrying THEN val[t] ELSE NoMsg]

Fifo == INSTANCE BoundedFifo WITH q <- Contents, qcap <- cap,
                                  op <- AbsOp, msg <- AbsMsg

\* Every behaviour of the queue is one of the bounded FIFO.
FifoSpec == Fifo!ASpec

\* A thread waiting in get() while the queue holds a message: some getter
\* takes a message out, or this one claims one or gives up.
GetProgress == \A t \in Threads :
  (pc[t] = "get.acquire" /\ sz_ > 0)
     ~> (pc[t] # "get.acquire" \/ \E u \in Threads : pc[u] = "get.post")

\* The same for a thread waiting in put() while a slot is free.
PutProgress == \A t \in Threads :
  (pc[t] = "put.acquire" /\ sz_ < cap)
     ~> (pc[t] # "put.acquire" \/ \E u \in Threads : pc[u] = "put.post")

\* Nobody waits for ever for what is there while others are served with it or
\* not at all: a get while the queue holds messages, a put while slots are free.
NobodyStranded == GetProgress /\ PutProgress

\* The mutex, the ring and the slot semaphore agree with each other in every
\* interleaving: who is inside, which slots hold messages, which are promised to
\* a putter.
RingHolds == LockInv /\ RingInv /\ SlotAccounting /\ StoredInv
=============================================================================
