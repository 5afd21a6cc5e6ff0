# A TLA+ verification of CtrlrFx

CtrlrFx is a C++ framework for embedded controllers: thin portable wrappers
around an RTOS (threads, mutexes, semaphores, condition variables, time), the
synchronisation objects and queues built on them, in-memory buffers and binary
streams, and a small distributed-object protocol between a controller and its
host. The code is in `src/CtrlrFx` (headers, most of the code is templates and
inline), `src/src` (the compiled part) and `src/CtrlrFx/os/*` (the ports; the
POSIX port and the `generic` objects built on any port are the ones modelled
here).

## Inventory

| Component | State | Operations | Used by |
|---|---|---|---|
| Mutex, Semaphore, ConditionVar, Guard (POSIX) | the OS object, ownership, error | lock/try/unlock, wait/timed/try/post, wait/signal/broadcast | everything below |
| MsgQueue | ring pointers, `sz_`, mutex, two semaphores | put/get (blocking, timed, try), peek, resize, status | ObjPool, BufPool, AcqBufQueue, QueueThread |
| MsgSlot | one value, mutex, two "binary" semaphores | put/get (blocking, timed, try), signal, reset | event passing between two threads |
| RdWrLock | `wrlk_`, `wrwt_`, `nrd_`, one condition | rd/wr lock and unlock, demote | data shared by many readers |
| RecursiveMutex | owner, level, one condition | lock, trylock, unlock | code that may re-enter |
| OSEvent (Manual/AutoReset) | `signaled_`, one condition | wait (blocking, timed, try), signal, reset | Thread's completion |
| SeqLock, AtomicCounter | one counter (and a mutex) | write lock/unlock, read begin/retry; increments, exchanges, conversions | lock-free readers, targets without atomic increments |
| ConditionData | a value, one condition | wait for a value, set and signal | |
| Thread, QueueThread, ThreadPool | `active_`, `quit_`, completion event | activate, wait, timed wait, quit | ThreadTimer, applications |
| ThreadTimer | `run_`, `quit_`, delay, period, one condition | start, stop, one_shot, quit | applications |
| CircQueue, Stack, KeyArray, Array | pointers into one buffer | single-threaded containers | DistObj, device I/O |
| ObjPool, BufPool, MemPool, AcqBufQueue | MsgQueues of free and filled buffers | get/put, resize, release | acquisition pipelines |
| Buffer, FixedBuffer, BufCodec | position, limit, mark | put/get, flip, compact, encode/decode | DistObj |
| BinStream family | get and put areas over a device, memory or a file | read/write, flush, seek | host tools |
| Device, Socket, TcpAcceptor, TcpConnector | descriptor, ownership | open/close, read_n/write_n | DistObjSrvr, example programs |
| DistObj, DistObjRegistry, DistObjSrvr, DigIO | object table, message id, request and response buffers | register, dispatch, scan header, serve, send | controllers and hosts |
| Time, Duration, ClockTime | seconds and nanoseconds | arithmetic, normalisation | all timed operations |
| StateMachine | current state function | transition, dispatch | nothing in the repository |
| AcqDemo, MtEchoServer, devfwd (examples) | threads, queues, pools, sockets put together | acquire, accept, serve, forward, quit | |

What is hard here: the order in which threads interleave inside the
synchronisation objects (each is a handful of lines with no test of its own
interleavings), wakeups that may be lost or go to the wrong thread, timeouts that
race with the event they wait for, semaphores used as if they were binary, ring
arithmetic at capacity 0 and 1, and a request/response protocol on a byte stream
that can lose its framing. `PROJECT.json` lists each such place with its line.

## Modules

Every module states in its header which stretch of code is one step and why no
other thread can tell the difference. A module's `vars` are the members of the
class with their names, a program counter per thread, and history variables,
which are marked as such and never guard an action. Definitions introduced by
the comment `Bug seeded:` are variants of a handler with a plausible mistake;
no specification uses them, `PROJECT.json` pairs each with the property that
tells it apart.

### MsgQueue (`BoundedFifo`, `MsgQueue`, `MCMsgQueue`, `MsgQueueProofs`)

`BoundedFifo` is what the queue promises: a sequence of at most `qcap` messages,
and for each thread the operation it is in; a put, get or peek has its effect in
one step between its call and its return.

`MsgQueue` is the code. Ring pointers are offsets from `buf_`; `cap` is
`end_ - buf_`. A thread's place is `pc[t]`, and the steps of `do_put()` are the
points another thread can tell apart: acquiring the slot semaphore, the lock, the
store, the pointer and `sz_` update with the unlock, the post.
`peek()` reads `sz_` before it locks. `resize()` is enabled only while every
thread is idle, as the header requires ("not thread safe").

The refinement mapping is `Fifo`: `q` is the ring read from `get_` for `sz_`
slots, and an operation takes effect when it changes `sz_`.

### MsgSlot (`MsgSlot`, over `BoundedFifo`; proofs in `DataProofs`)

The slot's two `BinarySemaphore`s are ordinary counting semaphores on POSIX, so
their counts are not capped. `extras` says which of `signal()` and `reset()` the
clients use in a behaviour and never changes. Without the first the two semaphores
and the threads at the cell never have more than the one token (`TokenLedger`), without the
second never less, and without both the slot is a `BoundedFifo` of capacity one. That
`signal()` makes a second token and `reset()` drops the only one is against the class's
comments: see the Observations. Nothing is claimed of the number of tokens there.

### RdWrLock (`RdWrLock`, `RdWrLockProofs`)

`wrlk_`, `wrwt_`, `nrd_` are the code's. One condition variable serves readers and
both waits of `wr_lock()` (`w1`, `w2`), so `signal()` may wake any of them. Clients
unlock only what they hold; `readLocks` and `writers` are what they hold, from
their point of view, and `Held` says that the flags agree.

### RecursiveMutex and OSEvent (proofs in `WaitingProofs`)

In both, the mutex inside the `ConditionVar` is a variable (`inner`, `rmInner`), because
`trylock()` and `trywait()` give up when it is taken. An operation is a call, an
entry (the guard) and a body; a wait puts the thread to sleep and gives the mutex up.
`depth` is how many locks each client holds. `unlock()` may be called by a thread
that holds nothing and `owner_` starts with any value. `OSEvent` is both kinds of
event; `absorbed` records that a signal reached a timed wait just as it timed out.

### ThreadTimer (proofs in `WaitingProofs`)

`run()` is its stretches from one wait to the next (`Rest`, `Delay`, `Fire`,
`Quit`); `start()`, `one_shot()`, `stop()`, `quit()` are single steps, since all of
them hold the condition variable's mutex throughout. Of a duration only "zero or
not" matters to the control flow; time is the action `TtTimeout`.

### Thread (proofs in `ThreadsProofs`)

The owner's operations against `startup()` on the new thread: `activate()` in two
steps (the thread may run, and exit, before `active_` is assigned), `wait()`,
`wait(d)`, `quit()`, and the event `evtDone_` that is never reset.

### DistObj (`DistObjRegistry`, `DistObjSrvr`, `DistObjProofs`)

`DistObjRegistry` is the table with its sentinel, as operators on a table value;
what lies behind the sentinel is `Junk`. `DistObjSrvr` composes it with the two
ends of a connection. The host's threads (`Host(c)`) run a stub: take a message id
(a load and a store, as `msg_id_++` is not atomic), then `send()` under `lock_`:
two writes and two or three reads. The controller's `run()` (`Run`) scans for
"CX", reads the rest of the header, the payload, dispatches under `lock_` and
writes the response in three writes under `lock_`. The connection is two sequences
of units; a unit is a byte where the code looks at bytes (the scan) and a word or
header where it does not. It may break between any two steps and lose the end of
either direction (`Drop`); before a packet there may be stray bytes (`Noise`). The
locals of `run()` and `get_pkt_hdr()` that the code leaves uninitialised, or keeps
from one packet to the next, are variables with exactly that behaviour.
The application registers objects and calls `quit()` at any time.

The three threads of control meet in `toSrv`, `toHost` and `obj_map_`. Components
are composed by INSTANCE (`BoundedFifo` in the queues) or EXTENDS (the registry in
the server). `DistObjSrvr` uses `Mutex` as an owner variable.

### ConditionData, SeqLock, AtomicCounter (proofs of the last two in `DataProofs`)

`ConditionData`: threads wait for the value to be, or not to be, a given one; a setter
wakes one sleeper or all, as it chooses (`cdStyles` is which of the two the clients
use in a behaviour). `SeqLock`: a writer stores two words between two increments of a
counter of `SlWidth` bits whose first value is anything; a reader's begin, two loads
and retry are separate steps, and `slMissed` counts the writes during one read, since
the class cannot tell a counter that came round. `AtomicCounter`: the load and the
store of each operation, under its lock where the code takes one.

### QueueThread, Pools, AcqBufQueue (proofs in `ThreadsProofs`)

All three stand on `MsgQueue` and take it as the bounded FIFO that it was proved to
implement, so a put or a get is one step. `QueueThread` joins it to a thread that
gets, looks at `quit_` and handles; `quit()` is two steps, the flag and the put of
`T()`. `Pools` is ObjPool, BufPool, MemPool and ThreadPool: clients lend and give
back while the owner's `resize_buffers()` takes its turns. `AcqBufQueue` is the ring
of queues with AcqDemo's thread between each two.

### CircQueue, Stack, KeyArray (proofs in `DataProofs`)

`CircQueue` is used as its header says: an interrupt routine at one end, a background
task at the other, with no lock. The routine's calls are single steps; the background
task's are a step for each access to a pointer that the other side writes. The ring
holds one item less than its capacity, which is what its `remaining()` says and not what
its unit test expects. `cqUntaken` is the memory handed to `set()` to
own with a capacity of zero, which the queue neither keeps nor deletes.
`Stack` and `KeyArray` have one user. The k-th item that goes in is the number k, so
"what was put, in order" is arithmetic.

### Buffer, Buffers, BufCodec (proofs in `StreamProofs`)

`Buffer` is the class as operators on a value (memory, position, limit, mark).
`Buffers` puts an owning and a fixed one to use, copying between them. `destroy()` of
memory that is not owned leaves `base_` where it was while the other pointers become
null: the buffer is then `BfGone`, with a capacity and a position that are differences
with null, and is only destroyed, resized or given memory again. `BufCodec`
encodes into one and decodes from it, native or swapping. In the codec a byte is the
pair of a value and the index of the byte in it, which is what alignment, order and
truncation are about. `bcGot` names the call a decoder made last, so that a failed read
is compared with the write it answers to as well. An array that is encoded has at least
one byte (`BcBounds`): whether one of none "worked" cannot be told from the bytes.

### DevBinStream, BinStream, Transfer (proofs in `StreamProofs`, `ThreadsProofs`)

`DevBinStream` is the pair of device streams: the put area, and the get area with what
is kept for `unget()`, over a device that takes or gives any part or fails. Nothing
asks whether the stream is open before it reads or writes: after a failed `open()` the
call is made on -1, after `close()` of the input stream on descriptor 0, and `DiLeft` is
what that `close()` leaves open, descriptor 0 included, which it takes for none.
`BinStream` is the inserters and extractors over a memory buffer, with alignment,
swapping and seeking. `Transfer` is `read`, `read_n`, `write`, `write_n` of devices
and sockets at the two ends of a pipe with little room; a call cut short by an error
is made again by the client.

### PosixTime (proofs in `TimeProofs`)

The arithmetic and comparisons of `TimeBase`, `Duration` and `TimeTmpl` over
`normalize_timespec()`, with a second of `TmNs` nanoseconds. Beside each value stands
the number of nanoseconds it should be.

### Sockets, Devices (proofs in `DataProofs`)

Who owns each open descriptor. The system hands out any number that is free, and every
system call may fail, so a number that is closed twice or kept is soon somebody
else's. `Devices` starts with `own_` undefined, as the default constructor leaves it.
`Device(fd, own)` is `DvConstruct`: its virtual base is constructed without arguments, so
the object has no descriptor. `assign()` takes a descriptor of the client's or the one the
object has just closed. What the code loses is kept in history variables: `soLost`
(sockets released by a connection or acceptor that failed), `dvDropped` (descriptors given to
that constructor) and `dvReassigned`.

### EchoServer, DevForward (proofs in `WaitingProofs`)

Two programs of the examples, where the classes above meet. `EchoServer`: main accepts
(Sockets), gets a thread from the pool (Pools) and puts the handle in its slot
(MsgSlot); the thread reads, echoes, puts itself back and only then closes. A thread
whose `activate()` failed is in the pool all the same. `DevForward`: the main thread
and a `DevMonThread` share one socket; `quit()` sets the flag and joins. When the output
device does not open, main returns (`FwDeviceFails`): the socket is closed and the thread
object gone while the thread runs on, reading anything for `quit_` (`FwSeesQuit`), until
the process ends (`FwExit`).

### Composition for the runs (`MCData`, `MCThreads`, `MCWaiting`)

These put modules side by side that do not interact, to check them in one run:
the variable `part` is chosen at the start and says which of them moves in a
behaviour; the others keep an initial state. So the states of a run are the sum of the
parts' and not their product, and each part is checked as if alone: `MCNext` restricted
to a part is the module's own next-state relation, and its fairness is the module's own
with `part` as a conjunct of each action. The components that do interact are composed
inside `DistObjSrvr`, `QueueThread`, `Pools`, `EchoServer` and `DevForward`.

## Runs

| Run | Question | Bounds |
|---|---|---|
| `msgqueue_safety` | ring, semaphore accounts, no overwrite, exact counts when quiet, implements `BoundedFifo` | 3 threads, 2 messages, capacity 0 to 2, resizing between operations |
| `msgqueue_live` | nobody waits for ever for what is there | 3 threads, 1 message, capacity 0 to 2 |
| `data` (`MCData`) | see below | see below |
| `threads` (`MCThreads`) | see below | see below |
| `waiting` (`MCWaiting`) | see below | see below |
| `distobj` | registry look-up, replies belong to their calls, at most one execution, calls and server end | 2 host threads, 2 calls, 1 stray byte, 1 key, 2 objects, table of 2 |
| `threadtimer_delay`, `thread_timed`, `distobj_timeout`, `dev_sync`, `socket_leak`, `pool_resize` | the disagreements under Findings | as small as shows them |

The parts of the three compositions:

| Run, part | What is checked | Bounds |
|---|---|---|
| `data`: MsgSlot | at most one token without `signal()`, at least one without `reset()`, no unset value read, implements `BoundedFifo` of capacity 1 for clients of put and get | 3 threads, 2 messages, `signal()` while there are fewer than 3 tokens |
| CircQueue | both sides see size and order right with no lock; memory is freed once, but for a block given with capacity 0 | capacity up to 3, 7 items, 3 blocks of memory |
| Stack, KeyArray | last in first out, also for blocks that fit in part; every value in one slot under its key, found if there | 3 cells, 6 items; 3 slots, 5 values, 2 keys |
| SeqLock | an accepted read is of one write, and the last at its beginning; an odd start accepts only reads during a write | 1 reader, a counter of 2 bits |
| AtomicCounter | no lost update, every result that of a serial order | 2 threads, 2 counters, 1 bit |
| PosixTime | no nanosecond is lost; signs agree; equal values have equal fields, below a whole second; conversion drops only a fraction | a second of 4 ns and 2 ms, 2 seconds either way |
| Buffers | pointers in order, contents survive flip, compact, copy, resize, from one `destroy()` to the next; memory freed once | capacity up to 2 and a fixed 1 |
| BufCodec | decoding returns what was encoded and fails where that did; nothing beyond the limit; the good flag | 9 bytes, 4 calls |
| DevBinStream | as many bytes on the device and in the area as were put, and these bytes in order until a write is short; what is read is the device's, through ungets and failures; one descriptor, but for descriptor 0 of the input stream | areas of 3 bytes, 7 bytes, descriptors 0 and 3 |
| BinStream | what is read is what was put, at every alignment, order and seek; the state tells | 7 bytes, 2 calls of 6 kinds |
| Sockets, Devices | a handle has one owner, which closes it once, but for `soLost` and `dvDropped` and until `dvReassigned`; an open acceptor listens | 5 sockets, 4 handles; 2 devices, 2 handles |
| `threads`: RdWrLock | exclusion, exact flags, one pending writer, no lost wakeup, a pending writer is admitted | 3 threads, 2 nested read locks each |
| Thread | a completed wait means the OS thread is gone; waits return | 3 activations |
| QueueThread | the waking `T()` is never handled, `quit()` ends the thread, and when it may not return itself | 2 producers, room for 1, 3 messages, 2 quits and activations |
| Pools | an object is in one place; buffers get their size; when giving back blocks; which resizes end | 2 clients, 3 objects, 1 resize |
| AcqBufQueue | frames come through in order, worked on by every stage; buffers circulate | 3 stages, 2 buffers, 4 frames |
| Transfer | bytes once and in order, buffer positions tell how far; `_n` calls are complete or cut by an error; all arrives | 4 bytes, a pipe of 2, 1 error |
| `waiting`: OSEvent | a signal finds its waiter | 3 threads, waits with and without bound |
| RecursiveMutex | one owner, exact level, no lost wakeup | 3 threads, 2 levels |
| ConditionData | a return means the condition holds, nobody sleeps through a broadcast value, a lasting value arrives | 2 threads, 2 values |
| ThreadTimer | silence after stop, one event per one-shot, a start is not lost, quit ends the thread | one timer; events since the last control operation counted up to 2 |
| EchoServer | a thread in the pool is idle; echoes are the client's own, in order; a connection has one holder; connections find threads | 2 handlers of which any may not run, 3 connections, 2 packets |
| DevForward | until main returns, the device thread lives within its connection; order in both directions; main gets ready again | 2 connections, 2 packets each way |

The properties of these three runs are conjunctions of named parts, one part per
question: for example `OneOwner` of `MCData` joins what the memory of the ring and of
the buffers, the sockets and the devices promise about who frees or closes a thing,
and `Heard` of `MCWaiting` joins the liveness of its events, condition data and timer.
`OneOwner` has five exceptions, each named in its parts and each listed under Findings or Observations: `soLost`, `dvDropped`, `dvReassigned`, `cqUntaken`, and
descriptor 0 of an input stream. PROJECT.json seeds a bug in the code of each part and expects the joined
property to fail.

Why these bounds are enough to be interesting. Three threads are the least with
two contenders and one party they interfere with (two putters and a getter; a
holder, a pending writer and a reader; a sleeper, a thief of the wakeup and the
one that signals). Capacity 2 is the least ring that wraps with two messages in it;
0 and 1 are the edge cases. A third activation of a thread meets the event left by
the first in every order. Two calls are enough for one response to be mistaken for
another, and two objects under one key in a table of two fill the table, which
removes its sentinel. Seven items go more than twice round a ring of 3; a field of 4
bytes behind one of 1 pads and, in 7 or 9 bytes, also fails to fit; areas of 3 over 7
bytes are refilled twice with bytes kept for `unget()`. A counter of 2 bits wraps
within one read, which is the case `slMissed` excludes, and both sides of that bound
are reached. One more handle than a socket needs lets the system reuse a closed one; two
devices and a client compete for two descriptors, so that a number is the client's, one
device's and another's in turn. Descriptor 0 is among those of the streams because
`close()` treats it as none.
Three connections are one more than the handlers, so that one waits. Symmetry is used
in `msgqueue_safety` only, where no liveness is checked.

`CHECK_DEADLOCK FALSE` is stated where the system may really stop: a queue or slot
whose threads all wait for messages nobody puts, readers nested behind a pending
writer (see Observations), an owner in `quit()` of a full queue, a `resize()` that waits
for buffers it dropped, a thread or server that is over, a bound that is used up.

## Fairness

Nobody is ever obliged to call an operation, to activate, to signal or to quit.

- `MsgQueue`, `OSEvent`: weak fairness of each thread's next step inside an
  operation (the OS runs runnable threads) and strong fairness of taking the mutex:
  it is held for a few statements at a time, and a thread that keeps asking is not
  passed over for ever. Nothing is assumed of whom a semaphore wakes; a waiter of
  `MsgQueue` may be overtaken for ever, and `GetProgress` says only that then
  somebody else is served.
- `RdWrLock`: weak fairness of a woken thread's retry and of unlocking by whoever
  holds a lock and is running. Clients that never unlock would make any claim false.
- `ThreadTimer`: weak fairness of `run()`'s steps and of time passing.
- `Thread`: weak fairness of `startup()` and of the owner's operations under way;
  for `WaitReturns` also that `run()` returns once `quit_` is set, which is what the
  class asks of its derived classes. `thread_timed` does without the last.
- `ConditionData`: weak fairness of a woken thread's look at the value.
- `QueueThread`: weak fairness of the thread's steps, strong fairness of the put in
  `quit()`: a semaphore that is posted again and again lets its waiter through some
  time. `Pools`: the same of giving back and of `resize_buffers()`, and that a client is
  done some time with what it got.
- `AcqBufQueue`, `Transfer`, `DevForward`: weak fairness of each thread's steps; in
  `Transfer` the reader empties its buffers, and errors are bounded in number. A read
  that is in progress when bytes are there returns some of them.
- `EchoServer`: weak fairness of main's and the handlers' steps, and of each client
  closing its connection some time; without the last one client may hold a handler for
  ever, and there are as many handlers as `POOL_SIZE`.
- `DistObjSrvr`: while `run()` or a call under way can take a step, one of them is
  taken; it is weaker than fairness to each thread. Every read has its bytes or
  sees the connection broken. No fairness of `Drop`, `quit` or registration. With
  `MaxCalls` calls in all, a caller is not overtaken at `lock_` for ever; with more,
  that would take a fair mutex.

## Findings

Each has a run that shows it and is quoted in `PROJECT.json`.

- `distobj_timeout` (`DistObjSrvr.cpp:113`): `send()` never compares the response's
  id with the command's, although the wire format says that they match. After a read
  timeout on the port the late response is returned as the answer to the next
  command.
- `threadtimer_delay` (`ThreadTimer.cpp:129`): `stop()` and `start()` before the
  thread wakes up make the timer fire without its initial delay; so does a spurious
  wakeup.
- `dev_sync` (`DevBinStream.cpp:275`): after a short write `sync()` returns 0 with the
  bytes already written still at the front of the buffer, and the others dropped.
- `socket_leak` (`TcpConnector.cpp:23`): a failed connection attempt `release()`s the
  socket it created, which closes nothing. `TcpAcceptor::open()` does the same.
- `pool_resize` (`BufPool.h:109`): `resize()` allocates nothing: it drops the buffers that
  are in the pool and then waits for as many to be given back as the new capacity. With
  none out, and on a pool made with `BufPool()`, it never returns.
- `thread_timed` (`Thread.cpp:164`): in a second activation the time-bounded wait
  blocks without bound, because the completion event is never reset.

### Observations without a run

Noticed while modelling; the models have the code's behaviour unless it is said
otherwise. Where a property that is checked would be false because of one, the property
names the exception.

- `MsgQueue.h:129-132`: the bodies of `full()` and `empty()` are exchanged.
- `MsgSlot.h:144`: `signal()` of an occupied slot replaces the message and posts `semFull_`
  again: two gets return it, where the comment at 61 says that it overwrites.
- `MsgSlot.h:151`: `reset()` takes the full token and posts nothing: the slot is then
  neither "empty" nor "full" (the comments at 34-35), and no put is accepted before the
  next `signal()`. `TokenLedger` holds for the clients that do not call the one or the
  other.
- `Time.cpp:47`: normalisation leaves exactly one second's worth of nanoseconds where it
  is, so two equal times can compare as different, against `Time.h:99-101`; `TmNormal`
  allows that value and `TmUnique` is about the others.
- `RdWrLock`: a second read lock by a thread that holds one waits behind a pending
  writer, which waits for it; `WriterAdmitted` has the exception.
- `RecursiveMutex.cpp:40`: `trylock()` fails also when another thread is merely
  inside `lock()` or `unlock()`, even for the mutex's owner.
- `OSEvent.cpp:46`: a successful `trywait()` takes a manual-reset event down.
- `ThreadTimer.cpp:81`: `one_shot()` of a running timer does nothing, where
  `ITimer.h:48-49` says it is equivalent to `start()`.
- `MsgQueue`: `tryget()` may fail while a completed put's message is queued, if an
  earlier message's putter has not posted yet. `BoundedFifo` allows a try to fail at
  any time.
- `Semaphore.h:95`: `wait()` drops `sem_wait()`'s result; a signal handler would let a
  caller through without a token. The models assume that no signals interrupt waits.
- `DistObjSrvr.cpp:55-64`: after a 'C' the scan reads one byte at a time into
  `magic[1]` and never starts again with two, so "C", anything without an 'X' and then
  an "X" passes for a header. The model has it for stray bytes without 'X', where
  it does no harm.
- `DistObjSrvr.cpp:171`: the payload's read is not checked; with a packet cut off
  inside its payload the decoder leaves the old words in `cmd_hdr` and the last command
  is executed again (`AtMostOnce` holds up to that, see `short`). Line 73 does not
  report an end of file in the header, where the comment at 139 says that `run()` exits.
- `DistObjSrvr.cpp:203-204`: the comment says that a failed command's response is
  thrown away; the code sends whatever is in the buffer. The skeletons put nothing
  there before they fail.
- `CircQueue.h:129`: a ring of capacity n takes n - 1 items, as `remaining()`'s comment
  says and `CqHolds` has it; `CircQueueTest.cpp:80-99` asserts of a new queue of capacity 4
  that 4 slots remain and that a fourth put succeeds, and `capacity()` is called "the max
  number of items the queue can hold" (114).
- `CircQueue.h:211`: `set()` with capacity 0 and memory to own returns before it takes the
  memory, which nobody deletes (`cqUntaken`), against the comment at 102-103.
- `CircQueue.h:118`: `full() const` calls a `next()` that is not `const`; instantiated,
  it does not compile, and neither do the specialisations for bytes. After `destroy()` it
  would answer false, where `CircQueueTest.cpp:73` expects true.
- `Stack.h:87`: the constructor ignores its argument `own`.
- `KeyArray.h`: `get_at()` of a free slot returns true, where the comment at 68-72 says
  false. The clients modelled do not ask.
- `QueueThread`: `quit()` blocks for ever with a full queue and a thread that has its
  last message in hand or has exited (`QtQuitReturns` has the exception). On POSIX
  `activate()` does not reset `quit_`, so a second activation ends at its first message.
- `BufPool`: `resize_buffers()` dereferences the null pointer that `release()` puts. Some overloads of `get()` do not compile, nor do
  `clear()` and `release()` of `AcqBufQueue`. A `MemPool` that does not own its memory
  makes its pointers from a null base.
- `Buffer.h:365`: `destroy()` of memory that is not owned keeps `base_`, so the capacity it
  leaves is not zero, as the comment at 123 says, but a difference with null (`BfGone`).
- `Buffer`: assignment to itself frees what it copies from, `compact()` leaves the mark, `set()` is declared only.
- `BufCodec`: the array forms of `put()` return 0 whatever happened, and a swapping codec
  never looks at its good flag.
- `DevBinStream`: `close()` of an input stream takes descriptor 0 for none (`DevBinStream.cpp:75`):
  it leaves it open, and a closed stream reads it. The end of the device is not reported, `open()` keeps the old area,
  and a `write()` that returns 0 makes `overflow()` call itself again without end.
- `BinStream`: an empty buffer written to a full stream leaves the state good; a length
  that could not be read is used all the same; `byte_order()` answers the opposite.
- `Device.h:315`: a `Device` constructed with a descriptor ignores it, and what it was given
  to own nobody closes, against the comment at 310-313 (`dvDropped`).
- `Device.h:146`: `assign()` of the descriptor the object owns closes it and keeps the
  number, which the system may give to somebody else (`dvReassigned`).
- `Device`: `open()` returns the descriptor where its comment says 0.
- `MtEchoServer`: a connection given to a thread that could not be
  activated is never served. The pool of n threads bounds the open connections at
  2n + 1, not n, as `EcOneHolder` explains.
- `devfwd.cpp:148`: when the output device does not open, main returns while the device
  thread runs: its socket is closed and its `Thread` object is gone, although the comment
  at 66 says that the thread "is only run while the TCP socket is open". `FwThreadWithin`
  ends with main's return.
- `devfwd`: short writes drop the rest of a packet in both directions (`FwInOrder` says
  what is left). It does not call `Socket::initialize()`, so on POSIX a write to a
  connection the client has reset raises `SIGPIPE`; the model has a write that fails.

## Proofs

Everything below is proved by TLAPS for every value of the constants that satisfies
the modules' named assumptions, each of which stands in the module that declares the
constant: finite sets of threads where threads are counted, markers that differ from
what they mark the absence of (`NoMsg`, `Junk`, `NoThread`, `EMPTY_SLOT`), bounds that
are naturals or positive, handles that are natural numbers (`SoHandles`, `DvHandles`,
`DsHandles`; 0 may be one), a counter of `SeqLock` whose modulus is even (`SlModOk`; it is a
power of two). The bounds on calls, items, messages, connections, frames and noise are
any naturals, so what is proved does not depend on how long a behaviour is.

Where a module is one part of a composition the theorem is about the composition
(`MCSpec`): a step of `MCNext` is a step of one part or leaves that part's variables
alone (`StepOfPart`), so each part's invariant is shown inductive for the part's own
next-state relation.

**`MsgQueueProofs`.** `NoOverwrite` and `QuiescentExact` are not inductive: that a
putter owns a free slot follows from its semaphore token, so the invariant has to say
what the tokens stand for. `IInv` joins `TypeOK`, the mutex (`LockInv`), the ring's
shape (`RingInv`), the two accounts (each message and each free slot is announced by a
token, or in the hands of exactly one thread on its way) and what the slots hold
(`StoredInv`). `CountMove` and `Counts` say how the accounts change when one thread
moves; `NextInv` has one step per action. From `IInv`: `TypeCorrect`, `AccountsHold`,
`RingSafe`, `SlotsSafe`, `CountsExact`. `Refinement`: every step is a step of
`BoundedFifo` or a stutter; `ContentsPut` and `ContentsGet` carry the ring arithmetic
(the sequence read from the ring grows at its end, shrinks at its head, across the
wrap).

**`RdWrLockProofs`.** The five invariants are inductive together and not singly:
exclusion needs the flags to be exact, and that nobody sleeps in vain needs one pending
writer only. `LockCorrect`, `NoLostWakeup`.

**`WaitingProofs`.**
- `SignalNotLost` (OSEvent): `TypeOK` and `NoLostWakeup` are inductive together; the
  lemmas go by what a step does to the flag.
- `MutexCorrect`, `WakeupKept` (RecursiveMutex): `RmTypeOK`, `LevelExact` and
  `RmNoLostWakeup` together; one `signal()` is enough because whoever is woken finds
  the mutex free or leaves it to a holder that signals again.
- `Stopped`, `ShotOnce` (ThreadTimer): `Silent` and `Single` add that `run_` is down
  whenever no event may follow.
- `ServersSafe`. For devfwd, `FwPlaces` ties main's place, the socket and the device
  thread together, up to main's return, behind which the statement is only about the order
  of the bytes, and `FwDown` and `FwUp` follow the bytes of each direction: what was
  delivered, what is in a thread's hands and what is still in the socket are one
  rising sequence. For MtEchoServer, `EcOneHolder` alone is not inductive: that the
  next accept finds a handle nobody has needs `EcHandlesNew`; that putting a thread
  back in the pool keeps the pool free of repetitions needs `EcServing` (a serving thread
  is not in the pool) and `EcIdleInPool`; and that echoes are the client's packets in
  order needs, for every connection, the whole of its packets (`EcPacketsOf`), from the
  client's next to the last echo.

**`ThreadsProofs`.**
- `ThreadGone` (Thread): `ThInv` says for each place of the owner whether there is an
  OS thread still to be joined.
- `HoldersSafe`. `AqInv` (AcqBufQueue) needs the number of buffers each queue holds
  (`AqCounts`, under a quantifier: the counts are a witness and not a state variable) so
  that a put finds room. `PlInv` (Pools) says apart from `PlOnePlace` where
  `resize_buffers()` is in its round and which buffers it has done, and that after a
  `resize()` with nothing out it stays at its first turn (`PlFirstTurn`); the free queue has
  room for whoever gives back by the pigeonhole principle, and where it has not,
  `PlPutBlocked` says so.
- `HandedOnInOrder`. `QtInv` (QueueThread): the queue is rising and above what was
  handled, and the waking `T()` stands behind a raised `quit_`. `TrInv` (Transfer): the
  reader's bytes, the pipe and the writer's rest are consecutive, call by call. `AqInv`:
  frames leave each stage in the order they entered it.

**`DistObjProofs`**, for any clients, keys, objects, size of the table, calls and noise.
- `FirstFound`: `RegInv` says that the table's filled part is the registrations that
  succeeded, and that the sentinel stands behind it unless the table is full.
- `InvokedOnce`: `RequestInv` adds `TypeInv`, `HostLock` (one thread is between lock
  and unlock), `LineInv` (what `run()` has still to read is stray bytes and whole
  packets, and every 'X' starts a packet: the framing survives stray bytes) and `OpsInv`
  (no operation is in two places between its stub and its execution). `RequestHolds`
  states it.
- `OwnReply`: `CallInv` adds that, while the connection is up, the thread in `send()` is
  the one whose request is on the line or in `run()`, and that what comes back is the
  response to it. It is stated without read timeouts; with one it is false, and
  `distobj_timeout` shows how.

**`DataProofs`.**
- `CountersSafe`: `AcInv` (AtomicCounter: what a thread inside the lock has loaded is
  still what the counter holds) and `SlInv` (SeqLock: the counter is odd just while a
  writer is inside, the two words are of consecutive writes, and each reader's counter
  and words differ from the present ones by the writes it missed), for every
  width.
- `ContainersSafe`: `StInv` (Stack), `KyInv` (KeyArray; `Lowest` is the least-number
  principle the search for a slot needs).
- `RingInOrder` (CircQueue): `CqInv` has the ring as the interval of items between the
  two sides, for either side's pointer as the other last read it; `CqAsRing`,
  `RingOffsets` and `RingSizes` carry the arithmetic with the one cell that is never
  filled.
- `SlotSafe`, `SlotFifo` (MsgSlot): `SlotInv` is the ledger of tokens, which thread is
  behind each, and which of the bounds the clients' `signal()` and `reset()` leave in force.
  `SlotSafe` says nothing of how many tokens there are above one with `signal()` or below
  with `reset()`; where clients use neither, the ledger makes every step one of a
  `BoundedFifo` of capacity one, or a stutter.
- `OwnersSafe`: `SoInv` (Sockets), `DvInv` (Devices), the memory of `CircQueue` and
  `Buffers` and the descriptor of `DevBinStream`: one owner each, released once, but for
  the five exceptions of `OneOwner`.

**`StreamProofs`**, for any capacities, numbers of items and devices.
- `BuffersKeep` (Buffers), for buffers that have not been left by `destroy()` with `base_`
  set: `BfWell` says of one buffer that its log lies within the
  limit, the position within the log, the mark, if it is one, not past the position, and
  that the cells hold the log. `BfPointers` alone is not inductive: a put cuts the log at
  the position, a flip makes the position the limit, so the three have to move together.
  One lemma per method of `Buffer` (`BfStores`, `BfFlips`, `BfCompactsTo`,
  `BfCopiesTo`, ...) says what it makes of a `BfWell` buffer.
- `StreamsInOrder` (DevBinStream): `DsOutWell` and `DsInWell`. The number of bytes on the
  device and in the put area is always that of the bytes put, and the area continues the
  device's bytes as long as no write was short (after one it does not: `dev_sync`); every byte of the get area is a byte of
  the device read so far, those kept for `unget()` included, and what the client got ends
  where the area's rest begins.
- `MessagesAgree` (BinStream): `BsRoundTrip` is about the one value read last, so the
  invariant speaks of all that were put and of every cell. `BsListed` says that each
  value's bytes are where `BsHome` has them, between the place it was put at and the
  next value's (`BsAscend`), as far as the memory reaches, and that a cell holds nothing
  else (`BsOwned`), which is what makes `BsStateTells` an equivalence. `BsPutsAll` is
  what an inserter does to the memory, `BsGetFieldDoes` what an extractor takes from it;
  both compute the padding from the same position. `BsTypesOk` names the types a client
  may put.
- `CodecsAgree` (BufCodec): `BcRoundTrip` is about the last call of a decoder, so the
  invariant lists where every call of the message began and ended. `BcListed` says, of
  each call up to the first that turned a native coder bad, and of every one that does
  not look at `good_`, that it ended at `BcTo`, succeeded exactly if `BcFit`, and that its
  bytes (and an array's count) are where `BcHome` has them; of the others, that they
  moved nothing. `BcClean` keeps a byte of a value from standing where another call could
  take it for its own, which is what makes the test of `BcEncode` an equivalence
  (`BcWorked`). The decoder's limit is where the encoder stopped, which is less than the
  encoder's own: `BcSameFit` shows that the same calls fit within both. `BcPutsAny` and
  `BcGetsAny` say what one call does to the bytes; `BcListsOne`, `BcListsLess` and
  `BcReadsOne` what a call, a going back and a read do to the list.

**`TimeProofs`.** `TimesAgree`: `TmIs(t, n)` says that `t` is normal and worth `n`
nanoseconds, and every operation takes values of which it holds to one of which it holds
(`Normalizes`, `AddsUp`, `FromNsec`, `FromMsec`, `FromHalves`), the system clock's
included, for any base; `OneForm` says that there is one such form, whole seconds aside: what the scaled-down run shows holds of 1000000000 too. `QuotOf`,
`QuotIs` and `QuotShift` are the facts about C's truncating division it takes.
`FromHalves` is for seconds with a fraction of one half, the only ones the model makes.

Only model-checked: all liveness (`NobodyStranded`, `SendReturns`, `QuitTakesEffect`,
`WriterAdmitted`, `WaitReturns`, `QtQuitEnds`, `Flows`, `Heard`, `ServersReady`); TLAPS
does not reach fairness and ENABLED. Every safety invariant a passing run checks, and the
refinement of `BoundedFifo`, is also a theorem.

## Not modelled

`PROJECT.json` lists each component with its reason. Of the modelled ones: thread
priorities, the other kernels' ports, time beyond "passes" (apart from the arithmetic of
`PosixTime`), callbacks that call their own timer, concurrent waiters on one `Thread`,
payloads larger than the buffers, timeouts inside a word of the stream, the operations'
parameters, datagrams and socket options. In `SeqLock` and `CircQueue` memory is read
and written in program order: the code says nothing to the compiler or the processor
that would ensure it, so what they promise holds on targets that keep that order.

Not modelled as a whole: `StateMachine` (no class of the repository derives from it, and
everything about it depends on what handlers do), `Array`, `InetAddr`, `ClockTime`,
`StdioBinStream` and `BufBinStream` (the latter does not compile), the interface compiler
`cfxidl`, clients in other languages, and the kernels' ports other than POSIX.

## Plan

The system's own logic is modelled and what the runs check of its safety is proved. What
would come next is the safety half of the liveness properties, as invariants of their own:
that no state of `QueueThread`, the pools or `Transfer` has everyone waiting for what
nobody can give any more. A fairness argument for each would then start from a theorem.
