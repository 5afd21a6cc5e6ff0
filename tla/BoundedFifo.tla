---------------------------- MODULE BoundedFifo ----------------------------
(***************************************************************************)
(* What MsgQueue<T> (src/CtrlrFx/MsgQueue.h) promises to its clients: a    *)
(* FIFO queue of at most `cap' messages that any number of threads share.  *)
(* A put, a get or a peek takes effect at ONE instant between its call and *)
(* its return, exactly once; a timed or "try" operation may fail, and then *)
(* it has had no effect.  resize()/set_buffer() discard the messages and   *)
(* may be called only while no thread is using the queue.                  *)
(***************************************************************************)
EXTENDS Naturals, Sequences

CONSTANTS Threads,   \* the threads that share the queue
          Values,    \* the messages clients put
          NoMsg,     \* "no message": the local of a thread that has none
          MaxCap     \* the largest capacity clients ask for

VARIABLES q,         \* the messages in the queue, oldest first
          qcap,      \* the number of messages it can hold
          op,        \* the operation each thread is in
          msg        \* the message that operation carries

avars == <<q, qcap, op, msg>>

Ops == {"idle", "put", "putDone", "get", "getDone", "peek"}

ATypeOK == /\ q \in Seq(Values)
           /\ qcap \in 0..MaxCap
           /\ op \in [Threads -> Ops]
           /\ msg \in [Threads -> Values \cup {NoMsg}]

AInit == /\ q = << >>
         /\ qcap \in 0..MaxCap
         /\ op = [t \in Threads |-> "idle"]
         /\ msg = [t \in Threads |-> NoMsg]

Enter(t, from, to, m) == /\ op[t] = from
                         /\ op' = [op EXCEPT ![t] = to]
                         /\ msg' = [msg EXCEPT ![t] = m]
                         /\ UNCHANGED qcap

APutCall(t, v) == Enter(t, "idle", "put", v) /\ UNCHANGED q

APutEffect(t) == /\ Len(q) < qcap
                 /\ q' = Append(q, msg[t])
                 /\ Enter(t, "put", "putDone", msg[t])

APutReturn(t) == Enter(t, "putDone", "idle", NoMsg) /\ UNCHANGED q

APutFail(t) == Enter(t, "put", "idle", NoMsg) /\ UNCHANGED q

AGetCall(t) == Enter(t, "idle", "get", NoMsg) /\ UNCHANGED q

AGetEffect(t) == /\ q # << >>
                 /\ q' = Tail(q)
                 /\ Enter(t, "get", "getDone", Head(q))

AGetReturn(t) == Enter(t, "getDone", "idle", NoMsg) /\ UNCHANGED q

AGetFail(t) == Enter(t, "get", "idle", NoMsg) /\ UNCHANGED q

APeekCall(t) == Enter(t, "idle", "peek", NoMsg) /\ UNCHANGED q

\* A successful peek copies the oldest message and leaves it in the queue.
APeekEffect(t) == /\ q # << >>
                  /\ Enter(t, "peek", "getDone", Head(q))
                  /\ UNCHANGED q

APeekFail(t) == Enter(t, "peek", "idle", NoMsg) /\ UNCHANGED q

AReset(c) == /\ \A t \in Threads : op[t] = "idle"
             /\ q' = << >>
             /\ qcap' = c
             /\ UNCHANGED <<op, msg>>

ANext == \/ \E t \in Threads :
              \/ \E v \in Values : APutCall(t, v)
              \/ APutEffect(t) \/ APutReturn(t) \/ APutFail(t)
              \/ AGetCall(t) \/ AGetEffect(t) \/ AGetReturn(t) \/ AGetFail(t)
              \/ APeekCall(t) \/ APeekEffect(t) \/ APeekFail(t)
         \/ \E c \in 0..MaxCap : AReset(c)

ASpec == AInit /\ [][ANext]_avars
=============================================================================
