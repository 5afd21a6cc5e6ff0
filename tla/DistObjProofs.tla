---------------------------- MODULE DistObjProofs ----------------------------
(***************************************************************************)
(* Proofs about remote calls for any clients, keys, objects, table size,   *)
(* number of calls and amount of noise.  Three invariants lead to them:    *)
(*                                                                         *)
(* - the table's filled part is the registrations that succeeded;          *)
(* - as long as no read came to its end early (short), what run() has      *)
(*   still to read is stray bytes and whole packets, every 'X' starts a    *)
(*   packet, and no operation is in two places between its stub and its    *)
(*   execution;                                                            *)
(* - while the connection is up, the thread in send() is the one whose     *)
(*   request is on the line or in run(), and what comes back is the        *)
(*   response to it.                                                       *)
(***************************************************************************)
EXTENDS DistObjSrvr, SequenceTheorems, WellFoundedInduction, TLAPS

-----------------------------------------------------------------------------
(* Types, as far as the proofs need them: what a word holds is a number or a *)
(* key, wherever it came from.                                              *)

Contents == Nat \cup Keys \cup {Junk}
Command == [id : Nat, key : Contents, op : Nat]         \* of the host
Received == [id : Contents, key : Contents, op : Contents]
Headers == [k : {"hdr"}, type : Types, size : Nat]
Words == [k : {"word"}, w : Contents]
SrvUnits == [k : Bytes] \cup Headers \cup Words
HostUnits == Headers \cup [k : {"rsp"}, id : Contents, reply : Replies] \cup Words

Places == {"top", "scan", "hdr", "payload", "dispatch", "pkt", "rsp", "body", "done"}
CallPlaces == {"idle", "id", "ready", "hdr", "payload", "rsp", "rsphdr", "body"}

TypeInv ==
  /\ hlock \in Clients \cup {Nobody}
  /\ msg_id_ \in Nat
  /\ cpc \in [Clients -> CallPlaces]
  /\ cmd \in [Clients -> Command]
  /\ rsp \in [Clients -> [size : Nat, id : Contents, reply : Replies \cup {"none"}]]
  /\ toSrv \in Seq(SrvUnits)
  /\ toHost \in Seq(HostUnits)
  /\ spc \in Places
  /\ nx \in 0 .. 1
  /\ pkt_hdr \in [type : Types, size : Nat]
  /\ cmd_hdr \in Received
  /\ ret \in Replies
  /\ executed \in Seq((Objs \cup {Null, Junk}) \X Contents)
  /\ calls \in Nat

-----------------------------------------------------------------------------
(* The table.                                                              *)

\* The slots in front of the end are the registrations, in their order; the
\* slot behind them, if there is one, ends the table.
RegInv ==
  /\ obj_map_ \in Tables
  /\ regs \in Seq(Keys \X Objs)
  /\ Len(regs) <= MaxObj
  /\ \A i \in 1 .. Len(regs) : obj_map_[i - 1].key = regs[i][1] /\ obj_map_[i - 1].obj = regs[i][2]
  /\ Len(regs) < MaxObj => obj_map_[Len(regs)].obj = Null

-----------------------------------------------------------------------------
(* The request line.                                                       *)

Sending == {"hdr", "payload", "rsp", "rsphdr", "body"}

\* lock_ of the host is held from the request to the response.
HostLock == \A c \in Clients : hlock = c <=> cpc[c] \in Sending

\* A packet starts with its 'X' at place i of what run() has still to read, or
\* just in front of it when run() has read a part of the packet.
Start(i) == CASE i >= 1 -> i <= Len(toSrv) /\ toSrv[i].k = "X"
              [] i = 0  -> spc = "hdr"
              [] i = -1 -> spc = "payload"
              [] OTHER  -> FALSE

Starts == {i \in -1 .. Len(toSrv) : Start(i)}

\* The packets of which all words are there.
Queued == {i \in Starts : spc # "done" /\ i + 4 <= Len(toSrv)}
OpAt(i) == toSrv[i + 4].w

\* What follows an 'X' is the rest of a packet, and nothing else is.
Follows(i, j) == IF j = 1 THEN toSrv[i + j] = Hdr("CMD", 3) ELSE toSrv[i + j].k = "word"

InFrame(i) ==
  /\ toSrv[i].k \in {"C", "X", "n", "hdr", "word"}
  /\ toSrv[i].k \in {"hdr", "word"} => \E j \in 1 .. 4 : i - j \in Starts
  /\ toSrv[i].k = "X" => IF i = 1 THEN spc = "scan" /\ nx = 1 ELSE toSrv[i - 1].k = "C"

Framed ==
  /\ \A i \in Starts, j \in 1 .. 4 : i + j \in 1 .. Len(toSrv) => Follows(i, j)
  /\ \A i \in 1 .. Len(toSrv) : InFrame(i)

\* All packets are whole but the one a thread is about to complete.
Whole ==
  /\ \A i \in Starts : i + 4 <= Len(toSrv) \/ i = Len(toSrv) - 1
  /\ \A i \in Starts : i = Len(toSrv) - 1 => \E c \in Clients : cpc[c] = "payload"
  /\ \A c \in Clients : cpc[c] = "payload" => Len(toSrv) - 1 \in Starts

\* get_pkt_hdr() stands between two bytes of the magic only after a 'C'.
Scanner == nx = 1 => magic[1] = "C" /\ spc \in {"scan", "done"}

LineInv ==
  /\ Scanner
  /\ short => ~up /\ toSrv = << >>
  /\ ~short /\ spc = "payload" => pkt_hdr = [type |-> "CMD", size |-> 3]
  /\ ~short /\ spc # "done" => Framed /\ (up => Whole)

-----------------------------------------------------------------------------
(* The operations on their way.                                            *)

Ops == {executed[i][2] : i \in DOMAIN executed}
Unsent == {c \in Clients : cpc[c] \in {"id", "ready", "hdr", "payload"}}

\* The operations that were taken from the line and cannot come again.
Settled == {op \in 1 .. calls :
  /\ \A c \in Unsent : cmd[c].op # op
  /\ \A i \in Queued : OpAt(i) # op
  /\ spc = "dispatch" => cmd_hdr.op # op}

OpsInv ==
  /\ \A c \in Unsent : cmd[c].op \in 1 .. calls
  /\ \A c, d \in Unsent : c # d => cmd[c].op # cmd[d].op
  /\ ~short =>
       /\ \A i \in Queued : OpAt(i) \in 1 .. calls
       /\ \A i, j \in Queued : i # j => OpAt(i) # OpAt(j)
       /\ \A i \in Queued, c \in Unsent : cmd[c].op # OpAt(i)
       /\ spc = "dispatch" =>
            /\ cmd_hdr.op \in 1 .. calls
            /\ cmd_hdr.op \notin Ops
            /\ \A c \in Unsent : cmd[c].op # cmd_hdr.op
            /\ \A i \in Queued : OpAt(i) # cmd_hdr.op
       /\ \A i \in DOMAIN executed : executed[i][2] \in Settled
       /\ IsInjective([i \in DOMAIN executed |-> executed[i][2]])
       /\ spc \in {"pkt", "rsp", "body"} => cmd_hdr.op \in Settled

-----------------------------------------------------------------------------
(* The response line.                                                      *)

\* How much of the response a thread has read.
Had(place) == CASE place = "rsphdr" -> 1 [] place = "body" -> 2 [] OTHER -> 0

\* The operations that will never be executed, and the true outcome of one.
Refused == {op \in Contents : ~short => op \notin Ops /\ op \in Settled}
Outcome(op, reply) == IF reply = "ok" THEN op \in Ops ELSE op \in Refused

Answering == spc = "rsp" \/ (spc = "body" /\ RspSize = 2)

\* What run() is about to answer is true.
RetInv == spc \in {"pkt", "rsp", "body"} => Outcome(cmd_hdr.op, ret)

\* While the connection is up, a request on the line or in run() is the one of
\* the thread in send(), and nothing is on its way to that thread yet, or
\* what run() has written so far of its response.
Paired ==
  /\ spc # "done" => \A i \in Starts :
       /\ hlock # Nobody /\ toHost = << >>
       /\ \/ cpc[hlock] = "payload" /\ i = Len(toSrv) - 1
          \/ cpc[hlock] = "rsp" /\ i + 4 <= Len(toSrv) /\ OpAt(i) = cmd[hlock].op
  /\ spc \in {"dispatch", "pkt"} \/ Answering =>
       /\ Starts = {}
       /\ hlock # Nobody
       /\ cpc[hlock] \in {"rsp", "rsphdr", "body"}
       /\ cmd_hdr.op = cmd[hlock].op
       /\ Had(cpc[hlock]) + Len(toHost)
            = CASE spc = "rsp" -> 1 [] spc = "body" -> 2 [] OTHER -> 0

SizeOf(op, reply) == IF reply = "ok" /\ op % 2 = 1 THEN 2 ELSE 1

IsUnit(u, n, op, reply) ==
  CASE n = 1 -> u = Hdr("RSP", SizeOf(op, reply))
    [] n = 2 -> u.k = "rsp" /\ u.reply = reply
    [] OTHER -> u = Word(op)

\* What the thread in send() has read and can read is a part of the response to
\* its command.
Response(c, reply) ==
  LET k == Had(cpc[c])
      op == cmd[c].op
  IN  /\ k + Len(toHost) <= SizeOf(op, reply) + 1
      /\ \A i \in 1 .. Len(toHost) : IsUnit(toHost[i], k + i, op, reply)
      /\ k >= 1 => rsp[c].size = SizeOf(op, reply)
      /\ k >= 2 => rsp[c].reply = reply
      /\ k + Len(toHost) > 0 => Outcome(op, reply)
      /\ up /\ Answering => ret = reply

Reading == {"rsp", "rsphdr", "body"}

AnswerInv ==
  /\ \A c \in Clients : cpc[c] \in Reading => \E reply \in Replies : Response(c, reply)
  /\ toHost # << >> => \E c \in Clients : cpc[c] \in Reading

GotInv == got.reply \in Replies =>
  /\ Outcome(got.op, got.reply)
  /\ got.reply = "ok" => got.body \in {0, got.op}

CallInv == RetInv /\ (up => Paired) /\ AnswerInv /\ GotInv

-----------------------------------------------------------------------------
(* Facts about the operators of the model.                                  *)

LEMMA MinOfTwo ==
  ASSUME NEW a \in Nat, NEW b \in Nat
  PROVE  Min({a, b}) = IF a <= b THEN a ELSE b
<1> DEFINE m == IF a <= b THEN a ELSE b
<1>1. m \in {a, b} /\ \A y \in {a, b} : m <= y
  OBVIOUS
<1>2. \A x \in {a, b} : (\A y \in {a, b} : x <= y) => x = m
  OBVIOUS
<1> QED BY <1>1, <1>2 DEF Min

\* What read_n() takes from a stream and what it leaves.
LEMMA ReadN ==
  ASSUME NEW S, NEW s \in Seq(S), NEW n \in Nat
  PROVE  /\ Taken(s, n) \in Seq(S)
         /\ Len(Taken(s, n)) = IF n <= Len(s) THEN n ELSE Len(s)
         /\ \A i \in 1 .. Len(Taken(s, n)) : Taken(s, n)[i] = s[i]
         /\ Rest(s, n) \in Seq(S)
         /\ Len(Rest(s, n)) = IF n <= Len(s) THEN Len(s) - n ELSE 0
         /\ \A i \in 1 .. Len(Rest(s, n)) : Rest(s, n)[i] = s[i + n]
<1> DEFINE m == IF n <= Len(s) THEN n ELSE Len(s)
<1>1. Len(s) \in Nat /\ m \in Nat /\ m <= Len(s)
  OBVIOUS
<1>2. Taken(s, n) = SubSeq(s, 1, m)
  BY <1>1, MinOfTwo DEF Taken
<1>3. /\ SubSeq(s, 1, m) \in Seq(S)
      /\ Len(SubSeq(s, 1, m)) = m
      /\ \A i \in 1 .. m : SubSeq(s, 1, m)[i] = s[i]
  <2>1. \A i \in 1 .. m : s[i] \in S
    BY <1>1
  <2> QED BY <1>1, <2>1, SubSeqProperties
<1>4. /\ Rest(s, n) \in Seq(S)
      /\ Len(Rest(s, n)) = IF n <= Len(s) THEN Len(s) - n ELSE 0
      /\ \A i \in 1 .. Len(s) - n : Rest(s, n)[i] = s[i + n]
  <2>1. \A i \in n + 1 .. Len(s) : s[i] \in S
    BY <1>1
  <2> QED BY <1>1, <2>1, SubSeqProperties DEF Rest
<1> QED BY <1>1, <1>2, <1>3, <1>4

\* What write_n() adds to one.
LEMMA WriteN ==
  ASSUME NEW S, NEW s \in Seq(S), NEW u \in Seq(S)
  PROVE  /\ Put(s, u) \in Seq(S)
         /\ ~up => Put(s, u) = s
         /\ up => /\ Len(Put(s, u)) = Len(s) + Len(u)
                  /\ \A i \in 1 .. Len(s) : Put(s, u)[i] = s[i]
                  /\ \A i \in 1 .. Len(u) : Put(s, u)[Len(s) + i] = u[i]
  BY ConcatProperties DEF Put

LEMMA MinIs ==
  ASSUME NEW S \in SUBSET Nat, NEW x \in S, \A y \in S : x <= y
  PROVE  Min(S) = x
<1>1. \A z \in S : (\A y \in S : z <= y) => z = x
  OBVIOUS
<1> QED BY <1>1 DEF Min

LEMMA MinOf ==
  ASSUME NEW S \in SUBSET Nat, S # {}
  PROVE  Min(S) \in S /\ \A y \in S : Min(S) <= y
<1> DEFINE Below == OpToRel(<, Nat)
<1>1. \A x, y \in Nat : y < x => <<y, x>> \in Below
  BY DEF OpToRel
<1>2. IsWellFoundedOn(Below, Nat)
  BY NatLessThanWellFounded
<1> HIDE DEF Below
<1>3. PICK x \in S : \A y \in S : ~ (<<y, x>> \in Below)
  BY <1>2, WFMin
<1>4. ASSUME NEW y \in S PROVE x <= y
  <2>1. x \in Nat /\ y \in Nat
    OBVIOUS
  <2>2. ~ (y < x)
    BY <1>1, <1>3, <2>1, Zenon
  <2> QED BY <2>1, <2>2
<1> QED BY <1>4 DEF Min

-----------------------------------------------------------------------------
(* The table: FirstRegistered.                                              *)

\* The search loops stop behind the last registration.
LEMMA EndOfTable ==
  ASSUME RegInv
  PROVE  End(obj_map_) = Len(regs)
<1> DEFINE E == {i \in Slots : obj_map_[i].obj = Null} \cup {MaxObj}
<1>1. Len(regs) \in Nat /\ MaxObj \in Nat /\ E \in SUBSET Nat
  BY MaxObjAssumption DEF RegInv, Slots
<1>2. Len(regs) \in E
  BY <1>1 DEF RegInv, Slots
<1>3. ASSUME NEW i \in E PROVE Len(regs) <= i
  <2>1. CASE i = MaxObj
    BY <1>1, <2>1 DEF RegInv
  <2>2. CASE i \in Slots /\ obj_map_[i].obj = Null
    <3> SUFFICES ASSUME i < Len(regs) PROVE FALSE
      BY <1>1, <2>2 DEF Slots
    <3>1. i + 1 \in 1 .. Len(regs) /\ (i + 1) - 1 = i
      BY <1>1, <2>2 DEF Slots
    <3>2. regs[i + 1] \in Keys \X Objs
      BY <3>1 DEF RegInv
    <3>3. obj_map_[i].obj = regs[i + 1][2]
      BY <3>1 DEF RegInv
    <3> QED BY <2>2, <3>2, <3>3, NullAssumption
  <2> QED BY <2>1, <2>2
<1> QED BY <1>1, <1>2, <1>3, MinIs DEF End

\* What get_obj() finds is the first registration of the key.
LEMMA FoundFirst ==
  ASSUME RegInv, NEW key
  PROVE  LET hits == {i \in 1 .. Len(regs) : regs[i][1] = key}
         IN  get_obj(obj_map_, key) = IF hits = {} THEN Null ELSE regs[Min(hits)][2]
<1> DEFINE hits == {i \in 1 .. Len(regs) : regs[i][1] = key}
           slots == {i \in 0 .. Len(regs) - 1 : obj_map_[i].key = key}
<1>1. Len(regs) \in Nat
  BY DEF RegInv
<1>2. get_obj(obj_map_, key) = IF slots = {} THEN Null ELSE obj_map_[Min(slots)].obj
  BY EndOfTable DEF get_obj
<1>3. \A i \in 1 .. Len(regs) : i \in hits <=> i - 1 \in slots
  BY <1>1 DEF RegInv
<1>4. \A j \in slots : j + 1 \in hits
  <2> TAKE j \in slots
  <2>1. j + 1 \in 1 .. Len(regs) /\ (j + 1) - 1 = j
    BY <1>1
  <2> QED BY <1>3, <2>1
<1>5. CASE hits = {}
  BY <1>2, <1>4, <1>5
<1>6. CASE hits # {}
  <2>1. Min(hits) \in hits /\ \A i \in hits : Min(hits) <= i
    <3>1. hits \in SUBSET Nat
      OBVIOUS
    <3> QED BY <1>6, <3>1, MinOf
  <2>2. Min(hits) \in 1 .. Len(regs) /\ Min(hits) - 1 \in slots
    BY <1>3, <2>1
  <2>3. \A j \in slots : Min(hits) - 1 <= j
    BY <1>1, <1>4, <2>1, <2>2
  <2>4. Min(slots) = Min(hits) - 1
    <3>1. slots \in SUBSET Nat
      BY <1>1
    <3> HIDE DEF slots, hits
    <3> QED BY <2>2, <2>3, <3>1, MinIs
  <2>5. obj_map_[Min(slots)].obj = regs[Min(hits)][2]
    BY <2>2, <2>4 DEF RegInv
  <2> QED BY <1>2, <1>6, <2>2, <2>5
<1> QED BY <1>5, <1>6

LEMMA InitReg == Init => RegInv
  BY MaxObjAssumption, EmptySeq DEF Init, RegInv, InitialTable, Tables, ObjMap, Slots

\* register_obj() appends, or leaves a full table alone.
LEMMA RegisterReg ==
  ASSUME RegInv, Register
  PROVE  RegInv'
<1>1. PICK key \in Keys, obj \in Objs :
        /\ obj_map_' = register_obj(obj_map_, key, obj)
        /\ regs' = IF End(obj_map_) = MaxObj THEN regs ELSE Append(regs, <<key, obj>>)
  BY DEF Register
<1>2. End(obj_map_) = Len(regs) /\ Len(regs) \in Nat /\ Len(regs) <= MaxObj /\ MaxObj \in Nat
  BY EndOfTable, MaxObjAssumption DEF RegInv
<1>3. CASE Len(regs) = MaxObj
  BY <1>1, <1>2, <1>3 DEF register_obj, RegInv
<1>4. CASE Len(regs) < MaxObj
  <2> DEFINE n == Len(regs)
             filled == [obj_map_ EXCEPT ![n] = [key |-> key, obj |-> obj]]
  <2>1. /\ regs' = Append(regs, <<key, obj>>)
        /\ obj_map_' = IF n = MaxObj - 1 THEN filled ELSE [filled EXCEPT ![n + 1].obj = Null]
    BY <1>1, <1>2, <1>4 DEF register_obj
  <2>2. /\ regs' \in Seq(Keys \X Objs) /\ Len(regs') = n + 1
        /\ \A i \in 1 .. n : regs'[i] = regs[i]
        /\ regs'[n + 1] = <<key, obj>>
    BY <2>1, AppendProperties DEF RegInv
  <2>3. /\ obj_map_' \in Tables
        /\ \A i \in 0 .. n - 1 : obj_map_'[i] = obj_map_[i]
        /\ obj_map_'[n] = [key |-> key, obj |-> obj]
        /\ n + 1 < MaxObj => obj_map_'[n + 1].obj = Null
    <3>1. obj_map_ \in [Slots -> ObjMap] /\ n \in Slots
      BY <1>2, <1>4 DEF RegInv, Tables, Slots
    <3>2. filled \in [Slots -> ObjMap] /\ filled[n] = [key |-> key, obj |-> obj]
          /\ \A i \in Slots \ {n} : filled[i] = obj_map_[i]
      BY <3>1 DEF ObjMap
    <3>3. CASE n = MaxObj - 1
      BY <1>2, <2>1, <3>2, <3>3 DEF Slots, Tables
    <3>4. CASE n # MaxObj - 1
      <4>1. n + 1 \in Slots /\ obj_map_' = [filled EXCEPT ![n + 1].obj = Null]
        BY <1>2, <1>4, <2>1, <3>4 DEF Slots
      <4> HIDE DEF filled
      <4>2. filled[n + 1] \in ObjMap
        BY <3>2, <4>1
      <4>3. obj_map_' \in [Slots -> ObjMap] /\ obj_map_'[n + 1].obj = Null
            /\ \A i \in Slots \ {n + 1} : obj_map_'[i] = filled[i]
        BY <3>2, <4>1, <4>2 DEF ObjMap
      <4> QED BY <1>2, <3>1, <3>2, <4>3 DEF Tables, Slots
    <3> QED BY <3>3, <3>4
  <2>4. \A i \in 1 .. n + 1 :
          obj_map_'[i - 1].key = regs'[i][1] /\ obj_map_'[i - 1].obj = regs'[i][2]
    <3> TAKE i \in 1 .. n + 1
    <3>1. CASE i = n + 1
      BY <1>2, <2>2, <2>3, <3>1
    <3>2. CASE i \in 1 .. n
      <4>1. i - 1 \in 0 .. n - 1
        BY <1>2, <3>2
      <4> QED BY <2>2, <2>3, <3>2, <4>1 DEF RegInv
    <3> QED BY <1>2, <3>1, <3>2
  <2> QED BY <1>2, <1>4, <2>2, <2>3, <2>4 DEF RegInv
<1> QED BY <1>2, <1>3, <1>4

LEMMA NextReg == RegInv /\ [Next]_vars => RegInv'
<1> SUFFICES ASSUME RegInv, [Next]_vars PROVE RegInv'
  OBVIOUS
<1>1. CASE Register
  BY <1>1, RegisterReg
<1>2. CASE UNCHANGED objects
  BY <1>2 DEF RegInv, objects
<1>3. ASSUME NEW c \in Clients, Host(c) PROVE UNCHANGED objects
  BY <1>3 DEF Host, FetchId, StoreId, SendLock, SendHdr, SendPayload, SendWrite, RecvPktHdr,
     RecvRspHdr, RecvBody, RecvFails, server
<1>4. ASSUME Run PROVE UNCHANGED objects
  BY <1>4 DEF Run, Top, Scan, ScanFails, ReadHdr, ReadPayload, Dispatch, WritePktHdr,
     WriteRspHdr, WriteBody
<1>5. ASSUME quit \/ Drop \/ Noise \/ UNCHANGED vars PROVE UNCHANGED objects
  BY <1>5 DEF quit, Drop, Noise, vars, server
<1> QED BY <1>1, <1>2, <1>3, <1>4, <1>5 DEF Next

\* A key leads to the first object registered under it, and to nothing before,
\* for every size of the table, full or not (DistObj.cpp, get_obj() and
\* register_obj()).
THEOREM FirstFound == Spec => []FirstRegistered
<1>1. RegInv => FirstRegistered
  BY FoundFirst DEF FirstRegistered
<1> QED BY InitReg, NextReg, <1>1, PTL DEF Spec

-----------------------------------------------------------------------------
(* Types, and lock_ of the host.                                            *)

LEMMA InitType == Init => TypeInv
  BY EmptySeq DEF Init, TypeInv, CallPlaces, Places, NoCmd, NoRsp, Command, Received, Contents,
     Types, Replies

\* What the dispatch finds is an object, or null.
LEMMA FoundType ==
  ASSUME RegInv, NEW key
  PROVE  get_obj(obj_map_, key) \in Objs \cup {Null}
<1> DEFINE hits == {i \in 1 .. Len(regs) : regs[i][1] = key}
<1>1. hits # {} => Min(hits) \in hits
  <2>1. hits \in SUBSET Nat
    OBVIOUS
  <2> QED BY <2>1, MinOf
<1>2. \A i \in 1 .. Len(regs) : regs[i][2] \in Objs
  BY DEF RegInv
<1> QED BY <1>1, <1>2, FoundFirst

\* Returning from send() keeps the host's variables in their types.
LEMMA ReturnType ==
  ASSUME TypeInv, NEW c \in Clients, NEW from, At(c, from, "idle"),
         NEW reply, NEW rid, NEW body, Return(c, reply, rid, body)
  PROVE  /\ hlock' \in Clients \cup {Nobody}
         /\ cpc' \in [Clients -> CallPlaces]
         /\ cmd' \in [Clients -> Command]
         /\ rsp' \in [Clients -> [size : Nat, id : Contents, reply : Replies \cup {"none"}]]
  BY DEF TypeInv, At, Return, NoRsp, NoCmd, Command, Contents, CallPlaces

LEMMA HostType ==
  ASSUME TypeInv, NEW c \in Clients, Host(c)
  PROVE  TypeInv'
<1> USE DEF TypeInv
<1>1. CASE FetchId(c)
  BY <1>1 DEF FetchId, At, CallPlaces, Command, Contents, wire, server, locals, scanner
<1>2. CASE StoreId(c)
  BY <1>2, SMTT(30) DEF StoreId, At, CallPlaces, Command, wire, server, locals, scanner
<1>3. CASE SendLock(c)
  BY <1>3 DEF SendLock, At, CallPlaces, wire, server, locals, scanner
<1>4. ASSUME NEW from, NEW to \in {"payload", "rsp"}, NEW units \in Seq(SrvUnits),
             SendWrite(c, from, to, units)
      PROVE  TypeInv'
  <2>1. toSrv' \in Seq(SrvUnits)
    BY <1>4, WriteN DEF SendWrite
  <2>2. UNCHANGED <<msg_id_, toHost, server, calls>>
    BY <1>4 DEF SendWrite
  <2>3. CASE up /\ At(c, from, to) /\ UNCHANGED <<hlock, cmd, rsp, got>>
    BY <2>1, <2>2, <2>3 DEF At, CallPlaces, server, locals, scanner
  <2>4. CASE At(c, from, "idle") /\ Return(c, "write", 0, 0)
    BY <2>1, <2>2, <2>4, ReturnType DEF server, locals, scanner
  <2> QED BY <1>4, <2>3, <2>4 DEF SendWrite
<1>5. CASE SendHdr(c)
  <2>1. <<Byte("C"), Byte("X"), Hdr("CMD", 3)>> \in Seq(SrvUnits)
    <3>1. Byte("C") \in SrvUnits /\ Byte("X") \in SrvUnits /\ Hdr("CMD", 3) \in SrvUnits
      BY DEF Byte, Hdr, SrvUnits, Bytes, Headers, Types
    <3> QED BY <3>1
  <2> QED BY <1>4, <1>5, <2>1 DEF SendHdr
<1>6. CASE SendPayload(c)
  <2>1. <<Word(cmd[c].id), Word(cmd[c].key), Word(cmd[c].op)>> \in Seq(SrvUnits)
    <3>1. cmd[c].id \in Contents /\ cmd[c].key \in Contents /\ cmd[c].op \in Contents
      BY DEF Command, Contents
    <3>2. Word(cmd[c].id) \in SrvUnits /\ Word(cmd[c].key) \in SrvUnits /\ Word(cmd[c].op) \in SrvUnits
      BY <3>1 DEF Word, SrvUnits, Words
    <3> QED BY <3>2
  <2> QED BY <1>4, <1>6, <2>1 DEF SendPayload
<1>7. ASSUME toHost # << >>
      PROVE  Head(toHost) \in HostUnits /\ Tail(toHost) \in Seq(HostUnits)
  BY <1>7, HeadTailProperties
<1>8. CASE RecvPktHdr(c)
  <2>1. PICK size \in IF Head(toHost).k = "hdr" THEN {Head(toHost).size} ELSE 1 .. 2 :
          rsp' = [rsp EXCEPT ![c].size = size]
    BY <1>8 DEF RecvPktHdr
  <2>2. Head(toHost).k = "hdr" => Head(toHost).size \in Nat
    BY <1>7, <1>8 DEF RecvPktHdr, HostUnits, Headers, Words
  <2>3. size \in Nat
    BY <2>2
  <2>4. rsp' \in [Clients -> [size : Nat, id : Contents, reply : Replies \cup {"none"}]]
    BY <2>1, <2>3
  <2> QED BY <1>7, <1>8, <2>4 DEF RecvPktHdr, At, CallPlaces, server, locals, scanner
<1>9. CASE RecvRspHdr(c)
  <2>1. PICK r \in IF Head(toHost).k = "rsp" THEN {Head(toHost)}
                                        ELSE {RspHdr(0, reply) : reply \in Replies} :
          \/ /\ At(c, "rsphdr", "body")
             /\ rsp' = [rsp EXCEPT ![c].id = r.id, ![c].reply = r.reply]
             /\ UNCHANGED <<hlock, cmd, got>>
          \/ At(c, "rsphdr", "idle") /\ Return(c, r.reply, r.id, 0)
    BY <1>9 DEF RecvRspHdr
  <2>2. r.id \in Contents /\ r.reply \in Replies
    <3>1. CASE Head(toHost).k = "rsp"
      BY <1>7, <1>9, <2>1, <3>1 DEF RecvRspHdr, HostUnits, Headers, Words
    <3>2. CASE Head(toHost).k # "rsp"
      BY <2>1, <3>2 DEF RspHdr, Contents
    <3> QED BY <3>1, <3>2
  <2>3. UNCHANGED <<msg_id_, toSrv, server, calls>> /\ toHost # << >> /\ toHost' = Tail(toHost)
    BY <1>9 DEF RecvRspHdr
  <2>4. CASE /\ At(c, "rsphdr", "body")
             /\ rsp' = [rsp EXCEPT ![c].id = r.id, ![c].reply = r.reply]
             /\ UNCHANGED <<hlock, cmd, got>>
    BY <1>7, <2>2, <2>3, <2>4, ZenonT(60) DEF At, CallPlaces, server, locals, scanner
  <2>5. CASE At(c, "rsphdr", "idle") /\ Return(c, r.reply, r.id, 0)
    BY <1>7, <2>3, <2>5, ReturnType DEF server, locals, scanner
  <2> QED BY <2>1, <2>4, <2>5
<1>10. CASE RecvBody(c)
  <2>1. PICK reply, rid, body : At(c, "body", "idle") /\ Return(c, reply, rid, body)
    BY <1>10 DEF RecvBody
  <2> QED BY <1>7, <1>10, <2>1, ReturnType DEF RecvBody, server, locals, scanner
<1>11. CASE RecvFails(c)
  <2>1. PICK from, reply, rid : At(c, from, "idle") /\ Return(c, reply, rid, 0)
    BY <1>11 DEF RecvFails
  <2> QED BY <1>11, <2>1, ReturnType DEF RecvFails, wire, server, locals, scanner
<1> QED BY <1>1, <1>2, <1>3, <1>5, <1>6, <1>8, <1>9, <1>10, <1>11 DEF Host

\* What run() reads next when it stands behind a magic, and behind a header.
LEMMA NextIsHdr ==
  ASSUME TypeInv, LineInv, spc = "hdr", toSrv # << >>
  PROVE  ~short /\ 0 \in Starts /\ toSrv[1] = Hdr("CMD", 3) /\ Head(toSrv) = toSrv[1]
<1>1. ~short /\ Framed /\ Len(toSrv) \in Nat /\ Len(toSrv) >= 1
  BY DEF LineInv, TypeInv
<1>2. 0 \in Starts
  BY <1>1 DEF Starts, Start
<1>3. 0 + 1 \in 1 .. Len(toSrv) /\ 1 \in 1 .. 4
  BY <1>1
<1>4. toSrv[0 + 1] = Hdr("CMD", 3)
  BY <1>1, <1>2, <1>3 DEF Framed, Follows
<1> QED BY <1>1, <1>2, <1>4

LEMMA NextAreWords ==
  ASSUME TypeInv, LineInv, spc = "payload"
  PROVE  /\ \A i \in 1 .. Len(toSrv) : i <= 3 => toSrv[i].k = "word"
         /\ ~short => -1 \in Starts
<1>1. short => Len(toSrv) = 0
  BY DEF LineInv
<1>2. ASSUME ~short, NEW i \in 1 .. Len(toSrv), i <= 3 PROVE toSrv[i].k = "word"
  <2>1. Framed /\ -1 \in Starts
    BY <1>2 DEF LineInv, TypeInv, Starts, Start
  <2>2. i + 1 \in 2 .. 4 /\ -1 + (i + 1) = i
    BY <1>2
  <2> QED BY <1>2, <2>1, <2>2 DEF Framed, Follows
<1>3. ~short => -1 \in Starts
  BY DEF TypeInv, Starts, Start
<1> QED BY <1>1, <1>2, <1>3

LEMMA RunType ==
  ASSUME TypeInv, RegInv, LineInv, Run
  PROVE  TypeInv'
<1> USE DEF TypeInv
<1>1. CASE Top \/ ScanFails
  BY <1>1 DEF Top, ScanFails, Step, Places, host, wire, locals, scanner
<1>2. CASE Scan
  <2>1. toSrv' = Rest(toSrv, 2 - nx) /\ 2 - nx \in Nat
    BY <1>2 DEF Scan
  <2>2. toSrv' \in Seq(SrvUnits)
    BY <2>1, ReadN
  <2>3. spc' \in Places /\ nx' \in 0 .. 1
    BY <1>2 DEF Scan, Places
  <2> QED BY <1>2, <2>2, <2>3 DEF Scan, host, locals
<1>3. CASE ReadHdr
  <2>1. toSrv' \in Seq(SrvUnits) /\ spc' \in Places
    BY <1>3, ReadN DEF ReadHdr, Places
  <2>2. pkt_hdr' \in [type : Types, size : Nat]
    BY <1>3, NextIsHdr DEF ReadHdr, Hdr, Types
  <2> QED BY <1>3, <2>1, <2>2 DEF ReadHdr, host, scanner
<1>4. CASE ReadPayload
  <2>1. PayloadSize \in Nat
    BY DEF PayloadSize
  <2>2. toSrv' \in Seq(SrvUnits) /\ spc' \in Places
    BY <1>4, <2>1, ReadN DEF ReadPayload, Places
  <2> DEFINE words == Taken(toSrv, PayloadSize)
  <2>3. \A i \in 1 .. Len(words) : i <= 3 => words[i].w \in Contents
    <3> TAKE i \in 1 .. Len(words)
    <3> HAVE i <= 3
    <3>1. i \in 1 .. Len(toSrv) /\ words[i] = toSrv[i]
      BY <2>1, ReadN
    <3>2. toSrv[i] \in SrvUnits /\ toSrv[i].k = "word"
      BY <1>4, <3>1, NextAreWords DEF ReadPayload
    <3> QED BY <3>1, <3>2 DEF SrvUnits, Headers, Words, Bytes
  <2>4. Len(words) \in Nat
    BY <2>1, ReadN
  <2>5. cmd_hdr' \in {cmd_hdr, Decoded(words)}
    BY <1>4 DEF ReadPayload
  <2>6. Decoded(words) \in Received
    <3> HIDE DEF words
    <3> QED BY <2>3, <2>4 DEF Decoded, Received
  <2>7. cmd_hdr' \in Received
    BY <2>5, <2>6
  <2> QED BY <1>4, <2>2, <2>7 DEF ReadPayload, host, scanner
<1>5. CASE Dispatch
  <2>1. PICK key : LET obj == get_obj(obj_map_, key)
                   IN  /\ ret' \in Outcomes(obj)
                       /\ executed' = IF ret' = "ok" THEN Append(executed, <<obj, cmd_hdr.op>>)
                                                     ELSE executed
    BY <1>5 DEF Dispatch
  <2>2. get_obj(obj_map_, key) \in Objs \cup {Null} /\ cmd_hdr.op \in Contents
    BY FoundType DEF Received
  <2>3. ret' \in Replies /\ executed' \in Seq((Objs \cup {Null, Junk}) \X Contents)
    BY <2>1, <2>2, AppendProperties DEF Outcomes, Replies
  <2> QED BY <1>5, <2>3 DEF Dispatch, Step, Places, host, wire, scanner
<1>6. CASE WritePktHdr
  <2>1. <<Hdr("RSP", RspSize)>> \in Seq(HostUnits) /\ RspSize \in Nat
    BY DEF Hdr, RspSize, HostUnits, Headers, Types
  <2>2. toHost' \in Seq(HostUnits)
    BY <1>6, <2>1, WriteN DEF WritePktHdr
  <2> QED BY <1>6, <2>1, <2>2 DEF WritePktHdr, Step, Places, Types, host, scanner
<1>7. CASE WriteRspHdr
  <2>1. <<RspHdr(cmd_hdr.id, ret)>> \in Seq(HostUnits)
    BY DEF RspHdr, HostUnits, Received
  <2>2. toHost' \in Seq(HostUnits)
    BY <1>7, <2>1, WriteN DEF WriteRspHdr
  <2> QED BY <1>7, <2>2 DEF WriteRspHdr, Step, Places, host, scanner, locals
<1>8. CASE WriteBody
  <2>1. <<Word(cmd_hdr.op)>> \in Seq(HostUnits)
    BY DEF Word, HostUnits, Received, Words
  <2>2. toHost' \in Seq(HostUnits)
    BY <1>8, <2>1, WriteN DEF WriteBody
  <2> QED BY <1>8, <2>2 DEF WriteBody, Step, Places, Replies, host, scanner
<1> QED BY <1>1, <1>2, <1>3, <1>4, <1>5, <1>6, <1>7, <1>8 DEF Run

LEMMA NextType == TypeInv /\ RegInv /\ LineInv /\ [Next]_vars => TypeInv'
<1> SUFFICES ASSUME TypeInv, RegInv, LineInv, [Next]_vars PROVE TypeInv'
  OBVIOUS
<1>1. CASE Register \/ quit \/ UNCHANGED vars
  BY <1>1 DEF TypeInv, Register, quit, vars, host, wire, server, scanner, locals
<1>2. CASE Drop
  <2>1. PICK i \in 0 .. Len(toSrv), j \in 0 .. Len(toHost) :
          toSrv' = SubSeq(toSrv, 1, i) /\ toHost' = SubSeq(toHost, 1, j)
    BY <1>2 DEF Drop
  <2>2. toSrv' \in Seq(SrvUnits) /\ toHost' \in Seq(HostUnits)
    BY <2>1 DEF TypeInv
  <2> QED BY <1>2, <2>2 DEF TypeInv, Drop, host, server, scanner, locals
<1>3. CASE Noise
  <2>1. toSrv' \in Seq(SrvUnits)
    BY <1>3, AppendProperties DEF TypeInv, Noise, Byte, SrvUnits, Bytes
  <2> QED BY <1>3, <2>1 DEF TypeInv, Noise, host, server, scanner, locals
<1> QED BY <1>1, <1>2, <1>3, HostType, RunType DEF Next

LEMMA InitLock == Init => HostLock
  BY ClientsAssumption DEF Init, HostLock, Sending

LEMMA NextLock == TypeInv /\ HostLock /\ [Next]_vars => HostLock'
<1> SUFFICES ASSUME TypeInv, HostLock, [Next]_vars PROVE HostLock'
  OBVIOUS
<1> USE DEF HostLock, Sending, TypeInv, At
<1>1. CASE UNCHANGED <<hlock, cpc>>
  BY <1>1
<1>2. ASSUME NEW c \in Clients, Host(c) PROVE HostLock'
  <2>1. CASE FetchId(c) \/ StoreId(c)
    BY <1>2, <2>1 DEF FetchId, StoreId
  <2>2. CASE SendLock(c)
    BY <2>2, ClientsAssumption DEF SendLock
  <2>3. ASSUME NEW from \in Sending, NEW to \in Sending, At(c, from, to), hlock' = hlock
        PROVE  HostLock'
    BY <2>3
  <2>4. ASSUME NEW from \in Sending, At(c, from, "idle"), hlock' = Nobody
        PROVE  HostLock'
    BY <2>4, ClientsAssumption
  <2>5. CASE SendHdr(c) \/ SendPayload(c)
    BY <2>3, <2>4, <2>5 DEF SendHdr, SendPayload, SendWrite, Return
  <2>6. CASE RecvPktHdr(c)
    BY <2>3, <2>6 DEF RecvPktHdr
  <2>7. CASE RecvRspHdr(c)
    BY <2>3, <2>4, <2>7 DEF RecvRspHdr, Return
  <2>8. CASE RecvBody(c) \/ RecvFails(c)
    BY <2>4, <2>8 DEF RecvBody, RecvFails, Return
  <2> QED BY <1>2, <2>1, <2>2, <2>5, <2>6, <2>7, <2>8 DEF Host
<1>3. ASSUME Run PROVE UNCHANGED host
  BY <1>3 DEF Run, Top, Scan, ScanFails, ReadHdr, ReadPayload, Dispatch, WritePktHdr,
     WriteRspHdr, WriteBody
<1>4. ASSUME Register \/ quit \/ Drop \/ Noise \/ UNCHANGED vars PROVE UNCHANGED host
  BY <1>4 DEF Register, quit, Drop, Noise, vars
<1> QED BY <1>1, <1>2, <1>3, <1>4 DEF Next, host

-----------------------------------------------------------------------------
(* The request line.                                                        *)

\* Nothing starts or ends while run() is not reading and nobody writes.
LEMMA StartsSame ==
  ASSUME toSrv' = toSrv, spc' = spc \/ {spc, spc'} \cap {"hdr", "payload"} = {}
  PROVE  Starts' = Starts /\ \A i : OpAt(i)' = OpAt(i)
<1>1. \A i : Start(i)' = Start(i)
  BY DEF Start
<1> QED BY <1>1 DEF Starts, OpAt

LEMMA FramedSame ==
  ASSUME Framed, toSrv' = toSrv, Starts' = Starts, spc = "scan" => spc' = spc /\ nx' = nx
  PROVE  Framed'
  BY DEF Framed, Follows, InFrame

LEMMA WholeSame ==
  ASSUME Whole, toSrv' = toSrv, Starts' = Starts,
         \A c \in Clients : cpc'[c] = "payload" <=> cpc[c] = "payload"
  PROVE  Whole'
  BY DEF Whole

\* Units added at the end, and an 'X' among them.
LEMMA StartsMore ==
  ASSUME TypeInv, TypeInv', spc' = spc, NEW m \in Nat, Len(toSrv') = Len(toSrv) + m,
         \A i \in 1 .. Len(toSrv) : toSrv'[i] = toSrv[i]
  PROVE  Starts' = Starts \cup {j \in Len(toSrv) + 1 .. Len(toSrv) + m : toSrv'[j].k = "X"}
<1>1. Len(toSrv) \in Nat
  BY DEF TypeInv
<1>2. ASSUME NEW i \in -1 .. Len(toSrv) PROVE Start(i)' <=> Start(i)
  BY <1>1, <1>2 DEF Start
<1>3. ASSUME NEW i \in Len(toSrv) + 1 .. Len(toSrv) + m
      PROVE  Start(i)' <=> toSrv'[i].k = "X"
  BY <1>1, <1>3 DEF Start
<1> QED BY <1>1, <1>2, <1>3 DEF Starts

\* run() has read n units, and with them the packets they end.
LEMMA Consumed ==
  ASSUME TypeInv, Framed, NEW n \in 1 .. 3, n <= Len(toSrv), toSrv' = Rest(toSrv, n),
         \A i \in -1 .. Len(toSrv) - n : Start(i)' <=> i + n \in Starts,
         \A i \in Starts : i < n - 1 => i + 4 <= n,
         n < Len(toSrv) /\ toSrv[n + 1].k = "X" => spc' = "scan" /\ nx' = 1
  PROVE  /\ Len(toSrv') = Len(toSrv) - n
         /\ \A i \in 1 .. Len(toSrv) - n : toSrv'[i] = toSrv[i + n]
         /\ \A i \in -1 .. Len(toSrv) - n : i \in Starts' <=> i + n \in Starts
         /\ Starts' \subseteq -1 .. Len(toSrv) - n
         /\ Framed'
<1> DEFINE len == Len(toSrv)
<1>1. len \in Nat /\ Len(toSrv') = len - n /\ \A i \in 1 .. len - n : toSrv'[i] = toSrv[i + n]
  <2>1. toSrv \in Seq(SrvUnits) /\ n \in Nat /\ len \in Nat
    BY DEF TypeInv
  <2>2. Len(Rest(toSrv, n)) = len - n /\ \A i \in 1 .. len - n : Rest(toSrv, n)[i] = toSrv[i + n]
    BY <2>1, ReadN
  <2> QED BY <2>1, <2>2
<1>2. /\ Starts' \subseteq -1 .. len - n
      /\ \A i \in -1 .. len - n : i \in Starts' <=> i + n \in Starts
  BY <1>1 DEF Starts
<1>3. Starts \subseteq -1 .. len
  BY DEF Starts
<1> HIDE DEF len
<1>4. ASSUME NEW i \in Starts', NEW j \in 1 .. 4, i + j \in 1 .. len - n
      PROVE  Follows(i, j)'
  <2>1. i + n \in Starts /\ (i + n) + j \in 1 .. len /\ toSrv'[i + j] = toSrv[(i + n) + j]
    <3>1. i \in -1 .. len - n /\ i \in Int
      BY <1>1, <1>2
    <3>2. i + n \in Starts
      BY <1>2, <3>1
    <3>3. (i + n) + j = (i + j) + n /\ (i + j) + n \in 1 .. len
      BY <1>1, <1>4, <3>1
    <3>4. toSrv'[i + j] = toSrv[(i + j) + n]
      BY <1>1, <1>4
    <3> QED BY <3>2, <3>3, <3>4
  <2> QED BY <2>1 DEF Framed, Follows, len
<1>5. ASSUME NEW i \in 1 .. len - n
      PROVE  InFrame(i)'
  <2>1. i + n \in 1 .. len /\ toSrv'[i] = toSrv[i + n]
    BY <1>1
  <2>2. toSrv'[i].k \in {"C", "X", "n", "hdr", "word"}
    BY <2>1 DEF Framed, InFrame, len
  <2>3. ASSUME toSrv'[i].k \in {"hdr", "word"} PROVE \E j \in 1 .. 4 : i - j \in Starts'
    <3>1. PICK j \in 1 .. 4 : (i + n) - j \in Starts
      BY <2>1, <2>3 DEF Framed, InFrame, len
    <3>2. (i + n) - j >= n - 1
      BY <1>1, <1>3, <3>1, SMTT(30)
    <3>3. i - j \in -1 .. len - n /\ (i - j) + n = (i + n) - j
      BY <1>1, <3>2
    <3> QED BY <1>2, <3>1, <3>3
  <2>4. ASSUME toSrv'[i].k = "X"
        PROVE  IF i = 1 THEN spc' = "scan" /\ nx' = 1 ELSE toSrv'[i - 1].k = "C"
    <3>1. CASE i = 1
      BY <1>1, <2>1, <2>4, <3>1 DEF len
    <3>2. CASE i # 1
      <4>1. i - 1 \in 1 .. len - n /\ (i - 1) + n = (i + n) - 1 /\ i + n # 1
        BY <1>1, <3>2
      <4>2. toSrv[(i + n) - 1].k = "C"
        BY <2>1, <2>4, <4>1 DEF Framed, InFrame, len
      <4> QED BY <1>1, <3>2, <4>1, <4>2
    <3> QED BY <3>1, <3>2
  <2> QED BY <2>2, <2>3, <2>4 DEF InFrame
<1>6. Framed'
  BY <1>1, <1>4, <1>5 DEF Framed
<1> QED BY <1>1, <1>2, <1>6 DEF len

LEMMA WholeConsumed ==
  ASSUME TypeInv, Whole, NEW n \in 1 .. 3, n <= Len(toSrv), Len(toSrv') = Len(toSrv) - n,
         \A i \in -1 .. Len(toSrv) - n : i \in Starts' <=> i + n \in Starts,
         Starts' \subseteq -1 .. Len(toSrv) - n, cpc' = cpc
  PROVE  Whole'
<1>1. Len(toSrv) \in Nat /\ Len(toSrv) - n \in Nat
  BY DEF TypeInv
<1>2. ASSUME NEW i \in Starts'
      PROVE  /\ i + 4 <= Len(toSrv') \/ i = Len(toSrv') - 1
             /\ i = Len(toSrv') - 1 => \E c \in Clients : cpc[c] = "payload"
  <2>1. i \in -1 .. Len(toSrv) - n /\ i + n \in Starts
    OBVIOUS
  <2> QED BY <1>1, <2>1 DEF Whole
<1>3. ASSUME NEW c \in Clients, cpc[c] = "payload" PROVE Len(toSrv') - 1 \in Starts'
  <2>1. Len(toSrv') - 1 \in -1 .. Len(toSrv) - n /\ (Len(toSrv') - 1) + n = Len(toSrv) - 1
    BY <1>1
  <2> QED BY <1>3, <2>1 DEF Whole
<1> QED BY <1>2, <1>3 DEF Whole

\* Units added at the end of the line: what was framed still is.
LEMMA FramedMore ==
  ASSUME TypeInv, Framed, UNCHANGED <<spc, nx>>, NEW m \in 1 .. 3, Len(toSrv') = Len(toSrv) + m,
         \A i \in 1 .. Len(toSrv) : toSrv'[i] = toSrv[i],
         Starts \subseteq Starts', \A i \in Starts' \ Starts : i > Len(toSrv),
         \A i \in Starts', j \in 1 .. 4 :
           i + j \in Len(toSrv) + 1 .. Len(toSrv) + m => Follows(i, j)',
         \A i \in Len(toSrv) + 1 .. Len(toSrv) + m : InFrame(i)'
  PROVE  Framed'
<1>1. Len(toSrv) \in Nat
  BY DEF TypeInv
<1>2. ASSUME NEW i \in Starts', NEW j \in 1 .. 4, i + j \in 1 .. Len(toSrv')
      PROVE  Follows(i, j)'
  <2>1. i \in Int
    BY DEF Starts
  <2>2. CASE i + j <= Len(toSrv)
    <3>1. i \in Starts /\ i + j \in 1 .. Len(toSrv)
      BY <1>1, <1>2, <2>1, <2>2
    <3> QED BY <3>1 DEF Framed, Follows
  <2>3. CASE i + j > Len(toSrv)
    <3>1. i + j \in Len(toSrv) + 1 .. Len(toSrv) + m
      BY <1>1, <1>2, <2>1, <2>3
    <3> QED BY <3>1
  <2> QED BY <1>1, <2>1, <2>2, <2>3
<1>3. ASSUME NEW i \in 1 .. Len(toSrv') PROVE InFrame(i)'
  <2>1. CASE i \in 1 .. Len(toSrv)
    <3>1. InFrame(i) /\ toSrv'[i] = toSrv[i] /\ (i # 1 => toSrv'[i - 1] = toSrv[i - 1])
      BY <1>1, <2>1 DEF Framed
    <3> QED BY <3>1 DEF InFrame
  <2>2. CASE i \in Len(toSrv) + 1 .. Len(toSrv) + m
    BY <2>2
  <2> QED BY <1>1, <2>1, <2>2
<1> QED BY <1>2, <1>3 DEF Framed

\* A stray byte.
LEMMA ByteAdded ==
  ASSUME TypeInv, TypeInv', Framed, Whole, \A c \in Clients : cpc[c] # "payload",
         UNCHANGED <<spc, nx, cpc>>, NEW b \in {"C", "n"}, toSrv' = Append(toSrv, Byte(b))
  PROVE  Framed' /\ Whole' /\ Starts' = Starts /\ \A i \in Queued : OpAt(i)' = OpAt(i)
<1>1. /\ Len(toSrv) \in Nat /\ Len(toSrv') = Len(toSrv) + 1
      /\ \A i \in 1 .. Len(toSrv) : toSrv'[i] = toSrv[i]
      /\ toSrv'[Len(toSrv) + 1].k = b
  <2>1. toSrv \in Seq(SrvUnits) /\ Byte(b) \in SrvUnits
    BY DEF TypeInv, Byte, SrvUnits, Bytes
  <2> QED BY <2>1, AppendProperties DEF Byte
<1>2. Starts' = Starts
  <2>1. \A j \in Len(toSrv) + 1 .. Len(toSrv) + 1 : toSrv'[j].k # "X"
    BY <1>1
  <2>2. 1 \in Nat
    OBVIOUS
  <2> QED BY ONLY <1>1, <2>1, <2>2, StartsMore, TypeInv, TypeInv', UNCHANGED <<spc, nx, cpc>>
<1>3. Starts \subseteq -1 .. Len(toSrv) /\ \A i \in Starts : i + 4 <= Len(toSrv)
  BY <1>1 DEF Starts, Whole
<1>4. Framed'
  <2>1. \A i \in Starts', j \in 1 .. 4 : i + j \notin Len(toSrv) + 1 .. Len(toSrv) + 1
    BY <1>1, <1>2, <1>3
  <2>2. \A i \in Len(toSrv) + 1 .. Len(toSrv) + 1 : InFrame(i)'
    BY <1>1 DEF InFrame
  <2> QED BY <1>1, <1>2, <2>1, <2>2, FramedMore
<1>5. Whole'
  BY <1>1, <1>2, <1>3 DEF Whole
<1>6. \A i \in Queued : OpAt(i)' = OpAt(i)
  BY <1>1, <1>3 DEF Queued, OpAt
<1> QED BY <1>2, <1>4, <1>5, <1>6

\* The three units of one write().
LEMMA ThreeAdded ==
  ASSUME TypeInv, up, NEW a \in SrvUnits, NEW b \in SrvUnits, NEW d \in SrvUnits,
         toSrv' = Put(toSrv, <<a, b, d>>)
  PROVE  /\ Len(toSrv) \in Nat
         /\ Len(toSrv') = Len(toSrv) + 3
         /\ \A i \in 1 .. Len(toSrv) : toSrv'[i] = toSrv[i]
         /\ toSrv'[Len(toSrv) + 1] = a
         /\ toSrv'[Len(toSrv) + 2] = b
         /\ toSrv'[Len(toSrv) + 3] = d
<1>1. toSrv \in Seq(SrvUnits) /\ Len(toSrv) \in Nat
  BY DEF TypeInv
<1>2. PICK u \in Seq(SrvUnits) : u = <<a, b, d>>
  <2>1. <<a, b, d>> \in Seq(SrvUnits)
    OBVIOUS
  <2> QED BY <2>1, Zenon
<1>3. Len(u) = 3 /\ u[1] = a /\ u[2] = b /\ u[3] = d
  BY <1>2
<1>4. toSrv' = toSrv \o u
  BY <1>2 DEF Put
<1>5. /\ Len(toSrv \o u) = Len(toSrv) + Len(u)
      /\ \A i \in 1 .. Len(toSrv) : (toSrv \o u)[i] = toSrv[i]
      /\ \A i \in 1 .. Len(u) : (toSrv \o u)[Len(toSrv) + i] = u[i]
  BY ONLY <1>1, u \in Seq(SrvUnits), ConcatProperties
<1>6. 1 \in 1 .. 3 /\ 2 \in 1 .. 3 /\ 3 \in 1 .. 3
  OBVIOUS
<1> QED BY ONLY <1>1, <1>3, <1>4, <1>5, <1>6

\* A packet's magic and header.
LEMMA HdrAdded ==
  ASSUME TypeInv, TypeInv', Framed, Whole, \A d \in Clients : cpc[d] # "payload",
         NEW c \in Clients, UNCHANGED <<spc, nx>>, cpc' = [cpc EXCEPT ![c] = "payload"], up,
         toSrv' = Put(toSrv, <<Byte("C"), Byte("X"), Hdr("CMD", 3)>>)
  PROVE  /\ Len(toSrv') = Len(toSrv) + 3 /\ \A i \in 1 .. Len(toSrv) : toSrv'[i] = toSrv[i]
         /\ Starts' = Starts \cup {Len(toSrv) + 2}
         /\ Framed' /\ Whole'
<1>1. /\ Len(toSrv) \in Nat /\ Len(toSrv') = Len(toSrv) + 3
      /\ \A i \in 1 .. Len(toSrv) : toSrv'[i] = toSrv[i]
      /\ toSrv'[Len(toSrv) + 1] = Byte("C") /\ toSrv'[Len(toSrv) + 2] = Byte("X")
      /\ toSrv'[Len(toSrv) + 3] = Hdr("CMD", 3)
  <2>1. Byte("C") \in SrvUnits /\ Byte("X") \in SrvUnits /\ Hdr("CMD", 3) \in SrvUnits
    BY DEF Byte, Hdr, SrvUnits, Bytes, Headers, Types
  <2> QED BY <2>1, ThreeAdded
<1>2. Starts' = Starts \cup {Len(toSrv) + 2}
  <2>1. \A j \in Len(toSrv) + 1 .. Len(toSrv) + 3 : toSrv'[j].k = "X" <=> j = Len(toSrv) + 2
    BY <1>1 DEF Hdr, Byte
  <2>2. Starts' = Starts \cup {j \in Len(toSrv) + 1 .. Len(toSrv) + 3 : toSrv'[j].k = "X"}
    <3>1. 3 \in Nat
      OBVIOUS
    <3> QED BY ONLY <1>1, <3>1, StartsMore, TypeInv, TypeInv', UNCHANGED <<spc, nx>>
  <2> QED BY <1>1, <2>1, <2>2
<1>3. Starts \subseteq -1 .. Len(toSrv) /\ \A i \in Starts : i + 4 <= Len(toSrv)
  BY <1>1 DEF Starts, Whole
<1>4. Framed'
  <2>1. ASSUME NEW i \in Starts', NEW j \in 1 .. 4,
               i + j \in Len(toSrv) + 1 .. Len(toSrv) + 3
        PROVE  Follows(i, j)'
    <3>1. i = Len(toSrv) + 2 /\ j = 1
      BY <1>1, <1>2, <1>3, <2>1
    <3>2. i + j = Len(toSrv) + 3
      BY <1>1, <3>1
    <3> QED BY <1>1, <3>1, <3>2 DEF Follows
  <2>2. ASSUME NEW i \in Len(toSrv) + 1 .. Len(toSrv) + 3 PROVE InFrame(i)'
    <3>1. CASE i = Len(toSrv) + 1
      BY <1>1, <3>1 DEF InFrame, Byte
    <3>2. CASE i = Len(toSrv) + 2
      <4>1. i # 1 /\ i - 1 = Len(toSrv) + 1
        BY <1>1, <3>2
      <4> QED BY <1>1, <3>2, <4>1 DEF InFrame, Byte
    <3>3. CASE i = Len(toSrv) + 3
      <4>1. 1 \in 1 .. 4 /\ i - 1 \in Starts'
        BY <1>1, <1>2, <3>3
      <4> QED BY <1>1, <3>3, <4>1 DEF InFrame, Hdr
    <3> QED BY <1>1, <3>1, <3>2, <3>3
  <2>3. 3 \in 1 .. 3 /\ Starts \subseteq Starts' /\ \A i \in Starts' \ Starts : i > Len(toSrv)
    BY <1>1, <1>2
  <2> QED BY <1>1, <2>1, <2>2, <2>3, FramedMore
<1>5. Whole'
  <2>1. \A d \in Clients : cpc'[d] = "payload" <=> d = c
    BY DEF TypeInv
  <2>2. Len(toSrv') - 1 = Len(toSrv) + 2
    BY <1>1
  <2> QED BY <1>1, <1>2, <1>3, <2>1, <2>2 DEF Whole
<1> QED BY <1>1, <1>2, <1>4, <1>5

\* Its words.
LEMMA WordsAdded ==
  ASSUME TypeInv, TypeInv', Framed, Whole, NEW c \in Clients, cpc[c] = "payload",
         \A d \in Clients : cpc'[d] # "payload", UNCHANGED <<spc, nx>>, up,
         toSrv' = Put(toSrv, <<Word(cmd[c].id), Word(cmd[c].key), Word(cmd[c].op)>>)
  PROVE  /\ Len(toSrv') = Len(toSrv) + 3 /\ \A i \in 1 .. Len(toSrv) : toSrv'[i] = toSrv[i]
         /\ toSrv'[Len(toSrv) + 3] = Word(cmd[c].op)
         /\ Starts' = Starts
         /\ Framed' /\ Whole'
<1>1. /\ Len(toSrv) \in Nat /\ Len(toSrv') = Len(toSrv) + 3
      /\ \A i \in 1 .. Len(toSrv) : toSrv'[i] = toSrv[i]
      /\ toSrv'[Len(toSrv) + 1] = Word(cmd[c].id) /\ toSrv'[Len(toSrv) + 2] = Word(cmd[c].key)
      /\ toSrv'[Len(toSrv) + 3] = Word(cmd[c].op)
  <2>1. cmd[c] \in Command
    BY DEF TypeInv
  <2>2. Word(cmd[c].id) \in SrvUnits /\ Word(cmd[c].key) \in SrvUnits /\ Word(cmd[c].op) \in SrvUnits
    BY <2>1 DEF Word, SrvUnits, Words, Contents, Command
  <2> QED BY <2>2, ThreeAdded
<1>2. \A j \in Len(toSrv) + 1 .. Len(toSrv) + 3 : toSrv'[j].k = "word"
  BY <1>1 DEF Word
<1>3. Starts' = Starts
  <2>1. Starts' = Starts \cup {j \in Len(toSrv) + 1 .. Len(toSrv) + 3 : toSrv'[j].k = "X"}
    <3>1. 3 \in Nat
      OBVIOUS
    <3> QED BY ONLY <1>1, <3>1, StartsMore, TypeInv, TypeInv', UNCHANGED <<spc, nx>>
  <2> QED BY <1>2, <2>1
<1>4. /\ Starts \subseteq -1 .. Len(toSrv) /\ Len(toSrv) - 1 \in Starts
      /\ \A i \in Starts : i + 4 <= Len(toSrv) \/ i = Len(toSrv) - 1
  BY <1>1 DEF Starts, Whole
<1>5. Framed'
  <2>1. ASSUME NEW i \in Starts', NEW j \in 1 .. 4,
               i + j \in Len(toSrv) + 1 .. Len(toSrv) + 3
        PROVE  Follows(i, j)'
    <3>1. j # 1
      BY <1>1, <1>3, <1>4, <2>1
    <3> QED BY <1>2, <2>1, <3>1 DEF Follows
  <2>2. ASSUME NEW i \in Len(toSrv) + 1 .. Len(toSrv) + 3 PROVE InFrame(i)'
    <3> DEFINE j == i - (Len(toSrv) - 1)
    <3>1. j \in 1 .. 4 /\ i - j = Len(toSrv) - 1
      BY <1>1
    <3> HIDE DEF j
    <3>2. \E k \in 1 .. 4 : i - k \in Starts'
      BY <1>3, <1>4, <3>1
    <3> QED BY <1>2, <3>2 DEF InFrame
  <2>3. 3 \in 1 .. 3 /\ Starts \subseteq Starts' /\ \A i \in Starts' \ Starts : i > Len(toSrv)
    BY <1>3
  <2> QED BY <1>1, <2>1, <2>2, <2>3, FramedMore
<1>6. Whole'
  BY <1>1, <1>3, <1>4, SMTT(30) DEF Whole
<1> QED BY <1>1, <1>3, <1>5, <1>6

\* The end of the line is lost.
LEMMA FramedPrefix ==
  ASSUME TypeInv, Framed, UNCHANGED <<spc, nx>>, NEW k \in 0 .. Len(toSrv),
         toSrv' = SubSeq(toSrv, 1, k)
  PROVE  Framed' /\ Starts' \subseteq Starts /\ Len(toSrv') = k
         /\ \A i \in 1 .. k : toSrv'[i] = toSrv[i]
<1>1. Len(toSrv) \in Nat /\ Len(toSrv') = k /\ \A i \in 1 .. k : toSrv'[i] = toSrv[i]
  BY DEF TypeInv
<1>2. Starts' = {i \in Starts : i <= k}
  <2>1. \A i \in -1 .. k : Start(i)' <=> Start(i)
    BY <1>1 DEF Start
  <2> QED BY <1>1, <2>1 DEF Starts
<1>3. ASSUME NEW i \in Starts', NEW j \in 1 .. 4, i + j \in 1 .. k PROVE Follows(i, j)'
  <2>1. Follows(i, j) /\ toSrv'[i + j] = toSrv[i + j]
    BY <1>1, <1>2, <1>3 DEF Framed
  <2> QED BY <2>1 DEF Follows
<1>4. ASSUME NEW i \in 1 .. k PROVE InFrame(i)'
  <2>1. InFrame(i) /\ toSrv'[i] = toSrv[i] /\ (i # 1 => toSrv'[i - 1] = toSrv[i - 1])
    BY <1>1 DEF Framed
  <2>2. \A j \in 1 .. 4 : i - j \in Starts => i - j \in Starts'
    BY <1>1, <1>2
  <2> QED BY <2>1, <2>2 DEF InFrame
<1> QED BY <1>1, <1>2, <1>3, <1>4 DEF Framed

LEMMA LineSame ==
  ASSUME LineInv, UNCHANGED <<toSrv, spc, nx, magic, short, up, pkt_hdr>>,
         up => \A c \in Clients : cpc'[c] = "payload" <=> cpc[c] = "payload"
  PROVE  LineInv'
<1>1. Starts' = Starts
  BY StartsSame
<1>2. Framed => Framed'
  BY <1>1, FramedSame
<1>3. Whole /\ up => Whole'
  BY <1>1, WholeSame
<1> QED BY <1>2, <1>3 DEF LineInv, Scanner

LEMMA HostLine ==
  ASSUME TypeInv, TypeInv', HostLock, LineInv, NEW c \in Clients, Host(c)
  PROVE  LineInv'
<1>1. ASSUME NEW from, NEW to, At(c, from, to), from # "payload", to # "payload"
      PROVE  \A d \in Clients : cpc'[d] = "payload" <=> cpc[d] = "payload"
  BY <1>1 DEF At, TypeInv
<1>2. CASE UNCHANGED <<toSrv, up, server>> /\ ~SendHdr(c) /\ ~SendPayload(c)
  <2>1. PICK from, to : At(c, from, to) /\ from # "payload" /\ to # "payload"
    BY <1>2 DEF Host, FetchId, StoreId, SendLock, RecvPktHdr, RecvRspHdr, RecvBody, RecvFails, At
  <2> QED BY <1>1, <1>2, <2>1, LineSame DEF server, scanner, locals
<1>3. CASE (SendHdr(c) \/ SendPayload(c)) /\ ~up
  <2>1. UNCHANGED <<toSrv, up, server>>
    BY <1>3 DEF SendHdr, SendPayload, SendWrite, Put
  <2> QED BY <1>3, <2>1, LineSame DEF server, scanner, locals
<1>4. CASE SendHdr(c) /\ up
  <2>1. /\ cpc' = [cpc EXCEPT ![c] = "payload"] /\ cpc[c] = "hdr"
        /\ toSrv' = Put(toSrv, <<Byte("C"), Byte("X"), Hdr("CMD", 3)>>)
        /\ UNCHANGED <<spc, nx, magic, short, up, pkt_hdr>>
    BY <1>4 DEF SendHdr, SendWrite, At, server, scanner, locals
  <2>2. \A d \in Clients : cpc[d] # "payload"
    BY <2>1 DEF HostLock, Sending
  <2>3. Framed /\ Whole => Framed' /\ Whole'
    BY <1>4, <2>1, <2>2, HdrAdded
  <2> QED BY <1>4, <2>1, <2>3 DEF LineInv, Scanner
<1>5. CASE SendPayload(c) /\ up
  <2>1. /\ cpc' = [cpc EXCEPT ![c] = "rsp"] /\ cpc[c] = "payload"
        /\ toSrv' = Put(toSrv, <<Word(cmd[c].id), Word(cmd[c].key), Word(cmd[c].op)>>)
        /\ UNCHANGED <<spc, nx, magic, short, up, pkt_hdr>>
    BY <1>5 DEF SendPayload, SendWrite, At, server, scanner, locals
  <2>2. \A d \in Clients : cpc'[d] # "payload"
    BY <2>1 DEF HostLock, Sending, TypeInv
  <2>3. Framed /\ Whole => Framed' /\ Whole'
    BY <1>5, <2>1, <2>2, WordsAdded
  <2> QED BY <1>5, <2>1, <2>3 DEF LineInv, Scanner
<1>6. \/ SendHdr(c) \/ SendPayload(c)
      \/ UNCHANGED <<toSrv, up, server>> /\ ~SendHdr(c) /\ ~SendPayload(c)
  BY DEF Host, FetchId, StoreId, SendLock, RecvPktHdr, RecvRspHdr,
     RecvBody, RecvFails, wire
<1> QED BY <1>2, <1>3, <1>4, <1>5, <1>6

\* What one turn of get_pkt_hdr()'s loop makes of the bytes a and b.
Turn(a, b) ==
  LET m == IF b = "C" THEN <<"C", "0">> ELSE <<a, b>>
  IN  \/ /\ m # <<"C", "X">>
         /\ magic' = m
         /\ nx' = IF m = <<"C", "0">> THEN 1 ELSE nx
         /\ spc' = "scan"
      \/ /\ magic' = <<"0", "0">> /\ nx' = 0
         /\ spc' = "done" \/ (m = <<"C", "X">> /\ spc' = "hdr")

\* What it has read.
LEMMA ScanReads ==
  ASSUME TypeInv, LineInv, Scan
  PROVE  /\ ~short /\ Framed /\ (up => Whole) /\ spc = "scan"
         /\ toSrv' = Rest(toSrv, 2 - nx)
         /\ Len(toSrv) >= 1
         /\ Len(toSrv) >= 2 - nx \/ ~up
         /\ UNCHANGED <<up, short, pkt_hdr, cpc>>
         /\ \E a, b :
              /\ nx = 1 => a = "C" /\ b = toSrv[1].k
              /\ nx = 0 => a = toSrv[1].k /\ (Len(toSrv) >= 2 => b = toSrv[2].k)
              /\ Turn(a, b)
<1> DEFINE n == 2 - nx
           bytes == [i \in 1 .. Len(Taken(toSrv, n)) |-> Taken(toSrv, n)[i].k]
<1>1. /\ n \in Nat /\ Len(toSrv) \in Nat
      /\ Len(Taken(toSrv, n)) = IF n <= Len(toSrv) THEN n ELSE Len(toSrv)
      /\ \A i \in 1 .. Len(Taken(toSrv, n)) : Taken(toSrv, n)[i] = toSrv[i]
  <2>1. toSrv \in Seq(SrvUnits) /\ n \in Nat /\ Len(toSrv) \in Nat
    BY DEF TypeInv
  <2> QED BY <2>1, ReadN
<1>2. Len(toSrv) >= 1
  <2> SUFFICES ASSUME Len(toSrv) = 0 PROVE FALSE
    BY <1>1
  <2>1. bytes = << >>
    BY <1>1
  <2> QED BY <2>1 DEF Scan
<1>3. ~short /\ Framed /\ (up => Whole) /\ spc = "scan"
  BY <1>2 DEF LineInv, Scan
<1>4. toSrv' = Rest(toSrv, n) /\ Readable(toSrv, n) /\ UNCHANGED <<up, short, pkt_hdr, cpc>>
  BY DEF Scan, host, locals
<1>5. Len(bytes) = Len(Taken(toSrv, n)) /\ \A i \in 1 .. Len(bytes) : bytes[i] = toSrv[i].k
  BY <1>1
<1>6. PICK old : LET m == Shifted(CASE nx = 1 -> <<magic[1], bytes[1]>>
                                    [] Len(bytes) = 2 -> bytes
                                    [] OTHER -> <<bytes[1], old>>)
                 IN  \/ /\ m # <<"C", "X">>
                        /\ magic' = m
                        /\ nx' = IF m = <<"C", "0">> THEN 1 ELSE nx
                        /\ spc' = "scan"
                     \/ /\ magic' = <<"0", "0">> /\ nx' = 0
                        /\ spc' = "done" \/ (m = <<"C", "X">> /\ spc' = "hdr")
  BY DEF Scan
<1>7. bytes = <<bytes[1], bytes[2]>> \/ Len(bytes) # 2
  <2> SUFFICES ASSUME Len(bytes) = 2 PROVE bytes = <<bytes[1], bytes[2]>>
    OBVIOUS
  <2> DEFINE S == {bytes[1], bytes[2]}
  <2>1. Len(Taken(toSrv, n)) = 2
    BY <1>5
  <2>2. bytes \in Seq(S)
    BY <2>1
  <2>3. <<bytes[1], bytes[2]>> \in Seq(S) /\ Len(<<bytes[1], bytes[2]>>) = 2
    OBVIOUS
  <2>4. \A i \in 1 .. Len(bytes) : bytes[i] = <<bytes[1], bytes[2]>>[i]
    OBVIOUS
  <2> HIDE DEF bytes, S
  <2> QED BY <2>2, <2>3, <2>4, SeqEqual
<1> HIDE DEF bytes, n
<1>8. CASE nx = 1
  <2>1. magic[1] = "C" /\ Len(bytes) = 1 /\ bytes[1] = toSrv[1].k
    BY <1>1, <1>2, <1>3, <1>5, <1>8 DEF LineInv, Scanner, n
  <2>2. Turn("C", bytes[1])
    BY <1>6, <1>8, <2>1 DEF Shifted, Turn
  <2> QED BY <1>2, <1>3, <1>4, <1>8, <2>1, <2>2 DEF Readable, n
<1>9. CASE nx = 0 /\ Len(toSrv) >= 2
  <2>1. Len(bytes) = 2 /\ bytes[1] = toSrv[1].k /\ bytes[2] = toSrv[2].k
    BY <1>1, <1>5, <1>9 DEF n
  <2>2. bytes = <<bytes[1], bytes[2]>>
    BY <1>7, <2>1
  <2>3. Turn(bytes[1], bytes[2])
    BY <1>6, <1>9, <2>1, <2>2 DEF Shifted, Turn
  <2> QED BY <1>2, <1>3, <1>4, <1>9, <2>1, <2>3 DEF Readable, n
<1>10. CASE nx = 0 /\ Len(toSrv) = 1
  <2>1. Len(bytes) = 1 /\ bytes[1] = toSrv[1].k
    BY <1>1, <1>2, <1>5, <1>10 DEF n
  <2>2. Turn(bytes[1], old)
    BY <1>6, <1>10, <2>1 DEF Shifted, Turn
  <2> QED BY <1>2, <1>3, <1>4, <1>10, <2>1, <2>2 DEF Readable, n
<1>11. nx = 1 \/ (nx = 0 /\ Len(toSrv) >= 2) \/ (nx = 0 /\ Len(toSrv) = 1)
  <2>1. Len(toSrv) \in Nat /\ nx \in 0 .. 1
    BY DEF TypeInv
  <2> QED BY ONLY <1>2, <2>1
<1> QED BY <1>8, <1>9, <1>10, <1>11, Zenon

\* The packets in front of run() after it has read n units were there before.
Shift(n) ==
  ~short' /\ spc' # "done" /\ (up \/ toSrv' # << >>) => \A i \in Starts' : i + n \in Starts

LEMMA ScanLine ==
  ASSUME TypeInv, TypeInv', LineInv, Scan
  PROVE  LineInv' /\ Shift(2 - nx)
<1>1. PICK a, b :
        /\ nx = 1 => a = "C" /\ b = toSrv[1].k
        /\ nx = 0 => a = toSrv[1].k /\ (Len(toSrv) >= 2 => b = toSrv[2].k)
        /\ Turn(a, b)
  BY ScanReads
<1>2. /\ ~short /\ Framed /\ (up => Whole) /\ spc = "scan"
      /\ toSrv' = Rest(toSrv, 2 - nx)
      /\ Len(toSrv) >= 1
      /\ Len(toSrv) >= 2 - nx \/ ~up
      /\ UNCHANGED <<up, short, pkt_hdr, cpc>>
  BY ScanReads
<1>3. Len(toSrv) \in Nat /\ nx \in 0 .. 1 /\ toSrv \in Seq(SrvUnits)
  BY DEF TypeInv
<1>4. Scanner' /\ spc' \in {"scan", "hdr", "done"} /\ (spc' # "scan" => nx' = 0)
  <2>1. nx = 1 => a = "C"
    BY <1>1
  <2> QED BY <1>1, <1>3, <2>1 DEF Turn, Scanner
<1>5. \A i \in Starts : i >= 1 /\ i <= Len(toSrv)
  BY <1>2, <1>3 DEF Starts, Start
<1>6. \A i \in 1 .. Len(toSrv) : i \in Starts <=> toSrv[i].k = "X"
  BY <1>2, <1>3 DEF Starts, Start
<1>7. toSrv[1].k \in {"C", "n", "X"} /\ (toSrv[1].k = "X" => nx = 1)
  <2>1. 1 \in 1 .. Len(toSrv)
    BY <1>2, <1>3
  <2>2. InFrame(1) /\ \A j \in 1 .. 4 : ~ (1 - j >= 1)
    BY <1>2, <2>1 DEF Framed
  <2> QED BY <1>5, <2>2 DEF InFrame
<1>8. CASE spc' = "done"
  BY <1>2, <1>4, <1>8 DEF LineInv, Shift
<1>9. CASE spc' # "done" /\ Len(toSrv) < 2 - nx
  <2>1. ~up /\ Len(toSrv) = 1 /\ nx = 0
    <3>1. nx = 0 \/ nx = 1
      BY <1>3
    <3>2. CASE nx = 0
      <4>1. Len(toSrv) < 2 /\ Len(toSrv) >= 1 /\ Len(toSrv) \in Nat
        BY <1>2, <1>3, <1>9, <3>2
      <4>2. ~up
        BY <1>2, <3>2, <4>1
      <4>3. Len(toSrv) = 1
        <5>1. \A l \in Nat : l < 2 /\ l >= 1 => l = 1
          OBVIOUS
        <5> QED BY <4>1, <5>1, Zenon
      <4> QED BY <3>2, <4>2, <4>3
    <3>3. CASE nx = 1
      BY <1>2, <1>3, <1>9, <3>3
    <3> QED BY <3>1, <3>2, <3>3
  <2>2. toSrv' = << >>
    <3>1. 2 - nx \in Nat
      BY <1>3
    <3>2. toSrv' \in Seq(SrvUnits) /\ Len(toSrv') = 0
      BY <1>2, <1>3, <1>9, <3>1, ReadN
    <3> QED BY <3>2
  <2>3. Framed'
    <3>1. \A i \in Starts', j \in 1 .. 4 : ~ (i + j \in 1 .. Len(toSrv'))
      BY <2>2
    <3> QED BY <2>2, <3>1 DEF Framed
  <2> QED BY <1>2, <1>4, <2>1, <2>2, <2>3 DEF LineInv, Shift
<1>10. CASE spc' # "done" /\ Len(toSrv) >= 2 - nx
  <2> DEFINE n == 2 - nx
  <2>1. n \in 1 .. 3 /\ n <= Len(toSrv) /\ n \in 1 .. Len(toSrv)
    BY <1>3, <1>10
  <2>2. b = toSrv[n].k /\ (n = 2 => a = toSrv[1].k)
    BY <1>1, <1>3, <1>10
  <2>3. b \in {"C", "n", "X"} /\ (b = "X" => a = "C")
    <3>1. CASE nx = 1
      BY <1>1, <1>7, <2>2, <3>1
    <3>2. CASE nx = 0
      <4>1. n = 2 /\ a = toSrv[1].k /\ b = toSrv[2].k /\ 2 \in 1 .. Len(toSrv) /\ 1 \in 1 .. Len(toSrv)
        BY <1>1, <1>10, <1>3, <2>1, <3>2
      <4>2. InFrame(2)
        BY <1>2, <4>1 DEF Framed
      <4>3. 1 \notin Starts
        BY <1>6, <1>7, <3>2, <4>1
      <4>4. \A j \in 1 .. 4 : 2 - j \notin Starts
        <5> TAKE j \in 1 .. 4
        <5>1. CASE j = 1
          BY <4>3, <5>1
        <5>2. CASE j # 1
          BY <1>5, <5>2
        <5> QED BY <5>1, <5>2
      <4> QED BY <4>1, <4>2, <4>4 DEF InFrame
    <3> QED BY <1>3, <3>1, <3>2
  <2>4. spc' = "hdr" <=> b = "X"
    BY <1>1, <1>10, <2>3 DEF Turn
  <2>5. b = "C" => spc' = "scan" /\ nx' = 1
    BY <1>1, <1>10 DEF Turn
  <2>6. \A i \in -1 .. Len(toSrv) - n : Start(i)' <=> i + n \in Starts
    <3>1. /\ Len(toSrv') = Len(toSrv) - n
          /\ \A i \in 1 .. Len(toSrv) - n : toSrv'[i] = toSrv[i + n]
      <4>1. n \in Nat
        BY <2>1
      <4>2. /\ Len(Rest(toSrv, n)) = Len(toSrv) - n
            /\ \A i \in 1 .. Len(toSrv) - n : Rest(toSrv, n)[i] = toSrv[i + n]
        BY <1>3, <2>1, <4>1, ReadN
      <4> QED BY <1>2, <4>2
    <3> SUFFICES ASSUME NEW i \in -1 .. Len(toSrv) - n PROVE Start(i)' <=> i + n \in Starts
      OBVIOUS
    <3>2. CASE i \in 1 .. Len(toSrv) - n
      <4>1. i + n \in 1 .. Len(toSrv)
        BY <1>3, <2>1, <3>2
      <4> QED BY <1>6, <3>1, <3>2, <4>1 DEF Start
    <3>3. CASE i = 0
      <4>1. Start(0)' <=> spc' = "hdr"
        BY DEF Start
      <4>2. i + n = n
        BY <2>1, <3>3
      <4> QED BY <1>6, <2>1, <2>2, <2>4, <3>3, <4>1, <4>2
    <3>4. CASE i = -1
      <4>1. ~Start(i)'
        BY <1>4, <3>4 DEF Start
      <4>2. i + n \notin Starts
        <5>1. CASE n = 1
          BY <1>5, <3>4, <5>1
        <5>2. CASE n = 2
          <6>1. i + n = 1 /\ nx = 0 /\ 1 \in 1 .. Len(toSrv)
            BY <1>3, <2>1, <3>4, <5>2
          <6> QED BY <1>6, <1>7, <6>1
        <5> QED BY <1>3, <5>1, <5>2
      <4> QED BY <4>1, <4>2
    <3> QED BY <1>3, <2>1, <3>2, <3>3, <3>4
  <2>7. \A i \in Starts : i < n - 1 => i + 4 <= n
    <3>1. n = 1 \/ n = 2
      BY <1>3
    <3>2. \A i \in Starts : i \in Int /\ i >= 1
      BY <1>3, <1>5 DEF Starts
    <3> HIDE DEF n
    <3> QED BY <3>1, <3>2
  <2>8. n < Len(toSrv) /\ toSrv[n + 1].k = "X" => spc' = "scan" /\ nx' = 1
    <3> SUFFICES ASSUME n < Len(toSrv), toSrv[n + 1].k = "X" PROVE b = "C"
      BY <2>5
    <3>1. n + 1 \in 1 .. Len(toSrv) /\ n + 1 # 1 /\ (n + 1) - 1 = n
      BY <1>3, <2>1
    <3>2. InFrame(n + 1)
      BY <1>2, <3>1 DEF Framed
    <3> QED BY <2>2, <3>1, <3>2 DEF InFrame
  <2>9. toSrv' = Rest(toSrv, n)
    BY <1>2
  <2> HIDE DEF n
  <2>10. /\ Len(toSrv') = Len(toSrv) - n
         /\ \A i \in -1 .. Len(toSrv) - n : i \in Starts' <=> i + n \in Starts
         /\ Starts' \subseteq -1 .. Len(toSrv) - n
         /\ Framed'
    BY <1>2, <2>1, <2>6, <2>7, <2>8, <2>9, Consumed
  <2>11. up => Whole'
    BY <1>2, <2>1, <2>10, WholeConsumed
  <2>12. Shift(n)
    BY <2>10 DEF Shift
  <2> QED BY <1>2, <1>4, <2>10, <2>11, <2>12 DEF LineInv, n
<1> QED BY <1>3, <1>8, <1>9, <1>10

LEMMA ReadHdrLine ==
  ASSUME TypeInv, LineInv, ReadHdr
  PROVE  LineInv' /\ Shift(1)
<1>1. /\ spc = "hdr" /\ toSrv \in Seq(SrvUnits) /\ Len(toSrv) \in Nat /\ 1 \in Nat
      /\ UNCHANGED <<up, nx, magic, cpc>> /\ toSrv' = Rest(toSrv, 1)
  BY DEF ReadHdr, TypeInv, host, scanner
<1>2. nx = 0
  BY <1>1 DEF LineInv, Scanner, TypeInv
<1>3. CASE toSrv = << >>
  <2>1. ~up /\ short'
    BY <1>3 DEF ReadHdr, Readable
  <2>2. Len(toSrv') = 0 /\ toSrv' \in Seq(SrvUnits)
    <3>1. Len(toSrv) = 0 /\ ~ (1 <= Len(toSrv))
      BY <1>3
    <3>2. Rest(toSrv, 1) \in Seq(SrvUnits) /\ Len(Rest(toSrv, 1)) = 0
      BY <1>1, <3>1, ReadN
    <3> QED BY <1>1, <3>2
  <2> QED BY <1>1, <1>2, <2>1, <2>2 DEF LineInv, Scanner, Shift
<1>4. CASE toSrv # << >>
  <2>1. Len(toSrv) >= 1 /\ 1 \in 1 .. Len(toSrv)
    BY <1>1, <1>4
  <2>2. /\ pkt_hdr' = [type |-> toSrv[1].type, size |-> toSrv[1].size]
        /\ spc' \in {"done", "payload"} /\ short' = short
    BY <1>1, <1>4 DEF ReadHdr
  <2>3. ~short /\ Framed /\ (up => Whole)
    BY <1>1, <1>4 DEF LineInv
  <2>4. 0 \in Starts
    BY <1>1 DEF Starts, Start
  <2>5. toSrv[1] = Hdr("CMD", 3)
    <3>1. 1 \in 1 .. 4 /\ 0 + 1 = 1
      OBVIOUS
    <3>2. Follows(0, 1)
      BY <2>1, <2>3, <2>4, <3>1 DEF Framed
    <3> QED BY <3>2 DEF Follows
  <2>6. pkt_hdr' = [type |-> "CMD", size |-> 3]
    BY <2>2, <2>5 DEF Hdr
  <2>7. CASE spc' = "done"
    BY <1>1, <1>2, <2>2, <2>3, <2>7 DEF LineInv, Scanner, Shift
  <2>8. CASE spc' = "payload"
    <3>1. \A i \in -1 .. Len(toSrv) - 1 : Start(i)' <=> i + 1 \in Starts
      <4>1. /\ Len(toSrv') = Len(toSrv) - 1
            /\ \A i \in 1 .. Len(toSrv) - 1 : toSrv'[i] = toSrv[i + 1]
        <5>1. /\ Len(Rest(toSrv, 1)) = Len(toSrv) - 1
              /\ \A i \in 1 .. Len(toSrv) - 1 : Rest(toSrv, 1)[i] = toSrv[i + 1]
          BY <1>1, <2>1, ReadN
        <5> QED BY <1>1, <5>1
      <4> SUFFICES ASSUME NEW i \in -1 .. Len(toSrv) - 1 PROVE Start(i)' <=> i + 1 \in Starts
        OBVIOUS
      <4>2. CASE i \in 1 .. Len(toSrv) - 1
        <5>1. i + 1 \in 1 .. Len(toSrv)
          BY <1>1, <4>2
        <5> QED BY <4>1, <4>2, <5>1 DEF Start, Starts
      <4>3. CASE i = 0
        BY <2>1, <2>5, <2>8, <4>3 DEF Start, Starts, Hdr
      <4>4. CASE i = -1
        BY <2>4, <2>8, <4>4 DEF Start
      <4> QED BY <1>1, <4>2, <4>3, <4>4
    <3>2. \A i \in Starts : i < 1 - 1 => i + 4 <= 1
      BY <1>1 DEF Starts, Start
    <3>3. 1 < Len(toSrv) /\ toSrv[1 + 1].k = "X" => spc' = "scan" /\ nx' = 1
      <4> SUFFICES ASSUME 1 < Len(toSrv), toSrv[2].k = "X" PROVE FALSE
        OBVIOUS
      <4>1. 2 \in 1 .. 4 /\ 0 + 2 = 2 /\ 2 \in 1 .. Len(toSrv)
        BY <1>1
      <4>2. Follows(0, 2)
        BY <2>3, <2>4, <4>1 DEF Framed
      <4> QED BY <4>2 DEF Follows
    <3>4. 1 \in 1 .. 3
      OBVIOUS
    <3>5. /\ Len(toSrv') = Len(toSrv) - 1
          /\ \A i \in -1 .. Len(toSrv) - 1 : i \in Starts' <=> i + 1 \in Starts
          /\ Starts' \subseteq -1 .. Len(toSrv) - 1
          /\ Framed'
      BY <1>1, <2>1, <2>3, <3>1, <3>2, <3>3, <3>4, Consumed
    <3>6. up => Whole'
      BY <1>1, <2>1, <2>3, <3>4, <3>5, WholeConsumed
    <3>7. Shift(1)
      BY <3>5 DEF Shift
    <3> QED BY <1>1, <1>2, <2>2, <2>3, <2>6, <2>8, <3>5, <3>6, <3>7 DEF LineInv, Scanner
  <2> QED BY <2>2, <2>7, <2>8
<1> QED BY <1>3, <1>4

LEMMA ReadPayloadLine ==
  ASSUME TypeInv, LineInv, ReadPayload
  PROVE  LineInv' /\ Shift(PayloadSize) /\ (~short' => ~short /\ PayloadSize = 3
           /\ Len(toSrv) >= 3 /\ spc' = "dispatch" /\ cmd_hdr'.op = OpAt(-1))
<1> DEFINE n == PayloadSize
<1>1. /\ spc = "payload" /\ toSrv \in Seq(SrvUnits) /\ Len(toSrv) \in Nat /\ n \in Nat
      /\ UNCHANGED <<up, nx, magic, cpc, pkt_hdr>> /\ toSrv' = Rest(toSrv, n)
      /\ short' = (short \/ Len(Taken(toSrv, n)) < n) /\ Readable(toSrv, n)
      /\ spc' \in {"dispatch", "top"}
  BY DEF ReadPayload, PayloadSize, TypeInv, host, scanner
<1>2. nx = 0
  BY <1>1 DEF LineInv, Scanner, TypeInv
<1>3. Len(Taken(toSrv, n)) = IF n <= Len(toSrv) THEN n ELSE Len(toSrv)
  BY <1>1, ReadN
<1>4. CASE short'
  <2> HIDE DEF n
  <2>0. short \/ Len(Taken(toSrv, n)) < n
    BY <1>1, <1>4, Zenon
  <2>1. ~up
    <3>1. short => ~up
      BY DEF LineInv
    <3>2. Len(Taken(toSrv, n)) < n => Len(toSrv) < n
      BY <1>1, <1>3
    <3> QED BY <1>1, <2>0, <3>1, <3>2 DEF Readable
  <2>2. Len(toSrv') = 0 /\ toSrv' \in Seq(SrvUnits)
    <3>1. Len(toSrv) = 0 \/ Len(toSrv) < n
      BY <1>1, <1>3, <2>0 DEF LineInv
    <3>2. Rest(toSrv, n) \in Seq(SrvUnits) /\ Len(Rest(toSrv, n)) = 0
      BY <1>1, <3>1, ReadN
    <3> QED BY <1>1, <3>2
  <2> QED BY <1>1, <1>2, <1>4, <2>1, <2>2 DEF LineInv, Scanner, Shift
<1>5. CASE ~short'
  <2>1. ~short /\ n = 3 /\ pkt_hdr.type = "CMD" /\ Framed /\ (up => Whole)
    <3>1. ~short
      BY <1>1, <1>5
    <3> QED BY <1>1, <3>1 DEF LineInv, PayloadSize
  <2>2. Len(toSrv) >= 3 /\ spc' = "dispatch"
    <3>1. ~ (Len(Taken(toSrv, n)) < n)
      BY <1>1, <1>5, Zenon
    <3>2. Len(toSrv) >= 3
      BY <1>1, <1>3, <2>1, <3>1
    <3> QED BY <2>1, <3>2 DEF ReadPayload
  <2>3. -1 \in Starts
    BY <1>1 DEF Starts, Start
  <2>4. \A i \in 2 .. 3 : toSrv[i].k = "word"
    <3> TAKE i \in 2 .. 3
    <3>1. i + 1 \in 1 .. 4 /\ -1 + (i + 1) = i /\ i \in 1 .. Len(toSrv) /\ i + 1 # 1
      BY <1>1, <2>2
    <3>2. Follows(-1, i + 1)
      BY <2>1, <2>3, <3>1 DEF Framed
    <3> QED BY <3>1, <3>2 DEF Follows
  <2>5. toSrv[1].k = "word"
    <3>1. 2 \in 1 .. 4 /\ -1 + 2 = 1 /\ 1 \in 1 .. Len(toSrv) /\ 2 # 1
      BY <1>1, <2>2
    <3>2. Follows(-1, 2)
      BY <2>1, <2>3, <3>1 DEF Framed
    <3> QED BY <3>1, <3>2 DEF Follows
  <2>6. \A i \in -1 .. Len(toSrv) - 3 : Start(i)' <=> i + 3 \in Starts
    <3>1. /\ Len(toSrv') = Len(toSrv) - 3
          /\ \A i \in 1 .. Len(toSrv) - 3 : toSrv'[i] = toSrv[i + 3]
      <4>1. /\ Len(Rest(toSrv, 3)) = Len(toSrv) - 3
            /\ \A i \in 1 .. Len(toSrv) - 3 : Rest(toSrv, 3)[i] = toSrv[i + 3]
        BY <1>1, <2>1, <2>2, ReadN
      <4> QED BY <1>1, <2>1, <4>1
    <3> SUFFICES ASSUME NEW i \in -1 .. Len(toSrv) - 3 PROVE Start(i)' <=> i + 3 \in Starts
      OBVIOUS
    <3>2. CASE i \in 1 .. Len(toSrv) - 3
      <4>1. i + 3 \in 1 .. Len(toSrv)
        BY <1>1, <3>2
      <4> QED BY <3>1, <3>2, <4>1 DEF Start, Starts
    <3>3. CASE i \in -1 .. 0
      <4>1. i + 3 \in 2 .. 3 /\ i + 3 >= 1
        BY <3>3
      <4> QED BY <2>2, <2>4, <3>3, <4>1 DEF Start, Starts
    <3> QED BY <1>1, <3>2, <3>3
  <2>7. \A i \in Starts : i < 3 - 1 => i + 4 <= 3
    <3> SUFFICES ASSUME NEW i \in Starts, i < 2 PROVE i = -1
      OBVIOUS
    <3>1. i \in -1 .. 1 /\ i # 0 /\ i # 1
      BY <1>1, <2>5 DEF Starts, Start
    <3> QED BY <3>1
  <2>8. 3 < Len(toSrv) /\ toSrv[3 + 1].k = "X" => spc' = "scan" /\ nx' = 1
    <3> SUFFICES ASSUME 3 < Len(toSrv), toSrv[4].k = "X" PROVE FALSE
      OBVIOUS
    <3>1. 4 \in 1 .. Len(toSrv) /\ 4 # 1 /\ 4 - 1 = 3 /\ 3 \in 2 .. 3
      BY <1>1
    <3>2. InFrame(4)
      BY <2>1, <3>1 DEF Framed
    <3> QED BY <2>4, <3>1, <3>2 DEF InFrame
  <2>9. 3 \in 1 .. 3 /\ toSrv' = Rest(toSrv, 3) /\ 3 <= Len(toSrv)
    BY <1>1, <2>1, <2>2
  <2>10. /\ Len(toSrv') = Len(toSrv) - 3
         /\ \A i \in -1 .. Len(toSrv) - 3 : i \in Starts' <=> i + 3 \in Starts
         /\ Starts' \subseteq -1 .. Len(toSrv) - 3
         /\ Framed'
    BY <2>1, <2>6, <2>7, <2>8, <2>9, Consumed
  <2>11. up => Whole'
    BY <1>1, <2>1, <2>9, <2>10, WholeConsumed
  <2>12. Shift(3)
    BY <2>10 DEF Shift
  <2>13. cmd_hdr'.op = OpAt(-1)
    <3> DEFINE words == Taken(toSrv, 3)
    <3>1. cmd_hdr' = Decoded(words)
      BY <1>5, <2>1, <2>2 DEF ReadPayload
    <3>2. Len(words) = 3 /\ words[3] = toSrv[3]
      <4>1. 3 \in Nat /\ 3 <= Len(toSrv) /\ 3 \in 1 .. 3
        BY <2>2
      <4> QED BY <1>1, <4>1, ReadN
    <3> HIDE DEF words
    <3> QED BY <3>1, <3>2 DEF Decoded, OpAt
  <2>14. LineInv'
    BY <1>1, <1>2, <1>5, <2>1, <2>2, <2>10, <2>11 DEF LineInv, Scanner
  <2> QED BY <2>1, <2>2, <2>12, <2>13, <2>14
<1> QED BY <1>4, <1>5

LEMMA InitLine == Init => LineInv
<1> SUFFICES ASSUME Init PROVE LineInv
  OBVIOUS
<1>1. Starts = {}
  BY DEF Init, Starts, Start
<1>2. Framed /\ Whole
  BY <1>1 DEF Init, Framed, Whole
<1> QED BY <1>2 DEF Init, LineInv, Scanner

LEMMA NextLine == TypeInv /\ TypeInv' /\ HostLock /\ LineInv /\ [Next]_vars => LineInv'
<1> SUFFICES ASSUME TypeInv, TypeInv', HostLock, LineInv, [Next]_vars PROVE LineInv'
  OBVIOUS
<1>1. CASE Register \/ quit \/ UNCHANGED vars
  <2>1. UNCHANGED <<toSrv, spc, nx, magic, short, up, pkt_hdr, cpc>>
    BY <1>1 DEF Register, quit, vars, host, wire, server, scanner, locals
  <2> QED BY <2>1, LineSame
<1>2. CASE Drop
  <2>1. up /\ ~up' /\ UNCHANGED <<spc, nx, magic, short, pkt_hdr>>
    BY <1>2 DEF Drop, server, scanner, locals
  <2>2. PICK k \in 0 .. Len(toSrv) : toSrv' = SubSeq(toSrv, 1, k)
    BY <1>2 DEF Drop
  <2>3. Framed => Framed'
    BY <2>1, <2>2, FramedPrefix
  <2> QED BY <2>1, <2>3 DEF LineInv, Scanner
<1>3. CASE Noise
  <2>1. up /\ UNCHANGED <<spc, nx, magic, short, up, pkt_hdr, cpc>>
    BY <1>3 DEF Noise, host, server, scanner, locals
  <2>2. PICK b \in {"C", "n"} : toSrv' = Append(toSrv, Byte(b))
    BY <1>3 DEF Noise
  <2>3. \A c \in Clients : cpc[c] # "payload"
    BY <1>3, ClientsAssumption DEF Noise, HostLock, Sending
  <2>4. Framed /\ Whole => Framed' /\ Whole'
    BY <2>1, <2>2, <2>3, ByteAdded
  <2> QED BY <2>1, <2>4 DEF LineInv, Scanner
<1>4. CASE Top
  <2>1. /\ spc = "top" /\ spc' \in {"scan", "done"}
        /\ UNCHANGED <<toSrv, nx, magic, short, up, pkt_hdr, cpc>>
    BY <1>4 DEF Top, Step, host, wire, scanner, locals
  <2>2. Starts' = Starts
    BY <2>1, StartsSame
  <2>3. (Framed => Framed') /\ (Whole => Whole')
    BY <2>1, <2>2, FramedSame, WholeSame
  <2> QED BY <2>1, <2>3 DEF LineInv, Scanner
<1>5. CASE ScanFails
  BY <1>5 DEF ScanFails, Step, LineInv, Scanner, host, wire, scanner, locals
<1>6. CASE Dispatch \/ WritePktHdr \/ WriteRspHdr \/ WriteBody
  <2>1. /\ spc \in {"dispatch", "pkt", "rsp", "body"} /\ spc' \in {"pkt", "rsp", "body", "top"}
        /\ UNCHANGED <<toSrv, nx, magic, short, up, cpc>>
    BY <1>6 DEF Dispatch, WritePktHdr, WriteRspHdr, WriteBody, Step, host, wire, scanner
  <2>2. Starts' = Starts
    BY <2>1, StartsSame
  <2>3. (Framed => Framed') /\ (Whole => Whole')
    BY <2>1, <2>2, FramedSame, WholeSame
  <2> QED BY <2>1, <2>3 DEF LineInv, Scanner
<1> QED BY <1>1, <1>2, <1>3, <1>4, <1>5, <1>6, HostLine, ScanLine, ReadHdrLine, ReadPayloadLine
        DEF Next, Run

-----------------------------------------------------------------------------
(* The operations on their way: AtMostOnce.                                 *)

\* The packets in the queue after run() has read n units.
LEMMA QueuedShift ==
  ASSUME TypeInv, spc # "done", NEW n \in 0 .. 3, toSrv' = Rest(toSrv, n), Shift(n), ~short'
  PROVE  \A i \in Queued' : i + n \in Queued /\ OpAt(i)' = OpAt(i + n)
<1>1. toSrv \in Seq(SrvUnits) /\ Len(toSrv) \in Nat /\ n \in Nat
  BY DEF TypeInv
<1>2. /\ Len(toSrv') = IF n <= Len(toSrv) THEN Len(toSrv) - n ELSE 0
      /\ \A i \in 1 .. Len(toSrv') : toSrv'[i] = toSrv[i + n]
  <2>1. /\ Len(Rest(toSrv, n)) = IF n <= Len(toSrv) THEN Len(toSrv) - n ELSE 0
        /\ \A i \in 1 .. Len(Rest(toSrv, n)) : Rest(toSrv, n)[i] = toSrv[i + n]
    BY <1>1, ReadN
  <2> QED BY <2>1
<1> SUFFICES ASSUME NEW i \in Queued' PROVE i + n \in Queued /\ OpAt(i)' = OpAt(i + n)
  OBVIOUS
<1>3. i \in Starts' /\ spc' # "done" /\ i + 4 <= Len(toSrv') /\ i \in Int /\ i >= -1
  BY DEF Queued, Starts
<1>4. Len(toSrv') >= 3 /\ n <= Len(toSrv)
  BY <1>1, <1>2, <1>3
<1>5. i + n \in Starts
  <2>1. toSrv' # << >>
    BY <1>4
  <2> QED BY <1>3, <2>1 DEF Shift
<1>6. i + 4 \in 1 .. Len(toSrv') /\ (i + n) + 4 <= Len(toSrv) /\ (i + 4) + n = (i + n) + 4
  BY <1>1, <1>2, <1>3, <1>4
<1> QED BY <1>2, <1>5, <1>6 DEF Queued, OpAt

\* What cannot come again never will.
Grows == ~short' => ~short /\ Settled \subseteq Settled'

\* A step that brings no operation any further.
LEMMA OpsKept ==
  ASSUME OpsInv, UNCHANGED <<executed, calls>>,
         \A c \in Unsent' : c \in Unsent /\ cmd'[c] = cmd[c],
         ~short' =>
           /\ ~short
           /\ \E n \in Int : \A i \in Queued' : i + n \in Queued /\ OpAt(i)' = OpAt(i + n)
           /\ spc' = "dispatch" => spc = "dispatch" /\ cmd_hdr' = cmd_hdr
           /\ spc' \in {"pkt", "rsp", "body"} =>
                spc \in {"pkt", "rsp", "body"} /\ cmd_hdr' = cmd_hdr
  PROVE  OpsInv' /\ Grows
<1>1. /\ \A c \in Unsent' : cmd'[c].op \in 1 .. calls
      /\ \A c, d \in Unsent' : c # d => cmd'[c].op # cmd'[d].op
  BY DEF OpsInv
<1>2. CASE short'
  BY <1>1, <1>2 DEF OpsInv, Grows
<1>3. CASE ~short'
  <2>1. PICK n \in Int : \A i \in Queued' : i + n \in Queued /\ OpAt(i)' = OpAt(i + n)
    BY <1>3
  <2>2. \A i \in Queued' : i \in Int
    BY DEF Queued, Starts
  <2>3. \A i \in Queued' : OpAt(i)' \in 1 .. calls
    BY <1>3, <2>1 DEF OpsInv
  <2>4. \A i, j \in Queued' : i # j => OpAt(i)' # OpAt(j)'
    <3> TAKE i, j \in Queued'
    <3> HAVE i # j
    <3>1. i + n # j + n
      BY <2>2
    <3> QED BY <1>3, <2>1, <3>1 DEF OpsInv
  <2>5. \A i \in Queued', c \in Unsent' : cmd'[c].op # OpAt(i)'
    BY <1>3, <2>1 DEF OpsInv
  <2>6. ASSUME NEW op \in Settled PROVE op \in Settled'
    BY <1>3, <2>1, <2>6 DEF Settled
  <2>7. Ops' = Ops
    BY DEF Ops
  <2>8. spc' = "dispatch" =>
          /\ cmd_hdr'.op \in 1 .. calls
          /\ cmd_hdr'.op \notin Ops'
          /\ \A c \in Unsent' : cmd'[c].op # cmd_hdr'.op
          /\ \A i \in Queued' : OpAt(i)' # cmd_hdr'.op
    BY <1>3, <2>1, <2>7 DEF OpsInv
  <2>9. /\ \A i \in DOMAIN executed : executed[i][2] \in Settled
        /\ IsInjective([i \in DOMAIN executed |-> executed[i][2]])
        /\ spc \in {"pkt", "rsp", "body"} => cmd_hdr.op \in Settled
    BY <1>3 DEF OpsInv
  <2>10. \A i \in DOMAIN executed : executed[i][2] \in Settled'
    BY <2>6, <2>9
  <2>11. spc' \in {"pkt", "rsp", "body"} => cmd_hdr'.op \in Settled'
    <3> HAVE spc' \in {"pkt", "rsp", "body"}
    <3>1. cmd_hdr' = cmd_hdr /\ cmd_hdr.op \in Settled
      BY <1>3, <2>9
    <3> QED BY <2>6, <3>1
  <2>12. Grows
    BY <1>3, <2>6 DEF Grows
  <2> QED BY <1>1, <1>3, <2>3, <2>4, <2>5, <2>8, <2>9, <2>10, <2>11, <2>12 DEF OpsInv
<1> QED BY <1>2, <1>3

\* The line and run() as they were.
LEMMA OpsSame ==
  ASSUME OpsInv, UNCHANGED <<executed, calls, toSrv, spc, short, cmd_hdr>>,
         \A c \in Unsent' : c \in Unsent /\ cmd'[c] = cmd[c]
  PROVE  OpsInv' /\ Grows
<1>1. Starts' = Starts /\ \A i : OpAt(i)' = OpAt(i)
  BY StartsSame
<1>2. Queued' = Queued
  BY <1>1 DEF Queued
<1>3. \A i \in Queued : i + 0 = i
  BY DEF Queued, Starts
<1>4. \E n \in Int : \A i \in Queued' : i + n \in Queued /\ OpAt(i)' = OpAt(i + n)
  <2> WITNESS 0 \in Int
  <2> QED BY <1>1, <1>2, <1>3
<1> QED BY <1>4, OpsKept

LEMMA FetchIdOps ==
  ASSUME TypeInv, OpsInv, NEW c \in Clients, FetchId(c)
  PROVE  OpsInv' /\ Grows
<1>1. PICK key : cmd' = [cmd EXCEPT ![c] = [id |-> msg_id_, key |-> key, op |-> calls + 1]]
  BY DEF FetchId
<1>2. /\ calls' = calls + 1 /\ calls \in Nat /\ cpc' = [cpc EXCEPT ![c] = "id"] /\ cpc[c] = "idle"
      /\ UNCHANGED <<executed, toSrv, spc, short, cmd_hdr>>
  BY DEF FetchId, At, TypeInv, wire, server, locals
<1>3. Unsent' = Unsent \cup {c} /\ c \notin Unsent
  BY <1>2 DEF Unsent, TypeInv
<1>4. cmd'[c].op = calls + 1 /\ \A d \in Unsent : cmd'[d] = cmd[d]
  BY <1>1, <1>3 DEF TypeInv, Unsent
<1>5. Starts' = Starts /\ \A i : OpAt(i)' = OpAt(i)
  BY <1>2, StartsSame
<1>6. Queued' = Queued
  BY <1>2, <1>5 DEF Queued
<1>7. \A op \in 1 .. calls : op \in 1 .. calls' /\ op # calls + 1
  BY <1>2
<1>8. /\ \A d \in Unsent' : cmd'[d].op \in 1 .. calls'
      /\ \A d, e \in Unsent' : d # e => cmd'[d].op # cmd'[e].op
  <2>1. \A d \in Unsent : cmd[d].op \in 1 .. calls
    BY DEF OpsInv
  <2>2. calls + 1 \in 1 .. calls'
    BY <1>2
  <2> QED BY <1>3, <1>4, <1>7, <2>1, <2>2 DEF OpsInv
<1>9. ASSUME NEW op \in Settled PROVE op \in Settled'
  BY <1>2, <1>3, <1>4, <1>5, <1>6, <1>7, <1>9 DEF Settled
<1>10. CASE short
  BY <1>2, <1>8, <1>10 DEF OpsInv, Grows
<1>11. CASE ~short
  <2>1. \A i \in Queued : OpAt(i) \in 1 .. calls
    BY <1>11 DEF OpsInv
  <2>2. spc = "dispatch" => cmd_hdr.op \in 1 .. calls
    BY <1>11 DEF OpsInv
  <2>3. /\ \A i \in DOMAIN executed : executed[i][2] \in Settled'
        /\ spc \in {"pkt", "rsp", "body"} => cmd_hdr.op \in Settled'
    BY <1>9, <1>11 DEF OpsInv
  <2>4. spc' \in {"pkt", "rsp", "body"} => cmd_hdr'.op \in Settled'
    BY <1>2, <2>3
  <2>5. Ops' = Ops
    BY <1>2 DEF Ops
  <2>6. \A i \in Queued', d \in Unsent' : cmd'[d].op # OpAt(i)'
    BY <1>3, <1>4, <1>5, <1>6, <1>7, <1>11, <2>1 DEF OpsInv
  <2>7. spc' = "dispatch" =>
          /\ cmd_hdr'.op \in 1 .. calls'
          /\ cmd_hdr'.op \notin Ops'
          /\ \A d \in Unsent' : cmd'[d].op # cmd_hdr'.op
          /\ \A i \in Queued' : OpAt(i)' # cmd_hdr'.op
    BY <1>2, <1>3, <1>4, <1>5, <1>6, <1>7, <1>11, <2>2, <2>5 DEF OpsInv
  <2>8. /\ \A i \in Queued' : OpAt(i)' \in 1 .. calls'
        /\ \A i, j \in Queued' : i # j => OpAt(i)' # OpAt(j)'
    BY <1>5, <1>6, <1>7, <1>11, <2>1 DEF OpsInv
  <2>9. Grows
    BY <1>9, <1>11 DEF Grows
  <2> QED BY <1>2, <1>8, <1>11, <2>3, <2>4, <2>6, <2>7, <2>8, <2>9 DEF OpsInv
<1> QED BY <1>10, <1>11

\* The words of a packet bring the operation to the queue.
LEMMA SendPayloadOps ==
  ASSUME TypeInv, TypeInv', HostLock, LineInv, OpsInv, NEW c \in Clients, SendPayload(c), up
  PROVE  OpsInv' /\ Grows
<1>1. /\ cpc' = [cpc EXCEPT ![c] = "rsp"] /\ cpc[c] = "payload"
      /\ toSrv' = Put(toSrv, <<Word(cmd[c].id), Word(cmd[c].key), Word(cmd[c].op)>>)
      /\ UNCHANGED <<spc, nx, short, up, executed, calls, cmd, cmd_hdr>>
  BY DEF SendPayload, SendWrite, At, server, scanner, locals
<1>2. Unsent' = Unsent \ {c} /\ c \in Unsent
  BY <1>1 DEF Unsent, TypeInv
<1>3. ~short
  BY DEF LineInv
<1>4. CASE spc = "done"
  <2>1. Queued' = {} /\ Queued = {}
    BY <1>1, <1>4 DEF Queued
  <2>2. 0 \in Int /\ \A i \in Queued' : i + 0 \in Queued /\ OpAt(i)' = OpAt(i + 0)
    BY <2>1
  <2>3. \A d \in Unsent' : d \in Unsent /\ cmd'[d] = cmd[d]
    BY <1>1, <1>2
  <2> QED BY <1>1, <1>3, <2>2, <2>3, OpsKept
<1>5. CASE spc # "done"
  <2>1. \A d \in Clients : cpc'[d] # "payload"
    BY <1>1 DEF HostLock, Sending, TypeInv
  <2>2. /\ Len(toSrv') = Len(toSrv) + 3 /\ \A i \in 1 .. Len(toSrv) : toSrv'[i] = toSrv[i]
        /\ toSrv'[Len(toSrv) + 3] = Word(cmd[c].op)
        /\ Starts' = Starts /\ Len(toSrv) \in Nat
    <3>1. Framed /\ Whole
      BY <1>3, <1>5 DEF LineInv
    <3>2. Len(toSrv) \in Nat
      BY DEF TypeInv
    <3> QED BY <1>1, <2>1, <3>1, <3>2, WordsAdded
  <2>3. /\ Starts \subseteq -1 .. Len(toSrv) /\ Len(toSrv) - 1 \in Starts
        /\ \A i \in Starts : i + 4 <= Len(toSrv) \/ i = Len(toSrv) - 1
    BY <1>1, <1>3, <1>5, <2>2 DEF LineInv, Whole, Starts
  <2>0. PICK last : last = Len(toSrv) - 1
    OBVIOUS
  <2>4. Queued' = Queued \cup {last} /\ last \notin Queued
    <3>1. \A i \in Starts : i \in Int /\ i + 4 <= Len(toSrv')
      BY <2>2, <2>3
    <3>2. \A i \in Starts : i + 4 <= Len(toSrv) <=> i # last
      BY <2>0, <2>2, <2>3
    <3>3. Queued' = Starts /\ Queued = {i \in Starts : i # last} /\ last \in Starts
      BY <1>1, <1>5, <2>0, <2>2, <2>3, <3>1, <3>2 DEF Queued
    <3> QED BY <3>3
  <2>5. OpAt(last)' = cmd[c].op /\ \A i \in Queued : OpAt(i)' = OpAt(i)
    <3>1. last + 4 = Len(toSrv) + 3
      BY <2>0, <2>2
    <3>2. OpAt(last)' = cmd[c].op
      BY <2>2, <3>1 DEF OpAt, Word
    <3>3. \A i \in Queued : i + 4 \in 1 .. Len(toSrv)
      BY <2>2, <2>3 DEF Queued
    <3> QED BY <2>2, <3>2, <3>3 DEF OpAt
  <2>6. /\ \A d \in Unsent' : cmd[d].op \in 1 .. calls
        /\ \A d, e \in Unsent' : d # e => cmd[d].op # cmd[e].op
        /\ cmd[c].op \in 1 .. calls /\ \A d \in Unsent' : cmd[d].op # cmd[c].op
    BY <1>2 DEF OpsInv
  <2>7. /\ \A i \in Queued' : OpAt(i)' \in 1 .. calls
        /\ \A i, j \in Queued' : i # j => OpAt(i)' # OpAt(j)'
        /\ \A i \in Queued', d \in Unsent' : cmd[d].op # OpAt(i)'
    BY <1>2, <1>3, <2>4, <2>5, <2>6 DEF OpsInv
  <2>8. ASSUME NEW op \in Settled PROVE op \in Settled'
    BY <1>1, <1>2, <2>4, <2>5, <2>8 DEF Settled
  <2>9. /\ \A i \in DOMAIN executed : executed[i][2] \in Settled'
        /\ spc \in {"pkt", "rsp", "body"} => cmd_hdr.op \in Settled'
    BY <1>3, <2>8 DEF OpsInv
  <2>10. spc' \in {"pkt", "rsp", "body"} => cmd_hdr'.op \in Settled'
    BY <1>1, <2>9
  <2>11. Ops' = Ops
    BY <1>1 DEF Ops
  <2>12. spc' = "dispatch" =>
          /\ cmd_hdr'.op \in 1 .. calls'
          /\ cmd_hdr'.op \notin Ops'
          /\ \A d \in Unsent' : cmd'[d].op # cmd_hdr'.op
          /\ \A i \in Queued' : OpAt(i)' # cmd_hdr'.op
    BY <1>1, <1>2, <1>3, <2>4, <2>5, <2>11 DEF OpsInv
  <2>13. Grows
    BY <1>3, <2>8 DEF Grows
  <2> QED BY <1>1, <1>3, <2>6, <2>7, <2>9, <2>10, <2>12, <2>13 DEF OpsInv
<1> QED BY <1>4, <1>5

LEMMA HostOps ==
  ASSUME TypeInv, TypeInv', HostLock, LineInv, OpsInv, NEW c \in Clients, Host(c)
  PROVE  OpsInv' /\ Grows
<1>1. UNCHANGED <<executed, calls, spc, short, cmd_hdr>> \/ FetchId(c)
  BY DEF Host, StoreId, SendLock, SendHdr, SendPayload, SendWrite, RecvPktHdr, RecvRspHdr,
     RecvBody, RecvFails, server, locals
<1>2. ASSUME NEW from, NEW to, At(c, from, to), to \notin {"id", "ready", "hdr", "payload"}
      PROVE  Unsent' \subseteq Unsent \ {c}
  BY <1>2 DEF At, Unsent, TypeInv
<1>3. ASSUME NEW from \in {"id", "ready", "hdr"}, NEW to, At(c, from, to)
      PROVE  Unsent' \subseteq Unsent
  BY <1>3 DEF At, Unsent, TypeInv
<1>4. ASSUME NEW reply, NEW rid, NEW body, Return(c, reply, rid, body)
      PROVE  \A d \in Clients \ {c} : cmd'[d] = cmd[d]
  BY <1>4 DEF Return, TypeInv
<1>5. Unsent \subseteq Clients
  BY DEF Unsent
<1>6. CASE FetchId(c)
  BY <1>6, FetchIdOps
<1>7. CASE StoreId(c) \/ SendLock(c)
  <2>1. Unsent' \subseteq Unsent
    BY <1>3, <1>7 DEF StoreId, SendLock
  <2>2. UNCHANGED <<cmd, toSrv, executed, calls, spc, short, cmd_hdr>>
    BY <1>7 DEF StoreId, SendLock, wire, server, locals
  <2> QED BY <2>1, <2>2, OpsSame
<1>8. CASE SendHdr(c) /\ up
  <2>1. /\ cpc' = [cpc EXCEPT ![c] = "payload"] /\ cpc[c] = "hdr" /\ cmd' = cmd
        /\ toSrv' = Put(toSrv, <<Byte("C"), Byte("X"), Hdr("CMD", 3)>>)
        /\ UNCHANGED <<spc, nx, short, up, executed, calls, cmd_hdr>>
    BY <1>8 DEF SendHdr, SendWrite, At, server, scanner, locals
  <2>2. Unsent' \subseteq Unsent
    BY <1>3, <1>8, <2>1 DEF At
  <2>3. ~short
    BY <1>8 DEF LineInv
  <2>4. \A i \in Queued' : i + 0 \in Queued /\ OpAt(i)' = OpAt(i + 0)
    <3>1. CASE spc = "done"
      BY <2>1, <3>1 DEF Queued
    <3>2. CASE spc # "done"
      <4>1. Framed /\ Whole
        BY <1>8, <2>3, <3>2 DEF LineInv
      <4>2. \A d \in Clients : cpc[d] # "payload"
        BY <2>1 DEF HostLock, Sending
      <4>3. /\ Len(toSrv') = Len(toSrv) + 3 /\ \A i \in 1 .. Len(toSrv) : toSrv'[i] = toSrv[i]
            /\ Starts' = Starts \cup {Len(toSrv) + 2}
        BY <1>8, <2>1, <4>1, <4>2, HdrAdded
      <4>4. Len(toSrv) \in Nat
        BY DEF TypeInv
      <4>5. \A i \in Starts : i + 4 <= Len(toSrv) /\ i \in -1 .. Len(toSrv)
        BY <4>1, <4>2, <4>4 DEF Whole, Starts
      <4> SUFFICES ASSUME NEW i \in Queued' PROVE i + 0 \in Queued /\ OpAt(i)' = OpAt(i + 0)
        OBVIOUS
      <4>6. i \in Starts /\ i + 0 = i
        BY <4>3, <4>4, <4>5 DEF Queued
      <4>7. i + 4 \in 1 .. Len(toSrv)
        BY <4>4, <4>5, <4>6
      <4> QED BY <3>2, <4>3, <4>5, <4>6, <4>7 DEF Queued, OpAt
    <3> QED BY <3>1, <3>2
  <2>5. 0 \in Int
    OBVIOUS
  <2>6. \A d \in Unsent' : d \in Unsent /\ cmd'[d] = cmd[d]
    BY <2>1, <2>2
  <2> QED BY <2>1, <2>3, <2>4, <2>5, <2>6, OpsKept
<1>9. CASE (SendHdr(c) \/ SendPayload(c)) /\ ~up
  <2>1. toSrv' = toSrv /\ UNCHANGED <<executed, calls, spc, short, cmd_hdr>>
    BY <1>9 DEF SendHdr, SendPayload, SendWrite, Put, server, locals
  <2>2. Unsent' \subseteq Unsent \ {c}
    BY <1>2, <1>9 DEF SendHdr, SendPayload, SendWrite
  <2>3. \A d \in Clients \ {c} : cmd'[d] = cmd[d]
    BY <1>4, <1>9 DEF SendHdr, SendPayload, SendWrite
  <2> QED BY <1>5, <2>1, <2>2, <2>3, OpsSame
<1>10. CASE SendPayload(c) /\ up
  BY <1>10, SendPayloadOps
<1>11. CASE RecvPktHdr(c) \/ RecvRspHdr(c) \/ RecvBody(c) \/ RecvFails(c)
  <2>1. Unsent' \subseteq Unsent \ {c}
    BY <1>2, <1>11 DEF RecvPktHdr, RecvRspHdr, RecvBody, RecvFails
  <2>2. \A d \in Clients \ {c} : cmd'[d] = cmd[d]
    BY <1>4, <1>11 DEF RecvPktHdr, RecvRspHdr, RecvBody, RecvFails
  <2>3. toSrv' = toSrv /\ UNCHANGED <<executed, calls, spc, short, cmd_hdr>>
    BY <1>11 DEF RecvPktHdr, RecvRspHdr, RecvBody, RecvFails, wire, server, locals
  <2> QED BY <1>5, <2>1, <2>2, <2>3, OpsSame
<1> QED BY <1>6, <1>7, <1>8, <1>9, <1>10, <1>11 DEF Host

\* The operation leaves the queue.
LEMMA ReadPayloadOps ==
  ASSUME TypeInv, LineInv, OpsInv, ReadPayload, ~short'
  PROVE  OpsInv' /\ Grows
<1>1. /\ ~short /\ Len(toSrv) >= 3 /\ spc' = "dispatch" /\ cmd_hdr'.op = OpAt(-1)
      /\ Shift(3) /\ toSrv' = Rest(toSrv, 3)
  BY ReadPayloadLine DEF ReadPayload
<1>2. /\ spc = "payload" /\ UNCHANGED <<executed, calls, cmd, cpc>>
  BY DEF ReadPayload, host
<1>3. -1 \in Queued
  <2>1. Len(toSrv) \in Nat
    BY DEF TypeInv
  <2> QED BY <1>1, <1>2, <2>1 DEF Queued, Starts, Start
<1>4. \A i \in Queued' : i + 3 \in Queued /\ OpAt(i)' = OpAt(i + 3) /\ i + 3 # -1 /\ i \in Int
  <2>1. \A i \in Queued' : i \in Int /\ i >= -1
    BY DEF Queued, Starts
  <2>2. 3 \in 0 .. 3
    OBVIOUS
  <2>3. \A i \in Queued' : i + 3 \in Queued /\ OpAt(i)' = OpAt(i + 3)
    BY <1>1, <1>2, <2>2, QueuedShift
  <2> QED BY <2>1, <2>3
<1>5. Unsent' = Unsent
  BY <1>2 DEF Unsent
<1>6. /\ \A c \in Unsent : cmd[c].op \in 1 .. calls
      /\ \A c, d \in Unsent : c # d => cmd[c].op # cmd[d].op
      /\ \A i \in Queued : OpAt(i) \in 1 .. calls
      /\ \A i, j \in Queued : i # j => OpAt(i) # OpAt(j)
      /\ \A i \in Queued, c \in Unsent : cmd[c].op # OpAt(i)
      /\ \A i \in DOMAIN executed : executed[i][2] \in Settled
      /\ IsInjective([i \in DOMAIN executed |-> executed[i][2]])
  BY <1>1 DEF OpsInv
<1>7. /\ \A i \in Queued' : OpAt(i)' \in 1 .. calls
      /\ \A i \in Queued', c \in Unsent : cmd[c].op # OpAt(i)'
  BY <1>4, <1>6
<1>8. \A i, j \in Queued' : i # j => OpAt(i)' # OpAt(j)'
  <2> TAKE i, j \in Queued'
  <2> HAVE i # j
  <2>1. i + 3 # j + 3
    BY <1>4
  <2> QED BY <1>4, <1>6, <2>1
<1>9. ASSUME NEW op \in Settled PROVE op \in Settled'
  <2>1. op # OpAt(-1)
    BY <1>3 DEF Settled
  <2> QED BY <1>1, <1>2, <1>4, <1>5, <2>1 DEF Settled
<1>10. /\ cmd_hdr'.op \in 1 .. calls
       /\ \A c \in Unsent : cmd[c].op # cmd_hdr'.op
       /\ \A i \in Queued' : OpAt(i)' # cmd_hdr'.op
  BY <1>1, <1>3, <1>4, <1>6
<1>11. cmd_hdr'.op \notin Ops'
  <2>1. \A op \in Ops : op \in Settled
    BY <1>6 DEF Ops
  <2>2. \A op \in Settled : op # OpAt(-1)
    BY <1>3 DEF Settled
  <2> QED BY <1>1, <1>2, <2>1, <2>2 DEF Ops
<1>12. Grows
  BY <1>1, <1>9 DEF Grows
<1> QED BY <1>1, <1>2, <1>5, <1>6, <1>7, <1>8, <1>9, <1>10, <1>11, <1>12 DEF OpsInv

\* It is executed, or refused.
LEMMA Executed ==
  ASSUME TypeInv, Dispatch
  PROVE  \/ /\ ret' = "ok" /\ Ops' = Ops \cup {cmd_hdr.op}
            /\ Len(executed') = Len(executed) + 1
            /\ \A i \in 1 .. Len(executed) : executed'[i] = executed[i]
            /\ executed'[Len(executed) + 1][2] = cmd_hdr.op
         \/ ret' # "ok" /\ executed' = executed /\ Ops' = Ops
<1>1. executed \in Seq((Objs \cup {Null, Junk}) \X Contents) /\ Len(executed) \in Nat
  BY DEF TypeInv
<1>2. PICK obj : executed' = IF ret' = "ok" THEN Append(executed, <<obj, cmd_hdr.op>>) ELSE executed
  <2>1. PICK key : LET obj == get_obj(obj_map_, key)
                   IN  executed' = IF ret' = "ok" THEN Append(executed, <<obj, cmd_hdr.op>>)
                                                  ELSE executed
    BY DEF Dispatch
  <2>2. PICK obj : obj = get_obj(obj_map_, key)
    OBVIOUS
  <2> QED BY <2>1, <2>2
<1>3. CASE ret' # "ok"
  BY <1>2, <1>3 DEF Ops
<1>4. CASE ret' = "ok"
  <2>1. executed' = Append(executed, <<obj, cmd_hdr.op>>)
    BY <1>2, <1>4
  <2>2. /\ Len(executed') = Len(executed) + 1
        /\ \A i \in 1 .. Len(executed) : executed'[i] = executed[i]
        /\ executed'[Len(executed) + 1] = <<obj, cmd_hdr.op>>
    BY <1>1, <2>1
  <2>3. DOMAIN executed = 1 .. Len(executed) /\ DOMAIN executed' = 1 .. Len(executed) + 1
    BY <1>1, <2>1
  <2>4. Ops' = Ops \cup {cmd_hdr.op}
    BY <1>1, <2>2, <2>3, SMTT(30) DEF Ops
  <2> QED BY <1>4, <2>2, <2>4
<1> QED BY <1>3, <1>4

LEMMA DispatchOps ==
  ASSUME TypeInv, LineInv, OpsInv, Dispatch
  PROVE  OpsInv' /\ Grows
<1>1. /\ spc = "dispatch" /\ spc' = "pkt"
      /\ UNCHANGED <<calls, cmd, cpc, toSrv, short, cmd_hdr>>
  BY DEF Dispatch, Step, host, wire
<1>2. Starts' = Starts /\ \A i : OpAt(i)' = OpAt(i)
  BY <1>1, StartsSame
<1>3. Queued' = Queued /\ Unsent' = Unsent
  BY <1>1, <1>2 DEF Queued, Unsent
<1>4. CASE short
  BY <1>1, <1>3, <1>4 DEF OpsInv, Grows
<1>5. CASE ~short
  <2>1. /\ \A c \in Unsent : cmd[c].op \in 1 .. calls
        /\ \A c, d \in Unsent : c # d => cmd[c].op # cmd[d].op
        /\ \A i \in Queued : OpAt(i) \in 1 .. calls
        /\ \A i, j \in Queued : i # j => OpAt(i) # OpAt(j)
        /\ \A i \in Queued, c \in Unsent : cmd[c].op # OpAt(i)
        /\ \A i \in DOMAIN executed : executed[i][2] \in Settled
    BY <1>5 DEF OpsInv
  <2>2. /\ cmd_hdr.op \in 1 .. calls
        /\ cmd_hdr.op \notin Ops
        /\ \A c \in Unsent : cmd[c].op # cmd_hdr.op
        /\ \A i \in Queued : OpAt(i) # cmd_hdr.op
    BY <1>1, <1>5 DEF OpsInv
  <2>3. Settled \subseteq Settled' /\ cmd_hdr.op \in Settled'
    BY <1>1, <1>2, <1>3, <2>2 DEF Settled
  <2>4. DOMAIN executed = 1 .. Len(executed) /\ Len(executed) \in Nat
        /\ DOMAIN executed' = 1 .. Len(executed')
    <3>1. executed \in Seq((Objs \cup {Null, Junk}) \X Contents)
      BY DEF TypeInv
    <3>2. executed' = executed \/ \E e : executed' = Append(executed, e)
      BY DEF Dispatch
    <3> QED BY <3>1, <3>2
  <2>5. (\A i \in DOMAIN executed' : executed'[i][2] \in Settled')
        /\ IsInjective([i \in DOMAIN executed' |-> executed'[i][2]])
    <3>1. \A i, j \in DOMAIN executed : executed[i][2] = executed[j][2] => i = j
      BY <1>5 DEF OpsInv, IsInjective
    <3>2. CASE executed' = executed
      BY <2>1, <2>3, <3>1, <3>2 DEF IsInjective
    <3>3. CASE /\ Len(executed') = Len(executed) + 1
               /\ \A i \in 1 .. Len(executed) : executed'[i] = executed[i]
               /\ executed'[Len(executed) + 1][2] = cmd_hdr.op
      <4>1. DOMAIN executed' = DOMAIN executed \cup {Len(executed) + 1}
        BY <2>4, <3>3
      <4>2. \A i \in DOMAIN executed : executed'[i][2] # cmd_hdr.op
        BY <2>2, <2>4, <3>3 DEF Ops
      <4>3. \A i, j \in DOMAIN executed' : executed'[i][2] = executed'[j][2] => i = j
        BY <2>4, <3>1, <3>3, <4>1, <4>2
      <4>4. \A i \in DOMAIN executed' : executed'[i][2] \in Settled'
        BY <2>1, <2>3, <2>4, <3>3, <4>1
      <4> QED BY <4>3, <4>4 DEF IsInjective
    <3> QED BY <3>2, <3>3, Executed
  <2>6. spc' # "dispatch" /\ cmd_hdr'.op \in Settled'
    BY <1>1, <2>3
  <2>7. Grows
    BY <1>5, <2>3 DEF Grows
  <2> QED BY <1>1, <1>2, <1>3, <1>5, <2>1, <2>5, <2>6, <2>7 DEF OpsInv
<1> QED BY <1>4, <1>5

LEMMA InitOps == Init => OpsInv
<1> SUFFICES ASSUME Init PROVE OpsInv
  OBVIOUS
<1>1. Unsent = {} /\ Queued = {} /\ DOMAIN executed = {}
  BY DEF Init, Unsent, Queued, Starts, Start
<1> QED BY <1>1 DEF Init, OpsInv, IsInjective

LEMMA NextOps ==
  TypeInv /\ TypeInv' /\ HostLock /\ LineInv /\ OpsInv /\ [Next]_vars => OpsInv' /\ Grows
<1> SUFFICES ASSUME TypeInv, TypeInv', HostLock, LineInv, OpsInv, [Next]_vars PROVE OpsInv' /\ Grows
  OBVIOUS
<1>0. ASSUME UNCHANGED <<cpc, cmd>>
      PROVE  \A c \in Unsent' : c \in Unsent /\ cmd'[c] = cmd[c]
  BY <1>0 DEF Unsent
<1>1. CASE Register \/ quit \/ UNCHANGED vars
  <2>1. UNCHANGED <<executed, calls, toSrv, spc, short, cmd_hdr, cpc, cmd>>
    BY <1>1 DEF Register, quit, vars, host, wire, server, locals
  <2> QED BY <1>0, <2>1, OpsSame
<1>2. CASE Drop
  <2>1. UNCHANGED <<executed, calls, spc, nx, short, cmd_hdr, cpc, cmd>> /\ up
    BY <1>2 DEF Drop, host, server, scanner, locals
  <2>2. PICK k \in 0 .. Len(toSrv) : toSrv' = SubSeq(toSrv, 1, k)
    BY <1>2 DEF Drop
  <2>3. ~short
    BY <2>1 DEF LineInv
  <2>4. \A i \in Queued' : i + 0 \in Queued /\ OpAt(i)' = OpAt(i + 0)
    <3>1. CASE spc = "done"
      BY <2>1, <3>1 DEF Queued
    <3>2. CASE spc # "done"
      <4>1. Starts' \subseteq Starts /\ Len(toSrv') = k /\ \A i \in 1 .. k : toSrv'[i] = toSrv[i]
        BY <2>1, <2>2, <2>3, <3>2, FramedPrefix DEF LineInv
      <4>2. Len(toSrv) \in Nat
        BY DEF TypeInv
      <4> SUFFICES ASSUME NEW i \in Queued' PROVE i + 0 \in Queued /\ OpAt(i)' = OpAt(i + 0)
        OBVIOUS
      <4>3. i \in Starts /\ i \in Int /\ i >= -1 /\ i + 4 <= k
        BY <4>1 DEF Queued, Starts
      <4>4. i + 4 \in 1 .. k /\ i + 4 <= Len(toSrv) /\ i + 0 = i
        BY <4>2, <4>3
      <4> QED BY <3>2, <4>1, <4>3, <4>4 DEF Queued, OpAt
    <3> QED BY <3>1, <3>2
  <2>5. 0 \in Int
    OBVIOUS
  <2> QED BY <1>0, <2>1, <2>3, <2>4, <2>5, OpsKept
<1>3. CASE Noise
  <2>1. UNCHANGED <<executed, calls, spc, nx, short, cmd_hdr, cpc, cmd>> /\ up
    BY <1>3 DEF Noise, host, server, scanner, locals
  <2>2. PICK b \in {"C", "n"} : toSrv' = Append(toSrv, Byte(b))
    BY <1>3 DEF Noise
  <2>3. ~short
    BY <2>1 DEF LineInv
  <2>4. \A i \in Queued' : i + 0 \in Queued /\ OpAt(i)' = OpAt(i + 0)
    <3>1. CASE spc = "done"
      BY <2>1, <3>1 DEF Queued
    <3>2. CASE spc # "done"
      <4>1. \A c \in Clients : cpc[c] # "payload"
        BY <1>3, ClientsAssumption DEF Noise, HostLock, Sending
      <4>2. Framed /\ Whole
        BY <2>1, <2>3, <3>2 DEF LineInv
      <4>3. Starts' = Starts /\ \A i \in Queued : OpAt(i)' = OpAt(i)
        BY <2>1, <2>2, <4>1, <4>2, ByteAdded
      <4>4. \A i \in Starts : i + 4 <= Len(toSrv) /\ i \in Int
        <5>1. Len(toSrv) \in Nat
          BY DEF TypeInv
        <5> QED BY <4>1, <4>2, <5>1 DEF Whole, Starts
      <4> SUFFICES ASSUME NEW i \in Queued' PROVE i + 0 \in Queued /\ OpAt(i)' = OpAt(i + 0)
        OBVIOUS
      <4>5. i \in Queued /\ i + 0 = i
        BY <3>2, <4>3, <4>4 DEF Queued
      <4> QED BY <4>3, <4>5
    <3> QED BY <3>1, <3>2
  <2>5. 0 \in Int
    OBVIOUS
  <2> QED BY <1>0, <2>1, <2>3, <2>4, <2>5, OpsKept
<1>4. CASE Top \/ ScanFails \/ WritePktHdr \/ WriteRspHdr \/ WriteBody
  <2>1. /\ UNCHANGED <<executed, calls, toSrv, short, cmd_hdr, cpc, cmd>>
        /\ spc \notin {"hdr", "payload"} /\ spc' \notin {"hdr", "payload", "dispatch"}
        /\ spc' \in {"pkt", "rsp", "body"} => spc \in {"pkt", "rsp", "body"}
        /\ spc' # "done" => spc # "done"
    BY <1>4 DEF Top, ScanFails, WritePktHdr, WriteRspHdr, WriteBody, Step, host, wire, locals
  <2>2. Starts' = Starts /\ \A i : OpAt(i)' = OpAt(i)
    BY <2>1, StartsSame
  <2>3. \A i \in Queued' : i + 0 \in Queued /\ OpAt(i)' = OpAt(i + 0)
    <3> SUFFICES ASSUME NEW i \in Queued' PROVE i + 0 \in Queued /\ OpAt(i)' = OpAt(i + 0)
      OBVIOUS
    <3>1. i + 0 = i /\ i \in Queued
      BY <2>1, <2>2 DEF Queued, Starts
    <3> QED BY <2>2, <3>1
  <2>4. 0 \in Int
    OBVIOUS
  <2> QED BY <1>0, <2>1, <2>3, <2>4, OpsKept
<1>5. CASE Scan
  <2>1. /\ UNCHANGED <<executed, calls, cmd_hdr, cpc, cmd>> /\ spc = "scan"
        /\ toSrv' = Rest(toSrv, 2 - nx) /\ ~short /\ ~short' /\ 2 - nx \in 0 .. 3 /\ 2 - nx \in Int
        /\ spc' \in {"scan", "hdr", "done"}
    <3>1. UNCHANGED <<executed, calls, cmd_hdr, cpc, cmd>>
      BY <1>5 DEF Scan, host, locals
    <3>2. spc' \in {"scan", "hdr", "done"}
      BY <1>5 DEF Scan
    <3>3. 2 - nx \in 0 .. 3 /\ 2 - nx \in Int
      BY DEF TypeInv
    <3>4. spc = "scan" /\ toSrv' = Rest(toSrv, 2 - nx) /\ ~short /\ short' = short
      BY <1>5, ScanReads
    <3> QED BY <3>1, <3>2, <3>3, <3>4
  <2>2. \A i \in Queued' : i + (2 - nx) \in Queued /\ OpAt(i)' = OpAt(i + (2 - nx))
    BY <1>5, <2>1, QueuedShift, ScanLine
  <2> QED BY <1>0, <2>1, <2>2, OpsKept
<1>6. CASE ReadHdr
  <2>1. /\ UNCHANGED <<executed, calls, cmd_hdr, cpc, cmd>> /\ spc = "hdr"
        /\ toSrv' = Rest(toSrv, 1) /\ (~short' => ~short) /\ spc' \in {"payload", "done"}
    BY <1>6 DEF ReadHdr, host
  <2>2. 1 \in 0 .. 3 /\ 1 \in Int
    OBVIOUS
  <2>3. ~short' => \A i \in Queued' : i + 1 \in Queued /\ OpAt(i)' = OpAt(i + 1)
    BY <1>6, <2>1, <2>2, QueuedShift, ReadHdrLine
  <2> QED BY <1>0, <2>1, <2>2, <2>3, OpsKept
<1>7. CASE ReadPayload
  <2>1. CASE ~short'
    BY <1>7, <2>1, ReadPayloadOps
  <2>2. CASE short'
    BY <1>0, <1>7, <2>2, OpsKept DEF ReadPayload, host
  <2> QED BY <2>1, <2>2
<1> QED BY <1>1, <1>2, <1>3, <1>4, <1>5, <1>6, <1>7, DispatchOps, HostOps DEF Next, Run

\* The invariant of the request line.
RequestInv == TypeInv /\ RegInv /\ HostLock /\ LineInv /\ OpsInv

THEOREM RequestHolds == Spec => []RequestInv
<1>1. Init => RequestInv
  BY InitType, InitReg, InitLock, InitLine, InitOps DEF RequestInv
<1>2. RequestInv /\ [Next]_vars => RequestInv'
  BY NextType, NextReg, NextLock, NextLine, NextOps DEF RequestInv
<1> QED BY <1>1, <1>2, PTL DEF Spec

\* run() invokes an operation at most once and only one that was sent, for any
\* number of threads, calls and stray bytes, also with a read timeout.
THEOREM InvokedOnce == Spec => []AtMostOnce
<1>1. RequestInv => AtMostOnce
  BY DEF RequestInv, OpsInv, Settled, AtMostOnce
<1> QED BY <1>1, RequestHolds, PTL

-----------------------------------------------------------------------------
(* The response: ReplyOwn.                                                  *)

\* The true outcomes stay true.
LEMMA OutcomesStay ==
  ASSUME RequestInv, RequestInv', [Next]_vars, Grows
  PROVE  Ops \subseteq Ops' /\ Refused \subseteq Refused'
<1>1. Ops' = Ops \/ (Dispatch /\ Ops' = Ops \cup {cmd_hdr.op})
  <2>1. CASE Dispatch
    BY <2>1, Executed DEF RequestInv
  <2>2. CASE executed' = executed
    BY <2>2, SMTT(30) DEF Ops
  <2>3. executed' = executed \/ Dispatch
    BY DEF Next, Run, Host, FetchId, StoreId, SendLock, SendHdr, SendPayload, SendWrite,
       RecvPktHdr, RecvRspHdr, RecvBody, RecvFails, Top, Scan, ScanFails, ReadHdr, ReadPayload,
       WritePktHdr, WriteRspHdr, WriteBody, Register, quit, Drop, Noise, vars, server
  <2> QED BY <2>1, <2>2, <2>3
<1>2. Dispatch => \A op \in Settled : op # cmd_hdr.op
  BY DEF Dispatch, Step, Settled
<1>3. ASSUME NEW op \in Refused PROVE op \in Refused'
  <2>1. ~short' => op \notin Ops' /\ op \in Settled'
    BY <1>1, <1>2 DEF Refused, Grows
  <2> QED BY <2>1 DEF Refused
<1> QED BY <1>1, <1>3

\* Only the thread in send() reads.
LEMMA OneReads ==
  ASSUME TypeInv, HostLock, NEW c \in Clients, cpc[c] \in Sending
  PROVE  hlock = c /\ hlock # Nobody /\ \A d \in Clients : cpc[d] \in Sending => d = c
BY ClientsAssumption DEF HostLock

\* What run() is about to answer.
LEMMA NextRet ==
  ASSUME RequestInv, RequestInv', [Next]_vars, Grows, RetInv
  PROVE  RetInv'
<1>1. Ops \subseteq Ops' /\ Refused \subseteq Refused'
  BY OutcomesStay
<1>2. CASE Dispatch
  <2>1. /\ spc = "dispatch" /\ spc' = "pkt" /\ cmd_hdr' = cmd_hdr /\ short' = short
    BY <1>2 DEF Dispatch, Step
  <2>2. cmd_hdr.op \in Contents
    BY DEF RequestInv, TypeInv, Received
  <2>3. CASE ret' = "ok"
    <3>1. cmd_hdr.op \in Ops'
      BY <1>2, <2>3, Executed DEF RequestInv
    <3> QED BY <2>1, <2>3, <3>1 DEF RetInv, Outcome
  <2>4. CASE ret' # "ok"
    <3>1. Ops' = Ops
      BY <1>2, <2>4, Executed DEF RequestInv
    <3>2. ~short => cmd_hdr.op \notin Ops /\ cmd_hdr'.op \in Settled'
      BY <2>1 DEF RequestInv, OpsInv
    <3>3. cmd_hdr'.op \in Refused'
      BY <2>1, <2>2, <3>1, <3>2 DEF Refused
    <3> QED BY <2>4, <3>3 DEF RetInv, Outcome
  <2> QED BY <2>3, <2>4
<1>3. CASE ~Dispatch
  <2>1. spc' \in {"pkt", "rsp", "body"} =>
          spc \in {"pkt", "rsp", "body"} /\ UNCHANGED <<cmd_hdr, ret>>
    BY <1>3, ZenonT(60) DEF Next, Run, Host, FetchId, StoreId, SendLock, SendHdr, SendPayload, SendWrite,
       RecvPktHdr, RecvRspHdr, RecvBody, RecvFails, Top, Scan, ScanFails, ReadHdr, ReadPayload,
       WritePktHdr, WriteRspHdr, WriteBody, Register, quit, Drop, Noise, vars, server, locals, Step
  <2> QED BY <1>1, <2>1, SMTT(30) DEF RetInv, Outcome
<1> QED BY <1>2, <1>3

\* The thread in send() and run(), when the line stays as it is.
LEMMA PairedSame ==
  ASSUME Paired, UNCHANGED <<toSrv, spc, cmd_hdr, ret, toHost, hlock>>,
         hlock \in Clients => cpc'[hlock] = cpc[hlock] /\ cmd'[hlock] = cmd[hlock],
         hlock \in Clients \cup {Nobody}
  PROVE  Paired'
<1>1. Starts' = Starts /\ \A i : OpAt(i)' = OpAt(i)
  BY StartsSame
<1>2. Answering' <=> Answering
  BY DEF Answering, RspSize
<1> QED BY <1>1, <1>2 DEF Paired, Had

\* Nothing is asked and nothing is answered.
Quiet == (spc # "done" => Starts = {}) /\ spc \notin {"dispatch", "pkt"} /\ ~Answering

LEMMA QuietPaired == Quiet' => Paired'
  BY DEF Quiet, Paired

LEMMA QuietSame ==
  ASSUME Quiet, UNCHANGED <<toSrv, spc, cmd_hdr, ret>>
  PROVE  Quiet'
<1>1. Starts' = Starts
  BY StartsSame
<1>2. Answering' <=> Answering
  BY DEF Answering, RspSize
<1> QED BY <1>1, <1>2 DEF Quiet

LEMMA UnpairedQuiet ==
  ASSUME Paired, hlock = Nobody \/ cpc[hlock] \notin {"payload", "rsp", "rsphdr", "body"}
  PROVE  Quiet
  BY DEF Paired, Quiet

LEMMA PairedHost ==
  ASSUME RequestInv, RequestInv', ~ReadTimeout, Paired, AnswerInv, up, NEW c \in Clients, Host(c)
  PROVE  Paired'
<1> USE DEF RequestInv
<1>1. ~short /\ (spc # "done" => Framed /\ Whole)
  BY DEF LineInv
<1>2. hlock \in Clients \cup {Nobody} /\ cpc \in [Clients -> CallPlaces] /\ cmd \in [Clients -> Command]
  BY DEF TypeInv
<1>3. CASE FetchId(c) \/ StoreId(c)
  <2>1. /\ UNCHANGED <<toSrv, spc, cmd_hdr, ret, toHost, hlock>> /\ cpc[c] \notin Sending
        /\ \A d \in Clients \ {c} : cpc'[d] = cpc[d] /\ cmd'[d] = cmd[d]
    BY <1>2, <1>3 DEF FetchId, StoreId, At, Sending, wire, server, locals
  <2>2. hlock # c
    BY <2>1 DEF HostLock
  <2> QED BY <1>2, <2>1, <2>2, PairedSame
<1>4. CASE SendLock(c)
  <2>1. Quiet /\ UNCHANGED <<toSrv, spc, cmd_hdr, ret>>
    BY <1>4, UnpairedQuiet DEF SendLock, wire, server, locals
  <2> QED BY <2>1, QuietSame, QuietPaired
<1>5. CASE SendHdr(c)
  <2>1. /\ cpc' = [cpc EXCEPT ![c] = "payload"] /\ cpc[c] = "hdr"
        /\ toSrv' = Put(toSrv, <<Byte("C"), Byte("X"), Hdr("CMD", 3)>>)
        /\ UNCHANGED <<spc, nx, toHost, cmd_hdr, ret, hlock>>
    BY <1>5 DEF SendHdr, SendWrite, At, server, scanner, locals
  <2>2. hlock = c /\ hlock # Nobody /\ \A d \in Clients : cpc[d] \in Sending => d = c
    BY <2>1, OneReads DEF Sending
  <2>3. Quiet
    BY <2>1, <2>2, UnpairedQuiet
  <2>4. toHost = << >>
    BY <2>1, <2>2 DEF AnswerInv, Reading, Sending
  <2>5. CASE spc = "done"
    BY <2>1, <2>3, <2>5, QuietPaired DEF Quiet, Answering, RspSize
  <2>6. CASE spc # "done"
    <3>1. \A d \in Clients : cpc[d] # "payload"
      BY <2>1, <2>2 DEF Sending
    <3>2. Len(toSrv') = Len(toSrv) + 3 /\ Starts' = Starts \cup {Len(toSrv) + 2}
      BY <1>1, <2>1, <2>6, <3>1, HdrAdded
    <3>3. \A i \in Starts' : i = Len(toSrv') - 1
      <4>1. Len(toSrv) \in Nat
        BY DEF TypeInv
      <4> QED BY <2>3, <2>6, <3>2, <4>1 DEF Quiet
    <3>4. cpc'[c] = "payload"
      BY <1>2, <2>1
    <3>5. ~ (spc' \in {"dispatch", "pkt"} \/ Answering')
      BY <2>1, <2>3 DEF Quiet, Answering, RspSize
    <3> QED BY <2>1, <2>2, <2>4, <3>3, <3>4, <3>5 DEF Paired
  <2> QED BY <2>5, <2>6
<1>6. CASE SendPayload(c)
  <2>1. /\ cpc' = [cpc EXCEPT ![c] = "rsp"] /\ cpc[c] = "payload"
        /\ toSrv' = Put(toSrv, <<Word(cmd[c].id), Word(cmd[c].key), Word(cmd[c].op)>>)
        /\ UNCHANGED <<spc, nx, toHost, cmd_hdr, ret, hlock, cmd>>
    BY <1>6 DEF SendPayload, SendWrite, At, server, scanner, locals
  <2>2. hlock = c /\ hlock # Nobody /\ \A d \in Clients : cpc[d] \in Sending => d = c
    BY <2>1, OneReads DEF Sending
  <2>3. spc \notin {"dispatch", "pkt"} /\ ~Answering
    BY <2>1, <2>2 DEF Paired
  <2>4. spc' \notin {"dispatch", "pkt"} /\ ~Answering'
    BY <2>1, <2>3 DEF Answering, RspSize
  <2>5. toHost = << >>
    BY <2>1, <2>2 DEF AnswerInv, Reading, Sending
  <2>6. CASE spc = "done"
    BY <2>1, <2>4, <2>6 DEF Paired
  <2>7. CASE spc # "done"
    <3>1. \A d \in Clients : cpc'[d] # "payload"
      BY <1>2, <2>1, <2>2 DEF Sending
    <3>2. /\ Len(toSrv') = Len(toSrv) + 3 /\ toSrv'[Len(toSrv) + 3] = Word(cmd[c].op)
          /\ Starts' = Starts
      BY <1>1, <2>1, <2>7, <3>1, WordsAdded
    <3>3. \A i \in Starts : i = Len(toSrv) - 1
      BY <2>1, <2>2, <2>7 DEF Paired
    <3>4. Len(toSrv) \in Nat
      BY DEF TypeInv
    <3>5. ASSUME NEW i \in Starts' PROVE i + 4 <= Len(toSrv') /\ OpAt(i)' = cmd'[c].op
      <4>1. i + 4 = Len(toSrv) + 3
        BY <3>2, <3>3, <3>4
      <4> QED BY <2>1, <3>2, <3>4, <4>1 DEF OpAt, Word
    <3>6. cpc'[c] = "rsp"
      BY <1>2, <2>1
    <3> QED BY <2>1, <2>2, <2>4, <2>5, <3>5, <3>6 DEF Paired
  <2> QED BY <2>6, <2>7
<1>7. ASSUME cpc[c] \in Reading, toHost # << >>, toHost' = Tail(toHost),
             UNCHANGED <<toSrv, spc, cmd_hdr, ret>>
      PROVE  /\ hlock = c /\ (spc # "done" => Starts = {})
             /\ Len(toHost) \in Nat \ {0} /\ Len(toHost') = Len(toHost) - 1
             /\ (spc # "done" => Starts' = {}) /\ (Answering' <=> Answering)
  <2>1. hlock = c
    BY <1>7, OneReads DEF Reading, Sending
  <2>2. Starts' = Starts
    BY <1>7, StartsSame
  <2>3. Answering' <=> Answering
    BY <1>7 DEF Answering, RspSize
  <2>4. Len(toHost) \in Nat \ {0} /\ Len(toHost') = Len(toHost) - 1
    BY <1>7 DEF TypeInv
  <2> QED BY <1>7, <2>1, <2>2, <2>3, <2>4 DEF Paired
<1>8. CASE RecvPktHdr(c)
  <2>1. /\ cpc' = [cpc EXCEPT ![c] = "rsphdr"] /\ cpc[c] = "rsp" /\ toHost # << >>
        /\ toHost' = Tail(toHost) /\ UNCHANGED <<toSrv, spc, cmd_hdr, ret, hlock, cmd>>
    BY <1>8 DEF RecvPktHdr, At, server, locals
  <2>2. cpc'[c] = "rsphdr" /\ Had(cpc[c]) = 0 /\ Had(cpc'[c]) = 1
    BY <1>2, <2>1 DEF Had
  <2>3. /\ hlock = c /\ Len(toHost) \in Nat \ {0} /\ Len(toHost') = Len(toHost) - 1
        /\ (spc # "done" => Starts = {} /\ Starts' = {}) /\ (Answering' <=> Answering)
    BY <1>7, <2>1 DEF Reading
  <2>4. Had(cpc'[c]) + Len(toHost') = Had(cpc[c]) + Len(toHost)
    BY <2>2, <2>3
  <2> QED BY <2>1, <2>2, <2>3, <2>4 DEF Paired, Answering
<1>9. CASE RecvRspHdr(c)
  <2>1. /\ cpc[c] = "rsphdr" /\ toHost # << >> /\ toHost' = Tail(toHost)
        /\ UNCHANGED <<toSrv, spc, cmd_hdr, ret>>
    BY <1>9 DEF RecvRspHdr, server, locals
  <2>2. /\ hlock = c /\ Len(toHost) \in Nat \ {0} /\ Len(toHost') = Len(toHost) - 1
        /\ (spc # "done" => Starts = {} /\ Starts' = {}) /\ (Answering' <=> Answering)
    BY <1>7, <2>1 DEF Reading
  <2>3. CASE rsp[c].size > 1
    <3>1. cpc' = [cpc EXCEPT ![c] = "body"] /\ UNCHANGED <<hlock, cmd>>
      BY <1>9, <2>3 DEF RecvRspHdr, At
    <3>2. cpc'[c] = "body" /\ Had(cpc[c]) = 1 /\ Had(cpc'[c]) = 2
      BY <1>2, <2>1, <3>1 DEF Had
    <3>3. Had(cpc'[c]) + Len(toHost') = Had(cpc[c]) + Len(toHost)
      BY <2>2, <3>2
    <3> QED BY <2>1, <2>2, <3>1, <3>2, <3>3 DEF Paired, Answering
  <2>4. CASE ~ (rsp[c].size > 1)
    <3>1. PICK reply \in Replies : Response(c, reply)
      BY <2>1 DEF AnswerInv, Reading
    <3>2. Had(cpc[c]) = 1
      BY <2>1 DEF Had
    <3>3. SizeOf(cmd[c].op, reply) # 2
      BY <2>4, <3>1, <3>2 DEF Response
    <3>4. spc \notin {"dispatch", "pkt"} /\ ~Answering
      <4> SUFFICES ASSUME spc \in {"dispatch", "pkt"} \/ Answering PROVE FALSE
        OBVIOUS
      <4>1. /\ cmd_hdr.op = cmd[c].op
            /\ 1 + Len(toHost) = CASE spc = "rsp" -> 1 [] spc = "body" -> 2 [] OTHER -> 0
        BY <2>2, <3>2 DEF Paired
      <4>2. spc = "body" /\ Answering
        BY <2>2, <4>1 DEF Answering
      <4>3. RspSize = 2 /\ ret = reply
        BY <3>1, <4>2 DEF Response, Answering
      <4> QED BY <3>3, <4>1, <4>3 DEF RspSize, SizeOf
    <3> QED BY <2>1, <2>2, <3>4, QuietPaired DEF Quiet
  <2> QED BY <2>3, <2>4
<1>10. CASE RecvBody(c)
  <2>1. /\ cpc[c] = "body" /\ toHost # << >> /\ toHost' = Tail(toHost)
        /\ UNCHANGED <<toSrv, spc, cmd_hdr, ret>>
    BY <1>10 DEF RecvBody, At, server, locals
  <2>2. /\ hlock = c /\ Len(toHost) \in Nat \ {0} /\ Len(toHost') = Len(toHost) - 1
        /\ (spc # "done" => Starts = {} /\ Starts' = {}) /\ (Answering' <=> Answering)
    BY <1>7, <2>1 DEF Reading
  <2>3. spc \notin {"dispatch", "pkt"} /\ ~Answering
    <3> SUFFICES ASSUME spc \in {"dispatch", "pkt"} \/ Answering PROVE FALSE
      OBVIOUS
    <3>1. 2 + Len(toHost) = CASE spc = "rsp" -> 1 [] spc = "body" -> 2 [] OTHER -> 0
      BY <2>1, <2>2 DEF Paired, Had
    <3> QED BY <2>2, <3>1
  <2> QED BY <2>1, <2>2, <2>3, QuietPaired DEF Quiet
<1>11. CASE RecvFails(c)
  BY <1>11 DEF RecvFails
<1> QED BY <1>3, <1>4, <1>5, <1>6, <1>8, <1>9, <1>10, <1>11 DEF Host

\* run() reads on: the packets in front of it are the ones it had.
LEMMA PairedShift ==
  ASSUME TypeInv, LineInv', Paired, up, up' = up, NEW n \in 0 .. 3,
         spc \notin {"done", "dispatch", "pkt", "rsp", "body"}, toSrv' = Rest(toSrv, n),
         n <= Len(toSrv), Shift(n), UNCHANGED <<cpc, cmd, hlock, toHost>>,
         spc' \notin {"dispatch", "pkt", "rsp", "body"}
  PROVE  Paired'
<1>1. toSrv \in Seq(SrvUnits) /\ Len(toSrv) \in Nat /\ n \in Nat
  BY DEF TypeInv
<1>2. /\ Len(toSrv') = Len(toSrv) - n
      /\ \A i \in 1 .. Len(toSrv') : toSrv'[i] = toSrv[i + n]
  <2>1. /\ Len(Rest(toSrv, n)) = Len(toSrv) - n
        /\ \A i \in 1 .. Len(Rest(toSrv, n)) : Rest(toSrv, n)[i] = toSrv[i + n]
    BY <1>1, ReadN
  <2> QED BY <2>1
<1>3. ~Answering'
  BY DEF Answering
<1>4. ASSUME spc' # "done", NEW i \in Starts'
      PROVE  /\ hlock # Nobody /\ toHost = << >>
             /\ \/ cpc[hlock] = "payload" /\ i = Len(toSrv') - 1
                \/ cpc[hlock] = "rsp" /\ i + 4 <= Len(toSrv') /\ OpAt(i)' = cmd[hlock].op
  <2>1. i + n \in Starts
    BY <1>4 DEF Shift, LineInv
  <2>2. i \in Int /\ i >= -1
    BY DEF Starts
  <2>3. hlock # Nobody /\ toHost = << >>
    BY <2>1 DEF Paired
  <2>4. CASE cpc[hlock] = "payload" /\ i + n = Len(toSrv) - 1
    BY <1>1, <1>2, <2>2, <2>3, <2>4
  <2>5. CASE cpc[hlock] = "rsp" /\ (i + n) + 4 <= Len(toSrv) /\ OpAt(i + n) = cmd[hlock].op
    <3>1. i + 4 \in 1 .. Len(toSrv') /\ (i + 4) + n = (i + n) + 4
      BY <1>1, <1>2, <2>2, <2>5
    <3>2. toSrv'[i + 4] = toSrv[(i + n) + 4]
      BY <1>2, <3>1
    <3> QED BY <2>3, <2>5, <3>1, <3>2 DEF OpAt
  <2> QED BY <2>1, <2>4, <2>5 DEF Paired
<1> QED BY <1>3, <1>4 DEF Paired

LEMMA PairedRun ==
  ASSUME RequestInv, RequestInv', Paired, up, Run
  PROVE  Paired'
<1> USE DEF RequestInv
<1>1. up' = up /\ UNCHANGED <<cpc, cmd, hlock>> /\ ~short /\ ~short'
  <2>1. up' = up /\ UNCHANGED <<cpc, cmd, hlock>>
    BY DEF Run, Top, Scan, ScanFails, ReadHdr, ReadPayload, Dispatch, WritePktHdr,
       WriteRspHdr, WriteBody, host, wire
  <2> QED BY <2>1 DEF LineInv
<1>2. ASSUME toSrv' = toSrv, spc \notin {"hdr", "payload", "done"}, spc' \notin {"hdr", "payload", "done"},
             toHost' = toHost, spc' \notin {"dispatch", "pkt", "rsp", "body"}
      PROVE  Paired'
  <2>1. Starts' = Starts /\ \A i : OpAt(i)' = OpAt(i)
    BY <1>2, StartsSame
  <2>2. ~Answering'
    BY <1>2 DEF Answering
  <2> QED BY <1>1, <1>2, <2>1, <2>2 DEF Paired
<1>3. CASE Top
  <2>1. toSrv' = toSrv /\ toHost' = toHost /\ spc = "top" /\ spc' \in {"scan", "done"}
    BY <1>3 DEF Top, Step, wire
  <2>2. CASE spc' = "done"
    BY <2>2 DEF Paired, Answering
  <2> QED BY <1>2, <2>1, <2>2
<1>4. CASE Scan
  <2>1. /\ spc = "scan" /\ toSrv' = Rest(toSrv, 2 - nx) /\ Len(toSrv) >= 2 - nx
        /\ Shift(2 - nx)
    BY <1>4, ScanReads, ScanLine
  <2>2. toHost' = toHost /\ spc' \in {"scan", "hdr", "done"}
    BY <1>4 DEF Scan
  <2>3. 2 - nx \in 0 .. 3 /\ 2 - nx <= Len(toSrv)
    <3>1. nx \in 0 .. 1 /\ Len(toSrv) \in Nat
      BY DEF TypeInv
    <3> QED BY <2>1, <3>1
  <2> QED BY <1>1, <2>1, <2>2, <2>3, PairedShift
<1>5. CASE ScanFails
  BY <1>5 DEF ScanFails
<1>6. CASE ReadHdr
  <2>1. /\ spc = "hdr" /\ toSrv' = Rest(toSrv, 1) /\ toHost' = toHost
        /\ spc' \in {"payload", "done"} /\ toSrv # << >>
    BY <1>1, <1>6 DEF ReadHdr
  <2>2. Shift(1) /\ 1 \in 0 .. 3
    BY <1>6, ReadHdrLine
  <2>3. 1 <= Len(toSrv)
    BY <2>1 DEF TypeInv
  <2> QED BY <1>1, <2>1, <2>2, <2>3, PairedShift
<1>7. CASE ReadPayload
  <2>1. /\ PayloadSize = 3 /\ Len(toSrv) >= 3 /\ spc' = "dispatch" /\ cmd_hdr'.op = OpAt(-1)
        /\ Shift(3)
    BY <1>1, <1>7, ReadPayloadLine
  <2>2. spc = "payload" /\ toHost' = toHost
    BY <1>7 DEF ReadPayload
  <2>3. Len(toSrv) \in Nat
    BY DEF TypeInv
  <2>4. -1 \in Queued /\ -1 \in Starts /\ -1 + 4 = 3
    BY <2>1, <2>2, <2>3 DEF Queued, Starts, Start
  <2>5. /\ hlock # Nobody /\ toHost = << >> /\ cpc[hlock] = "rsp" /\ OpAt(-1) = cmd[hlock].op
        /\ \A i \in Starts : i + 4 <= Len(toSrv) /\ OpAt(i) = cmd[hlock].op
    <3>1. cpc[hlock] # "payload"
      BY <2>1, <2>2, <2>3, <2>4 DEF Paired
    <3> QED BY <2>2, <2>4, <3>1 DEF Paired
  <2>6. \A i \in Starts : i = -1
    <3>1. \A i \in Starts : i \in Queued
      BY <2>2, <2>5 DEF Queued
    <3> QED BY <1>1, <2>4, <2>5, <3>1 DEF OpsInv
  <2>7. Starts' = {}
    <3> SUFFICES ASSUME NEW i \in Starts' PROVE FALSE
      OBVIOUS
    <3>1. i + 3 \in Starts /\ i \in Int /\ i >= -1
      BY <1>1, <2>1 DEF Shift, Starts
    <3> QED BY <2>6, <3>1
  <2>8. Had(cpc[hlock]) + Len(toHost) = 0
    BY <2>5 DEF Had
  <2> QED BY <1>1, <2>1, <2>2, <2>5, <2>7, <2>8 DEF Paired, Reading, Answering
<1>8. CASE Dispatch \/ WritePktHdr \/ WriteRspHdr
  <2>1. /\ spc \in {"dispatch", "pkt", "rsp"} /\ toSrv' = toSrv /\ cmd_hdr' = cmd_hdr
        /\ spc' = CASE spc = "dispatch" -> "pkt" [] spc = "pkt" -> "rsp" [] OTHER -> "body"
    <3>1. CASE Dispatch
      BY <3>1 DEF Dispatch, Step, wire
    <3>2. CASE WritePktHdr
      BY <3>2 DEF WritePktHdr, Step
    <3>3. CASE WriteRspHdr
      BY <3>3 DEF WriteRspHdr, Step, locals
    <3> QED BY <1>8, <3>1, <3>2, <3>3
  <2>2. Starts' = Starts
    BY <2>1, StartsSame
  <2>3. /\ Starts = {} /\ hlock # Nobody /\ cpc[hlock] \in {"rsp", "rsphdr", "body"}
        /\ cmd_hdr.op = cmd[hlock].op
        /\ Had(cpc[hlock]) + Len(toHost) = IF spc = "rsp" THEN 1 ELSE 0
    BY <2>1 DEF Paired, Answering
  <2>4. Had(cpc[hlock]) \in Nat
    BY DEF Had
  <2>5. Len(toHost') = IF spc = "dispatch" THEN Len(toHost) ELSE Len(toHost) + 1
    <3>1. toHost \in Seq(HostUnits) /\ toHost' \in Seq(HostUnits)
      BY DEF TypeInv
    <3>2. CASE Dispatch
      BY <3>2 DEF Dispatch, Step, wire
    <3>3. CASE WritePktHdr \/ WriteRspHdr
      <4>1. \E u : toHost' = toHost \o <<u>>
        BY <3>3 DEF WritePktHdr, WriteRspHdr, Put
      <4>2. spc # "dispatch"
        BY <3>3 DEF WritePktHdr, WriteRspHdr, Step
      <4> QED BY <3>1, <4>1, <4>2
    <3> QED BY <1>8, <3>2, <3>3
  <2>6. Had(cpc[hlock]) + Len(toHost') = CASE spc' = "rsp" -> 1 [] spc' = "body" -> 2 [] OTHER -> 0
    <3>1. Len(toHost) \in Nat
      BY DEF TypeInv
    <3> QED BY <2>1, <2>3, <2>4, <2>5, <3>1
  <2> QED BY <1>1, <2>1, <2>2, <2>3, <2>6 DEF Paired, Answering
<1>9. CASE WriteBody
  <2>1. spc = "body" /\ spc' = "top" /\ toSrv' = toSrv
    BY <1>9 DEF WriteBody, Step
  <2>2. CASE RspSize # 2
    <3>1. toHost' = toHost
      BY <1>9, <2>2 DEF WriteBody
    <3> QED BY <1>2, <2>1, <3>1
  <2>3. CASE RspSize = 2
    <3>1. Starts = {}
      BY <2>1, <2>3 DEF Paired, Answering
    <3>2. Starts' = {}
      BY <2>1, <3>1, StartsSame
    <3> QED BY <2>1, <3>2, QuietPaired DEF Quiet, Answering
  <2> QED BY <2>2, <2>3
<1> QED BY <1>3, <1>4, <1>5, <1>6, <1>7, <1>8, <1>9 DEF Run

LEMMA NextPaired ==
  ASSUME RequestInv, RequestInv', ~ReadTimeout, [Next]_vars, up => Paired, AnswerInv
  PROVE  up' => Paired'
<1> HAVE up'
<1>1. up
  BY DEF Next, Run, Host, FetchId, StoreId, SendLock, SendHdr, SendPayload, SendWrite,
     RecvPktHdr, RecvRspHdr, RecvBody, RecvFails, Top, Scan, ScanFails, ReadHdr, ReadPayload,
     Dispatch, WritePktHdr, WriteRspHdr, WriteBody, Register, quit, Drop, Noise, vars, wire
<1>2. CASE Register \/ quit \/ UNCHANGED vars
  <2>1. UNCHANGED <<toSrv, spc, cmd_hdr, ret, toHost, hlock, cpc, cmd>>
    BY <1>2 DEF Register, quit, vars, host, wire, server, locals
  <2> QED BY <1>1, <2>1, PairedSame DEF RequestInv, TypeInv
<1>3. CASE Drop
  BY <1>3 DEF Drop
<1>4. CASE Noise
  <2>1. hlock = Nobody /\ UNCHANGED <<spc, nx, cpc, cmd_hdr, ret>>
    BY <1>4 DEF Noise, host, server, scanner, locals
  <2>2. Quiet
    BY <1>1, <2>1, UnpairedQuiet
  <2>3. spc # "done" => Starts' = Starts
    <3> HAVE spc # "done"
    <3>1. PICK b \in {"C", "n"} : toSrv' = Append(toSrv, Byte(b))
      BY <1>4 DEF Noise
    <3>2. \A c \in Clients : cpc[c] # "payload"
      BY <2>1, ClientsAssumption DEF RequestInv, HostLock, Sending
    <3>3. Framed /\ Whole
      BY <1>1 DEF RequestInv, LineInv
    <3> QED BY <2>1, <3>1, <3>2, <3>3, ByteAdded DEF RequestInv
  <2> QED BY <2>1, <2>2, <2>3, QuietPaired DEF Quiet, Answering, RspSize
<1> QED BY <1>1, <1>2, <1>3, <1>4, PairedHost, PairedRun DEF Next

\* What a thread has read and can read, when neither changes.
LEMMA ResponseKept ==
  ASSUME NEW c \in Clients, NEW reply, Response(c, reply),
         Ops \subseteq Ops', Refused \subseteq Refused', toHost' = toHost,
         cpc'[c] = cpc[c], cmd'[c] = cmd[c], rsp'[c] = rsp[c],
         up' /\ Answering' => up /\ Answering /\ ret' = ret
  PROVE  Response(c, reply)'
<1>1. Had(cpc'[c]) = Had(cpc[c])
  OBVIOUS
<1>2. \A op : Outcome(op, reply) => IF reply = "ok" THEN op \in Ops' ELSE op \in Refused'
  BY DEF Outcome
<1> QED BY <1>1, <1>2 DEF Response, Outcome, IsUnit

LEMMA AnswerKept ==
  ASSUME AnswerInv, Ops \subseteq Ops', Refused \subseteq Refused',
         UNCHANGED <<cpc, cmd, rsp, toHost>>,
         up' /\ Answering' => up /\ Answering /\ ret' = ret
  PROVE  AnswerInv'
<1>1. ASSUME NEW c \in Clients, cpc'[c] \in Reading PROVE \E reply \in Replies : Response(c, reply)'
  <2>1. PICK reply \in Replies : Response(c, reply)
    BY <1>1 DEF AnswerInv
  <2> QED BY <2>1, ResponseKept
<1> QED BY <1>1 DEF AnswerInv

LEMMA GotKept ==
  ASSUME GotInv, Ops \subseteq Ops', Refused \subseteq Refused', got' = got
  PROVE  GotInv'
  BY DEF GotInv, Outcome

\* The units of one response.
LEMMA ResponseUnits ==
  ASSUME TypeInv, HostLock, AnswerInv, NEW c \in Clients, cpc[c] \in Reading, toHost # << >>
  PROVE  /\ Len(toHost) \in Nat \ {0} /\ Len(Tail(toHost)) = Len(toHost) - 1
         /\ \A i \in 1 .. Len(toHost) - 1 : Tail(toHost)[i] = toHost[i + 1]
         /\ Head(toHost) = toHost[1]
         /\ \E reply \in Replies : Response(c, reply) /\ IsUnit(toHost[1], Had(cpc[c]) + 1, cmd[c].op, reply)
<1>1. /\ Len(toHost) \in Nat \ {0} /\ Len(Tail(toHost)) = Len(toHost) - 1
      /\ \A i \in 1 .. Len(toHost) - 1 : Tail(toHost)[i] = toHost[i + 1]
      /\ Head(toHost) = toHost[1] /\ 1 \in 1 .. Len(toHost)
  BY DEF TypeInv
<1>2. PICK reply \in Replies : Response(c, reply)
  BY DEF AnswerInv
<1>3. IsUnit(toHost[1], Had(cpc[c]) + 1, cmd[c].op, reply)
  BY <1>1, <1>2 DEF Response
<1> QED BY <1>1, <1>2, <1>3

\* One unit of it is read, and there are more.
LEMMA ResponseRead ==
  ASSUME TypeInv, HostLock, NEW c \in Clients, NEW reply \in Replies, Response(c, reply),
         toHost # << >>, toHost' = Tail(toHost), NEW k \in 0 .. 1, Had(cpc[c]) = k,
         Had(cpc'[c]) = k + 1, cmd'[c] = cmd[c],
         rsp'[c].size = SizeOf(cmd[c].op, reply), k = 1 => rsp'[c].reply = reply,
         Ops \subseteq Ops', Refused \subseteq Refused', UNCHANGED <<up, spc, cmd_hdr, ret>>
  PROVE  Response(c, reply)'
<1>1. /\ Len(toHost) \in Nat \ {0} /\ Len(toHost') = Len(toHost) - 1
      /\ \A i \in 1 .. Len(toHost) - 1 : toHost'[i] = toHost[i + 1]
  BY DEF TypeInv
<1>2. (k + 1) + Len(toHost') = k + Len(toHost)
  BY <1>1
<1>3. ASSUME NEW i \in 1 .. Len(toHost')
      PROVE  toHost'[i] = toHost[i + 1] /\ i + 1 \in 1 .. Len(toHost) /\ (k + 1) + i = k + (i + 1)
  BY <1>1
<1>4. \A i \in 1 .. Len(toHost') : IsUnit(toHost'[i], (k + 1) + i, cmd[c].op, reply)
  BY <1>3 DEF Response
<1>5. k + Len(toHost) <= SizeOf(cmd[c].op, reply) + 1
  BY DEF Response
<1>6. IF reply = "ok" THEN cmd[c].op \in Ops' ELSE cmd[c].op \in Refused'
  <2>1. Outcome(cmd[c].op, reply)
    BY <1>1 DEF Response
  <2> QED BY <2>1 DEF Outcome
<1>7. up' /\ Answering' => ret' = reply
  BY DEF Response, Answering, RspSize
<1> QED BY <1>2, <1>4, <1>5, <1>6, <1>7 DEF Response, Outcome

\* A thread that does not come to read leaves what the others read.
LEMMA AnswerOthers ==
  ASSUME AnswerInv, Ops \subseteq Ops', Refused \subseteq Refused', NEW c \in Clients,
         UNCHANGED <<up, spc, cmd_hdr, ret>>,
         \A d \in Clients \ {c} : cpc'[d] = cpc[d] /\ cmd'[d] = cmd[d] /\ rsp'[d] = rsp[d],
         cpc'[c] \notin Reading, toHost' = toHost, toHost # << >> => cpc[c] \notin Reading
  PROVE  AnswerInv'
<1>1. Answering' <=> Answering
  BY DEF Answering, RspSize
<1>2. ASSUME NEW d \in Clients, cpc'[d] \in Reading PROVE \E reply \in Replies : Response(d, reply)'
  <2>1. d # c
    BY <1>2
  <2>2. PICK reply \in Replies : Response(d, reply)
    BY <1>2, <2>1 DEF AnswerInv
  <2> QED BY <1>1, <2>1, <2>2, ResponseKept
<1>3. toHost' # << >> => \E d \in Clients : cpc'[d] \in Reading
  BY DEF AnswerInv
<1> QED BY <1>2, <1>3 DEF AnswerInv

\* send() returns.
LEMMA ReturnAnswer ==
  ASSUME TypeInv, HostLock, NEW c \in Clients, NEW from \in Sending, At(c, from, "idle"),
         toHost' = << >>, NEW reply, NEW rid, NEW body, Return(c, reply, rid, body),
         Ops \subseteq Ops', Refused \subseteq Refused',
         reply \in Replies => Outcome(cmd[c].op, reply),
         reply = "ok" => body \in {0, cmd[c].op}
  PROVE  AnswerInv' /\ GotInv'
<1>1. cpc[c] = from /\ cpc' = [cpc EXCEPT ![c] = "idle"] /\ cpc \in [Clients -> CallPlaces]
  BY DEF At, TypeInv
<1>2. \A d \in Clients : cpc'[d] \notin Reading
  <2>1. \A d \in Clients : cpc[d] \in Sending => d = c
    BY <1>1, OneReads
  <2> QED BY <1>1, <2>1 DEF Reading, Sending
<1>3. got' = [op |-> cmd[c].op, id |-> cmd[c].id, reply |-> reply, rid |-> rid, body |-> body]
  BY DEF Return
<1>4. /\ got'.op = cmd[c].op /\ got'.reply = reply /\ got'.body = body
  BY <1>3
<1>5. AnswerInv'
  BY <1>2 DEF AnswerInv
<1>6. GotInv'
  BY <1>4 DEF GotInv, Outcome
<1> QED BY <1>5, <1>6

LEMMA AnswerHost ==
  ASSUME RequestInv, RequestInv', ~ReadTimeout, up => Paired, AnswerInv, GotInv,
         Ops \subseteq Ops', Refused \subseteq Refused', NEW c \in Clients, Host(c)
  PROVE  AnswerInv' /\ GotInv'
<1> USE DEF RequestInv
<1>1. cpc \in [Clients -> CallPlaces] /\ cmd \in [Clients -> Command] /\ DOMAIN rsp = Clients
  BY DEF TypeInv
<1>2. CASE FetchId(c) \/ StoreId(c)
  <2>1. /\ UNCHANGED <<up, spc, cmd_hdr, ret, toHost, got, rsp>> /\ cpc[c] \notin Reading
        /\ cpc'[c] \notin Reading
        /\ \A d \in Clients \ {c} : cpc'[d] = cpc[d] /\ cmd'[d] = cmd[d]
    BY <1>1, <1>2 DEF FetchId, StoreId, At, Reading, wire, server, locals
  <2> QED BY <2>1, AnswerOthers, GotKept
<1>3. CASE SendLock(c)
  <2>1. /\ UNCHANGED <<up, spc, cmd_hdr, ret, toHost, rsp, cmd>> /\ cpc[c] \notin Reading
        /\ cpc'[c] \notin Reading
        /\ \A d \in Clients \ {c} : cpc'[d] = cpc[d]
    BY <1>1, <1>3 DEF SendLock, At, Reading, wire, server, locals
  <2>2. GotInv'
    BY <1>3 DEF SendLock, GotInv, NoCall, Replies
  <2> QED BY <2>1, <2>2, AnswerOthers
<1>4. ASSUME cpc[c] \in {"hdr", "payload"} PROVE toHost = << >>
  <2>1. \A d \in Clients : cpc[d] \in Sending => d = c
    BY <1>4, OneReads DEF Sending
  <2> QED BY <1>4, <2>1 DEF AnswerInv, Reading, Sending
<1>5. CASE (SendHdr(c) \/ SendPayload(c)) /\ ~up
  <2>1. PICK from \in {"hdr", "payload"} : At(c, from, "idle") /\ Return(c, "write", 0, 0)
    BY <1>5 DEF SendHdr, SendPayload, SendWrite
  <2>2. toHost' = toHost
    BY <1>5 DEF SendHdr, SendPayload, SendWrite
  <2>3. toHost' = << >>
    BY <1>4, <2>1, <2>2 DEF At
  <2>4. "write" \notin Replies /\ "write" # "ok" /\ from \in Sending
    BY DEF Replies, Sending
  <2> QED BY <2>1, <2>3, <2>4, ReturnAnswer
<1>6. CASE SendHdr(c) /\ up
  <2>1. /\ UNCHANGED <<up, spc, cmd_hdr, ret, toHost, got, rsp, cmd>> /\ cpc[c] \notin Reading
        /\ cpc'[c] \notin Reading
        /\ \A d \in Clients \ {c} : cpc'[d] = cpc[d]
    BY <1>1, <1>6 DEF SendHdr, SendWrite, At, Reading, server, locals
  <2> QED BY <2>1, AnswerOthers, GotKept
<1>7. CASE SendPayload(c) /\ up
  <2>1. /\ UNCHANGED <<up, spc, cmd_hdr, ret, toHost, got, rsp, cmd>> /\ cpc[c] = "payload"
        /\ cpc'[c] = "rsp"
        /\ \A d \in Clients \ {c} : cpc'[d] = cpc[d]
    BY <1>1, <1>7 DEF SendPayload, SendWrite, At, server, locals
  <2>2. toHost' = << >>
    BY <1>4, <2>1
  <2>3. \A d \in Clients : cpc'[d] \in Reading => d = c
    <3>1. \A d \in Clients : cpc[d] \in Sending => d = c
      BY <2>1, OneReads DEF Sending
    <3> QED BY <2>1, <3>1 DEF Reading, Sending
  <2>4. Response(c, ret)' /\ ret' \in Replies
    <3>1. Had(cpc'[c]) = 0 /\ Len(toHost') = 0
      BY <2>1, <2>2 DEF Had
    <3>2. SizeOf(cmd'[c].op, ret') \in Nat
      BY DEF SizeOf
    <3>3. ret' \in Replies
      BY DEF TypeInv
    <3> QED BY <2>2, <3>1, <3>2, <3>3 DEF Response
  <2>5. \E reply \in Replies : Response(c, reply)'
    BY <2>4, <2>1 DEF Response
  <2>6. AnswerInv'
    BY <2>2, <2>3, <2>5 DEF AnswerInv
  <2> QED BY <2>1, <2>6, GotKept
<1>8. CASE RecvPktHdr(c)
  <2>1. /\ cpc[c] = "rsp" /\ cpc'[c] = "rsphdr" /\ toHost # << >> /\ toHost' = Tail(toHost)
        /\ UNCHANGED <<up, spc, cmd_hdr, ret, got, cmd>>
        /\ Head(toHost).k = "hdr" => rsp'[c].size = Head(toHost).size
    BY <1>1, <1>8 DEF RecvPktHdr, At, server, locals
  <2>2. \A d \in Clients : cpc'[d] \in Reading => d = c
    <3>1. \A d \in Clients : cpc[d] \in Sending => d = c
      BY <2>1, OneReads DEF Sending
    <3>2. \A d \in Clients \ {c} : cpc'[d] = cpc[d]
      BY <1>1, <1>8 DEF RecvPktHdr, At
    <3> QED BY <3>1, <3>2 DEF Reading, Sending
  <2>3. PICK reply \in Replies : Response(c, reply) /\ IsUnit(Head(toHost), 1, cmd[c].op, reply)
    <3>1. Had(cpc[c]) + 1 = 1 /\ cpc[c] \in Reading
      BY <2>1 DEF Had, Reading
    <3> QED BY <2>1, <3>1, ResponseUnits
  <2>4. rsp'[c].size = SizeOf(cmd[c].op, reply)
    BY <2>1, <2>3 DEF IsUnit, Hdr
  <2>5. Response(c, reply)'
    <3>1. 0 \in 0 .. 1 /\ Had(cpc[c]) = 0 /\ Had(cpc'[c]) = 0 + 1 /\ (0 = 1 => rsp'[c].reply = reply)
      BY <2>1 DEF Had
    <3> QED BY <2>1, <2>3, <2>4, <3>1, ResponseRead
  <2>6. AnswerInv'
    BY <2>1, <2>2, <2>3, <2>5 DEF AnswerInv, Reading
  <2> QED BY <2>1, <2>6, GotKept
<1>9. CASE RecvRspHdr(c)
  <2>1. /\ cpc[c] = "rsphdr" /\ toHost # << >> /\ toHost' = Tail(toHost)
        /\ UNCHANGED <<up, spc, cmd_hdr, ret>>
    BY <1>9 DEF RecvRspHdr, server, locals
  <2>2. Had(cpc[c]) = 1 /\ cpc[c] \in Reading
    BY <2>1 DEF Had, Reading
  <2>3. PICK reply \in Replies : Response(c, reply) /\ IsUnit(Head(toHost), 2, cmd[c].op, reply)
    <3>1. Had(cpc[c]) + 1 = 2
      BY <2>2
    <3> QED BY <2>1, <2>2, <3>1, ResponseUnits
  <2>4. Head(toHost).k = "rsp" /\ Head(toHost).reply = reply
    BY <2>3 DEF IsUnit
  <2>5. /\ Len(toHost) \in Nat \ {0} /\ Len(toHost') = Len(toHost) - 1
        /\ rsp[c].size = SizeOf(cmd[c].op, reply)
        /\ 1 + Len(toHost) <= SizeOf(cmd[c].op, reply) + 1
        /\ Outcome(cmd[c].op, reply)
    <3>1. Len(toHost) \in Nat \ {0} /\ Len(toHost') = Len(toHost) - 1
      BY <2>1 DEF TypeInv
    <3> QED BY <2>2, <2>3, <3>1 DEF Response
  <2>6. CASE rsp[c].size > 1
    <3>1. /\ cpc' = [cpc EXCEPT ![c] = "body"] /\ UNCHANGED <<cmd, got>>
          /\ rsp'[c].size = rsp[c].size /\ rsp'[c].reply = reply
      <4>1. PICK r : r = Head(toHost) /\ rsp' = [rsp EXCEPT ![c].id = r.id, ![c].reply = r.reply]
        BY <1>9, <2>4, <2>6 DEF RecvRspHdr
      <4>2. rsp[c] \in [size : Nat, id : Contents, reply : Replies \cup {"none"}]
        BY DEF TypeInv
      <4>3. rsp'[c].size = rsp[c].size /\ rsp'[c].reply = reply
        BY <1>1, <2>4, <4>1, <4>2
      <4> QED BY <1>9, <2>6, <4>3 DEF RecvRspHdr, At
    <3>2. cpc'[c] = "body" /\ Had(cpc'[c]) = 1 + 1 /\ 1 \in 0 .. 1
      BY <1>1, <3>1 DEF Had
    <3>3. Response(c, reply)'
      BY <2>1, <2>2, <2>3, <2>5, <3>1, <3>2, ResponseRead
    <3>4. \A d \in Clients : cpc'[d] \in Reading => d = c
      <4>1. \A d \in Clients : cpc[d] \in Sending => d = c
        BY <2>1, OneReads DEF Sending
      <4> QED BY <1>1, <3>1, <4>1 DEF Reading, Sending
    <3>5. AnswerInv'
      BY <2>3, <3>2, <3>3, <3>4 DEF AnswerInv, Reading
    <3> QED BY <3>1, <3>5, GotKept
  <2>7. CASE ~ (rsp[c].size > 1)
    <3>1. At(c, "rsphdr", "idle") /\ Return(c, reply, Head(toHost).id, 0)
      BY <1>9, <2>4, <2>7 DEF RecvRspHdr
    <3>2. toHost' = << >>
      <4>1. SizeOf(cmd[c].op, reply) \in 1 .. 2
        BY DEF SizeOf
      <4>2. Len(toHost') = 0
        BY <2>5, <2>7, <4>1
      <4>3. toHost' \in Seq(HostUnits)
        BY DEF TypeInv
      <4> QED BY <4>2, <4>3
    <3>3. "rsphdr" \in Sending /\ 0 \in {0, cmd[c].op}
      BY DEF Sending
    <3> QED BY <2>5, <3>1, <3>2, <3>3, ReturnAnswer
  <2> QED BY <2>6, <2>7
<1>10. CASE RecvBody(c)
  <2>1. /\ cpc[c] = "body" /\ toHost # << >> /\ toHost' = Tail(toHost) /\ At(c, "body", "idle")
        /\ Return(c, rsp[c].reply, rsp[c].id, IF Head(toHost).k = "word" THEN Head(toHost).w ELSE 0)
    BY <1>10 DEF RecvBody, At
  <2>2. Had(cpc[c]) = 2 /\ cpc[c] \in Reading
    BY <2>1 DEF Had, Reading
  <2>3. PICK reply \in Replies : Response(c, reply) /\ IsUnit(Head(toHost), 3, cmd[c].op, reply)
    <3>1. Had(cpc[c]) + 1 = 3
      BY <2>2
    <3> QED BY <2>1, <2>2, <3>1, ResponseUnits
  <2>4. (IF Head(toHost).k = "word" THEN Head(toHost).w ELSE 0) \in {0, cmd[c].op}
    BY <2>3 DEF IsUnit, Word
  <2>5. /\ Len(toHost) \in Nat \ {0} /\ Len(toHost') = Len(toHost) - 1
        /\ rsp[c].reply = reply
        /\ 2 + Len(toHost) <= SizeOf(cmd[c].op, reply) + 1
        /\ Outcome(cmd[c].op, reply)
    <3>1. Len(toHost) \in Nat \ {0} /\ Len(toHost') = Len(toHost) - 1
      BY <2>1 DEF TypeInv
    <3> QED BY <2>2, <2>3, <3>1 DEF Response
  <2>6. toHost' = << >>
    <3>1. SizeOf(cmd[c].op, reply) \in 1 .. 2
      BY DEF SizeOf
    <3>2. Len(toHost') = 0
      BY <2>5, <3>1
    <3>3. toHost' \in Seq(HostUnits)
      BY DEF TypeInv
    <3> QED BY <3>2, <3>3
  <2>7. "body" \in Sending
    BY DEF Sending
  <2> QED BY <2>1, <2>4, <2>5, <2>6, <2>7, ReturnAnswer
<1>11. CASE RecvFails(c)
  <2>1. toHost' = << >> /\ toHost = << >>
    BY <1>11 DEF RecvFails, wire
  <2>2. CASE \E from \in {"rsp", "rsphdr"} : At(c, from, "idle") /\ Return(c, "read", 0, 0)
    <3>1. PICK from \in {"rsp", "rsphdr"} : At(c, from, "idle") /\ Return(c, "read", 0, 0)
      BY <2>2
    <3>2. "read" \notin Replies /\ "read" # "ok" /\ from \in Sending
      BY DEF Replies, Sending
    <3> QED BY <2>1, <3>1, <3>2, ReturnAnswer
  <2>3. CASE At(c, "body", "idle") /\ Return(c, rsp[c].reply, rsp[c].id, 0)
    <3>1. Had(cpc[c]) = 2 /\ cpc[c] \in Reading /\ "body" \in Sending
      BY <2>3 DEF At, Had, Reading, Sending
    <3>2. PICK reply \in Replies : Response(c, reply)
      BY <3>1 DEF AnswerInv
    <3>3. rsp[c].reply = reply /\ Outcome(cmd[c].op, reply)
      BY <2>1, <3>1, <3>2 DEF Response
    <3> QED BY <2>1, <2>3, <3>1, <3>3, ReturnAnswer
  <2> QED BY <1>11, <2>2, <2>3 DEF RecvFails
<1> QED BY <1>2, <1>3, <1>5, <1>6, <1>7, <1>8, <1>9, <1>10, <1>11 DEF Host

\* run() writes the next unit of the response to the thread in send().
LEMMA AnswerWritten ==
  ASSUME TypeInv, HostLock, up, NEW c \in Clients, cpc[c] \in Reading,
         NEW reply \in Replies, NEW n \in 0 .. 2, Had(cpc[c]) + Len(toHost) = n,
         n <= SizeOf(cmd[c].op, reply), n = 0 \/ Response(c, reply),
         NEW u, IsUnit(u, n + 1, cmd[c].op, reply), toHost' = toHost \o <<u>>,
         Ops \subseteq Ops', Refused \subseteq Refused', UNCHANGED <<cpc, cmd, rsp>>,
         Outcome(cmd[c].op, reply), Answering' => ret' = reply
  PROVE  AnswerInv'
<1> DEFINE k == Had(cpc[c])
<1>1. /\ Len(toHost) \in Nat /\ Len(toHost') = Len(toHost) + 1
      /\ \A i \in 1 .. Len(toHost) : toHost'[i] = toHost[i]
      /\ toHost'[Len(toHost) + 1] = u
  BY DEF TypeInv
<1>2. k \in Nat /\ k + Len(toHost) = n /\ k + Len(toHost') = n + 1
  BY <1>1 DEF Had
<1>3. \A i \in 1 .. Len(toHost') : IsUnit(toHost'[i], k + i, cmd[c].op, reply)
  <2> TAKE i \in 1 .. Len(toHost')
  <2>1. CASE i = Len(toHost) + 1
    <3>1. k + i = n + 1
      BY <1>1, <1>2, <2>1
    <3> QED BY <1>1, <2>1, <3>1
  <2>2. CASE i # Len(toHost) + 1
    <3>1. i \in 1 .. Len(toHost) /\ n # 0
      BY <1>1, <1>2, <2>2
    <3> QED BY <1>1, <3>1 DEF Response
  <2> QED BY <2>1, <2>2
<1>4. /\ k >= 1 => rsp[c].size = SizeOf(cmd[c].op, reply)
      /\ k >= 2 => rsp[c].reply = reply
  <2>1. Response(c, reply) => /\ k >= 1 => rsp[c].size = SizeOf(cmd[c].op, reply)
                              /\ k >= 2 => rsp[c].reply = reply
    BY DEF Response
  <2>2. n = 0 => k = 0
    BY <1>1, <1>2
  <2>3. CASE n = 0
    <3>1. ~ (k >= 1) /\ ~ (k >= 2)
      BY <2>2, <2>3
    <3> QED BY <3>1
  <2>4. CASE Response(c, reply)
    BY <2>1, <2>4
  <2> QED BY <2>3, <2>4
<1>5. SizeOf(cmd[c].op, reply) \in Nat
  BY DEF SizeOf
<1>6. IF reply = "ok" THEN cmd[c].op \in Ops' ELSE cmd[c].op \in Refused'
  BY DEF Outcome
<1>7. Response(c, reply)'
  <2>1. Had(cpc'[c]) = k /\ k + Len(toHost') <= SizeOf(cmd[c].op, reply) + 1
    BY <1>2, <1>5
  <2> HIDE DEF k
  <2> QED BY <1>3, <1>4, <1>6, <2>1 DEF Response, Outcome
<1>8. \A d \in Clients : cpc[d] \in Reading => d = c
  BY OneReads DEF Reading, Sending
<1> QED BY <1>7, <1>8 DEF AnswerInv

LEMMA AnswerRun ==
  ASSUME RequestInv, RequestInv', [Next]_vars, Grows, Run, RetInv, up => Paired, AnswerInv, GotInv
  PROVE  AnswerInv' /\ GotInv'
<1> USE DEF RequestInv
<1>1. Ops \subseteq Ops' /\ Refused \subseteq Refused'
  BY OutcomesStay
<1>2. up' = up /\ UNCHANGED <<cpc, cmd, rsp, got>>
  BY DEF Run, Top, Scan, ScanFails, ReadHdr, ReadPayload, Dispatch, WritePktHdr,
     WriteRspHdr, WriteBody, host, wire
<1>3. GotInv'
  BY <1>1, <1>2, GotKept
<1>4. CASE Top \/ Scan \/ ScanFails \/ ReadHdr \/ ReadPayload \/ Dispatch
  <2>1. toHost' = toHost /\ spc' \notin {"rsp", "body"}
    BY <1>4 DEF Top, Scan, ScanFails, ReadHdr, ReadPayload, Dispatch, Step, wire
  <2> QED BY <1>1, <1>2, <1>3, <2>1, AnswerKept DEF Answering
<1>5. CASE (WritePktHdr \/ WriteRspHdr \/ WriteBody) /\ ~up
  <2>1. toHost' = toHost
    BY <1>5 DEF WritePktHdr, WriteRspHdr, WriteBody, Put
  <2> QED BY <1>1, <1>2, <1>3, <1>5, <2>1, AnswerKept
<1>6. CASE WritePktHdr /\ up
  <2>1. /\ spc = "pkt" /\ spc' = "rsp" /\ toHost' = toHost \o <<Hdr("RSP", RspSize)>>
        /\ ret' = ret /\ cmd_hdr' = cmd_hdr
    BY <1>6 DEF WritePktHdr, Step, Put
  <2>2. PICK c \in Clients : hlock = c /\ cpc[c] \in Reading /\ cmd_hdr.op = cmd[c].op
                             /\ Had(cpc[c]) + Len(toHost) = 0
    BY <1>6, <2>1 DEF Paired, Reading, TypeInv
  <2>3. Outcome(cmd[c].op, ret) /\ RspSize = SizeOf(cmd[c].op, ret) /\ RspSize \in Nat
    BY <2>1, <2>2 DEF RetInv, RspSize, SizeOf
  <2>4. IsUnit(Hdr("RSP", RspSize), 0 + 1, cmd[c].op, ret)
    BY <2>3 DEF IsUnit
  <2>5. ret \in Replies /\ 0 \in 0 .. 2
    BY DEF TypeInv
  <2> QED BY <1>1, <1>2, <1>3, <1>6, <2>1, <2>2, <2>3, <2>4, <2>5, AnswerWritten
<1>7. CASE WriteRspHdr /\ up
  <2>1. /\ spc = "rsp" /\ spc' = "body" /\ toHost' = toHost \o <<RspHdr(cmd_hdr.id, ret)>>
        /\ ret' = ret
    BY <1>7 DEF WriteRspHdr, Step, Put, locals
  <2>2. PICK c \in Clients : hlock = c /\ cpc[c] \in Reading /\ cmd_hdr.op = cmd[c].op
                             /\ Had(cpc[c]) + Len(toHost) = 1
    BY <1>7, <2>1 DEF Paired, Reading, Answering, TypeInv
  <2>3. PICK reply \in Replies : Response(c, reply)
    BY <2>2 DEF AnswerInv
  <2>4. ret = reply /\ Outcome(cmd[c].op, reply)
    BY <1>7, <2>1, <2>2, <2>3 DEF Response, Answering
  <2>5. IsUnit(RspHdr(cmd_hdr.id, ret), 1 + 1, cmd[c].op, reply)
    BY <2>4 DEF IsUnit, RspHdr
  <2>6. 1 \in 0 .. 2 /\ 1 <= SizeOf(cmd[c].op, reply)
    BY DEF SizeOf
  <2> QED BY <1>1, <1>2, <1>3, <1>7, <2>1, <2>2, <2>3, <2>4, <2>5, <2>6, AnswerWritten
<1>8. CASE WriteBody /\ up
  <2>1. /\ spc = "body" /\ spc' = "top"
        /\ toHost' = IF RspSize = 2 THEN toHost \o <<Word(cmd_hdr.op)>> ELSE toHost
    BY <1>8 DEF WriteBody, Step, Put
  <2>2. ~Answering'
    BY <2>1 DEF Answering
  <2>3. CASE RspSize # 2
    BY <1>1, <1>2, <1>3, <2>1, <2>2, <2>3, AnswerKept
  <2>4. CASE RspSize = 2
    <3>1. PICK c \in Clients : hlock = c /\ cpc[c] \in Reading /\ cmd_hdr.op = cmd[c].op
                               /\ Had(cpc[c]) + Len(toHost) = 2
      BY <1>8, <2>1, <2>4 DEF Paired, Reading, Answering, TypeInv
    <3>2. PICK reply \in Replies : Response(c, reply)
      BY <3>1 DEF AnswerInv
    <3>3. ret = reply /\ Outcome(cmd[c].op, reply)
      BY <1>8, <2>1, <2>4, <3>1, <3>2 DEF Response, Answering
    <3>4. IsUnit(Word(cmd_hdr.op), 2 + 1, cmd[c].op, reply)
      BY <3>1 DEF IsUnit
    <3>5. 2 \in 0 .. 2 /\ 2 <= SizeOf(cmd[c].op, reply)
      BY <2>4, <3>1, <3>3 DEF SizeOf, RspSize
    <3>6. toHost' = toHost \o <<Word(cmd_hdr.op)>>
      BY <2>1, <2>4
    <3> QED BY <1>1, <1>2, <1>3, <1>8, <2>2, <3>1, <3>2, <3>3, <3>4, <3>5, <3>6, AnswerWritten
  <2> QED BY <2>3, <2>4
<1> QED BY <1>4, <1>5, <1>6, <1>7, <1>8 DEF Run

\* The first i elements of a sequence.
LEMMA FirstPart ==
  ASSUME NEW S, NEW s \in Seq(S), NEW i \in 0 .. Len(s)
  PROVE  /\ Len(s) \in Nat /\ Len(SubSeq(s, 1, i)) = i
         /\ \A j \in 1 .. i : SubSeq(s, 1, i)[j] = s[j]
  OBVIOUS

\* The invariant of a call, for a port without a read timeout.
LEMMA NextCall ==
  ~ReadTimeout /\ RequestInv /\ RequestInv' /\ CallInv /\ [Next]_vars => CallInv'
<1> SUFFICES ASSUME ~ReadTimeout, RequestInv, RequestInv', CallInv, [Next]_vars PROVE CallInv'
  OBVIOUS
<1> USE DEF CallInv
<1>1. Grows
  BY NextOps DEF RequestInv
<1>2. Ops \subseteq Ops' /\ Refused \subseteq Refused'
  BY <1>1, OutcomesStay
<1>3. RetInv'
  BY <1>1, NextRet
<1>4. up' => Paired'
  BY NextPaired
<1>5. AnswerInv' /\ GotInv'
  <2>1. CASE Register \/ quit \/ Noise \/ UNCHANGED vars
    <3>1. UNCHANGED <<cpc, cmd, rsp, toHost, got, up, spc, cmd_hdr, ret>>
      BY <2>1 DEF Register, quit, Noise, vars, host, wire, server, locals
    <3>2. Answering' <=> Answering
      BY <3>1 DEF Answering, RspSize
    <3> QED BY <1>2, <3>1, <3>2, AnswerKept, GotKept
  <2>2. CASE Drop
    <3>1. UNCHANGED <<cpc, cmd, rsp, got>> /\ ~up'
      BY <2>2 DEF Drop, host
    <3>2. PICK i \in 0 .. Len(toHost) : toHost' = SubSeq(toHost, 1, i)
      BY <2>2 DEF Drop
    <3>3. /\ Len(toHost) \in Nat /\ Len(toHost') = i
          /\ \A j \in 1 .. i : toHost'[j] = toHost[j]
      <4>1. toHost \in Seq(HostUnits)
        BY DEF RequestInv, TypeInv
      <4> QED BY <3>2, <4>1, FirstPart
    <3>4. ASSUME NEW c \in Clients, cpc'[c] \in Reading PROVE \E reply \in Replies : Response(c, reply)'
      <4>1. PICK reply \in Replies : Response(c, reply)
        BY <3>1, <3>4 DEF AnswerInv
      <4> DEFINE k == Had(cpc[c])
      <4>2. k \in Nat /\ SizeOf(cmd[c].op, reply) \in Nat
        BY DEF Had, SizeOf
      <4>3. k + Len(toHost') <= SizeOf(cmd[c].op, reply) + 1
        BY <3>3, <4>1, <4>2 DEF Response
      <4>4. \A j \in 1 .. Len(toHost') : IsUnit(toHost'[j], k + j, cmd[c].op, reply)
        BY <3>3, <4>1 DEF Response
      <4>5. k + Len(toHost') > 0 => k + Len(toHost) > 0
        BY <3>3, <4>2
      <4>6. k + Len(toHost') > 0 => IF reply = "ok" THEN cmd[c].op \in Ops' ELSE cmd[c].op \in Refused'
        BY <1>2, <4>1, <4>5 DEF Response, Outcome
      <4> HIDE DEF k
      <4>7. Had(cpc'[c]) = k /\ Had(cpc[c]) = k
        BY <3>1 DEF k
      <4>8. Response(c, reply)'
        BY <3>1, <4>1, <4>3, <4>4, <4>6, <4>7 DEF Response, Outcome
      <4> QED BY <4>8
    <3>5. toHost' # << >> => toHost # << >>
      BY <3>2
    <3>6. AnswerInv'
      BY <3>1, <3>4, <3>5 DEF AnswerInv
    <3> QED BY <1>2, <3>1, <3>6, GotKept
  <2> QED BY <1>1, <1>2, <2>1, <2>2, AnswerHost, AnswerRun DEF Next
<1> QED BY <1>3, <1>4, <1>5

LEMMA InitCall == Init => CallInv
<1> SUFFICES ASSUME Init PROVE CallInv
  OBVIOUS
<1>1. Starts = {} /\ ~Answering
  BY DEF Init, Starts, Start, Answering
<1> QED BY <1>1 DEF Init, CallInv, RetInv, Paired, AnswerInv, GotInv, Reading, NoCall, Replies

\* send() returns the outcome of its own command, for any number of threads that
\* share the port and whatever becomes of the connection and the controller.
THEOREM OwnReply == Spec => []ReplyOwn
<1>1. CallInv => ReplyOwn
  <2> SUFFICES ASSUME CallInv PROVE ReplyOwn
    OBVIOUS
  <2> USE DEF CallInv, GotInv, Outcome, ReplyOwn, Ops
  <2>1. got.reply = "ok" => got.op \in Ops /\ got.body \in {0, got.op}
    BY DEF Replies
  <2>2. got.reply \in {"unknown", "badcmd"} /\ ~short => got.op \notin Ops
    BY DEF Replies, Refused
  <2> QED BY <2>1, <2>2
<1>2. CASE ReadTimeout
  <2>1. Init /\ [][Next]_vars => []ReadTimeout
    BY <1>2, PTL
  <2>2. ReadTimeout => ReplyOwn
    BY DEF ReplyOwn
  <2> QED BY <2>1, <2>2, PTL DEF Spec
<1>3. CASE ~ReadTimeout
  <2>1. RequestInv /\ RequestInv' /\ CallInv /\ [Next]_vars => CallInv'
    BY <1>3, NextCall
  <2> QED BY <1>1, <2>1, InitCall, RequestHolds, PTL DEF Spec
<1> QED BY <1>2, <1>3
=============================================================================
