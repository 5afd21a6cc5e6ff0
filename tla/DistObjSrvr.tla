----------------------------- MODULE DistObjSrvr -----------------------------
(****************************************************************************)
(* Remote calls between a host and a controller (DistObjSrvr.cpp, DistObj,  *)
(* the DigIO stubs and skeletons).  Threads of the host call stubs that     *)
(* share one DistObjSrvr and its send(); the controller executes run() on   *)
(* the other end of the connection while its application registers objects  *)
(* and may call quit().                                                     *)
(*                                                                          *)
(* A stream is a sequence of units: a byte of the magic "CX" or of line     *)
(* noise, the rest of a packet header, or a word behind it.  A command's op *)
(* is the number of the call, which stands for the operation and its        *)
(* parameters.  Stray bytes come only in front of a packet and hold no 'X'. *)
(****************************************************************************)
EXTENDS DistObjRegistry, Sequences, SequencesExt

CONSTANTS
  Clients,     \* the host's threads
  Nobody,      \* no owner of a mutex
  ReadTimeout, \* whether read_timeout() was called on the host's port
  MaxCalls,    \* bound: calls made in all
  MaxNoise     \* bound: stray bytes in all

ASSUME ClientsAssumption == Nobody \notin Clients
ASSUME TimeoutAssumption == ReadTimeout \in BOOLEAN

VARIABLES
  (* the host *)
  hlock,       \* lock_ of the host's DistObjSrvr
  msg_id_,     \* its message counter
  cpc, cmd,    \* each thread's place in its call, and its command
  rsp,         \* what it has read of the response
  (* the connection *)
  toSrv, toHost, up,
  (* the controller *)
  spc,         \* the place of run()
  magic, nx,   \* get_pkt_hdr()'s locals
  pkt_hdr, cmd_hdr, ret,   \* run()'s locals, kept from one packet to the next
  lock_, quit_, obj_map_,
  (* history *)
  calls, noise,   \* what was used of the bounds
  regs,        \* the registrations that succeeded, in order
  executed,    \* the operations invoked, in order: the object and the call
  short,       \* a read behind a header came to its end early
  got          \* the last call to finish, and its outcome

host == <<hlock, msg_id_, cpc, cmd, rsp, got>>
wire == <<toSrv, toHost, up>>
scanner == <<magic, nx>>
locals == <<pkt_hdr, cmd_hdr, ret>>
objects == <<obj_map_, regs>>
server == <<spc, scanner, locals, lock_, quit_, objects, executed, short>>
vars == <<host, wire, server, calls, noise>>

Calls == 1 .. MaxCalls
Bytes == {"C", "X", "n", "0"}
Byte(b) == [k |-> b]
Hdr(type, size) == [k |-> "hdr", type |-> type, size |-> size]
Word(w) == [k |-> "word", w |-> w]
RspHdr(id, reply) == [k |-> "rsp", id |-> id, reply |-> reply]

Ids == 0 .. MaxCalls
Replies == {"ok", "unknown", "badcmd"}      \* ret: 0, -CFXE_UNKNOWN_OBJ, the skeleton's error
Errors == {"write", "read"}                 \* -CFXE_PACKET_WRITE, -CFXE_PACKET_READ
Cmds == [id : Ids, key : Keys \cup {Junk}, op : 0 .. MaxCalls]
Types == {"CMD", "RSP", "junk"}

NoCmd == [id |-> 0, key |-> Junk, op |-> 0]      \* uninitialised
NoCall == [op |-> 0, id |-> 0, reply |-> "none", rid |-> 0, body |-> 0]
NoRsp == [size |-> 0, id |-> 0, reply |-> "none"]

TypeOK ==
  /\ hlock \in Clients \cup {Nobody}
  /\ msg_id_ \in Ids
  /\ cpc \in [Clients -> {"idle", "id", "ready", "hdr", "payload", "rsp", "rsphdr", "body"}]
  /\ cmd \in [Clients -> Cmds]
  /\ rsp \in [Clients -> [size : 0 .. 2, id : Ids, reply : Replies \cup {"none"}]]
  /\ got \in [op : 0 .. MaxCalls, id : Ids, reply : Replies \cup Errors \cup {"none"},
              rid : Ids, body : 0 .. MaxCalls]
  /\ {up, quit_, short} \subseteq BOOLEAN
  /\ spc \in {"top", "scan", "hdr", "payload", "dispatch", "pkt", "rsp", "body", "done"}
  /\ magic \in Bytes \X Bytes /\ nx \in 0 .. 1
  /\ pkt_hdr \in [type : Types, size : 0 .. 3]
  /\ cmd_hdr \in Cmds /\ ret \in Replies
  /\ lock_ \in {"run", Nobody}
  /\ obj_map_ \in Tables
  /\ regs \in Seq(Keys \X Objs)
  /\ executed \in Seq(Objs \X (0 .. MaxCalls))
  /\ calls \in 0 .. MaxCalls /\ noise \in 0 .. MaxNoise

Init ==
  /\ hlock = Nobody /\ lock_ = Nobody
  /\ msg_id_ = 0 /\ calls = 0 /\ noise = 0
  /\ cpc = [c \in Clients |-> "idle"]
  /\ cmd = [c \in Clients |-> NoCmd]
  /\ rsp = [c \in Clients |-> NoRsp]
  /\ got = NoCall
  /\ toSrv = << >> /\ toHost = << >> /\ up = TRUE
  /\ spc = "top" /\ magic = <<"0", "0">> /\ nx = 0
  /\ pkt_hdr = [type |-> "junk", size |-> 0]
  /\ cmd_hdr = NoCmd
  /\ ret = "ok" /\ quit_ = FALSE /\ short = FALSE
  /\ obj_map_ = InitialTable
  /\ regs = << >> /\ executed = << >>

-----------------------------------------------------------------------------
(* The connection.                                                          *)

\* write_n(): a broken connection takes nothing.
Put(stream, units) == IF up THEN stream \o units ELSE stream

\* read_n() for n units blocks until they are there or no more can come.
Readable(stream, n) == Len(stream) >= n \/ ~up
Taken(stream, n) == SubSeq(stream, 1, Min({n, Len(stream)}))
Rest(stream, n) == SubSeq(stream, n + 1, Len(stream))

\* The connection breaks; units at the end of each direction may be lost.
Drop == /\ up
        /\ up' = FALSE
        /\ \E i \in 0 .. Len(toSrv) : toSrv' = SubSeq(toSrv, 1, i)
        /\ \E i \in 0 .. Len(toHost) : toHost' = SubSeq(toHost, 1, i)
        /\ UNCHANGED <<host, server, calls, noise>>

\* A stray byte in front of a packet.
Noise == /\ noise < MaxNoise
         /\ up
         /\ hlock = Nobody
         /\ noise' = noise + 1
         /\ \E b \in {"C", "n"} : toSrv' = Append(toSrv, Byte(b))
         /\ UNCHANGED <<host, toHost, up, server, calls>>

-----------------------------------------------------------------------------
(* The host: a stub's call, with next_msg_id() and send().                  *)

At(c, from, to) == cpc[c] = from /\ cpc' = [cpc EXCEPT ![c] = to]

\* next_msg_id() is msg_id_++ with no lock: a load ...
FetchId(c) == \E key \in Keys :
  /\ calls < MaxCalls
  /\ calls' = calls + 1
  /\ At(c, "idle", "id")
  /\ cmd' = [cmd EXCEPT ![c] = [id |-> msg_id_, key |-> key, op |-> calls + 1]]
  /\ UNCHANGED <<hlock, msg_id_, rsp, got, wire, server, noise>>

\* ... and a store.
StoreId(c) == /\ At(c, "id", "ready")
              /\ msg_id_' = cmd[c].id + 1
              /\ UNCHANGED <<hlock, cmd, rsp, got, wire, server, calls, noise>>

SendLock(c) == /\ At(c, "ready", "hdr")
               /\ hlock = Nobody
               /\ hlock' = c
               /\ got' = NoCall
               /\ UNCHANGED <<msg_id_, cmd, rsp, wire, server, calls, noise>>

\* send() returns and its guard lets go of the lock.
Return(c, reply, rid, body) ==
  /\ hlock' = Nobody
  /\ got' = [op |-> cmd[c].op, id |-> cmd[c].id, reply |-> reply, rid |-> rid, body |-> body]
  /\ rsp' = [rsp EXCEPT ![c] = NoRsp]
  /\ cmd' = [cmd EXCEPT ![c] = NoCmd]

SendWrite(c, from, to, units) ==
  /\ toSrv' = Put(toSrv, units)
  /\ \/ up /\ At(c, from, to) /\ UNCHANGED <<hlock, cmd, rsp, got>>
     \/ ~up /\ At(c, from, "idle") /\ Return(c, "write", 0, 0)
  /\ UNCHANGED <<msg_id_, toHost, up, server, calls, noise>>

SendHdr(c) == SendWrite(c, "hdr", "payload", <<Byte("C"), Byte("X"), Hdr("CMD", 3)>>)

\* Bug seeded: the lock covers the request only.
SendPayloadUnlocked(c) ==
  /\ toSrv' = Put(toSrv, <<Word(cmd[c].id), Word(cmd[c].key), Word(cmd[c].op)>>)
  /\ \/ up /\ At(c, "payload", "rsp") /\ hlock' = Nobody /\ UNCHANGED <<cmd, rsp, got>>
     \/ ~up /\ At(c, "payload", "idle") /\ Return(c, "write", 0, 0)
  /\ UNCHANGED <<msg_id_, toHost, up, server, calls, noise>>

SendPayload(c) ==
  SendWrite(c, "payload", "rsp", <<Word(cmd[c].id), Word(cmd[c].key), Word(cmd[c].op)>>)

\* A read of the response that gets its unit.  A unit of another kind stands
\* for a header whose fields are anything.
RecvPktHdr(c) ==
  /\ At(c, "rsp", "rsphdr")
  /\ toHost # << >>
  /\ \E size \in IF Head(toHost).k = "hdr" THEN {Head(toHost).size} ELSE 1 .. 2 :
       rsp' = [rsp EXCEPT ![c].size = size]
  /\ toHost' = Tail(toHost)
  /\ UNCHANGED <<hlock, msg_id_, cmd, got, toSrv, up, server, calls, noise>>

RecvRspHdr(c) ==
  /\ cpc[c] = "rsphdr"
  /\ toHost # << >>
  /\ \E r \in IF Head(toHost).k = "rsp" THEN {Head(toHost)}
                                        ELSE {RspHdr(0, reply) : reply \in Replies} :
       IF rsp[c].size > 1
       THEN /\ At(c, "rsphdr", "body")
            /\ rsp' = [rsp EXCEPT ![c].id = r.id, ![c].reply = r.reply]
            /\ UNCHANGED <<hlock, cmd, got>>
       ELSE /\ At(c, "rsphdr", "idle")
            /\ Return(c, r.reply, r.id, 0)
  /\ toHost' = Tail(toHost)
  /\ UNCHANGED <<msg_id_, toSrv, up, server, calls, noise>>

\* The result of the read of the body is not looked at.
RecvBody(c) ==
  /\ At(c, "body", "idle")
  /\ toHost # << >>
  /\ Return(c, rsp[c].reply, rsp[c].id, IF Head(toHost).k = "word" THEN Head(toHost).w ELSE 0)
  /\ toHost' = Tail(toHost)
  /\ UNCHANGED <<msg_id_, toSrv, up, server, calls, noise>>

\* A read of the response gets nothing: the connection is broken, or the time
\* given to read_timeout() is over.
RecvFails(c) ==
  /\ toHost = << >>
  /\ ~up \/ ReadTimeout
  /\ \/ \E from \in {"rsp", "rsphdr"} : At(c, from, "idle") /\ Return(c, "read", 0, 0)
     \/ At(c, "body", "idle") /\ Return(c, rsp[c].reply, rsp[c].id, 0)
  /\ UNCHANGED <<msg_id_, wire, server, calls, noise>>

Host(c) == \/ FetchId(c) \/ StoreId(c) \/ SendLock(c) \/ SendHdr(c) \/ SendPayload(c)
           \/ RecvPktHdr(c) \/ RecvRspHdr(c) \/ RecvBody(c) \/ RecvFails(c)

-----------------------------------------------------------------------------
(* The controller: run() and get_pkt_hdr().                                 *)

Step(from, to) == spc = from /\ spc' = to

\* while (!quit_), and the entry of get_pkt_hdr().
Top == /\ IF quit_ THEN Step("top", "done") ELSE Step("top", "scan")
       /\ UNCHANGED <<host, wire, scanner, locals, lock_, quit_, objects, executed, short, calls, noise>>

\* Bug seeded: pairs only, a 'C' at the end of one is lost.
Unshifted(m) == m

\* What the bytes just read make of magic: a 'C' at its end becomes its start.
Shifted(m) == IF m[2] = "C" THEN <<"C", "0">> ELSE m

\* One turn of the loop: read what is missing of the two bytes and compare.
Scan ==
  LET n == 2 - nx
      bytes == [i \in 1 .. Len(Taken(toSrv, n)) |-> Taken(toSrv, n)[i].k]
  IN  /\ spc = "scan"
      /\ Readable(toSrv, n)
      /\ bytes # << >>
      /\ \E old \in IF nx = 0 /\ Len(bytes) = 1 THEN Bytes ELSE {magic[1]} :
           LET m == Shifted(CASE nx = 1 -> <<magic[1], bytes[1]>>
                              [] Len(bytes) = 2 -> bytes
                              [] OTHER -> <<bytes[1], old>>)    \* uninitialised
           IN  \/ /\ ~quit_ /\ m # <<"C", "X">>
                  /\ magic' = m
                  /\ nx' = IF m = <<"C", "0">> THEN 1 ELSE nx
                  /\ spc' = "scan"
               \/ /\ quit_ \/ m = <<"C", "X">>
                  /\ magic' = <<"0", "0">> /\ nx' = 0
                  /\ spc' = IF quit_ THEN "done" ELSE "hdr"
      /\ toSrv' = Rest(toSrv, n)
      /\ UNCHANGED <<host, toHost, up, locals, lock_, quit_, objects, executed, short, calls, noise>>

\* Bug seeded: only an error ends the scan, an end of file is read again.
ScanRetries == /\ Step("scan", "scan")
               /\ toSrv = << >> /\ ~up
               /\ UNCHANGED <<host, wire, scanner, locals, lock_, quit_, objects, executed, short,
                              calls, noise>>

\* A read that gets nothing ends get_pkt_hdr() and run().
ScanFails == /\ Step("scan", "done")
             /\ toSrv = << >> /\ ~up
             /\ UNCHANGED <<host, wire, scanner, locals, lock_, quit_, objects, executed, short,
                            calls, noise>>

\* The rest of the header.  An end of file leaves pkt_hdr as it was and is no
\* error; a read error is one.
ReadHdr ==
  /\ spc = "hdr"
  /\ Readable(toSrv, 1)
  /\ \/ /\ toSrv # << >>
        /\ pkt_hdr' = [type |-> Head(toSrv).type, size |-> Head(toSrv).size]
        /\ spc' = IF quit_ THEN "done" ELSE "payload"
        /\ short' = short
     \/ /\ toSrv = << >>
        /\ pkt_hdr' = pkt_hdr
        /\ spc' \in {IF quit_ THEN "done" ELSE "payload", "done"}
        /\ short' = TRUE
  /\ toSrv' = Rest(toSrv, 1)
  /\ UNCHANGED <<host, toHost, up, scanner, cmd_hdr, ret, lock_, quit_, objects, executed, calls, noise>>

\* What the decoder's three reads leave in cmd_hdr: what is not there keeps
\* its old value.
Decoded(words) ==
  [id  |-> IF Len(words) >= 1 THEN words[1].w ELSE cmd_hdr.id,
   key |-> IF Len(words) >= 2 THEN words[2].w ELSE cmd_hdr.key,
   op  |-> IF Len(words) >= 3 THEN words[3].w ELSE cmd_hdr.op]

\* Bug seeded: the size is taken to count from zero.
PayloadSizeLess == IF pkt_hdr.size = 0 THEN 0 ELSE pkt_hdr.size - 1

PayloadSize == pkt_hdr.size

\* The payload.  The result of its read is not looked at.
ReadPayload ==
  LET words == Taken(toSrv, PayloadSize)
  IN  /\ spc = "payload"
      /\ Readable(toSrv, PayloadSize)
      /\ toSrv' = Rest(toSrv, PayloadSize)
      /\ short' = (short \/ Len(words) < PayloadSize)
      /\ \/ pkt_hdr.type \in {"CMD", "junk"} /\ spc' = "dispatch" /\ cmd_hdr' = Decoded(words)
         \/ pkt_hdr.type # "CMD" /\ spc' = "top" /\ cmd_hdr' = cmd_hdr
      /\ UNCHANGED <<host, toHost, up, scanner, pkt_hdr, ret, lock_, quit_, objects, executed,
                     calls, noise>>

\* What dispatch() and the skeleton's invoke() may return: the object is not
\* known, it does not have the operation, or the operation is carried out.
Outcomes(obj) == IF obj = Null THEN {"unknown"} ELSE {"badcmd", "ok"}

\* The dispatch, under lock_.
Dispatch == \E key \in IF cmd_hdr.key = Junk THEN Keys ELSE {cmd_hdr.key} :
  LET obj == get_obj(obj_map_, key)
  IN  /\ Step("dispatch", "pkt")
      /\ lock_ = Nobody
      /\ ret' \in Outcomes(obj)
      /\ executed' = IF ret' = "ok" THEN Append(executed, <<obj, cmd_hdr.op>>) ELSE executed
      /\ UNCHANGED <<host, wire, scanner, pkt_hdr, cmd_hdr, lock_, quit_, objects, short, calls, noise>>

\* Only some operations put a value into the response (width() and value(), but
\* not set(), clear() and toggle()): here those of odd number.
RspSize == IF ret = "ok" /\ cmd_hdr.op % 2 = 1 THEN 2 ELSE 1

\* The response, in three writes under lock_; their results are not looked at.
WritePktHdr ==
  LET size == RspSize
  IN  /\ Step("pkt", "rsp")
      /\ lock_ = Nobody /\ lock_' = "run"
      /\ pkt_hdr' = [type |-> "RSP", size |-> size]
      /\ toHost' = Put(toHost, <<Hdr("RSP", size)>>)
      /\ UNCHANGED <<host, toSrv, up, scanner, cmd_hdr, ret, quit_, objects, executed, short,
                     calls, noise>>

WriteRspHdr ==
  /\ Step("rsp", "body")
  /\ toHost' = Put(toHost, <<RspHdr(cmd_hdr.id, ret)>>)
  /\ UNCHANGED <<host, toSrv, up, scanner, locals, lock_, quit_, objects, executed, short, calls, noise>>

WriteBody ==
  /\ Step("body", "top")
  /\ lock_' = Nobody
  /\ toHost' = IF RspSize = 2 THEN Put(toHost, <<Word(cmd_hdr.op)>>) ELSE toHost
  /\ ret' = "ok"
  /\ UNCHANGED <<host, toSrv, up, scanner, pkt_hdr, cmd_hdr, quit_, objects, executed, short, calls, noise>>

Run == Top \/ Scan \/ ScanFails \/ ReadHdr \/ ReadPayload \/ Dispatch
         \/ WritePktHdr \/ WriteRspHdr \/ WriteBody

-----------------------------------------------------------------------------
(* The controller's application.                                            *)

\* register_obj(), under lock_.
Register == \E key \in Keys, obj \in Objs :
  /\ lock_ = Nobody
  /\ obj_map_' = register_obj(obj_map_, key, obj)
  /\ regs' = IF End(obj_map_) = MaxObj THEN regs ELSE Append(regs, <<key, obj>>)
  /\ UNCHANGED <<host, wire, spc, scanner, locals, lock_, quit_, executed, short, calls, noise>>

quit == /\ ~quit_
        /\ quit_' = TRUE
        /\ UNCHANGED <<host, wire, spc, scanner, locals, lock_, objects, executed, short, calls, noise>>

Next == (\E c \in Clients : Host(c)) \/ Run \/ Register \/ quit \/ Drop \/ Noise

Spec == Init /\ [][Next]_vars

\* While some thread can go on with what it began, one does; nobody has to
\* call, to register, to quit or to break the connection.
LiveSpec == Spec /\ WF_vars(Run \/ \E c \in Clients : cpc[c] # "idle" /\ Host(c))

-----------------------------------------------------------------------------
(* Properties.                                                              *)

\* A key leads to the first object registered under it and to nothing before,
\* whatever the memory behind the table's end holds and also when the table is
\* full and has no end (get_obj(), register_obj()).
FirstRegistered ==
  \A key \in Keys :
    get_obj(obj_map_, key) =
      LET hits == {i \in 1 .. Len(regs) : regs[i][1] = key}
      IN  IF hits = {} THEN Null ELSE regs[Min(hits)][2]

\* send() returns the outcome of its own command: an operation reported done
\* was invoked and the value is its own, one reported in error was not invoked.
\* send() never compares message ids (and two threads may draw the same id from
\* next_msg_id()); what pairs the two is that lock_ is held from the request
\* to the response.  A port with a read timeout is the exception.
ReplyOwn ==
  ~ReadTimeout =>
    LET ops == {executed[i][2] : i \in DOMAIN executed}
    IN  /\ got.reply = "ok" => got.op \in ops /\ got.body \in {0, got.op}
        /\ got.reply \in {"unknown", "badcmd"} /\ ~short => got.op \notin ops

\* run() invokes an operation at most once, and only one that a thread sent,
\* as long as no packet was cut off behind its magic: stray bytes, early quits
\* and a connection that breaks between packets do not matter.
AtMostOnce ==
  ~short => /\ IsInjective([i \in DOMAIN executed |-> executed[i][2]])
            /\ \A i \in DOMAIN executed : executed[i][2] \in 1 .. calls

\* The response a thread accepts carries the id of its command (BinDistObj.h:
\* "Msg ID matches the command/request").
ReplyIdMatches ==
  got.reply \in Replies => got.rid = got.id

\* A thread that has its command ready gets out of send(), with a reply or an
\* error, unless the controller was told to quit: the scan in get_pkt_hdr()
\* finds the header behind any stray bytes.
SendReturns == \A c \in Clients : cpc[c] = "ready" ~> (cpc[c] = "idle" \/ quit_)

\* quit() takes effect at the latest when a packet arrives, as its comment says.
QuitTakesEffect == (quit_ /\ \E c \in Clients : cpc[c] = "hdr") ~> spc = "done"
=============================================================================
