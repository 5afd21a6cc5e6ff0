---------------------------- MODULE StreamProofs ----------------------------
(***************************************************************************)
(* Proofs about the parts of MCData that keep what a client wrote for a    *)
(* client that reads: buffers, codecs and binary streams.                  *)
(***************************************************************************)
EXTENDS MCData, SequenceTheorems, TLAPS

MCVars == <<part, vars, cqVars, stVars, kyVars, slVars, acVars,
            tmVars, bfVars, bcVars, dsVars, bsVars, soVars, dvVars>>

LEMMA StepOfPart ==
  [MCNext]_MCVars => /\ [BfNext]_bfVars /\ [BcNext]_bcVars
                     /\ [DsNext]_dsVars /\ [BsNext]_bsVars
<1>1. MCNext => /\ [BfNext]_bfVars /\ [BcNext]_bcVars
                /\ [DsNext]_dsVars /\ [BsNext]_bsVars
  BY Zenon DEF MCNext
<1>2. UNCHANGED MCVars => UNCHANGED <<bfVars, bcVars, dsVars, bsVars>>
  BY DEF MCVars
<1> QED
  BY <1>1, <1>2, Zenon

-----------------------------------------------------------------------------
(* Sequences cut and joined.                                               *)

LEMMA FrontOf ==
  ASSUME NEW S, NEW s \in Seq(S), NEW p \in Nat, p <= Len(s)
  PROVE  /\ SubSeq(s, 1, p) \in Seq(S) /\ Len(SubSeq(s, 1, p)) = p
         /\ \A i \in 1..p : SubSeq(s, 1, p)[i] = s[i]
  OBVIOUS

LEMMA BackOf ==
  ASSUME NEW S, NEW s \in Seq(S), NEW p \in Nat, NEW a \in Nat, p + a = Len(s)
  PROVE  /\ SubSeq(s, p + 1, Len(s)) \in Seq(S) /\ Len(SubSeq(s, p + 1, Len(s))) = a
         /\ \A i \in 1..a : SubSeq(s, p + 1, Len(s))[i] = s[p + i]
  OBVIOUS

LEMMA Joined ==
  ASSUME NEW S, NEW s, NEW t, NEW p, NEW w,
         s \in Seq(S), t \in Seq(S), Len(s) = p, Len(t) = w
  PROVE  /\ s \o t \in Seq(S) /\ Len(s \o t) = p + w
         /\ \A i \in 1..p : (s \o t)[i] = s[i]
         /\ \A i \in (p + 1)..(p + w) : (s \o t)[i] = t[i - p]
<1>1. p \in Nat /\ w \in Nat
  OBVIOUS
<1> QED
  BY <1>1

-----------------------------------------------------------------------------
(* Buffers.  The log of a buffer lies within its limit, and the position   *)
(* within the log; the mark, if it is one, is not past the position.       *)

BfRec(m, c, p, l, k) == [mem |-> m, cap |-> c, pos |-> p, lim |-> l, mark |-> k]

BfCells(m, c, log, n) == /\ m \in Seq(Nat) /\ Len(m) = c
                         /\ log \in Seq(Nat) /\ Len(log) = n
                         /\ \A i \in 1..n : m[i] = log[i]

BfOrder(c, p, l, k, n, mode, marked) ==
  /\ {c, p, l, k, n} \subseteq Nat
  /\ p <= n /\ n <= l /\ l <= c
  /\ mode \in {"write", "read"} /\ marked \in BOOLEAN
  /\ marked => k <= p
  /\ mode = "read" => n = l
  /\ mode = "write" => marked

BfWell(b, log, mode, marked) ==
  \E m, c, p, l, k, n : /\ b = BfRec(m, c, p, l, k)
                        /\ BfCells(m, c, log, n)
                        /\ BfOrder(c, p, l, k, n, mode, marked)

BfInv == /\ bfSent \in Nat
         /\ bfBuf = [o \in BfNames |-> bfBuf[o]]
         /\ bfLog = [o \in BfNames |-> bfLog[o]]
         /\ bfMode = [o \in BfNames |-> bfMode[o]]
         /\ bfMarked = [o \in BfNames |-> bfMarked[o]]
         /\ \A o \in BfNames :
              BfUsable(o) => BfWell(bfBuf[o], bfLog[o], bfMode[o], bfMarked[o])
         /\ bfBuf["fixed"].cap = BfFixed

LEMMA BfFields ==
  \A m, c, p, l, k : /\ BfRec(m, c, p, l, k).mem = m /\ BfRec(m, c, p, l, k).cap = c
                     /\ BfRec(m, c, p, l, k).pos = p /\ BfRec(m, c, p, l, k).lim = l
                     /\ BfRec(m, c, p, l, k).mark = k
  BY DEF BfRec

\* What each method does to the fields.
LEMMA BfSetOne ==
  ASSUME NEW m, NEW c, NEW p, NEW l, NEW k, NEW b, b = BfRec(m, c, p, l, k), NEW r
  PROVE  /\ BuMark(b) = BfRec(m, c, p, l, p)
         /\ BuReset(b) = BfRec(m, c, k, l, k)
         /\ BuReserve(b, r) = BfRec(m, c, p, c - r, k)
         /\ BuMoved(b, r) = BfRec(m, c, p + r, l, k)
<1>1. BuMark(b) = BfRec(m, c, p, l, p)
  BY DEF BfRec, BuMark
<1>2. BuReset(b) = BfRec(m, c, k, l, k)
  BY DEF BfRec, BuReset
<1>3. BuReserve(b, r) = BfRec(m, c, p, c - r, k)
  BY DEF BfRec, BuReserve
<1>4. BuMoved(b, r) = BfRec(m, c, p + r, l, k)
  BY DEF BfRec, BuMoved
<1> QED
  BY <1>1, <1>2, <1>3, <1>4, Zenon

LEMMA BfRewinds ==
  ASSUME NEW m, NEW c, NEW p, NEW l, NEW k, NEW b, b = BfRec(m, c, p, l, k)
  PROVE  BuRewind(b) = BfRec(m, c, 0, l, 0)
<1> DEFINE d == [b EXCEPT !.pos = 0]
<1>1. d = BfRec(m, c, 0, l, k)
  BY DEF BfRec
<1> HIDE DEF d
<1>2. [d EXCEPT !.mark = 0] = BfRec(m, c, 0, l, 0)
  BY <1>1 DEF BfRec
<1> QED
  BY <1>2 DEF BuRewind, d

LEMMA BfFlips ==
  ASSUME NEW m, NEW c, NEW p, NEW l, NEW k, NEW b, b = BfRec(m, c, p, l, k)
  PROVE  BuFlip(b) = BfRec(m, c, 0, p, 0)
<1> DEFINE d == [b EXCEPT !.lim = b.pos]
           e == [d EXCEPT !.pos = 0]
<1>1. d = BfRec(m, c, p, p, k)
  BY DEF BfRec
<1> HIDE DEF d
<1>2. e = BfRec(m, c, 0, p, k)
  BY <1>1 DEF BfRec
<1> HIDE DEF e
<1>3. [e EXCEPT !.mark = 0] = BfRec(m, c, 0, p, 0)
  BY <1>2 DEF BfRec
<1> QED
  BY <1>3 DEF BuFlip, d, e

LEMMA BfClears ==
  ASSUME NEW m, NEW c, NEW p, NEW l, NEW k, NEW b, b = BfRec(m, c, p, l, k), NEW r, NEW q, q = IF r > c THEN c ELSE r
  PROVE  BuClear(b, r) = BfRec(m, c, 0, q, 0)
<1> DEFINE d == [b EXCEPT !.pos = 0]
           e == [d EXCEPT !.mark = 0]
<1>0. b.cap = c
  BY DEF BfRec
<1>1. d = BfRec(m, c, 0, l, k)
  BY DEF BfRec
<1> HIDE DEF d
<1>2. e = BfRec(m, c, 0, l, 0)
  BY <1>1 DEF BfRec
<1> HIDE DEF e
<1>3. [e EXCEPT !.lim = q] = BfRec(m, c, 0, q, 0)
  BY <1>2 DEF BfRec
<1>4. BuClear(b, r) = [e EXCEPT !.lim = IF r > b.cap THEN b.cap ELSE r]
  BY DEF BuClear, d, e
<1> QED
  BY <1>0, <1>3, <1>4

LEMMA BfStoresAt ==
  ASSUME NEW m, NEW c, NEW p, NEW l, NEW k, NEW b, b = BfRec(m, c, p, l, k), NEW s
  PROVE  BuStored(b, s) = BfRec([i \in 1..c |-> IF i \in (p + 1)..(p + Len(s))
                                                THEN s[i - p] ELSE m[i]],
                                c, p + Len(s), l, k)
<1> DEFINE new == [i \in 1..b.cap |-> IF i \in (b.pos + 1)..(b.pos + Len(s))
                                      THEN s[i - b.pos] ELSE b.mem[i]]
           d == [b EXCEPT !.mem = new]
<1>0. b.cap = c /\ b.pos = p /\ b.mem = m
  BY DEF BfRec
<1>1. new = [i \in 1..c |-> IF i \in (p + 1)..(p + Len(s)) THEN s[i - p] ELSE m[i]]
  BY <1>0
<1> HIDE DEF new
<1>2. d = BfRec(new, c, p, l, k)
  BY DEF BfRec
<1> HIDE DEF d
<1>3. [d EXCEPT !.pos = p + Len(s)] = BfRec(new, c, p + Len(s), l, k)
  BY <1>2 DEF BfRec
<1> QED
  BY <1>0, <1>1, <1>3 DEF BuStored, d, new

LEMMA BfCompactsTo ==
  ASSUME NEW m, NEW c, NEW p, NEW l, NEW k, NEW b, b = BfRec(m, c, p, l, k), NEW a, a = l - p
  PROVE  BuCompact(b) = BfRec([i \in 1..c |-> IF i <= a THEN m[p + i] ELSE m[i]], c, 0, a, k)
<1> DEFINE new == [i \in 1..b.cap |-> IF i <= BuAvailable(b) THEN b.mem[b.pos + i]
                                      ELSE b.mem[i]]
           d == [b EXCEPT !.mem = new]
           e == [d EXCEPT !.lim = BuAvailable(b)]
<1>0. b.cap = c /\ b.pos = p /\ b.mem = m /\ BuAvailable(b) = a
  BY DEF BfRec, BuAvailable
<1>1. new = [i \in 1..c |-> IF i <= a THEN m[p + i] ELSE m[i]]
  BY <1>0
<1> HIDE DEF new
<1>2. d = BfRec(new, c, p, l, k)
  BY DEF BfRec
<1> HIDE DEF d
<1>3. e = BfRec(new, c, p, a, k)
  BY <1>0, <1>2 DEF BfRec
<1> HIDE DEF e
<1>4. [e EXCEPT !.pos = 0] = BfRec(new, c, 0, a, k)
  BY <1>3 DEF BfRec
<1> QED
  BY <1>1, <1>4 DEF BuCompact, d, e, new

LEMMA BfCopiesTo ==
  ASSUME NEW m, NEW c, NEW p, NEW l, NEW k, NEW m0, NEW c0, NEW p0, NEW l0, NEW k0,
         NEW b, b = BfRec(m0, c0, p0, l0, k0), NEW from, from = BfRec(m, c, p, l, k), ~(l > c0)
  PROVE  BuCopyOf(b, from)
           = BfRec([i \in 1..c0 |-> IF i <= l THEN m[i] ELSE m0[i]], c0, p, l, k)
<1> DEFINE new == [i \in 1..b.cap |-> IF i <= from.lim THEN from.mem[i] ELSE b.mem[i]]
           d == [b EXCEPT !.mem = new]
           e == [d EXCEPT !.pos = from.pos]
           f == [e EXCEPT !.mark = from.mark]
<1>0. /\ b.cap = c0 /\ b.mem = m0
      /\ from.pos = p /\ from.mem = m /\ from.lim = l /\ from.mark = k
  BY DEF BfRec
<1>1. new = [i \in 1..c0 |-> IF i <= l THEN m[i] ELSE m0[i]]
  BY <1>0
<1> HIDE DEF new
<1>2. d = BfRec(new, c0, p0, l0, k0)
  BY DEF BfRec
<1> HIDE DEF d
<1>3. e = BfRec(new, c0, p, l0, k0)
  BY <1>0, <1>2 DEF BfRec
<1> HIDE DEF e
<1>4. f = BfRec(new, c0, p, l0, k)
  BY <1>0, <1>3 DEF BfRec
<1> HIDE DEF f
<1>5. [f EXCEPT !.lim = from.lim] = BfRec(new, c0, p, l, k)
  BY <1>0, <1>4 DEF BfRec
<1>6. ~(from.lim > b.cap)
  BY <1>0
<1> QED
  BY <1>1, <1>5, <1>6 DEF BuCopyOf, d, e, f, new

LEMMA BfPack ==
  ASSUME NEW m, NEW c, NEW p, NEW l, NEW k, NEW log, NEW n, NEW mode, NEW marked,
         BfCells(m, c, log, n), BfOrder(c, p, l, k, n, mode, marked)
  PROVE  BfWell(BfRec(m, c, p, l, k), log, mode, marked)
  BY Zenon DEF BfWell

\* A log cut at a position.
LEMMA BfFront ==
  ASSUME NEW m, NEW c, NEW log, NEW n \in Nat, BfCells(m, c, log, n), NEW p \in Nat, p <= n
  PROVE  BfCells(m, c, SubSeq(log, 1, p), p)
<1>1. /\ m \in Seq(Nat) /\ Len(m) = c
      /\ log \in Seq(Nat) /\ p <= Len(log)
      /\ \A i \in 1..p : m[i] = log[i]
  BY DEF BfCells
<1>2. log \in Seq(Nat) /\ p <= Len(log)
  BY <1>1
<1>3. /\ SubSeq(log, 1, p) \in Seq(Nat) /\ Len(SubSeq(log, 1, p)) = p
      /\ \A i \in 1..p : SubSeq(log, 1, p)[i] = log[i]
  BY <1>2, FrontOf, Zenon
<1> QED
  BY <1>1, <1>3, Zenon DEF BfCells

\* A new array of cells of which the first are items.
LEMMA BfNew ==
  ASSUME NEW cells \in Seq(Nat), NEW log \in Seq(Nat), Len(log) <= Len(cells),
         \A i \in 1..Len(log) : cells[i] = log[i]
  PROVE  BfWell(BuNew(cells, Len(log)), log, "write", TRUE)
<1>1. PICK n, c : n = Len(log) /\ c = Len(cells)
  OBVIOUS
<1>2. BfCells(cells, c, log, n)
  BY <1>1 DEF BfCells
<1>3. n \in Nat /\ c \in Nat /\ n <= c
  BY <1>1
<1>4. BfOrder(c, n, c, n, n, "write", TRUE)
  BY <1>3 DEF BfOrder
<1>5. BuNew(cells, Len(log)) = BfRec(cells, c, n, c, n)
  BY <1>1, Zenon DEF BuNew, BfRec
<1> QED
  BY <1>2, <1>4, <1>5, BfPack, Zenon

\* put() and fill(): the log is cut at the position and goes on with what is
\* stored there.
LEMMA BfStores ==
  ASSUME NEW b, NEW log, NEW marked, BfWell(b, log, "write", marked),
         NEW s \in Seq(Nat), b.pos + Len(s) <= b.lim
  PROVE  /\ BfWell(BuStored(b, s), SubSeq(log, 1, b.pos) \o s, "write", marked)
         /\ BuStored(b, s).cap = b.cap
         /\ BuStored(b, s).pos = b.pos + Len(s)
<1>1. PICK m, c, p, l, k, n : /\ b = BfRec(m, c, p, l, k)
                              /\ BfCells(m, c, log, n)
                              /\ BfOrder(c, p, l, k, n, "write", marked)
  BY Zenon DEF BfWell
<1>2. PICK w \in Nat : w = Len(s)
  OBVIOUS
<1>3. b.pos = p /\ b.lim = l /\ b.cap = c
  BY <1>1, BfFields
<1>4. /\ p + w <= l /\ p + w <= c /\ p <= n
      /\ c \in Nat /\ p \in Nat /\ n \in Nat /\ p + w \in Nat
  BY <1>1, <1>2, <1>3 DEF BfOrder
<1> DEFINE new == [i \in 1..c |-> IF i \in (p + 1)..(p + w) THEN s[i - p] ELSE m[i]]
<1>5. BuStored(b, s) = BfRec(new, c, p + w, l, k)
  BY <1>1, <1>2, BfStoresAt
<1>6. BfCells(new, c, SubSeq(log, 1, p) \o s, p + w)
  <2>1. \A i \in 1..c : new[i] \in Nat
    <3>1. \A i \in 1..c : m[i] \in Nat
      BY <1>1 DEF BfCells
    <3>2. \A i \in 1..w : s[i] \in Nat
      BY <1>2
    <3> QED
      BY <3>1, <3>2, <1>4, <1>2
  <2>2. new \in Seq(Nat) /\ Len(new) = c
    BY <2>1, <1>4
  <2>3. BfCells(m, c, SubSeq(log, 1, p), p)
    BY <1>1, <1>4, BfFront
  <2>4. PICK front : front = SubSeq(log, 1, p) /\ BfCells(m, c, front, p)
    BY <2>3
  <2>5. front \in Seq(Nat) /\ Len(front) = p /\ \A i \in 1..p : front[i] = m[i]
    BY <2>4 DEF BfCells
  <2>6. PICK all \in Seq(Nat) : /\ all = front \o s /\ Len(all) = p + w
                                /\ \A i \in 1..p : all[i] = front[i]
                                /\ \A i \in (p + 1)..(p + w) : all[i] = s[i - p]
    <3>1. /\ front \in Seq(Nat) /\ s \in Seq(Nat) /\ p \in Nat /\ w \in Nat
          /\ Len(front) = p /\ Len(s) = w
      BY <1>2, <1>4, <2>5, Zenon
    <3>2. front \o s \in Seq(Nat)
      BY ONLY <3>1, Joined
    <3>3. Len(front \o s) = p + w
      BY ONLY <3>1, Joined, SMTT(30)
    <3>4. \A i \in 1..p : (front \o s)[i] = front[i]
      BY ONLY <3>1, Joined
    <3>5. \A i \in (p + 1)..(p + w) : (front \o s)[i] = s[i - p]
      BY ONLY <3>1, Joined, SMTT(30)
    <3> QED
      BY <3>2, <3>3, <3>4, <3>5, Zenon
  <2>7. \A i \in 1..(p + w) : new[i] = all[i]
    <3> SUFFICES ASSUME NEW i \in 1..(p + w)
                 PROVE  new[i] = all[i]
      OBVIOUS
    <3>1. i \in 1..c /\ (i \in 1..p \/ i \in (p + 1)..(p + w))
          /\ (i \in 1..p => i \notin (p + 1)..(p + w))
      BY <1>4, <1>2
    <3> QED
      BY <3>1, <2>5, <2>6
  <2> HIDE DEF new
  <2>8. BfCells(new, c, all, p + w)
    BY <2>2, <2>6, <2>7 DEF BfCells
  <2> QED
    BY <2>4, <2>6, <2>8
<1> HIDE DEF new
<1>7. BfOrder(c, p + w, l, k, p + w, "write", marked)
  BY <1>1, <1>2, <1>4 DEF BfOrder
<1>8. BfWell(BfRec(new, c, p + w, l, k), SubSeq(log, 1, p) \o s, "write", marked)
  BY <1>6, <1>7, BfPack, Zenon
<1>9. BfRec(new, c, p + w, l, k).cap = c /\ BfRec(new, c, p + w, l, k).pos = p + w
  BY BfFields
<1> QED
  BY <1>2, <1>3, <1>5, <1>8, <1>9, Zenon

\* flip() and reserve(): the log is cut at the position.
LEMMA BfCut ==
  ASSUME NEW b, NEW log, NEW marked, BfWell(b, log, "write", marked)
  PROVE  /\ BfWell(BuFlip(b), SubSeq(log, 1, b.pos), "read", TRUE)
         /\ BuFlip(b).cap = b.cap
         /\ \A r \in Nat : r <= b.cap - b.pos =>
              /\ BfWell(BuReserve(b, r), SubSeq(log, 1, b.pos), "write", b.mark <= b.cap - r)
              /\ BuReserve(b, r).cap = b.cap
<1>1. PICK m, c, p, l, k, n : /\ b = BfRec(m, c, p, l, k)
                              /\ BfCells(m, c, log, n)
                              /\ BfOrder(c, p, l, k, n, "write", marked)
  BY Zenon DEF BfWell
<1>2. b.pos = p /\ b.lim = l /\ b.cap = c /\ b.mark = k
  BY <1>1, BfFields
<1>3. BfCells(m, c, SubSeq(log, 1, p), p)
  BY <1>1, BfFront DEF BfOrder
<1>4. BfWell(BuFlip(b), SubSeq(log, 1, b.pos), "read", TRUE) /\ BuFlip(b).cap = b.cap
  <2>1. BuFlip(b) = BfRec(m, c, 0, p, 0)
    BY <1>1, BfFlips, ZenonT(60)
  <2>2. BfOrder(c, 0, p, 0, p, "read", TRUE)
    BY <1>1 DEF BfOrder
  <2>9. BfWell(BfRec(m, c, 0, p, 0), SubSeq(log, 1, p), "read", TRUE)
    BY <1>3, <2>2, BfPack, Zenon
  <2> QED
    <3>1. BfRec(m, c, 0, p, 0).cap = c
      BY DEF BfRec
    <3> QED
      BY <1>2, <2>1, <2>9, <3>1, Zenon
<1>5. ASSUME NEW r \in Nat, r <= b.cap - b.pos
      PROVE  /\ BfWell(BuReserve(b, r), SubSeq(log, 1, b.pos), "write", b.mark <= b.cap - r)
             /\ BuReserve(b, r).cap = b.cap
  <2>1. BuReserve(b, r) = BfRec(m, c, p, c - r, k)
    BY <1>1, BfSetOne
  <2>2. BfOrder(c, p, c - r, k, p, "write", k <= c - r)
    BY <1>1, <1>2, <1>5 DEF BfOrder
  <2> QED
    BY <1>2, <1>3, <2>1, <2>2, BfPack, BfFields
<1> QED
  BY <1>4, <1>5

\* Calls that move the pointers and leave the items alone.
LEMMA BfMoves ==
  ASSUME NEW b, NEW log, NEW mode, NEW marked, BfWell(b, log, mode, marked)
  PROVE  /\ BfWell(BuMark(b), log, mode, TRUE) /\ BuMark(b).cap = b.cap
         /\ BfWell(BuRewind(b), log, mode, TRUE) /\ BuRewind(b).cap = b.cap
         /\ marked => BfWell(BuReset(b), log, mode, marked) /\ BuReset(b).cap = b.cap
         /\ \A r \in Nat : /\ BuClear(b, r).cap = b.cap
                           /\ BfWell(BuClear(b, r), << >>, "write", TRUE)
         /\ \A r \in Nat : /\ BuGet(b, r).cap = b.cap
                           /\ mode = "read" => BfWell(BuGet(b, r), log, mode, marked)
<1>1. PICK m, c, p, l, k, n : /\ b = BfRec(m, c, p, l, k)
                              /\ BfCells(m, c, log, n)
                              /\ BfOrder(c, p, l, k, n, mode, marked)
  BY Zenon DEF BfWell
<1>2. b.pos = p /\ b.lim = l /\ b.cap = c /\ b.mark = k
  BY <1>1, BfFields
<1>3. BfWell(BuMark(b), log, mode, TRUE) /\ BuMark(b).cap = b.cap
  <2>1. BuMark(b) = BfRec(m, c, p, l, p)
    BY <1>1, BfSetOne
  <2>2. BfOrder(c, p, l, p, n, mode, TRUE)
    BY <1>1 DEF BfOrder
  <2>3. BfWell(BfRec(m, c, p, l, p), log, mode, TRUE)
    BY <1>1, <2>2, BfPack, Zenon
  <2> QED
    <3>1. BfRec(m, c, p, l, p).cap = c
      BY DEF BfRec
    <3> QED
      BY <1>2, <2>1, <2>3, <3>1, Zenon
<1>4. BfWell(BuRewind(b), log, mode, TRUE) /\ BuRewind(b).cap = b.cap
  <2>1. BuRewind(b) = BfRec(m, c, 0, l, 0)
    BY <1>1, BfRewinds, ZenonT(60)
  <2>2. BfOrder(c, 0, l, 0, n, mode, TRUE)
    BY <1>1 DEF BfOrder
  <2>3. BfWell(BfRec(m, c, 0, l, 0), log, mode, TRUE)
    BY <1>1, <2>2, BfPack, Zenon
  <2> QED
    <3>1. BfRec(m, c, 0, l, 0).cap = c
      BY DEF BfRec
    <3> QED
      BY <1>2, <2>1, <2>3, <3>1, Zenon
<1>5. ASSUME marked
      PROVE  BfWell(BuReset(b), log, mode, marked) /\ BuReset(b).cap = b.cap
  <2>1. BuReset(b) = BfRec(m, c, k, l, k)
    BY <1>1, BfSetOne
  <2>2. BfOrder(c, k, l, k, n, mode, marked)
    BY <1>1, <1>5 DEF BfOrder
  <2> QED
    BY <1>1, <1>2, <2>1, <2>2, BfPack, BfFields
<1>6. ASSUME NEW r \in Nat
      PROVE  BuClear(b, r).cap = b.cap /\ BfWell(BuClear(b, r), << >>, "write", TRUE)
  <2>1. PICK q : q = (IF r > c THEN c ELSE r)
    OBVIOUS
  <2>2. BuClear(b, r) = BfRec(m, c, 0, q, 0)
    BY <1>1, <2>1, BfClears
  <2>3. BfOrder(c, 0, q, 0, 0, "write", TRUE)
    BY <1>1, <2>1 DEF BfOrder
  <2>4. BfCells(m, c, << >>, 0)
    BY <1>1 DEF BfCells
  <2>5. BfWell(BfRec(m, c, 0, q, 0), << >>, "write", TRUE)
    BY <2>3, <2>4, BfPack, Zenon
  <2> QED
    <3>1. BfRec(m, c, 0, q, 0).cap = c
      BY DEF BfRec
    <3> QED
      BY <1>2, <2>2, <2>5, <3>1, Zenon
<1>7. ASSUME NEW r \in Nat
      PROVE  /\ BuGet(b, r).cap = b.cap
             /\ mode = "read" => BfWell(BuGet(b, r), log, mode, marked)
  <2>1. CASE p + r <= l
    <3>1. BuGet(b, r) = BfRec(m, c, p + r, l, k)
      <4>1. BuGet(b, r) = BuMoved(b, r)
        BY <1>2, <2>1 DEF BuGet, BuFits
      <4> QED
        BY <1>1, <4>1, BfSetOne
    <3>2. mode = "read" => BfOrder(c, p + r, l, k, n, mode, marked)
      BY <1>1, <2>1 DEF BfOrder
    <3> QED
      BY <1>1, <1>2, <3>1, <3>2, BfPack, BfFields
  <2>2. CASE ~(p + r <= l)
    BY <1>2, <2>2 DEF BuGet, BuFits
  <2> QED
    BY <2>1, <2>2
<1> QED
  BY <1>3, <1>4, <1>5, <1>6, <1>7

\* compact(): the rest of the log moves to the front with the cells.
LEMMA BfCompacts ==
  ASSUME NEW b, NEW log, NEW marked, BfWell(b, log, "read", marked)
  PROVE  /\ BfWell(BuCompact(b), SubSeq(log, b.pos + 1, Len(log)), "read", marked /\ b.pos = 0)
         /\ BuCompact(b).cap = b.cap
<1>1. PICK m, c, p, l, k, n : /\ b = BfRec(m, c, p, l, k)
                              /\ BfCells(m, c, log, n)
                              /\ BfOrder(c, p, l, k, n, "read", marked)
  BY Zenon DEF BfWell
<1>2. b.pos = p /\ b.lim = l /\ b.cap = c /\ Len(log) = n
  BY <1>1, BfFields DEF BfCells
<1>3. PICK a \in Nat : a = l - p /\ a <= c /\ p + a = n /\ n <= c /\ p \in Nat /\ c \in Nat
  BY <1>1 DEF BfOrder
<1> DEFINE new == [i \in 1..c |-> IF i <= a THEN m[p + i] ELSE m[i]]
<1>4. BuCompact(b) = BfRec(new, c, 0, a, k)
  BY <1>1, <1>3, BfCompactsTo
<1>5. BfCells(new, c, SubSeq(log, p + 1, n), a)
  <2>1. \A i \in 1..c : new[i] \in Nat
    <3>1. \A i \in 1..c : m[i] \in Nat
      BY <1>1 DEF BfCells
    <3>2. \A i \in 1..c : i <= a => p + i \in 1..c
      BY <1>3
    <3> QED
      BY <3>1, <3>2
  <2>2. new \in Seq(Nat) /\ Len(new) = c
    BY <2>1, <1>3
  <2>3. PICK rest \in Seq(Nat) : /\ rest = SubSeq(log, p + 1, n) /\ Len(rest) = a
                                 /\ \A i \in 1..a : rest[i] = log[p + i]
    <3>1. log \in Seq(Nat) /\ Len(log) = n
      BY <1>1, Zenon DEF BfCells
    <3>2. p + a = Len(log)
      BY <3>1, <1>3
    <3> QED
      <4>1. /\ SubSeq(log, p + 1, Len(log)) \in Seq(Nat) /\ Len(SubSeq(log, p + 1, Len(log))) = a
            /\ \A i \in 1..a : SubSeq(log, p + 1, Len(log))[i] = log[p + i]
        BY <3>1, <3>2, <1>3, BackOf, SMTT(30)
      <4> QED
        BY <3>1, <4>1, Zenon
  <2>4. \A i \in 1..a : new[i] = rest[i]
    <3> SUFFICES ASSUME NEW i \in 1..a
                 PROVE  new[i] = rest[i]
      OBVIOUS
    <3>1. i \in 1..c /\ p + i \in 1..n /\ i <= a
      BY <1>3
    <3>2. m[p + i] = log[p + i]
      BY <3>1, <1>1 DEF BfCells
    <3> QED
      BY <3>1, <3>2, <2>3
  <2> HIDE DEF new
  <2>5. BfCells(new, c, rest, a)
    BY <2>2, <2>3, <2>4 DEF BfCells
  <2> QED
    BY <2>3, <2>5
<1> HIDE DEF new
<1>6. BfOrder(c, 0, a, k, a, "read", marked /\ p = 0)
  BY <1>1, <1>3 DEF BfOrder
<1> QED
  BY <1>2, <1>4, <1>5, <1>6, BfPack, BfFields

\* deep_copy() into a buffer with room for what is there.
LEMMA BfCopies ==
  ASSUME NEW b, NEW log0, NEW mode0, NEW marked0, BfWell(b, log0, mode0, marked0),
         NEW from, NEW log, NEW mode, NEW marked, BfWell(from, log, mode, marked),
         from.lim <= b.cap
  PROVE  /\ BfWell(BuCopyOf(b, from), log, mode, marked)
         /\ BuCopyOf(b, from).cap = b.cap
<1>1. PICK m, c, p, l, k, n : /\ from = BfRec(m, c, p, l, k)
                              /\ BfCells(m, c, log, n)
                              /\ BfOrder(c, p, l, k, n, mode, marked)
  BY Zenon DEF BfWell
<1>2. PICK m0, c0, p0, l0, k0, n0 : /\ b = BfRec(m0, c0, p0, l0, k0)
                                    /\ BfCells(m0, c0, log0, n0)
                                    /\ BfOrder(c0, p0, l0, k0, n0, mode0, marked0)
  BY Zenon DEF BfWell
<1>3. from.lim = l /\ b.cap = c0
  BY <1>1, <1>2, BfFields
<1>4. /\ c \in Nat /\ c0 \in Nat /\ l \in Nat /\ l <= c /\ l <= c0 /\ ~(l > c0)
      /\ n \in Nat /\ n <= l /\ BfOrder(c0, p, l, k, n, mode, marked)
  BY <1>1, <1>2, <1>3 DEF BfOrder
<1> DEFINE new == [i \in 1..c0 |-> IF i <= l THEN m[i] ELSE m0[i]]
<1>5. BuCopyOf(b, from) = BfRec(new, c0, p, l, k)
  BY <1>1, <1>2, <1>4, BfCopiesTo
<1>6. BfCells(new, c0, log, n)
  <2>1. \A i \in 1..c0 : new[i] \in Nat
    <3>1. \A i \in 1..c : m[i] \in Nat
      BY <1>1 DEF BfCells
    <3>2. \A i \in 1..c0 : m0[i] \in Nat
      BY <1>2 DEF BfCells
    <3>3. \A i \in 1..c0 : i <= l => i \in 1..c
      BY <1>4
    <3> QED
      BY <3>1, <3>2, <3>3
  <2>2. new \in Seq(Nat) /\ Len(new) = c0
    BY <2>1, <1>4
  <2>3. log \in Seq(Nat) /\ Len(log) = n /\ \A i \in 1..n : m[i] = log[i]
    BY <1>1 DEF BfCells
  <2>4. \A i \in 1..n : i \in 1..c0 /\ i <= l
    BY <1>4
  <2>5. \A i \in 1..n : new[i] = log[i]
    BY <2>3, <2>4
  <2> HIDE DEF new
  <2> QED
    BY <2>2, <2>3, <2>5 DEF BfCells
<1> HIDE DEF new
<1> QED
  BY <1>3, <1>4, <1>5, <1>6, BfPack, BfFields

\* One of the two buffers is used, and is left as it should be.
LEMMA BfOne ==
  ASSUME BfInv, NEW o \in BfNames, NEW b, NEW log, NEW mode, NEW marked,
         b.cap >= 0 => BfWell(b, log, mode, marked), o = "fixed" => b.cap = bfBuf[o].cap,
         bfBuf' = [bfBuf EXCEPT ![o] = b], bfLog' = [bfLog EXCEPT ![o] = log],
         bfMode' = [bfMode EXCEPT ![o] = mode], bfMarked' = [bfMarked EXCEPT ![o] = marked],
         bfSent' \in Nat
  PROVE  BfInv'
<1>1. /\ bfBuf = [x \in BfNames |-> bfBuf[x]] /\ bfLog = [x \in BfNames |-> bfLog[x]]
      /\ bfMode = [x \in BfNames |-> bfMode[x]] /\ bfMarked = [x \in BfNames |-> bfMarked[x]]
      /\ \A x \in BfNames :
           bfBuf[x].cap >= 0 => BfWell(bfBuf[x], bfLog[x], bfMode[x], bfMarked[x])
      /\ bfBuf["fixed"].cap = BfFixed
  BY Zenon DEF BfInv, BfUsable
<1>2. /\ bfBuf' = [x \in BfNames |-> bfBuf'[x]] /\ bfLog' = [x \in BfNames |-> bfLog'[x]]
      /\ bfMode' = [x \in BfNames |-> bfMode'[x]] /\ bfMarked' = [x \in BfNames |-> bfMarked'[x]]
  BY <1>1
<1>3. \A x \in BfNames :
        bfBuf'[x].cap >= 0 => BfWell(bfBuf'[x], bfLog'[x], bfMode'[x], bfMarked'[x])
  BY <1>1
<1>4. bfBuf'["fixed"].cap = BfFixed
  BY <1>1 DEF BfNames
<1> QED
  BY <1>2, <1>3, <1>4, Zenon DEF BfInv, BfUsable

\* The same, of actions that leave mode or mark alone.
LEMMA BfSame ==
  ASSUME BfInv, NEW o \in BfNames, BfUsable(o)
  PROVE  /\ bfMode = [bfMode EXCEPT ![o] = bfMode[o]]
         /\ bfMarked = [bfMarked EXCEPT ![o] = bfMarked[o]]
         /\ bfLog = [bfLog EXCEPT ![o] = bfLog[o]]
         /\ bfBuf = [bfBuf EXCEPT ![o] = bfBuf[o]]
         /\ BfWell(bfBuf[o], bfLog[o], bfMode[o], bfMarked[o])
<1>1. /\ bfBuf = [x \in BfNames |-> bfBuf[x]] /\ bfLog = [x \in BfNames |-> bfLog[x]]
      /\ bfMode = [x \in BfNames |-> bfMode[x]] /\ bfMarked = [x \in BfNames |-> bfMarked[x]]
      /\ BfWell(bfBuf[o], bfLog[o], bfMode[o], bfMarked[o])
  BY Zenon DEF BfInv
<1> QED
  BY <1>1

\* A buffer's fields, and what they are to its log.
LEMMA BfHasFields ==
  ASSUME NEW b, NEW log, NEW mode, NEW marked, BfWell(b, log, mode, marked)
  PROVE  /\ b.pos \in Nat /\ b.lim \in Nat /\ b.cap \in Nat /\ b.mark \in Nat
         /\ b.pos <= b.lim /\ b.lim <= b.cap
         /\ b.pos <= Len(log) /\ log \in Seq(Nat)
         /\ marked => b.mark <= b.pos
         /\ \A i \in 1..Len(log) : b.mem[i] = log[i]
         /\ mode = "read" => Len(log) = b.lim
         /\ mode \in {"read", "write"} /\ marked \in BOOLEAN
<1>1. PICK m, c, p, l, k, n : /\ b = BfRec(m, c, p, l, k)
                              /\ BfCells(m, c, log, n)
                              /\ BfOrder(c, p, l, k, n, mode, marked)
  BY Zenon DEF BfWell
<1>2. b.mem = m /\ b.pos = p /\ b.lim = l /\ b.cap = c /\ b.mark = k
  BY <1>1, BfFields
<1>3. Len(log) = n /\ log \in Seq(Nat) /\ \A i \in 1..n : m[i] = log[i]
  BY <1>1, Zenon DEF BfCells
<1>4. /\ p \in Nat /\ l \in Nat /\ c \in Nat /\ k \in Nat /\ n \in Nat
      /\ p <= l /\ l <= c /\ p <= n
      /\ marked => k <= p
      /\ mode = "read" => n = l
      /\ mode \in {"read", "write"} /\ marked \in BOOLEAN
  BY <1>1 DEF BfOrder
<1> QED
  BY <1>2, <1>3, <1>4, Zenon

LEMMA BfStart == BfInit => BfInv
<1> SUFFICES ASSUME BfInit
             PROVE  BfInv
  OBVIOUS
<1>1. \A n \in Nat : BfJunk(n) \in Seq(Nat) /\ Len(BfJunk(n)) = n
  BY DEF BfJunk
<1>2. << >> \in Seq(Nat) /\ Len(<< >>) = 0
  OBVIOUS
<1>3. \A n \in Nat : BfWell(BuNew(BfJunk(n), 0), << >>, "write", TRUE)
  <2> SUFFICES ASSUME NEW n \in Nat
               PROVE  BfWell(BuNew(BfJunk(n), 0), << >>, "write", TRUE)
    OBVIOUS
  <2>1. /\ BfJunk(n) \in Seq(Nat) /\ Len(<< >>) <= Len(BfJunk(n))
        /\ \A i \in 1..Len(<< >>) : BfJunk(n)[i] = << >>[i]
    BY <1>1, <1>2
  <2>2. BfWell(BuNew(BfJunk(n), Len(<< >>)), << >>, "write", TRUE)
    BY <1>2, <2>1, BfNew, Zenon
  <2> QED
    BY <1>2, <2>2, Zenon
<1>4. \A n \in Nat : BuNew(BfJunk(n), 0).cap = n
  BY <1>1 DEF BuNew
<1>5. BfFixed \in Nat
  BY BfBounds
<1>6. \A o \in BfNames : BfWell(bfBuf[o], bfLog[o], bfMode[o], bfMarked[o])
  BY <1>3, <1>5 DEF BfInit
<1>7. bfBuf["fixed"].cap = BfFixed
  BY <1>4, <1>5 DEF BfInit, BfNames
<1>8. /\ bfSent \in Nat
      /\ bfBuf = [o \in BfNames |-> bfBuf[o]] /\ bfLog = [o \in BfNames |-> bfLog[o]]
      /\ bfMode = [o \in BfNames |-> bfMode[o]] /\ bfMarked = [o \in BfNames |-> bfMarked[o]]
  BY DEF BfInit
<1> QED
  BY <1>6, <1>7, <1>8, Zenon DEF BfInv

\* Each operation keeps the invariant.
LEMMA BfKept == BfInv /\ [BfNext]_bfVars => BfInv'
<1> SUFFICES ASSUME BfInv, [BfNext]_bfVars
             PROVE  BfInv'
  OBVIOUS
<1> "heap" \in BfNames /\ "fixed" \in BfNames /\ "heap" # "fixed"
  BY DEF BfNames
<1>0. bfSent \in Nat /\ bfBuf["fixed"].cap = BfFixed
  BY DEF BfInv
<1> BfUsable("fixed")
  BY <1>0, BfBounds DEF BfUsable
<1>1. \A n \in Nat : /\ BfJunk(n) \in Seq(Nat) /\ Len(BfJunk(n)) = n
                     /\ BfWell(BuNew(BfJunk(n), 0), << >>, "write", TRUE)
  <2>1. \A n \in Nat : BfJunk(n) \in Seq(Nat) /\ Len(BfJunk(n)) = n
    BY DEF BfJunk
  <2>2. << >> \in Seq(Nat) /\ Len(<< >>) = 0
    OBVIOUS
  <2>3. ASSUME NEW n \in Nat
        PROVE  BfWell(BuNew(BfJunk(n), 0), << >>, "write", TRUE)
    <3>1. /\ BfJunk(n) \in Seq(Nat) /\ Len(<< >>) <= Len(BfJunk(n))
          /\ \A i \in 1..Len(<< >>) : BfJunk(n)[i] = << >>[i]
      BY <2>1, <2>2
    <3>2. BfWell(BuNew(BfJunk(n), Len(<< >>)), << >>, "write", TRUE)
      BY <2>2, <3>1, BfNew, Zenon
    <3> QED
      BY <2>2, <3>2, Zenon
  <2> QED
    BY <2>1, <2>3
<1>2. ASSUME NEW c \in 0..BfMaxCap, BfResize(c)
      PROVE  BfInv'
  <2>1. c \in Nat
    OBVIOUS
  <2>2. /\ bfBuf' = [bfBuf EXCEPT !["heap"] = BuNew(BfJunk(c), 0)]
        /\ bfLog' = [bfLog EXCEPT !["heap"] = << >>]
        /\ bfMode' = [bfMode EXCEPT !["heap"] = "write"]
        /\ bfMarked' = [bfMarked EXCEPT !["heap"] = TRUE]
        /\ bfSent' = bfSent
    BY <1>2, Zenon DEF BfResize, BfFresh
  <2> QED
    BY <1>0, <1>1, <2>1, <2>2, BfOne, Zenon
<1>3. ASSUME NEW c \in 0..BfMaxCap, BfAssign(c)
      PROVE  BfInv'
  <2> DEFINE cells == [i \in 1..c |-> IF i = 1 THEN bfSent + 1 ELSE 0]
             log == <<bfSent + 1>>
  <2>1. /\ c > 0
        /\ bfBuf' = [bfBuf EXCEPT !["heap"] = BuNew(cells, 1)]
        /\ bfLog' = [bfLog EXCEPT !["heap"] = log]
        /\ bfMode' = [bfMode EXCEPT !["heap"] = "write"]
        /\ bfMarked' = [bfMarked EXCEPT !["heap"] = TRUE]
        /\ bfSent' = bfSent + 1
    BY <1>3, Zenon DEF BfAssign
  <2>2. c \in Nat /\ 1 \in 1..c
    BY <2>1
  <2>3. cells \in Seq(Nat) /\ Len(cells) = c
    BY <1>0, <2>2
  <2>4. log \in Seq(Nat) /\ Len(log) = 1 /\ log[1] = bfSent + 1
    BY <1>0
  <2>5. \A i \in 1..Len(log) : cells[i] = log[i]
    BY <2>2, <2>4
  <2>6. Len(log) <= Len(cells)
    BY <2>2, <2>3, <2>4
  <2> HIDE DEF cells, log
  <2>7. BfWell(BuNew(cells, Len(log)), log, "write", TRUE)
    BY <2>3, <2>4, <2>5, <2>6, BfNew, Zenon
  <2>8. BfWell(BuNew(cells, 1), log, "write", TRUE)
    BY <2>4, <2>7, Zenon
  <2>9. bfSent' \in Nat
    BY <1>0, <2>1
  <2> QED
    BY <2>1, <2>8, <2>9, BfOne, Zenon
<1>4. ASSUME BfDestroy
      PROVE  BfInv'
  <2>1. PICK b \in {BuNew(<< >>, 0), BfGone} :
        /\ bfBuf' = [bfBuf EXCEPT !["heap"] = b]
        /\ bfLog' = [bfLog EXCEPT !["heap"] = << >>]
        /\ bfMode' = [bfMode EXCEPT !["heap"] = "write"]
        /\ bfMarked' = [bfMarked EXCEPT !["heap"] = TRUE]
        /\ bfSent' = bfSent
    BY <1>4 DEF BfDestroy, BfFresh
  <2>2. BfJunk(0) = << >>
    BY DEF BfJunk
  <2>3. BfWell(BuNew(<< >>, 0), << >>, "write", TRUE)
    BY <1>1, <2>2
  <2>4. ~(BfGone.cap >= 0)
    BY BfBounds DEF BfGone
  <2>5. b.cap >= 0 => BfWell(b, << >>, "write", TRUE)
    BY <2>1, <2>3, <2>4
  <2> QED
    BY <1>0, <2>1, <2>5, BfOne, Zenon
<1>5. ASSUME BfCopyFixed
      PROVE  BfInv'
  <2> DEFINE new == BuNew(BfJunk(bfBuf["fixed"].cap), 0)
  <2>1. /\ bfBuf' = [bfBuf EXCEPT !["heap"] = BuCopyOf(new, bfBuf["fixed"])]
        /\ bfLog' = [bfLog EXCEPT !["heap"] = bfLog["fixed"]]
        /\ bfMode' = [bfMode EXCEPT !["heap"] = bfMode["fixed"]]
        /\ bfMarked' = [bfMarked EXCEPT !["heap"] = bfMarked["fixed"]]
        /\ bfSent' = bfSent
    BY <1>5, Zenon DEF BfCopyFixed, BfCopied
  <2>2. BfWell(bfBuf["fixed"], bfLog["fixed"], bfMode["fixed"], bfMarked["fixed"])
    BY BfSame
  <2>3. bfBuf["fixed"].cap \in Nat /\ bfBuf["fixed"].lim <= bfBuf["fixed"].cap
    BY <2>2, BfHasFields, Zenon
  <2>4. BfWell(new, << >>, "write", TRUE)
    BY <1>1, <2>3
  <2>5. new.cap = bfBuf["fixed"].cap
    BY <1>1, <2>3 DEF BuNew
  <2> HIDE DEF new
  <2>6. bfBuf["fixed"].lim <= new.cap
    BY <2>3, <2>5
  <2>7. BfWell(BuCopyOf(new, bfBuf["fixed"]), bfLog["fixed"], bfMode["fixed"], bfMarked["fixed"])
    BY <2>2, <2>4, <2>6, BfCopies, Zenon
  <2> QED
    BY <1>0, <2>1, <2>7, BfOne, Zenon
<1>6. ASSUME BfCopyHeap
      PROVE  BfInv'
  <2> BfUsable("heap")
    BY <1>6 DEF BfCopyHeap
  <2>1. /\ bfBuf' = [bfBuf EXCEPT !["fixed"] = BuCopyOf(bfBuf["fixed"], bfBuf["heap"])]
        /\ IF bfBuf["heap"].lim <= BfFixed
           THEN /\ bfLog' = [bfLog EXCEPT !["fixed"] = bfLog["heap"]]
                /\ bfMode' = [bfMode EXCEPT !["fixed"] = bfMode["heap"]]
                /\ bfMarked' = [bfMarked EXCEPT !["fixed"] = bfMarked["heap"]]
                /\ bfSent' = bfSent
           ELSE UNCHANGED <<bfLog, bfMode, bfMarked, bfSent>>
    BY <1>6 DEF BfCopyHeap, BfCopied
  <2>2. /\ BfWell(bfBuf["fixed"], bfLog["fixed"], bfMode["fixed"], bfMarked["fixed"])
        /\ BfWell(bfBuf["heap"], bfLog["heap"], bfMode["heap"], bfMarked["heap"])
    BY BfSame
  <2>3. CASE bfBuf["heap"].lim <= BfFixed
    <3>1. /\ BfWell(BuCopyOf(bfBuf["fixed"], bfBuf["heap"]),
                    bfLog["heap"], bfMode["heap"], bfMarked["heap"])
          /\ BuCopyOf(bfBuf["fixed"], bfBuf["heap"]).cap = bfBuf["fixed"].cap
      <4>1. bfBuf["heap"].lim <= bfBuf["fixed"].cap
        BY <1>0, <2>3
      <4> QED
        BY <2>2, <4>1, BfCopies, Zenon
    <3>2. /\ bfLog' = [bfLog EXCEPT !["fixed"] = bfLog["heap"]]
          /\ bfMode' = [bfMode EXCEPT !["fixed"] = bfMode["heap"]]
          /\ bfMarked' = [bfMarked EXCEPT !["fixed"] = bfMarked["heap"]]
          /\ bfSent' \in Nat
      BY <1>0, <2>1, <2>3
    <3> QED
      BY <2>1, <3>1, <3>2, BfOne, Zenon
  <2>4. CASE ~(bfBuf["heap"].lim <= BfFixed)
    <3>1. bfBuf["heap"].lim \in Nat /\ bfBuf["fixed"].cap \in Nat
      BY <2>2, BfHasFields, Zenon
    <3>2. bfBuf["heap"].lim > bfBuf["fixed"].cap
      BY <1>0, <2>4, <3>1
    <3>3. BuCopyOf(bfBuf["fixed"], bfBuf["heap"]) = bfBuf["fixed"]
      BY <3>2 DEF BuCopyOf
    <3>4. UNCHANGED <<bfLog, bfMode, bfMarked, bfSent>>
      BY <2>1, <2>4
    <3>5. /\ bfLog' = [bfLog EXCEPT !["fixed"] = bfLog["fixed"]]
          /\ bfMode' = [bfMode EXCEPT !["fixed"] = bfMode["fixed"]]
          /\ bfMarked' = [bfMarked EXCEPT !["fixed"] = bfMarked["fixed"]]
          /\ bfBuf' = [bfBuf EXCEPT !["fixed"] = bfBuf["fixed"]]
          /\ bfSent' \in Nat
      BY <1>0, <2>1, <3>3, <3>4, BfSame, Zenon
    <3> QED
      BY <2>2, <3>5, BfOne, Zenon
  <2> QED
    BY <2>3, <2>4
<1>7. ASSUME NEW o \in BfNames, NEW n \in 1..BfMaxCap, BfPut(o, n)
      PROVE  BfInv'
  <2> BfUsable(o)
    BY <1>7, Zenon DEF BfPut, BfUse
  <2> DEFINE b == BuPut(bfBuf[o], BfItems(n))
  <2>0. n \in Nat /\ n > 0 /\ BfItems(n) \in Seq(Nat) /\ Len(BfItems(n)) = n
    BY <1>0 DEF BfItems
  <2>1. BfWell(bfBuf[o], bfLog[o], "write", bfMarked[o]) /\ bfMode[o] = "write"
    BY <1>7, BfSame DEF BfPut
  <2>2. /\ bfBuf' = [bfBuf EXCEPT ![o] = b]
        /\ bfLog' = [bfLog EXCEPT ![o] = IF b.pos = bfBuf[o].pos THEN bfLog[o]
                                ELSE SubSeq(bfLog[o], 1, bfBuf[o].pos) \o BfItems(n)]
        /\ bfMode' = [bfMode EXCEPT ![o] = "write"]
        /\ bfMarked' = [bfMarked EXCEPT ![o] = bfMarked[o]]
        /\ bfSent' \in Nat
    <3>1. /\ bfMode' = bfMode /\ bfMarked' = bfMarked /\ bfSent' = bfSent + n
          /\ bfBuf' = [bfBuf EXCEPT ![o] = b]
          /\ bfLog' = [bfLog EXCEPT ![o] = IF b.pos = bfBuf[o].pos THEN bfLog[o]
                                ELSE SubSeq(bfLog[o], 1, bfBuf[o].pos) \o BfItems(n)]
      BY <1>7, Zenon DEF BfPut, BfUse
    <3>2. bfSent' \in Nat
      BY <1>0, <2>0, <3>1
    <3> QED
      BY <2>1, <3>1, <3>2, BfSame, Zenon
  <2>3. CASE BuFits(bfBuf[o], n)
    <3>1. b = BuStored(bfBuf[o], BfItems(n)) /\ bfBuf[o].pos + n <= bfBuf[o].lim
      BY <2>0, <2>3 DEF BuPut, BuFits
    <3> HIDE DEF b
    <3>2. /\ BfWell(b, SubSeq(bfLog[o], 1, bfBuf[o].pos) \o BfItems(n), "write", bfMarked[o])
          /\ b.cap = bfBuf[o].cap /\ b.pos = bfBuf[o].pos + n
      BY <2>0, <2>1, <3>1, BfStores
    <3>3. b.pos # bfBuf[o].pos
      <4>1. bfBuf[o].pos \in Nat
        BY <2>1, BfHasFields, Zenon
      <4> QED
        BY <4>1, <2>0, <3>2
    <3>4. bfLog' = [bfLog EXCEPT ![o] = SubSeq(bfLog[o], 1, bfBuf[o].pos) \o BfItems(n)]
      BY <2>2, <3>3
    <3> QED
      BY <2>2, <3>2, <3>4, BfOne, Zenon
  <2>4. CASE ~BuFits(bfBuf[o], n)
    <3>1. b = bfBuf[o]
      BY <2>0, <2>4 DEF BuPut
    <3> HIDE DEF b
    <3>2. bfLog' = [bfLog EXCEPT ![o] = bfLog[o]]
      BY <2>2, <3>1
    <3> QED
      BY <2>1, <2>2, <3>1, <3>2, BfOne, Zenon
  <2> QED
    BY <2>3, <2>4
<1>8. ASSUME NEW o \in BfNames, BfFill(o)
      PROVE  BfInv'
  <2> BfUsable(o)
    BY <1>8, Zenon DEF BfFill, BfUse
  <2> DEFINE s == [i \in 1..BuAvailable(bfBuf[o]) |-> bfSent + 1]
  <2>1. BfWell(bfBuf[o], bfLog[o], "write", bfMarked[o]) /\ bfMode[o] = "write"
    BY <1>8, BfSame DEF BfFill
  <2>2. /\ bfBuf[o].pos \in Nat /\ bfBuf[o].lim \in Nat /\ bfBuf[o].pos <= bfBuf[o].lim
    BY <2>1, BfHasFields, Zenon
  <2>3. /\ BuAvailable(bfBuf[o]) \in Nat
        /\ bfBuf[o].pos + BuAvailable(bfBuf[o]) <= bfBuf[o].lim
    BY <2>2 DEF BuAvailable
  <2>4. s \in Seq(Nat) /\ Len(s) = BuAvailable(bfBuf[o])
    BY <1>0, <2>3
  <2>5. /\ bfBuf' = [bfBuf EXCEPT ![o] = BuStored(bfBuf[o], s)]
        /\ bfLog' = [bfLog EXCEPT ![o] = SubSeq(bfLog[o], 1, bfBuf[o].pos) \o s]
        /\ bfMode' = bfMode /\ bfMarked' = bfMarked /\ bfSent' = bfSent + 1
    BY <1>8, Zenon DEF BfFill, BfUse, BuFill
  <2> HIDE DEF s
  <2>6. /\ BfWell(BuStored(bfBuf[o], s), SubSeq(bfLog[o], 1, bfBuf[o].pos) \o s, "write", bfMarked[o])
        /\ BuStored(bfBuf[o], s).cap = bfBuf[o].cap
    BY <2>1, <2>3, <2>4, BfStores
  <2>7. /\ bfMode' = [bfMode EXCEPT ![o] = "write"]
        /\ bfMarked' = [bfMarked EXCEPT ![o] = bfMarked[o]]
    BY <2>1, <2>5, BfSame, Zenon
  <2>8. bfSent' \in Nat
    BY <1>0, <2>5
  <2> QED
    <3>1. /\ bfBuf' = [bfBuf EXCEPT ![o] = BuStored(bfBuf[o], s)]
          /\ bfLog' = [bfLog EXCEPT ![o] = SubSeq(bfLog[o], 1, bfBuf[o].pos) \o s]
      BY <2>5
    <3> QED
      BY <1>0, <3>1, <2>6, <2>7, <2>8, BfOne, Zenon
<1>9. ASSUME NEW o \in BfNames, NEW n \in 1..BfMaxCap, BfGet(o, n)
      PROVE  BfInv'
  <2> BfUsable(o)
    BY <1>9, Zenon DEF BfGet, BfUse
  <2>1. BfWell(bfBuf[o], bfLog[o], bfMode[o], bfMarked[o]) /\ bfMode[o] = "read"
    BY <1>9, BfSame DEF BfGet
  <2>2. n \in Nat
    OBVIOUS
  <2>3. /\ BfWell(BuGet(bfBuf[o], n), bfLog[o], bfMode[o], bfMarked[o])
        /\ BuGet(bfBuf[o], n).cap = bfBuf[o].cap
    BY <2>1, <2>2, BfMoves, Zenon
  <2>4. /\ bfBuf' = [bfBuf EXCEPT ![o] = BuGet(bfBuf[o], n)]
        /\ bfLog' = [bfLog EXCEPT ![o] = bfLog[o]]
        /\ bfMode' = bfMode /\ bfMarked' = bfMarked /\ bfSent' = bfSent
    BY <1>9, Zenon DEF BfGet, BfUse
  <2>5. /\ bfMode' = [bfMode EXCEPT ![o] = bfMode[o]]
        /\ bfMarked' = [bfMarked EXCEPT ![o] = bfMarked[o]]
    BY <2>4, BfSame, Zenon
  <2> QED
    <3>1. /\ bfBuf' = [bfBuf EXCEPT ![o] = BuGet(bfBuf[o], n)]
          /\ bfLog' = [bfLog EXCEPT ![o] = bfLog[o]] /\ bfSent' \in Nat
      BY <1>0, <2>4
    <3> QED
      BY <1>0, <2>3, <3>1, <2>5, BfOne, Zenon
<1>10. ASSUME NEW o \in BfNames, BfFlip(o)
       PROVE  BfInv'
  <2> BfUsable(o)
    BY <1>10, Zenon DEF BfFlip, BfUse
  <2>1. BfWell(bfBuf[o], bfLog[o], "write", bfMarked[o])
    BY <1>10, BfSame DEF BfFlip
  <2>2. /\ BfWell(BuFlip(bfBuf[o]), SubSeq(bfLog[o], 1, bfBuf[o].pos), "read", TRUE)
        /\ BuFlip(bfBuf[o]).cap = bfBuf[o].cap
    BY <2>1, BfCut, Zenon
  <2>3. /\ bfBuf' = [bfBuf EXCEPT ![o] = BuFlip(bfBuf[o])]
        /\ bfLog' = [bfLog EXCEPT ![o] = SubSeq(bfLog[o], 1, bfBuf[o].pos)]
        /\ bfMode' = [bfMode EXCEPT ![o] = "read"]
        /\ bfMarked' = [bfMarked EXCEPT ![o] = TRUE]
        /\ bfSent' = bfSent
    BY <1>10, Zenon DEF BfFlip, BfUse
  <2> QED
    BY <1>0, <2>2, <2>3, BfOne, Zenon
<1>11. ASSUME NEW o \in BfNames, NEW n \in 1..BfMaxCap, BfClear(o, n)
       PROVE  BfInv'
  <2> BfUsable(o)
    BY <1>11, Zenon DEF BfClear, BfUse
  <2>1. BfWell(bfBuf[o], bfLog[o], bfMode[o], bfMarked[o]) /\ n \in Nat
    BY BfSame
  <2>2. /\ BfWell(BuClear(bfBuf[o], n), << >>, "write", TRUE)
        /\ BuClear(bfBuf[o], n).cap = bfBuf[o].cap
    BY <2>1, BfMoves, Zenon
  <2>3. /\ bfBuf' = [bfBuf EXCEPT ![o] = BuClear(bfBuf[o], n)]
        /\ bfLog' = [bfLog EXCEPT ![o] = << >>]
        /\ bfMode' = [bfMode EXCEPT ![o] = "write"]
        /\ bfMarked' = [bfMarked EXCEPT ![o] = TRUE]
        /\ bfSent' = bfSent
    BY <1>11, Zenon DEF BfClear, BfUse
  <2> QED
    BY <1>0, <2>2, <2>3, BfOne, Zenon
<1>12. ASSUME NEW o \in BfNames, NEW n \in 1..BfMaxCap, BfReserve(o, n)
       PROVE  BfInv'
  <2> BfUsable(o)
    BY <1>12, Zenon DEF BfReserve, BfUse
  <2>1. BfWell(bfBuf[o], bfLog[o], "write", bfMarked[o]) /\ bfMode[o] = "write"
    BY <1>12, BfSame DEF BfReserve
  <2>2. n \in Nat /\ n <= bfBuf[o].cap - bfBuf[o].pos
    BY <1>12 DEF BfReserve
  <2>3. /\ BfWell(BuReserve(bfBuf[o], n), SubSeq(bfLog[o], 1, bfBuf[o].pos), "write",
                  bfBuf[o].mark <= bfBuf[o].cap - n)
        /\ BuReserve(bfBuf[o], n).cap = bfBuf[o].cap
    BY <2>1, <2>2, BfCut, Zenon
  <2>4. /\ bfBuf' = [bfBuf EXCEPT ![o] = BuReserve(bfBuf[o], n)]
        /\ bfLog' = [bfLog EXCEPT ![o] = SubSeq(bfLog[o], 1, bfBuf[o].pos)]
        /\ bfMode' = bfMode
        /\ bfMarked' = [bfMarked EXCEPT ![o] = bfBuf[o].mark <= bfBuf[o].cap - n]
        /\ bfSent' = bfSent
    BY <1>12, Zenon DEF BfReserve, BfUse
  <2>5. bfMode' = [bfMode EXCEPT ![o] = "write"]
    BY <2>1, <2>4, BfSame, Zenon
  <2> QED
    BY <1>0, <2>3, <2>4, <2>5, BfOne, Zenon
<1>13. ASSUME NEW o \in BfNames, BfMark(o)
       PROVE  BfInv'
  <2> BfUsable(o)
    BY <1>13, Zenon DEF BfMark, BfUse
  <2>1. BfWell(bfBuf[o], bfLog[o], bfMode[o], bfMarked[o])
    BY BfSame
  <2>2. /\ BfWell(BuMark(bfBuf[o]), bfLog[o], bfMode[o], TRUE)
        /\ BuMark(bfBuf[o]).cap = bfBuf[o].cap
    BY <2>1, BfMoves, Zenon
  <2>3. /\ bfBuf' = [bfBuf EXCEPT ![o] = BuMark(bfBuf[o])]
        /\ bfLog' = [bfLog EXCEPT ![o] = bfLog[o]]
        /\ bfMode' = bfMode
        /\ bfMarked' = [bfMarked EXCEPT ![o] = TRUE]
        /\ bfSent' = bfSent
    BY <1>13, Zenon DEF BfMark, BfUse
  <2>4. bfMode' = [bfMode EXCEPT ![o] = bfMode[o]]
    BY <2>3, BfSame, Zenon
  <2> QED
    BY <1>0, <2>2, <2>3, <2>4, BfOne, Zenon
<1>14. ASSUME NEW o \in BfNames, BfReset(o)
       PROVE  BfInv'
  <2> BfUsable(o)
    BY <1>14, Zenon DEF BfReset, BfUse
  <2>1. BfWell(bfBuf[o], bfLog[o], bfMode[o], bfMarked[o])
    BY BfSame
  <2>2. /\ BfWell(BuRewind(bfBuf[o]), bfLog[o], bfMode[o], TRUE)
        /\ BuRewind(bfBuf[o]).cap = bfBuf[o].cap
        /\ bfMarked[o] => /\ BfWell(BuReset(bfBuf[o]), bfLog[o], bfMode[o], bfMarked[o])
                          /\ BuReset(bfBuf[o]).cap = bfBuf[o].cap
    <3>1. /\ BfWell(BuRewind(bfBuf[o]), bfLog[o], bfMode[o], TRUE)
          /\ BuRewind(bfBuf[o]).cap = bfBuf[o].cap
      BY <2>1, BfMoves, Zenon
    <3>2. ASSUME bfMarked[o]
          PROVE  BfWell(BuReset(bfBuf[o]), bfLog[o], bfMode[o], bfMarked[o])
      BY <2>1, <3>2, BfMoves, Zenon
    <3>3. ASSUME bfMarked[o]
          PROVE  BuReset(bfBuf[o]).cap = bfBuf[o].cap
      BY <2>1, <3>3, BfMoves, Zenon
    <3> QED
      BY <3>1, <3>2, <3>3, Zenon
  <2>3. bfMode' = [bfMode EXCEPT ![o] = bfMode[o]] /\ bfSent' = bfSent
    BY <1>14, BfSame, Zenon DEF BfReset
  <2>4. CASE bfMarked[o] /\ BfUse(o, BuReset(bfBuf[o]), bfLog[o]) /\ UNCHANGED bfMarked
    <3>1. /\ bfBuf' = [bfBuf EXCEPT ![o] = BuReset(bfBuf[o])]
          /\ bfLog' = [bfLog EXCEPT ![o] = bfLog[o]]
          /\ bfMarked' = [bfMarked EXCEPT ![o] = bfMarked[o]]
      BY <2>4, BfSame, Zenon DEF BfUse
    <3> QED
      BY <1>0, <2>2, <2>3, <2>4, <3>1, BfOne, Zenon
  <2>5. CASE /\ BfUse(o, BuRewind(bfBuf[o]), bfLog[o])
             /\ bfMarked' = [bfMarked EXCEPT ![o] = TRUE]
    <3>1. /\ bfBuf' = [bfBuf EXCEPT ![o] = BuRewind(bfBuf[o])]
          /\ bfLog' = [bfLog EXCEPT ![o] = bfLog[o]]
          /\ bfMarked' = [bfMarked EXCEPT ![o] = TRUE]
      BY <2>5, Zenon DEF BfUse
    <3> QED
      BY <1>0, <2>2, <2>3, <3>1, BfOne, Zenon
  <2> QED
    BY <1>14, <2>4, <2>5, Zenon DEF BfReset
<1>15. ASSUME NEW o \in BfNames, BfCompact(o)
       PROVE  BfInv'
  <2> BfUsable(o)
    BY <1>15, Zenon DEF BfCompact, BfUse
  <2>1. BfWell(bfBuf[o], bfLog[o], "read", bfMarked[o]) /\ bfMode[o] = "read"
    BY <1>15, BfSame DEF BfCompact
  <2>2. /\ BfWell(BuCompact(bfBuf[o]), SubSeq(bfLog[o], bfBuf[o].pos + 1, Len(bfLog[o])), "read",
                  bfMarked[o] /\ bfBuf[o].pos = 0)
        /\ BuCompact(bfBuf[o]).cap = bfBuf[o].cap
    BY <2>1, BfCompacts, Zenon
  <2>3. /\ bfBuf' = [bfBuf EXCEPT ![o] = BuCompact(bfBuf[o])]
        /\ bfLog' = [bfLog EXCEPT ![o] = SubSeq(bfLog[o], bfBuf[o].pos + 1, Len(bfLog[o]))]
        /\ bfMode' = bfMode
        /\ bfMarked' = [bfMarked EXCEPT ![o] = bfMarked[o] /\ bfBuf[o].pos = 0]
        /\ bfSent' = bfSent
    BY <1>15, Zenon DEF BfCompact, BfUse
  <2>4. bfMode' = [bfMode EXCEPT ![o] = "read"]
    BY <2>1, <2>3, BfSame, Zenon
  <2> QED
    BY <1>0, <2>2, <2>3, <2>4, BfOne, Zenon
<1>16. ASSUME UNCHANGED bfVars
       PROVE  BfInv'
  <2>1. /\ bfSent' = bfSent /\ bfBuf' = bfBuf /\ bfLog' = bfLog
        /\ bfMode' = bfMode /\ bfMarked' = bfMarked
    BY <1>16 DEF bfVars
  <2> QED
    BY <2>1, Zenon DEF BfInv, BfUsable
<1> QED
  BY <1>2, <1>3, <1>4, <1>5, <1>6, <1>7, <1>8, <1>9, <1>10, <1>11, <1>12, <1>13, <1>14,
     <1>15, <1>16, Zenon DEF BfNext

\* A Buffer or FixedBuffer (Buffer.h, FixedBuffer.h) that is put to, flipped,
\* read, compacted, marked and copied keeps what was put, in order, and its
\* position, limit and mark stay in order within the memory: for any capacities
\* and any number of items, until a destroy() of memory the buffer does not own
\* and again from the resize(), assign() or assignment after it.
THEOREM BuffersKeep == MCSpec => []BfKeeps
<1>1. MCInit => BfInv
  BY BfStart, Zenon DEF MCInit
<1>2. BfInv /\ [MCNext]_MCVars => BfInv'
  BY BfKept, StepOfPart, Zenon
<1>3. BfInv => BfKeeps
  <2> SUFFICES ASSUME BfInv, NEW o \in BfNames, BfUsable(o)
               PROVE  /\ 0 <= bfBuf[o].pos /\ bfBuf[o].pos <= bfBuf[o].lim
                      /\ bfBuf[o].lim <= bfBuf[o].cap
                      /\ bfMarked[o] => bfBuf[o].mark \in 0..bfBuf[o].lim
                      /\ \A i \in 1..Len(bfLog[o]) : bfBuf[o].mem[i] = bfLog[o][i]
                      /\ bfMode[o] = "read" => Len(bfLog[o]) = bfBuf[o].lim
    BY Zenon DEF BfKeeps, BfPointers, BfHolds
  <2>1. BfWell(bfBuf[o], bfLog[o], bfMode[o], bfMarked[o])
    BY BfSame
  <2>2. /\ bfBuf[o].pos \in Nat /\ bfBuf[o].lim \in Nat /\ bfBuf[o].mark \in Nat
        /\ bfBuf[o].pos <= bfBuf[o].lim /\ bfBuf[o].lim <= bfBuf[o].cap
        /\ bfMarked[o] => bfBuf[o].mark <= bfBuf[o].pos
        /\ \A i \in 1..Len(bfLog[o]) : bfBuf[o].mem[i] = bfLog[o][i]
        /\ bfMode[o] = "read" => Len(bfLog[o]) = bfBuf[o].lim
    BY <2>1, BfHasFields, ZenonT(60)
  <2>3. /\ 0 <= bfBuf[o].pos
        /\ bfMarked[o] => bfBuf[o].mark \in 0..bfBuf[o].lim
    BY <2>2
  <2> QED
    BY <2>2, <2>3, Zenon
<1> QED
  BY <1>1, <1>2, <1>3, PTL DEF MCSpec, MCVars

-----------------------------------------------------------------------------
(* DevBinStream: what a stream of either kind has in its area.             *)

DsOutWell == /\ dsArea \in Seq(Nat) /\ dsDevice \in Seq(Nat)
             /\ dsNext \in Nat /\ dsDone \in Nat
             /\ Len(dsArea) = DsBuf /\ dsNext <= DsBuf
             /\ Len(dsDevice) + dsNext = dsDone
             /\ ~dsShort => /\ \A i \in 1..Len(dsDevice) : dsDevice[i] = i
                            /\ \A i \in 1..dsNext : dsArea[i] = Len(dsDevice) + i

DsInWell == /\ dsDevice \in Seq(Nat) /\ \A i \in 1..Len(dsDevice) : dsDevice[i] = i
            /\ ~dsEof => /\ dsArea \in Seq(Int) /\ dsNext \in Nat /\ dsDone \in Int
                         /\ dsNext <= Len(dsArea)
                         /\ dsDone + Len(dsArea) - dsNext = Len(dsDevice)
                         /\ \A i \in 1..Len(dsArea) :
                              dsArea[i] = Len(dsDevice) - Len(dsArea) + i

DsInv == /\ dsKind \in {"in", "out"}
         /\ dsPending => dsKind = "out"
         /\ dsEof => dsKind = "in"
         /\ dsKind = "out" => DsOutWell
         /\ dsKind = "in" => DsInWell

\* A sequence put behind another.
LEMMA Joins ==
  ASSUME NEW S, NEW s, NEW t, NEW p, NEW w,
         s \in Seq(S), t \in Seq(S), Len(s) = p, Len(t) = w
  PROVE  /\ s \o t \in Seq(S) /\ Len(s \o t) = p + w
         /\ \A i \in 1..p : (s \o t)[i] = s[i]
         /\ \A i \in 1..w : (s \o t)[p + i] = t[i]
<1>1. p \in Nat /\ w \in Nat
  OBVIOUS
<1>2. /\ s \o t \in Seq(S) /\ Len(s \o t) = p + w
      /\ \A i \in 1..p : (s \o t)[i] = s[i]
      /\ \A i \in (p + 1)..(p + w) : (s \o t)[i] = t[i - p]
  BY Joined
<1>3. ASSUME NEW i \in 1..w
      PROVE  (s \o t)[p + i] = t[i]
  <2>1. p + i \in (p + 1)..(p + w) /\ (p + i) - p = i
    BY <1>1
  <2> QED
    BY <1>2, <2>1
<1> QED
  BY <1>2, <1>3, Zenon

\* A sync() of n bytes.
LEMMA DoSyncKeeps ==
  ASSUME DsOutWell, NEW n \in Nat, n <= dsNext, DoSync(n), dsArea' = dsArea, dsDone' = dsDone
  PROVE  DsOutWell'
<1>0. /\ dsArea \in Seq(Nat) /\ dsDevice \in Seq(Nat)
      /\ dsNext \in Nat /\ dsDone \in Nat
      /\ Len(dsArea) = DsBuf /\ dsNext <= DsBuf
      /\ Len(dsDevice) + dsNext = dsDone
  BY Zenon DEF DsOutWell
<1>1. /\ dsDevice' = dsDevice \o SubSeq(dsArea, 1, n)
      /\ dsNext' = dsNext - n /\ dsShort' = (dsShort \/ n < dsNext)
  BY Zenon DEF DoSync
<1>2. /\ SubSeq(dsArea, 1, n) \in Seq(Nat) /\ Len(SubSeq(dsArea, 1, n)) = n
      /\ \A i \in 1..n : SubSeq(dsArea, 1, n)[i] = dsArea[i]
  BY <1>0, FrontOf
<1>3. PICK s : s = SubSeq(dsArea, 1, n)
  OBVIOUS
<1>4. /\ s \in Seq(Nat) /\ Len(s) = n /\ \A i \in 1..n : s[i] = dsArea[i]
      /\ dsDevice' = dsDevice \o s
  BY <1>1, <1>2, <1>3, Zenon
<1>5. /\ dsDevice' \in Seq(Nat) /\ Len(dsDevice') = Len(dsDevice) + n
      /\ \A i \in 1..Len(dsDevice) : dsDevice'[i] = dsDevice[i]
      /\ \A i \in 1..n : dsDevice'[Len(dsDevice) + i] = s[i]
  <2>1. PICK d : d = Len(dsDevice)
    OBVIOUS
  <2>2. dsDevice \in Seq(Nat) /\ Len(dsDevice) = d /\ s \in Seq(Nat) /\ Len(s) = n
    BY <1>0, <1>4, <2>1, Zenon
  <2>3. PICK u : u = dsDevice \o s
    OBVIOUS
  <2>4. /\ u \in Seq(Nat) /\ Len(u) = d + n
        /\ \A i \in 1..d : u[i] = dsDevice[i]
        /\ \A i \in 1..n : u[d + i] = s[i]
    <3>1. dsDevice \o s \in Seq(Nat)
      BY ONLY <2>2, Joins
    <3>2. Len(dsDevice \o s) = d + n
      BY ONLY <2>2, Joins
    <3>3. \A i \in 1..d : (dsDevice \o s)[i] = dsDevice[i]
      BY ONLY <2>2, Joins
    <3>4. \A i \in 1..n : (dsDevice \o s)[d + i] = s[i]
      BY ONLY <2>2, Joins
    <3> QED
      BY <2>3, <3>1, <3>2, <3>3, <3>4, Zenon
  <2> QED
    BY <1>4, <2>1, <2>3, <2>4, Zenon
<1>6. /\ dsArea' \in Seq(Nat) /\ dsNext' \in Nat /\ dsDone' \in Nat
      /\ Len(dsArea') = DsBuf /\ dsNext' <= DsBuf
      /\ Len(dsDevice') + dsNext' = dsDone'
  <2>1. dsArea' = dsArea /\ dsDone' = dsDone
    OBVIOUS
  <2>2. PICK d : d = Len(dsDevice) /\ d \in Nat
    BY <1>0
  <2>3. PICK e : e = Len(dsDevice') /\ e = d + n
    BY <1>5, <2>2, Zenon
  <2>4. dsNext' \in Nat /\ dsNext' <= DsBuf /\ e + dsNext' = dsDone
    <3>1. dsNext \in Nat /\ dsNext <= DsBuf /\ d + dsNext = dsDone /\ dsNext' = dsNext - n
      BY <1>0, <1>1, <2>2, Zenon
    <3> QED
      BY <2>2, <2>3, <3>1, DsBounds
  <2> QED
    BY <1>0, <2>1, <2>3, <2>4, Zenon
<1>7. ASSUME ~dsShort'
      PROVE  /\ \A i \in 1..Len(dsDevice') : dsDevice'[i] = i
             /\ \A i \in 1..dsNext' : dsArea'[i] = Len(dsDevice') + i
  <2>1. ~dsShort /\ n = dsNext
    <3>1. ~dsShort /\ ~(n < dsNext)
      BY <1>1, <1>7, Zenon
    <3> QED
      BY <1>0, <3>1
  <2>2. /\ \A i \in 1..Len(dsDevice) : dsDevice[i] = i
        /\ \A i \in 1..dsNext : dsArea[i] = Len(dsDevice) + i
    BY <2>1, Zenon DEF DsOutWell
  <2>3. Len(dsDevice) \in Nat
    BY <1>0
  <2>4. ASSUME NEW i \in 1..Len(dsDevice')
        PROVE  dsDevice'[i] = i
    <3>1. CASE i <= Len(dsDevice)
      BY <1>5, <2>2, <2>3, <3>1, SMTT(30)
    <3>2. CASE i > Len(dsDevice)
      <4>1. i - Len(dsDevice) \in 1..n /\ Len(dsDevice) + (i - Len(dsDevice)) = i
        BY <1>5, <2>3, <3>2
      <4>2. dsDevice'[i] = dsArea[i - Len(dsDevice)]
        BY <1>4, <1>5, <4>1
      <4> QED
        BY <2>1, <2>2, <2>3, <4>1, <4>2
    <3> QED
      BY <2>3, <3>1, <3>2
  <2> QED
    BY <1>0, <1>1, <2>1, <2>4
<1> QED
  BY <1>5, <1>6, <1>7, Zenon DEF DsOutWell

\* The buffer filled by n bytes, behind the last few read.
LEMMA DiFillKeeps ==
  ASSUME DsInWell, NEW n \in Nat, ~dsEof, dsNext = Len(dsArea), DiFill(n), dsDone' = dsDone
  PROVE  DsInWell'
<1>0. /\ dsDevice \in Seq(Nat) /\ \A i \in 1..Len(dsDevice) : dsDevice[i] = i
      /\ dsArea \in Seq(Int) /\ dsNext \in Nat /\ dsDone \in Int
      /\ dsDone + Len(dsArea) - dsNext = Len(dsDevice)
      /\ \A i \in 1..Len(dsArea) : dsArea[i] = Len(dsDevice) - Len(dsArea) + i
  BY Zenon DEF DsInWell
<1>1. PICK d : d = Len(dsDevice)
  OBVIOUS
<1>2. PICK a : a = Len(dsArea)
  OBVIOUS
<1>3. PICK k : k = DsLeast(dsNext, DsBack)
  OBVIOUS
<1>4. d \in Nat /\ a \in Nat /\ k \in Nat /\ k <= a /\ dsNext = a /\ dsDone = d
  BY <1>0, <1>1, <1>2, <1>3, DsBounds DEF DsLeast
<1>5. PICK new : new = [i \in 1..n |-> d + i]
  OBVIOUS
<1>6. PICK kept : kept = SubSeq(dsArea, 1 + a - k, a)
  OBVIOUS
<1>7. dsArea' = kept \o new /\ dsNext' = Len(kept) /\ dsDevice' = dsDevice \o new
  BY <1>1, <1>2, <1>3, <1>4, <1>5, <1>6, Zenon DEF DiFill, DiKept
<1>8. /\ new \in Seq(Nat) /\ new \in Seq(Int) /\ Len(new) = n /\ \A i \in 1..n : new[i] = d + i
  BY <1>4, <1>5
<1>9. kept \in Seq(Int) /\ Len(kept) = k /\ \A i \in 1..k : kept[i] = d - k + i
  <2>1. (a - k) + 1 = 1 + a - k /\ a - k \in Nat /\ (a - k) + k = Len(dsArea)
    BY <1>2, <1>4
  <2>2. kept = SubSeq(dsArea, (a - k) + 1, Len(dsArea))
    BY <1>2, <1>6, <2>1
  <2>3. kept \in Seq(Int) /\ Len(kept) = k /\ \A i \in 1..k : kept[i] = dsArea[(a - k) + i]
    <3>1. PICK q : q = a - k
      OBVIOUS
    <3>2. q \in Nat /\ q + k = Len(dsArea) /\ kept = SubSeq(dsArea, q + 1, Len(dsArea))
      BY <2>1, <2>2, <3>1, Zenon
    <3>3. kept \in Seq(Int) /\ Len(kept) = k /\ \A i \in 1..k : kept[i] = dsArea[q + i]
      <4>1. dsArea \in Seq(Int) /\ k \in Nat
        BY <1>0, <1>4
      <4> QED
        BY <4>1, <3>2, BackOf
    <3> QED
      BY <3>1, <3>3, Zenon
  <2>4. \A i \in 1..k : (a - k) + i \in 1..a /\ d - a + ((a - k) + i) = d - k + i
    BY <1>4
  <2> QED
    BY <1>0, <1>1, <1>2, <2>3, <2>4
<1>10. /\ dsDevice' \in Seq(Nat) /\ Len(dsDevice') = d + n
       /\ \A i \in 1..d : dsDevice'[i] = dsDevice[i]
       /\ \A i \in 1..n : dsDevice'[d + i] = new[i]
  <2>1. dsDevice \in Seq(Nat) /\ Len(dsDevice) = d /\ new \in Seq(Nat) /\ Len(new) = n
    BY <1>0, <1>1, <1>8, Zenon
  <2>2. PICK u : u = dsDevice \o new
    OBVIOUS
  <2>3. /\ u \in Seq(Nat) /\ Len(u) = d + n
        /\ \A i \in 1..d : u[i] = dsDevice[i]
        /\ \A i \in 1..n : u[d + i] = new[i]
    <3>1. dsDevice \o new \in Seq(Nat)
      BY ONLY <2>1, Joins
    <3>2. Len(dsDevice \o new) = d + n
      BY ONLY <2>1, Joins
    <3>3. \A i \in 1..d : (dsDevice \o new)[i] = dsDevice[i]
      BY ONLY <2>1, Joins
    <3>4. \A i \in 1..n : (dsDevice \o new)[d + i] = new[i]
      BY ONLY <2>1, Joins
    <3> QED
      BY <2>2, <3>1, <3>2, <3>3, <3>4, Zenon
  <2> QED
    BY <1>7, <2>2, <2>3, Zenon
<1>11. /\ dsArea' \in Seq(Int) /\ Len(dsArea') = k + n
       /\ \A i \in 1..k : dsArea'[i] = kept[i]
       /\ \A i \in 1..n : dsArea'[k + i] = new[i]
  <2>1. kept \in Seq(Int) /\ Len(kept) = k /\ new \in Seq(Int) /\ Len(new) = n
    BY <1>8, <1>9, Zenon
  <2>2. PICK u : u = kept \o new
    OBVIOUS
  <2>3. /\ u \in Seq(Int) /\ Len(u) = k + n
        /\ \A i \in 1..k : u[i] = kept[i]
        /\ \A i \in 1..n : u[k + i] = new[i]
    <3>1. kept \o new \in Seq(Int)
      BY ONLY <2>1, Joins
    <3>2. Len(kept \o new) = k + n
      BY ONLY <2>1, Joins
    <3>3. \A i \in 1..k : (kept \o new)[i] = kept[i]
      BY ONLY <2>1, Joins
    <3>4. \A i \in 1..n : (kept \o new)[k + i] = new[i]
      BY ONLY <2>1, Joins
    <3> QED
      BY <2>2, <3>1, <3>2, <3>3, <3>4, Zenon
  <2> QED
    BY <1>7, <2>2, <2>3, Zenon
<1>12. ASSUME NEW i \in 1..Len(dsDevice')
       PROVE  dsDevice'[i] = i
  <2>1. CASE i <= d
    BY <1>0, <1>1, <1>4, <1>10, <2>1
  <2>2. CASE i > d
    <3>1. i - d \in 1..n /\ d + (i - d) = i
      BY <1>4, <1>10, <2>2
    <3> QED
      BY <1>8, <1>10, <3>1
  <2> QED
    BY <1>4, <2>1, <2>2
<1>13. ASSUME NEW i \in 1..Len(dsArea')
       PROVE  dsArea'[i] = Len(dsDevice') - Len(dsArea') + i
  <2>1. CASE i <= k
    <3>1. dsArea'[i] = d - k + i
      BY <1>4, <1>9, <1>11, <2>1
    <3> QED
      BY <1>4, <1>10, <1>11, <3>1
  <2>2. CASE i > k
    <3>1. i - k \in 1..n /\ k + (i - k) = i
      BY <1>4, <1>11, <2>2
    <3>2. dsArea'[i] = d + (i - k)
      BY <1>8, <1>11, <3>1
    <3> QED
      BY <1>4, <1>10, <1>11, <3>2
  <2> QED
    BY <1>4, <2>1, <2>2
<1>14. /\ dsNext' \in Nat /\ dsDone' \in Int /\ dsNext' <= Len(dsArea')
       /\ dsDone' + Len(dsArea') - dsNext' = Len(dsDevice')
  BY <1>4, <1>7, <1>9, <1>10, <1>11
<1> QED
  BY <1>10, <1>11, <1>12, <1>13, <1>14, Zenon DEF DsInWell

LEMMA DsStart ==
  ASSUME DsInit
  PROVE  DsInv
<1>1. /\ dsKind \in {"in", "out"} /\ dsNext = 0 /\ dsDevice = << >> /\ dsDone = 0
      /\ dsPending = FALSE /\ dsShort = FALSE /\ dsEof = FALSE
      /\ dsArea = IF dsKind = "in" THEN << >> ELSE [i \in 1..DsBuf |-> 0]
  BY Zenon DEF DsInit
<1>2. dsKind = "out" => DsOutWell
  BY <1>1, DsBounds DEF DsOutWell
<1>3. dsKind = "in" => DsInWell
  BY <1>1 DEF DsInWell
<1> QED
  BY <1>1, <1>2, <1>3 DEF DsInv

\* An action of an output stream, or of an input stream.
LEMMA DsOut ==
  ASSUME DsInv, dsKind = "out", dsKind' = dsKind, dsEof' = dsEof, DsOutWell'
  PROVE  DsInv'
<1>1. dsKind' = "out" /\ dsKind' # "in" /\ ~dsEof'
  BY DEF DsInv
<1> QED
  BY <1>1, Zenon DEF DsInv

LEMMA DsIn ==
  ASSUME DsInv, dsKind = "in", dsKind' = dsKind, dsPending' = dsPending, DsInWell'
  PROVE  DsInv'
<1>1. dsKind' = "in" /\ dsKind' # "out" /\ ~dsPending'
  BY DEF DsInv
<1> QED
  BY <1>1, Zenon DEF DsInv

LEMMA DsRests ==
  /\ (DsOutWell /\ DsNoDevice /\ dsArea' = dsArea /\ dsDone' = dsDone /\ dsNext' = dsNext)
       => DsOutWell'
  /\ (DsInWell /\ UNCHANGED <<dsArea, dsNext, dsDevice, dsDone, dsEof>>) => DsInWell'
<1>1. ASSUME DsOutWell, DsNoDevice, dsArea' = dsArea, dsDone' = dsDone, dsNext' = dsNext
      PROVE  DsOutWell'
  <2>1. dsDevice' = dsDevice /\ dsShort' = dsShort
    BY <1>1, Zenon DEF DsNoDevice
  <2> QED
    BY <1>1, <2>1, Zenon DEF DsOutWell
<1>2. ASSUME DsInWell, UNCHANGED <<dsArea, dsNext, dsDevice, dsDone, dsEof>>
      PROVE  DsInWell'
  <2>1. /\ dsArea' = dsArea /\ dsNext' = dsNext /\ dsDevice' = dsDevice
        /\ dsDone' = dsDone /\ dsEof' = dsEof
    BY <1>2
  <2> QED
    BY <1>2, <2>1, SMT DEF DsInWell
<1> QED
  BY <1>1, <1>2, Zenon

LEMMA DoPutKeeps ==
  ASSUME DsOutWell, DoPut
  PROVE  DsOutWell'
<1>1. /\ dsArea \in Seq(Nat) /\ dsDevice \in Seq(Nat)
      /\ dsNext \in Nat /\ dsDone \in Nat
      /\ Len(dsArea) = DsBuf /\ dsNext <= DsBuf
      /\ Len(dsDevice) + dsNext = dsDone
  BY Zenon DEF DsOutWell
<1>2. /\ dsNext < DsBuf
      /\ dsArea' = [dsArea EXCEPT ![dsNext + 1] = dsDone + 1]
      /\ dsNext' = dsNext + 1 /\ dsDone' = dsDone + 1
      /\ dsDevice' = dsDevice /\ dsShort' = dsShort
  BY Zenon DEF DoPut, DsNoDevice
<1>3. PICK d : d = Len(dsDevice) /\ d \in Nat /\ d + dsNext = dsDone
  BY <1>1, SMTT(30)
<1>4. /\ dsNext' \in Nat /\ dsDone' \in Nat /\ dsNext' <= DsBuf /\ d + dsNext' = dsDone'
      /\ dsNext + 1 \in 1..DsBuf
  <2>1. /\ dsNext \in Nat /\ dsDone \in Nat /\ dsNext < DsBuf /\ d + dsNext = dsDone
        /\ dsNext' = dsNext + 1 /\ dsDone' = dsDone + 1 /\ d \in Nat
    BY <1>1, <1>2, <1>3, Zenon
  <2> QED
    BY <2>1, DsBounds
<1>5. /\ dsArea' \in Seq(Nat) /\ Len(dsArea') = DsBuf
      /\ dsArea'[dsNext + 1] = dsDone + 1
      /\ \A i \in 1..dsNext : dsArea'[i] = dsArea[i]
  <2>1. dsDone + 1 \in Nat
    BY <1>1
  <2>2. dsArea' \in Seq(Nat) /\ Len(dsArea') = DsBuf
    BY <1>1, <1>2, <1>4, <2>1
  <2>3. dsArea'[dsNext + 1] = dsDone + 1
    BY <1>1, <1>2, <1>4
  <2>4. \A i \in 1..dsNext : dsArea'[i] = dsArea[i]
    BY <1>1, <1>2, <1>4
  <2> QED
    BY <2>2, <2>3, <2>4, Zenon
<1>6. ASSUME ~dsShort'
      PROVE  /\ \A i \in 1..d : dsDevice'[i] = i
             /\ \A i \in 1..dsNext' : dsArea'[i] = d + i
  <2>1. /\ \A i \in 1..d : dsDevice[i] = i
        /\ \A i \in 1..dsNext : dsArea[i] = d + i
    BY <1>2, <1>3, <1>6, Zenon DEF DsOutWell
  <2>2. \A i \in 1..d : dsDevice'[i] = i
    BY <1>2, <2>1, Zenon
  <2>3. ASSUME NEW i \in 1..dsNext'
        PROVE  dsArea'[i] = d + i
    <3>1. CASE i = dsNext + 1
      <4>1. dsArea'[i] = dsDone + 1
        BY <1>5, <3>1, Zenon
      <4>2. dsDone + 1 = d + (dsNext + 1)
        <5>1. dsDone \in Nat /\ dsNext \in Nat /\ d \in Nat /\ d + dsNext = dsDone
          BY <1>1, <1>3, Zenon
        <5> QED
          BY <5>1
      <4> QED
        BY <3>1, <4>1, <4>2, Zenon
    <3>2. CASE i # dsNext + 1
      <4>1. i \in 1..dsNext
        BY <1>1, <1>2, <3>2
      <4> QED
        BY <1>5, <2>1, <4>1
    <3> QED
      BY <3>1, <3>2
  <2> QED
    BY <2>2, <2>3, Zenon
<1>7. dsDevice' \in Seq(Nat) /\ Len(dsDevice') = d
  BY <1>1, <1>2, <1>3, Zenon
<1> QED
  BY <1>4, <1>5, <1>6, <1>7, Zenon DEF DsOutWell

\* What the stream's own steps in the area do to it: one byte on or back.
LEMMA DiMoves ==
  ASSUME DsInWell, ~dsEof, UNCHANGED <<dsArea, dsDevice, dsEof>>,
         NEW n \in Int, dsNext' = dsNext + n, dsDone' = dsDone + n,
         dsNext' >= 0, dsNext' <= Len(dsArea)
  PROVE  DsInWell'
<1>1. /\ dsDevice \in Seq(Nat) /\ \A i \in 1..Len(dsDevice) : dsDevice[i] = i
      /\ dsArea \in Seq(Int) /\ dsNext \in Nat /\ dsDone \in Int
      /\ dsDone + Len(dsArea) - dsNext = Len(dsDevice)
      /\ \A i \in 1..Len(dsArea) : dsArea[i] = Len(dsDevice) - Len(dsArea) + i
  BY Zenon DEF DsInWell
<1>2. PICK d : d = Len(dsDevice) /\ d \in Nat
  BY <1>1
<1>3. PICK a : a = Len(dsArea) /\ a \in Nat
  BY <1>1
<1>4. dsDone + a - dsNext = d
  BY <1>1, <1>2, <1>3, Zenon
<1>5. dsNext' \in Nat /\ dsDone' \in Int /\ dsDone' + a - dsNext' = d
  <2>1. /\ dsNext \in Nat /\ dsDone \in Int /\ d \in Nat /\ a \in Nat
        /\ dsDone + a - dsNext = d
    BY <1>1, <1>2, <1>3, <1>4, Zenon
  <2>2. dsNext' = dsNext + n /\ dsDone' = dsDone + n /\ dsNext' >= 0
    OBVIOUS
  <2>3. dsNext' \in Nat /\ dsDone' \in Int
    BY <2>1, <2>2
  <2>4. dsDone' + a - dsNext' = d
    BY <2>1, <2>2
  <2> QED
    BY <2>3, <2>4
<1>6. dsArea' = dsArea /\ dsDevice' = dsDevice /\ dsEof' = dsEof
  OBVIOUS
<1>7. dsDone' + Len(dsArea') - dsNext' = Len(dsDevice')
  BY <1>2, <1>3, <1>5, <1>6, Zenon
<1> QED
  BY <1>1, <1>5, <1>6, <1>7, Zenon DEF DsInWell

LEMMA DiGetKeeps ==
  ASSUME DsInWell, DiGet
  PROVE  DsInWell'
<1>1. CASE dsEof
  <2>1. dsDevice' = dsDevice /\ dsEof' = dsEof
    BY Zenon DEF DiGet
  <2> QED
    BY <1>1, <2>1, Zenon DEF DsInWell
<1>2. CASE ~dsEof
  <2>1. /\ dsNext < Len(dsArea) /\ dsNext' = dsNext + 1 /\ dsDone' = dsArea[dsNext + 1]
        /\ UNCHANGED <<dsArea, dsDevice, dsEof>>
    BY DEF DiGet
  <2>2. /\ dsDevice \in Seq(Nat) /\ dsArea \in Seq(Int) /\ dsNext \in Nat /\ dsDone \in Int
        /\ dsDone + Len(dsArea) - dsNext = Len(dsDevice)
        /\ \A i \in 1..Len(dsArea) : dsArea[i] = Len(dsDevice) - Len(dsArea) + i
    BY <1>2, Zenon DEF DsInWell
  <2>3. dsDone' = dsDone + 1
    <3>1. PICK d : d = Len(dsDevice) /\ d \in Nat
      BY <2>2, SMTT(30)
    <3>2. PICK a : a = Len(dsArea) /\ a \in Nat
      BY <2>2, SMTT(30)
    <3>3. dsDone + a - dsNext = d /\ dsNext + 1 \in 1..a
      BY <2>1, <2>2, <3>1, <3>2
    <3>4. dsDone' = d - a + (dsNext + 1)
      BY <2>1, <2>2, <3>1, <3>2, <3>3, Zenon
    <3> QED
      BY <2>2, <3>1, <3>2, <3>3, <3>4
  <2>4. dsNext' >= 0 /\ dsNext' <= Len(dsArea)
    BY <2>1, <2>2
  <2>5. 1 \in Int
    OBVIOUS
  <2> QED
    BY <1>2, <2>1, <2>3, <2>4, <2>5, DiMoves
<1> QED
  BY <1>1, <1>2

LEMMA DiUngetKeeps ==
  ASSUME DsInWell, DiUnget
  PROVE  DsInWell'
<1>1. ~dsEof /\ UNCHANGED <<dsArea, dsDevice, dsEof>>
  BY DEF DiUnget
<1>2. /\ dsDevice \in Seq(Nat) /\ dsArea \in Seq(Int) /\ dsNext \in Nat /\ dsDone \in Int
      /\ dsNext <= Len(dsArea)
      /\ dsDone + Len(dsArea) - dsNext = Len(dsDevice)
      /\ \A i \in 1..Len(dsArea) : dsArea[i] = Len(dsDevice) - Len(dsArea) + i
  BY <1>1, Zenon DEF DsInWell
<1>3. CASE dsNext > 0
  <2>1. dsNext' = dsNext - 1 /\ dsDone' = dsArea[dsNext] - 1
    BY <1>3, Zenon DEF DiUnget
  <2>2. dsDone' = dsDone - 1
    BY <1>2, <1>3, <2>1
  <2>3. /\ -1 \in Int /\ dsNext' = dsNext + (-1) /\ dsDone' = dsDone + (-1)
        /\ dsNext' >= 0 /\ dsNext' <= Len(dsArea)
    BY <1>2, <1>3, <2>1, <2>2
  <2> QED
    BY <1>1, <2>3, DiMoves
<1>4. CASE ~(dsNext > 0)
  <2>1. UNCHANGED <<dsNext, dsDone>>
    BY <1>4 DEF DiUnget
  <2> QED
    BY <1>1, <2>1, DsRests
<1> QED
  BY <1>3, <1>4

LEMMA DiRefillKeeps ==
  ASSUME DsInWell, DiRefill
  PROVE  DsInWell'
<1>1. ~dsEof /\ dsNext = Len(dsArea) /\ dsDone' = dsDone
  BY Zenon DEF DiRefill
<1>2. CASE dsArea' = << >> /\ dsNext' = 0 /\ UNCHANGED <<dsDevice, dsEof>>
  <2>1. /\ dsDevice \in Seq(Nat) /\ \A i \in 1..Len(dsDevice) : dsDevice[i] = i
        /\ dsArea \in Seq(Int) /\ dsNext \in Nat /\ dsDone \in Int
        /\ dsDone + Len(dsArea) - dsNext = Len(dsDevice)
    BY <1>1, Zenon DEF DsInWell
  <2>2. dsDevice' = dsDevice /\ dsEof' = dsEof
    BY <1>2
  <2>3. dsDone = Len(dsDevice)
    BY <1>1, <2>1
  <2>4. /\ dsArea' \in Seq(Int) /\ dsNext' \in Nat /\ Len(dsArea') = 0 /\ dsNext' = 0
        /\ dsDone' \in Int
    BY <1>1, <1>2, <2>1
  <2>5. /\ dsDone' + Len(dsArea') - dsNext' = Len(dsDevice') /\ dsNext' <= Len(dsArea')
    BY <1>1, <2>1, <2>2, <2>3, <2>4
  <2>6. \A i \in 1..Len(dsArea') : dsArea'[i] = Len(dsDevice') - Len(dsArea') + i
    BY <2>4
  <2> QED
    BY <2>1, <2>2, <2>4, <2>5, <2>6, Zenon DEF DsInWell
<1>3. ASSUME NEW n \in 1..DsLeast(DsBuf, DsMaxBytes - Len(dsDevice)), DiFill(n)
      PROVE  DsInWell'
  <2>1. n \in Nat
    BY <1>3
  <2> QED
    BY <1>1, <1>3, <2>1, DiFillKeeps, Zenon
<1>4. CASE dsEof' = TRUE /\ DiFill(0)
  <2>1. dsDevice' = dsDevice \o [i \in 1..0 |-> Len(dsDevice) + i]
    BY <1>4, Zenon DEF DiFill
  <2>2. dsDevice \in Seq(Nat) /\ \A i \in 1..Len(dsDevice) : dsDevice[i] = i
    BY Zenon DEF DsInWell
  <2>3. PICK none : none = [i \in 1..0 |-> Len(dsDevice) + i]
    OBVIOUS
  <2>4. none = << >>
    BY <2>3
  <2>5. dsDevice \o << >> = dsDevice
    BY <2>2
  <2>6. dsDevice' = dsDevice
    BY <2>1, <2>3, <2>4, <2>5, Zenon
  <2> QED
    BY <1>4, <2>2, <2>6, Zenon DEF DsInWell
<1> QED
  BY <1>2, <1>3, <1>4, Zenon DEF DiRefill

LEMMA DsKept ==
  ASSUME DsInv, [DsNext]_dsVars
  PROVE  DsInv'
<1>1. /\ dsKind = "out" => DsOutWell
      /\ dsKind = "in" => DsInWell
      /\ dsPending => dsKind = "out"
      /\ dsEof => dsKind = "in"
      /\ dsKind \in {"in", "out"}
  BY Zenon DEF DsInv
<1>2. ASSUME dsKind = "out", UNCHANGED <<dsArea, dsDone>>, dsKind' = dsKind, dsEof' = dsEof,
             (dsNext' = dsNext /\ DsNoDevice) \/ \E n \in Nat : n <= dsNext /\ DoSync(n)
      PROVE  DsInv'
  <2>1. DsOutWell /\ dsArea' = dsArea /\ dsDone' = dsDone
    BY <1>1, <1>2
  <2>2. DsOutWell'
    BY <1>2, <2>1, DoSyncKeeps, DsRests, Zenon
  <2> QED
    BY <1>2, <2>2, DsOut, Zenon
<1>3. DsOutWell => /\ dsNext \in Nat
                   /\ \A n \in 0..dsNext : n \in Nat /\ n <= dsNext
  BY DEF DsOutWell
<1>4. CASE DoPut
  <2>1. dsKind = "out" /\ dsKind' = dsKind /\ dsEof' = dsEof
    BY <1>4 DEF DoPut, DsUnused
  <2> QED
    BY <1>1, <1>4, <2>1, DoPutKeeps, DsOut, Zenon
<1>5. CASE DoPutFull
  <2>1. /\ dsKind = "out" /\ dsKind' = dsKind /\ dsEof' = dsEof
        /\ UNCHANGED <<dsArea, dsDone>> /\ dsNext' = dsNext /\ DsNoDevice
    BY <1>5 DEF DoPutFull, DsUnused
  <2> QED
    BY <1>2, <2>1, Zenon
<1>6. CASE DoOverflow
  <2>1. /\ dsPending /\ dsNext = DsBuf /\ dsKind' = dsKind /\ dsEof' = dsEof
        /\ UNCHANGED <<dsArea, dsDone>>
    BY <1>6 DEF DoOverflow, DsUnused
  <2>2. dsKind = "out"
    BY <1>1, <2>1
  <2>3. (dsNext' = dsNext /\ DsNoDevice) \/ \E n \in 0..dsNext : DoSync(n)
    BY <1>6, <2>1, Zenon DEF DoOverflow
  <2> QED
    BY <1>1, <1>2, <1>3, <2>1, <2>2, <2>3, Zenon
<1>7. CASE DoFlush
  <2>1. /\ dsKind = "out" /\ dsKind' = dsKind /\ dsEof' = dsEof
        /\ UNCHANGED <<dsArea, dsDone>>
    BY <1>7 DEF DoFlush, DsUnused
  <2>2. (dsNext' = dsNext /\ DsNoDevice) \/ \E n \in 0..dsNext : DoSync(n)
    BY <1>7, Zenon DEF DoFlush
  <2> QED
    BY <1>1, <1>2, <1>3, <2>1, <2>2, Zenon
<1>8. CASE DoClose
  <2>1. /\ dsKind = "out" /\ dsKind' = dsKind /\ dsEof' = dsEof
        /\ UNCHANGED <<dsArea, dsDone>>
    BY <1>8 DEF DoClose, DsUnused
  <2>2. (dsNext' = dsNext /\ DsNoDevice) \/ \E n \in 0..dsNext : DoSync(n)
    BY <1>8, Zenon DEF DoClose, DoClosed
  <2> QED
    BY <1>1, <1>2, <1>3, <2>1, <2>2, Zenon
<1>9. ASSUME NEW fd, DoOpen(fd)
      PROVE  DsInv'
  <2>1. /\ dsKind = "out" /\ dsKind' = dsKind /\ dsEof' = dsEof
        /\ UNCHANGED <<dsArea, dsDone>>
    BY <1>9 DEF DoOpen, DsUnused
  <2>2. (dsNext' = dsNext /\ DsNoDevice) \/ \E n \in 0..dsNext : DoSync(n)
    BY <1>9, Zenon DEF DoOpen, DoClosed
  <2> QED
    BY <1>1, <1>2, <1>3, <2>1, <2>2, Zenon
<1>10. CASE DiGet
  <2>1. dsKind = "in" /\ dsKind' = dsKind /\ dsPending' = dsPending
    BY <1>10 DEF DiGet
  <2> QED
    BY <1>1, <1>10, <2>1, DiGetKeeps, DsIn, Zenon
<1>11. CASE DiRefill
  <2>1. dsKind = "in" /\ dsKind' = dsKind /\ dsPending' = dsPending
    BY <1>11 DEF DiRefill
  <2> QED
    BY <1>1, <1>11, <2>1, DiRefillKeeps, DsIn, Zenon
<1>12. CASE DiPastEnd
  <2>1. /\ dsEof /\ dsKind' = dsKind /\ dsPending' = dsPending
        /\ dsDevice' = dsDevice /\ dsEof' = dsEof
    BY <1>12 DEF DiPastEnd
  <2>2. dsKind = "in"
    BY <1>1, <2>1
  <2>3. DsInWell'
    BY <1>1, <2>1, <2>2, Zenon DEF DsInWell
  <2> QED
    BY <2>1, <2>2, <2>3, DsIn, Zenon
<1>13. CASE DiUnget
  <2>1. dsKind = "in" /\ dsKind' = dsKind /\ dsPending' = dsPending
    BY <1>13 DEF DiUnget
  <2> QED
    BY <1>1, <1>13, <2>1, DiUngetKeeps, DsIn, Zenon
<1>14. ASSUME DiClose \/ \E fd \in DsHandles \cup {-1} : DiOpen(fd)
       PROVE  DsInv'
  <2>1. /\ dsKind = "in" /\ dsKind' = dsKind /\ dsPending' = dsPending
        /\ UNCHANGED <<dsArea, dsNext, dsDevice, dsDone, dsEof>>
    BY <1>14 DEF DiClose, DiOpen
  <2>2. DsInWell'
    BY <1>1, <2>1, DsRests
  <2> QED
    BY <2>1, <2>2, DsIn, Zenon
<1>15. CASE UNCHANGED dsVars
  <2>1. /\ dsKind' = dsKind /\ dsEof' = dsEof /\ dsPending' = dsPending /\ dsShort' = dsShort
        /\ dsArea' = dsArea /\ dsNext' = dsNext /\ dsDevice' = dsDevice /\ dsDone' = dsDone
    BY <1>15 DEF dsVars
  <2> QED
    BY <2>1, Zenon DEF DsInv, DsOutWell, DsInWell
<1> QED
  BY <1>4, <1>5, <1>6, <1>7, <1>8, <1>9, <1>10, <1>11, <1>12, <1>13, <1>14, <1>15, Zenon
     DEF DsNext

\* sync() of an OutDevBinStream (DevBinStream.cpp) moves its pointer back by what
\* the device took, so that the bytes written and those in the buffer are as many
\* as were put; while every write took the whole buffer they are those bytes, in
\* order, through failed writes, close() and open().  After a short write only
\* their number is kept.  The bytes got from an InDevBinStream are what read()
\* gave, one after the other, through refills, failed reads, ungets, close() and
\* open(), until the end of the device: for any sizes of the buffers.
THEOREM StreamsInOrder == MCSpec => []DsInOrder
<1>1. MCInit => DsInv
  BY DsStart, Zenon DEF MCInit
<1>2. DsInv /\ [MCNext]_MCVars => DsInv'
  BY DsKept, StepOfPart, Zenon
<1>3. DsInv => DsInOrder
  <2> SUFFICES ASSUME DsInv PROVE DsInOrder
    OBVIOUS
  <2>1. ASSUME dsKind = "out"
        PROVE  /\ Len(dsDevice) + dsNext = dsDone
               /\ ~dsShort => dsDevice \o SubSeq(dsArea, 1, dsNext) = DsUpTo(dsDone)
    <3>1. DsOutWell
      BY <2>1, Zenon DEF DsInv
    <3>2. /\ dsArea \in Seq(Nat) /\ dsDevice \in Seq(Nat)
          /\ dsNext \in Nat /\ dsDone \in Nat
          /\ dsNext <= Len(dsArea) /\ Len(dsDevice) + dsNext = dsDone
      BY <3>1, Zenon DEF DsOutWell
    <3>3. ASSUME ~dsShort
          PROVE  dsDevice \o SubSeq(dsArea, 1, dsNext) = DsUpTo(dsDone)
      <4>1. /\ \A i \in 1..Len(dsDevice) : dsDevice[i] = i
            /\ \A i \in 1..dsNext : dsArea[i] = Len(dsDevice) + i
        BY <3>1, <3>3, Zenon DEF DsOutWell
      <4>2. PICK s : s = SubSeq(dsArea, 1, dsNext)
        OBVIOUS
      <4>3. s \in Seq(Nat) /\ Len(s) = dsNext /\ \A i \in 1..dsNext : s[i] = dsArea[i]
        BY <3>2, <4>2, FrontOf
      <4>4. PICK d : d = Len(dsDevice) /\ d \in Nat /\ d + dsNext = dsDone
        BY <3>2
      <4>5. dsDevice \in Seq(Nat) /\ Len(dsDevice) = d /\ s \in Seq(Nat) /\ Len(s) = dsNext
        BY <3>2, <4>3, <4>4, Zenon
      <4>6. dsDevice \o s \in Seq(Nat)
        BY ONLY <4>5, Joins
      <4>7. Len(dsDevice \o s) = d + dsNext
        BY ONLY <4>5, Joins
      <4>8. \A i \in 1..d : (dsDevice \o s)[i] = dsDevice[i]
        BY ONLY <4>5, Joins
      <4>9. \A i \in 1..dsNext : (dsDevice \o s)[d + i] = s[i]
        BY ONLY <4>5, Joins
      <4>10. PICK u : u = dsDevice \o s
        OBVIOUS
      <4>11. /\ u \in Seq(Nat) /\ Len(u) = dsDone
             /\ \A i \in 1..d : u[i] = dsDevice[i]
             /\ \A i \in 1..dsNext : u[d + i] = s[i]
        BY <4>4, <4>6, <4>7, <4>8, <4>9, <4>10, Zenon
      <4>12. ASSUME NEW i \in 1..dsDone
             PROVE  u[i] = i
        <5>1. CASE i <= d
          BY <4>1, <4>4, <4>11, <5>1
        <5>2. CASE i > d
          <6>1. i - d \in 1..dsNext /\ d + (i - d) = i
            BY <3>2, <4>4, <5>2
          <6>2. u[i] = dsArea[i - d]
            BY <4>3, <4>11, <6>1
          <6> QED
            BY <4>1, <4>4, <6>1, <6>2
        <5> QED
          BY <4>4, <5>1, <5>2
      <4>13. u = DsUpTo(dsDone)
        BY <3>2, <4>11, <4>12 DEF DsUpTo
      <4> QED
        BY <4>2, <4>10, <4>13, Zenon
    <3> QED
      BY <3>2, <3>3, Zenon
  <2>2. ASSUME dsKind = "in"
        PROVE  /\ dsDevice = DsUpTo(Len(dsDevice))
               /\ ~dsEof => SubSeq(dsArea, dsNext + 1, Len(dsArea))
                              = [i \in 1..(Len(dsArea) - dsNext) |-> dsDone + i]
               /\ ~dsEof => dsDone + Len(dsArea) - dsNext = Len(dsDevice)
               /\ \A i \in 1..DsLeast(dsNext, Len(dsArea)) :
                    ~dsEof => dsArea[i] = dsDone - dsNext + i
    <3>1. DsInWell
      BY <2>2, Zenon DEF DsInv
    <3>2. dsDevice \in Seq(Nat) /\ \A i \in 1..Len(dsDevice) : dsDevice[i] = i
      BY <3>1, Zenon DEF DsInWell
    <3>3. dsDevice = DsUpTo(Len(dsDevice))
      BY <3>2 DEF DsUpTo
    <3>4. ASSUME ~dsEof
          PROVE  /\ SubSeq(dsArea, dsNext + 1, Len(dsArea))
                      = [i \in 1..(Len(dsArea) - dsNext) |-> dsDone + i]
                 /\ dsDone + Len(dsArea) - dsNext = Len(dsDevice)
                 /\ \A i \in 1..DsLeast(dsNext, Len(dsArea)) : dsArea[i] = dsDone - dsNext + i
      <4>1. /\ dsArea \in Seq(Int) /\ dsNext \in Nat /\ dsDone \in Int
            /\ dsNext <= Len(dsArea)
            /\ dsDone + Len(dsArea) - dsNext = Len(dsDevice)
            /\ \A i \in 1..Len(dsArea) : dsArea[i] = Len(dsDevice) - Len(dsArea) + i
        BY <3>1, <3>4, Zenon DEF DsInWell
      <4>2. PICK a : a = Len(dsArea) - dsNext
        OBVIOUS
      <4>3. a \in Nat /\ dsNext + a = Len(dsArea) /\ dsDone + a = Len(dsDevice)
        BY <4>1, <4>2
      <4>4. Len(dsArea) \in Nat /\ Len(dsDevice) \in Nat
        BY <3>2, <4>1
      <4>5. PICK s : s = SubSeq(dsArea, dsNext + 1, Len(dsArea))
        OBVIOUS
      <4>6. s \in Seq(Int) /\ Len(s) = a /\ \A i \in 1..a : s[i] = dsArea[dsNext + i]
        BY <4>1, <4>3, <4>5, BackOf
      <4>7. ASSUME NEW i \in 1..a
            PROVE  s[i] = dsDone + i
        <5>1. dsNext + i \in 1..Len(dsArea)
          BY <4>1, <4>3
        <5>2. s[i] = Len(dsDevice) - Len(dsArea) + (dsNext + i)
          BY <4>1, <4>6, <5>1
        <5> QED
          <6>1. PICK d, l : d = Len(dsDevice) /\ l = Len(dsArea)
            OBVIOUS
          <6>2. /\ d \in Nat /\ l \in Nat /\ dsNext \in Nat /\ dsDone \in Int /\ a \in Nat
                /\ dsNext + a = l /\ dsDone + a = d
            BY <4>1, <4>3, <4>4, <6>1, Zenon
          <6>3. d - l + (dsNext + i) = dsDone + i
            BY <6>2
          <6> QED
            BY <5>2, <6>1, <6>3, Zenon
      <4>8. s = [i \in 1..a |-> dsDone + i]
        BY <4>6, <4>7
      <4>9. \A i \in 1..DsLeast(dsNext, Len(dsArea)) : dsArea[i] = dsDone - dsNext + i
        <5>1. DsLeast(dsNext, Len(dsArea)) <= Len(dsArea) /\ DsLeast(dsNext, Len(dsArea)) \in Nat
          BY <4>1, <4>4 DEF DsLeast
        <5> QED
          <6>1. PICK d, l : d = Len(dsDevice) /\ l = Len(dsArea)
            OBVIOUS
          <6>2. PICK m : m = DsLeast(dsNext, Len(dsArea))
            OBVIOUS
          <6>3. /\ d \in Nat /\ l \in Nat /\ dsNext \in Nat /\ dsDone \in Int /\ a \in Nat
                /\ dsNext + a = l /\ dsDone + a = d /\ m \in Nat /\ m <= l
            BY <4>1, <4>3, <4>4, <5>1, <6>1, <6>2, Zenon
          <6>4. ASSUME NEW i \in 1..m
                PROVE  dsArea[i] = dsDone - dsNext + i
            <7>1. i \in 1..l /\ d - l + i = dsDone - dsNext + i
              BY <6>3
            <7> QED
              BY <4>1, <6>1, <7>1, Zenon
          <6> QED
            BY <6>2, <6>4, Zenon
      <4> QED
        BY <4>1, <4>2, <4>5, <4>8, <4>9, Zenon
    <3> QED
      BY <3>3, <3>4, Zenon
  <2> QED
    BY <2>1, <2>2, Zenon DEF DsInOrder, DoCount, DoInOrder, DiInOrder
<1> QED
  BY <1>1, <1>2, <1>3, PTL DEF MCSpec, MCVars

-----------------------------------------------------------------------------
(* BinStream.  The value put as the k-th at position at lies from start on: *)
(* a first field, and behind it a second one, as far as there is memory.   *)

BsN1(t) == BsFields[t][1].n
BsWord(t) == BsFields[t][1].word
BsTwo(t) == Len(BsFields[t]) = 2
BsN2(t) == IF BsTwo(t) THEN BsFields[t][2].n ELSE 0

BsAl(al, pos, n, word) == IF al /\ word THEN pos + BsThere(pos, (n - (pos % n)) % n) ELSE pos
BsStart(al, at, t) == BsAl(al, at, BsN1(t), BsWord(t))
BsMid(al, at, t) == BsStart(al, at, t) + BsThere(BsStart(al, at, t), BsN1(t))
BsEnd(al, at, t) == BsMid(al, at, t) + BsThere(BsMid(al, at, t), BsN2(t))
BsFine(al, at, t) == IF BsTwo(t) THEN BsThere(BsMid(al, at, t), BsN2(t)) = BsN2(t)
                     ELSE BsThere(BsStart(al, at, t), BsN1(t)) = BsN1(t)

BsCell(k, j, i) == [call |-> k, field |-> j, byte |-> i]
\* swap_bytes(): where the i-th of n bytes goes.
BsOrd(sw, word, n, i) == IF sw /\ word THEN n + 1 - i ELSE i
BsIdx(sw, t, i) == BsOrd(sw, BsWord(t), BsN1(t), i)

\* Where a byte of a value belongs.
BsHome(al, sw, k, at, t, c, cell) ==
  \/ \E i \in 1..BsN1(t) : /\ c = BsStart(al, at, t) + i
                           /\ cell = BsCell(k, 1, BsIdx(sw, t, i))
  \/ \E i \in 1..BsN2(t) : c = BsMid(al, at, t) + i /\ cell = BsCell(k, 2, i)

LEMMA BsCellFields ==
  ASSUME NEW k, NEW j, NEW i, NEW k2, NEW j2, NEW i2
  PROVE  /\ BsCell(k, j, i).call = k
         /\ BsCell(k, j, i) = BsCell(k2, j2, i2) => k = k2 /\ j = j2 /\ i = i2
  BY DEF BsCell

\* The fields of each type.
LEMMA BsOneField ==
  ASSUME NEW t, NEW f, BsFields[t] = <<f>>
  PROVE  /\ BsN1(t) = f.n /\ BsWord(t) = f.word /\ BsN2(t) = 0 /\ ~BsTwo(t)
         /\ Len(BsFields[t]) = 1 /\ BsFields[t][1] = f
<1>1. BsFields[t][1] = f /\ Len(BsFields[t]) = 1
  OBVIOUS
<1>2. ~BsTwo(t)
  BY <1>1 DEF BsTwo
<1> QED
  BY <1>1, <1>2, Zenon DEF BsN1, BsWord, BsN2

LEMMA BsTwoFields ==
  ASSUME NEW t, NEW f, NEW g, BsFields[t] = <<f, g>>
  PROVE  /\ BsN1(t) = f.n /\ BsWord(t) = f.word /\ BsN2(t) = g.n /\ BsTwo(t)
         /\ Len(BsFields[t]) # 1 /\ BsFields[t][1] = f /\ BsFields[t][2] = g
<1>1. BsFields[t][1] = f /\ BsFields[t][2] = g /\ Len(BsFields[t]) = 2
  OBVIOUS
<1>2. BsTwo(t) /\ Len(BsFields[t]) # 1
  BY <1>1 DEF BsTwo
<1> QED
  BY <1>1, <1>2, Zenon DEF BsN1, BsWord, BsN2

LEMMA BsTypeFields ==
  ASSUME NEW t \in BsTypes
  PROVE  /\ BsN1(t) \in Nat \ {0} /\ BsN2(t) \in Nat
         /\ BsTwo(t) => BsN1(t) = 2
         /\ BsTwo(t) <=> Len(BsFields[t]) # 1
         /\ ~BsTwo(t) => BsN2(t) = 0
         /\ BsTwo(t) /\ t # "empty" => BsN2(t) > 0
         /\ BsTwo(t) => BsFields[t][2].n = BsN2(t) /\ ~BsFields[t][2].word
<1>1. t \in {"byte", "int16", "int32", "float", "block", "empty", "buffer"}
  BY BsTypesOk
<1>2. CASE t = "byte"
  <2>1. PICK f : f = [n |-> 1, word |-> FALSE]
    OBVIOUS
  <2>2. BsFields[t] = <<f>>
    BY <1>2, <2>1 DEF BsFields
  <2>3. f.n = 1
    BY <2>1
  <2>4. BsN1(t) = f.n /\ BsN2(t) = 0 /\ ~BsTwo(t) /\ Len(BsFields[t]) = 1
    BY <2>2, BsOneField, Zenon
  <2> QED
    BY <2>3, <2>4
<1>3. CASE t = "int16"
  <2>1. PICK f : f = [n |-> 2, word |-> TRUE]
    OBVIOUS
  <2>2. BsFields[t] = <<f>>
    BY <1>3, <2>1 DEF BsFields
  <2>3. f.n = 2
    BY <2>1
  <2>4. BsN1(t) = f.n /\ BsN2(t) = 0 /\ ~BsTwo(t) /\ Len(BsFields[t]) = 1
    BY <2>2, BsOneField, Zenon
  <2> QED
    BY <2>3, <2>4
<1>4. CASE t = "int32"
  <2>1. PICK f : f = [n |-> 4, word |-> TRUE]
    OBVIOUS
  <2>2. BsFields[t] = <<f>>
    BY <1>4, <2>1 DEF BsFields
  <2>3. f.n = 4
    BY <2>1
  <2>4. BsN1(t) = f.n /\ BsN2(t) = 0 /\ ~BsTwo(t) /\ Len(BsFields[t]) = 1
    BY <2>2, BsOneField, Zenon
  <2> QED
    BY <2>3, <2>4
<1>5. CASE t = "float"
  <2>1. PICK f : f = [n |-> 4, word |-> FALSE]
    OBVIOUS
  <2>2. BsFields[t] = <<f>>
    BY <1>5, <2>1 DEF BsFields
  <2>3. f.n = 4
    BY <2>1
  <2>4. BsN1(t) = f.n /\ BsN2(t) = 0 /\ ~BsTwo(t) /\ Len(BsFields[t]) = 1
    BY <2>2, BsOneField, Zenon
  <2> QED
    BY <2>3, <2>4
<1>6. CASE t = "block"
  <2>1. PICK f : f = [n |-> 3, word |-> FALSE]
    OBVIOUS
  <2>2. BsFields[t] = <<f>>
    BY <1>6, <2>1 DEF BsFields
  <2>3. f.n = 3
    BY <2>1
  <2>4. BsN1(t) = f.n /\ BsN2(t) = 0 /\ ~BsTwo(t) /\ Len(BsFields[t]) = 1
    BY <2>2, BsOneField, Zenon
  <2> QED
    BY <2>3, <2>4
<1>7. CASE t = "empty"
  <2>1. PICK f, g : f = [n |-> 2, word |-> TRUE] /\ g = [n |-> 0, word |-> FALSE]
    OBVIOUS
  <2>2. BsFields[t] = <<f, g>>
    BY <1>7, <2>1 DEF BsFields
  <2>3. f.n = 2 /\ g.n = 0 /\ ~g.word
    BY <2>1
  <2>4. /\ BsN1(t) = f.n /\ BsN2(t) = g.n /\ BsTwo(t) /\ Len(BsFields[t]) # 1
        /\ BsFields[t][2] = g
    BY <2>2, BsTwoFields
  <2>5. BsFields[t][2].n = BsN2(t) /\ ~BsFields[t][2].word
    BY <2>3, <2>4, Zenon
  <2> QED
    BY <1>7, <2>3, <2>4, <2>5
<1>8. CASE t = "buffer"
  <2>1. PICK f, g : f = [n |-> 2, word |-> TRUE] /\ g = [n |-> 2, word |-> FALSE]
    OBVIOUS
  <2>2. BsFields[t] = <<f, g>>
    BY <1>8, <2>1 DEF BsFields
  <2>3. f.n = 2 /\ g.n = 2 /\ ~g.word
    BY <2>1
  <2>4. /\ BsN1(t) = f.n /\ BsN2(t) = g.n /\ BsTwo(t) /\ Len(BsFields[t]) # 1
        /\ BsFields[t][2] = g
    BY <2>2, BsTwoFields
  <2>5. BsFields[t][2].n = BsN2(t) /\ ~BsFields[t][2].word
    BY <2>3, <2>4, Zenon
  <2> QED
    BY <1>8, <2>3, <2>4, <2>5
<1> QED
  BY <1>1, <1>2, <1>3, <1>4, <1>5, <1>6, <1>7, <1>8

\* How far the memory reaches.
LEMMA BsRoom ==
  ASSUME NEW pos \in Nat, NEW n \in Nat
  PROVE  /\ BsThere(pos, n) \in Nat /\ BsThere(pos, n) <= n
         /\ pos >= BsCap => BsThere(pos, n) = 0
         /\ pos <= BsCap => pos + BsThere(pos, n) <= BsCap
         /\ BsThere(pos, n) < n => pos + BsThere(pos, n) >= BsCap
  BY BsBounds DEF BsThere, BsLeast

LEMMA BsRoomFor ==
  ASSUME NEW pos \in Nat, NEW n \in Nat, NEW i \in 1..n
  PROVE  i <= BsThere(pos, n) <=> pos + i <= BsCap
  BY BsBounds DEF BsThere, BsLeast

LEMMA BsAligned ==
  ASSUME NEW al, NEW pos \in Nat, NEW n \in Nat \ {0}, NEW word
  PROVE  /\ BsAl(al, pos, n, word) \in Nat /\ BsAl(al, pos, n, word) >= pos
<1>1. PICK r : r = (n - (pos % n)) % n
  OBVIOUS
<1>2. r \in Nat
  BY <1>1
<1>3. BsThere(pos, r) \in Nat
  BY <1>2, BsRoom
<1> QED
  BY <1>1, <1>3 DEF BsAl

LEMMA BsPlaces ==
  ASSUME NEW al, NEW at \in Nat, NEW t \in BsTypes
  PROVE  /\ BsStart(al, at, t) \in Nat /\ at <= BsStart(al, at, t)
         /\ BsMid(al, at, t) \in Nat /\ BsStart(al, at, t) <= BsMid(al, at, t)
         /\ BsEnd(al, at, t) \in Nat /\ BsMid(al, at, t) <= BsEnd(al, at, t)
         /\ BsMid(al, at, t) <= BsStart(al, at, t) + BsN1(t)
         /\ BsMid(al, at, t) < BsStart(al, at, t) + BsN1(t) => BsMid(al, at, t) >= BsCap
<1>1. BsN1(t) \in Nat \ {0} /\ BsN2(t) \in Nat
  BY BsTypeFields
<1>2. PICK n1, n2, s, m, e : /\ n1 = BsN1(t) /\ n2 = BsN2(t) /\ s = BsStart(al, at, t)
                             /\ m = BsMid(al, at, t) /\ e = BsEnd(al, at, t)
  OBVIOUS
<1>3. s \in Nat /\ at <= s
  BY <1>1, <1>2, BsAligned DEF BsStart
<1>4. m = s + BsThere(s, n1)
  BY <1>2, Zenon DEF BsMid
<1>5. m \in Nat /\ s <= m /\ m <= s + n1 /\ (m < s + n1 => m >= BsCap)
  <2>1. n1 \in Nat
    BY <1>1, <1>2
  <2>2. PICK h : h = BsThere(s, n1)
    OBVIOUS
  <2>3. h \in Nat /\ h <= n1 /\ (h < n1 => s + h >= BsCap)
    BY <1>3, <2>1, <2>2, BsRoom, Zenon
  <2>4. m = s + h
    BY <1>4, <2>2, Zenon
  <2> QED
    BY <1>3, <2>1, <2>3, <2>4
<1>6. e = m + BsThere(m, n2)
  BY <1>2, Zenon DEF BsEnd
<1>7. e \in Nat /\ m <= e
  <2>1. n2 \in Nat /\ m \in Nat
    BY <1>1, <1>2, <1>5
  <2>2. BsThere(m, n2) \in Nat
    BY <2>1, BsRoom
  <2> QED
    BY <1>6, <2>1, <2>2
<1> QED
  BY <1>2, <1>3, <1>5, <1>7, Zenon

\* A byte of a value is behind where it was put, and not past its end.
LEMMA BsHomeRange ==
  ASSUME NEW al, NEW sw, NEW k, NEW at \in Nat, NEW t \in BsTypes, NEW c \in 1..BsCap, NEW cell,
         BsHome(al, sw, k, at, t, c, cell)
  PROVE  at < c /\ c <= BsEnd(al, at, t) /\ cell.call = k
<1>1. PICK n1, n2, s, m, e : /\ n1 = BsN1(t) /\ n2 = BsN2(t) /\ s = BsStart(al, at, t)
                             /\ m = BsMid(al, at, t) /\ e = BsEnd(al, at, t)
  OBVIOUS
<1>2. /\ n1 \in Nat /\ n2 \in Nat /\ s \in Nat /\ m \in Nat /\ e \in Nat
      /\ at <= s /\ s <= m /\ m <= e /\ m <= s + n1 /\ (m < s + n1 => m >= BsCap)
  BY <1>1, BsTypeFields, BsPlaces
<1>3. CASE \E i \in 1..n1 : c = s + i /\ cell = BsCell(k, 1, BsIdx(sw, t, i))
  <2>1. PICK i \in 1..n1 : c = s + i /\ cell = BsCell(k, 1, BsIdx(sw, t, i))
    BY <1>3
  <2>2. cell.call = k
    BY <2>1, BsCellFields
  <2>3. at < c /\ c <= e
    BY <1>2, <2>1, BsBounds
  <2> QED
    BY <1>1, <2>2, <2>3
<1>4. CASE \E i \in 1..n2 : c = m + i /\ cell = BsCell(k, 2, i)
  <2>1. PICK i \in 1..n2 : c = m + i /\ cell = BsCell(k, 2, i)
    BY <1>4
  <2>2. cell.call = k
    BY <2>1, BsCellFields
  <2>3. e = m + BsThere(m, n2)
    BY <1>1, Zenon DEF BsEnd
  <2>4. i <= BsThere(m, n2) /\ BsThere(m, n2) \in Nat
    <3>1. n2 \in Nat /\ m \in Nat /\ m + i <= BsCap
      BY <1>2, <2>1, BsBounds
    <3> QED
      BY <3>1, BsRoom, BsRoomFor
  <2>5. at < c /\ c <= e
    BY <1>2, <2>1, <2>3, <2>4
  <2> QED
    BY <1>1, <2>2, <2>5
<1> QED
  BY <1>1, <1>3, <1>4, Zenon DEF BsHome

LEMMA LenOf ==
  ASSUME NEW n \in Nat, NEW f, f = [i \in 1..n |-> f[i]]
  PROVE  Len(f) = n /\ f \in Seq({f[i] : i \in 1..n})
  OBVIOUS

LEMMA BsOrdRange ==
  ASSUME NEW sw, NEW word, NEW n \in Nat, NEW i \in 1..n
  PROVE  BsOrd(sw, word, n, i) \in 1..n /\ BsOrd(sw, word, n, BsOrd(sw, word, n, i)) = i
  BY DEF BsOrd

BsInOrder(s, word, n, r) == /\ r = [i \in 1..n |-> s[BsOrd(bsSwap, word, n, i)]]
                            /\ Len(r) = n

LEMMA BsReverses ==
  ASSUME NEW s, NEW n \in Nat, s = [i \in 1..n |-> s[i]], NEW word
  PROVE  BsInOrder(s, word, n, BsOrdered(s, word))
<1>1. Len(s) = n
  BY LenOf
<1>2. BsOrdered(s, word) = [i \in 1..n |-> s[BsOrd(bsSwap, word, n, i)]]
  <2>1. CASE bsSwap /\ word
    <3>1. BsOrdered(s, word) = [i \in 1..n |-> s[n + 1 - i]]
      BY <1>1, <2>1, Zenon DEF BsOrdered, BsReversed
    <3>2. \A i \in 1..n : BsOrd(bsSwap, word, n, i) = n + 1 - i
      BY <2>1, Zenon DEF BsOrd
    <3> QED
      BY <3>1, <3>2
  <2>2. CASE ~(bsSwap /\ word)
    <3>1. BsOrdered(s, word) = s
      BY <2>2, Zenon DEF BsOrdered
    <3>2. \A i \in 1..n : BsOrd(bsSwap, word, n, i) = i
      BY <2>2, Zenon DEF BsOrd
    <3> QED
      BY <3>1, <3>2
  <2> QED
    BY <2>1, <2>2, Zenon
<1>3. PICK r : r = BsOrdered(s, word)
  OBVIOUS
<1>4. r = [i \in 1..n |-> r[i]]
  BY <1>2, <1>3
<1>5. Len(r) = n
  BY <1>4, LenOf
<1> QED
  BY <1>2, <1>3, <1>5, Zenon DEF BsInOrder

BsStoredAt(mem, pos, s, n, r) ==
  /\ r = [c \in 1..BsCap |-> r[c]]
  /\ \A c \in 1..BsCap : /\ c <= pos => r[c] = mem[c]
                         /\ c > pos + n => r[c] = mem[c]
                         /\ \A i \in 1..n : c = pos + i => r[c] = s[i]

LEMMA BsStores ==
  ASSUME NEW mem, NEW pos \in Nat, NEW s, NEW n \in Nat, Len(s) = n
  PROVE  BsStoredAt(mem, pos, s, n, BsStored(mem, pos, s))
<1>1. PICK r : r = BsStored(mem, pos, s)
  OBVIOUS
<1>2. r = [i \in 1..BsCap |-> IF i - pos \in 1..n THEN s[i - pos] ELSE mem[i]]
  BY <1>1, Zenon DEF BsStored
<1>3. BsStoredAt(mem, pos, s, n, r)
  BY <1>2, BsBounds DEF BsStoredAt
<1> QED
  BY <1>1, <1>3, Zenon

BsFieldAt(mem, pos, start, n, word, k, j, new) ==
  /\ new = [c \in 1..BsCap |-> new[c]]
  /\ \A c \in 1..BsCap :
       /\ c <= pos => new[c] = mem[c]
       /\ c > pos /\ c <= start => new[c] = BsZero
       /\ c > start + n => new[c] = mem[c]
       /\ \A i \in 1..n : c = start + i => new[c] = BsCell(k, j, BsOrd(bsSwap, word, n, i))

BsFieldPut(mem, pos, start, n, word, k, j, after) ==
  /\ after.pos = start + BsThere(start, n)
  /\ after.good = (BsThere(start, n) = n)
  /\ BsFieldAt(mem, pos, start, n, word, k, j, after.mem)

\* A field goes where it belongs, zeros in front of it, and nothing else moves.
LEMMA BsPutFieldDoes ==
  ASSUME NEW s, NEW k, NEW j, NEW f, NEW pos \in Nat, NEW n \in Nat, NEW start \in Nat, NEW mem,
         s.mem = mem, s.pos = pos, f.n = n, pos <= start,
         start = BsAlignment(pos, n, f.word)
  PROVE  BsFieldPut(mem, pos, start, n, f.word, k, j, BsPutField(s, k, j, f))
<1>1. PICK all : all = BsOrdered(BsCells(k, j, n), f.word)
  OBVIOUS
<1>2. PICK cells : cells = BsCells(k, j, n)
  OBVIOUS
<1>3. cells = [i \in 1..n |-> BsCell(k, j, i)]
  BY <1>2, Zenon DEF BsCells, BsCell
<1>4. cells = [i \in 1..n |-> cells[i]]
  BY <1>3
<1>5. Len(all) = n /\ all = [i \in 1..n |-> cells[BsOrd(bsSwap, f.word, n, i)]]
  <2>1. /\ Len(BsOrdered(cells, f.word)) = n
        /\ BsOrdered(cells, f.word) = [i \in 1..n |-> cells[BsOrd(bsSwap, f.word, n, i)]]
    <3>1. BsInOrder(cells, f.word, n, BsOrdered(cells, f.word))
      BY <1>4, BsReverses, Zenon
    <3> QED
      BY <3>1, Zenon DEF BsInOrder
  <2> QED
    BY <1>1, <1>2, <2>1, Zenon
<1>6. \A i \in 1..n : all[i] = BsCell(k, j, BsOrd(bsSwap, f.word, n, i))
  BY <1>3, <1>5, BsOrdRange
<1>7. PICK z : z = [i \in 1..(start - pos) |-> BsZero]
  OBVIOUS
<1>8. start - pos \in Nat /\ \A i \in 1..(start - pos) : z[i] = BsZero
  BY <1>7
<1>9. Len(z) = start - pos
  <2>1. z = [i \in 1..(start - pos) |-> z[i]]
    BY <1>7
  <2> QED
    BY <1>8, <2>1, LenOf
<1>10. PICK zeroed : zeroed = BsStored(mem, pos, z)
  OBVIOUS
<1>11. BsZeros(s, start) = zeroed
  BY <1>7, <1>10, Zenon DEF BsZeros
<1>12. \A c \in 1..BsCap : /\ c <= pos => zeroed[c] = mem[c]
                           /\ c > pos + (start - pos) => zeroed[c] = mem[c]
                           /\ \A i \in 1..(start - pos) : c = pos + i => zeroed[c] = z[i]
  <2>1. PICK d : d = start - pos
    OBVIOUS
  <2>2. d \in Nat /\ Len(z) = d
    BY <1>8, <1>9, <2>1, Zenon
  <2>3. BsStoredAt(mem, pos, z, d, zeroed)
    BY <1>10, <2>2, BsStores, Zenon
  <2> QED
    BY <2>1, <2>3, Zenon DEF BsStoredAt
<1>13. PICK new : new = BsStored(zeroed, start, all)
  OBVIOUS
<1>14. /\ new = [c \in 1..BsCap |-> new[c]]
       /\ \A c \in 1..BsCap : /\ c <= start => new[c] = zeroed[c]
                              /\ c > start + n => new[c] = zeroed[c]
                              /\ \A i \in 1..n : c = start + i => new[c] = all[i]
  <2>1. BsStoredAt(zeroed, start, all, n, new)
    BY <1>5, <1>13, BsStores, Zenon
  <2> QED
    BY <2>1, Zenon DEF BsStoredAt
<1>15. BsPutField(s, k, j, f) = [mem |-> new, pos |-> start + BsThere(start, n),
                                 good |-> BsThere(start, n) = n]
  BY <1>1, <1>11, <1>13, Zenon DEF BsPutField
<1>16. /\ BsPutField(s, k, j, f).pos = start + BsThere(start, n)
       /\ BsPutField(s, k, j, f).good = (BsThere(start, n) = n)
       /\ BsPutField(s, k, j, f).mem = new
  BY <1>15
<1>17. ASSUME NEW c \in 1..BsCap
       PROVE  /\ c <= pos => new[c] = mem[c]
              /\ c > pos /\ c <= start => new[c] = BsZero
              /\ c > start + n => new[c] = mem[c]
              /\ \A i \in 1..n : c = start + i => new[c] = BsCell(k, j, BsOrd(bsSwap, f.word, n, i))
  <2>1. c <= pos => new[c] = mem[c]
    BY <1>12, <1>14
  <2>2. ASSUME c > pos, c <= start
        PROVE  new[c] = BsZero
    <3>1. c - pos \in 1..(start - pos) /\ c = pos + (c - pos)
      BY <2>2
    <3>2. zeroed[c] = z[c - pos]
      BY <1>12, <3>1
    <3>3. new[c] = zeroed[c]
      BY <1>14, <2>2
    <3> QED
      BY <1>8, <3>1, <3>2, <3>3
  <2>3. c > start + n => new[c] = mem[c]
    BY <1>12, <1>14
  <2>4. \A i \in 1..n : c = start + i => new[c] = BsCell(k, j, BsOrd(bsSwap, f.word, n, i))
    BY <1>6, <1>14
  <2> QED
    BY <2>1, <2>2, <2>3, <2>4, Zenon
<1>18. BsFieldAt(mem, pos, start, n, f.word, k, j, new)
  BY <1>14, <1>17, Zenon DEF BsFieldAt
<1> QED
  BY <1>16, <1>18, Zenon DEF BsFieldPut

\* What a put leaves in memory.
BsPutAt(al, sw, mem, k, at, t, new) ==
  /\ new = [c \in 1..BsCap |-> new[c]]
  /\ \A c \in 1..BsCap :
       /\ c <= at => new[c] = mem[c]
       /\ \A cell : BsHome(al, sw, k, at, t, c, cell) => new[c] = cell
       /\ new[c] = mem[c] \/ new[c] = BsZero \/ BsHome(al, sw, k, at, t, c, new[c])

LEMMA BsPutsAll ==
  ASSUME NEW k, NEW t \in BsTypes, bsP \in Nat
  PROVE  /\ BsPutAll(k, t).pos = BsEnd(bsAlign, bsP, t)
         /\ BsPutAll(k, t).good = BsFine(bsAlign, bsP, t)
         /\ BsPutAt(bsAlign, bsSwap, bsMem, k, bsP, t, BsPutAll(k, t).mem)
<1>1. PICK n1, n2, s, m, e : /\ n1 = BsN1(t) /\ n2 = BsN2(t) /\ s = BsStart(bsAlign, bsP, t)
                             /\ m = BsMid(bsAlign, bsP, t) /\ e = BsEnd(bsAlign, bsP, t)
  OBVIOUS
<1>2. /\ n1 \in Nat /\ n2 \in Nat /\ s \in Nat /\ m \in Nat /\ e \in Nat
      /\ bsP <= s /\ s <= m /\ m <= e /\ m <= s + n1 /\ (m < s + n1 => m >= BsCap)
  BY <1>1, BsTypeFields, BsPlaces
<1>3. PICK f : f = BsFields[t][1]
  OBVIOUS
<1>4. f.n = n1 /\ f.word = BsWord(t) /\ s = BsAlignment(bsP, n1, f.word)
  BY <1>1, <1>3, Zenon DEF BsN1, BsWord, BsStart, BsAl, BsAlignment
<1>5. PICK old : old = [mem |-> bsMem, pos |-> bsP, good |-> TRUE]
  OBVIOUS
<1>6. old.mem = bsMem /\ old.pos = bsP
  BY <1>5
<1>7. PICK one : one = BsPutField(old, k, 1, f)
  OBVIOUS
<1>8. /\ one.pos = s + BsThere(s, n1)
      /\ one.good = (BsThere(s, n1) = n1)
      /\ BsFieldAt(bsMem, bsP, s, n1, f.word, k, 1, one.mem)
  <2>1. BsFieldPut(bsMem, bsP, s, n1, f.word, k, 1, BsPutField(old, k, 1, f))
    BY <1>2, <1>4, <1>6, BsPutFieldDoes
  <2> QED
    BY <1>7, <2>1, Zenon DEF BsFieldPut
<1>9. one.pos = m
  BY <1>1, <1>8, Zenon DEF BsMid
<1>10. PICK w1 : w1 = one.mem
  OBVIOUS
<1>11. /\ w1 = [c \in 1..BsCap |-> w1[c]]
       /\ \A c \in 1..BsCap :
            /\ c <= bsP => w1[c] = bsMem[c]
            /\ c > bsP /\ c <= s => w1[c] = BsZero
            /\ c > s + n1 => w1[c] = bsMem[c]
            /\ \A i \in 1..n1 : c = s + i => w1[c] = BsCell(k, 1, BsIdx(bsSwap, t, i))
  BY <1>1, <1>4, <1>8, <1>10, Zenon DEF BsFieldAt, BsIdx
<1>12. BsPutAll(k, t) = IF Len(BsFields[t]) = 1 THEN one ELSE BsPutField(one, k, 2, BsFields[t][2])
  BY <1>3, <1>5, <1>7, Zenon DEF BsPutAll
<1>13. CASE ~BsTwo(t)
  <2>1. Len(BsFields[t]) = 1 /\ n2 = 0
    BY <1>1, <1>13, BsTypeFields
  <2>2. BsPutAll(k, t) = one
    BY <1>12, <2>1, Zenon
  <2>3. e = m
    <3>1. e = m + BsThere(m, n2) /\ BsThere(m, n2) \in Nat /\ BsThere(m, n2) <= n2
      BY <1>1, <1>2, BsRoom DEF BsEnd
    <3> QED
      BY <1>2, <2>1, <3>1
  <2>4. one.good = BsFine(bsAlign, bsP, t)
    BY <1>1, <1>8, <1>13, Zenon DEF BsFine
  <2>5. ASSUME NEW c \in 1..BsCap
        PROVE  /\ c <= bsP => w1[c] = bsMem[c]
               /\ \A cell : BsHome(bsAlign, bsSwap, k, bsP, t, c, cell) => w1[c] = cell
               /\ \/ w1[c] = bsMem[c] \/ w1[c] = BsZero
                  \/ BsHome(bsAlign, bsSwap, k, bsP, t, c, w1[c])
    <3>1. ASSUME NEW cell, BsHome(bsAlign, bsSwap, k, bsP, t, c, cell)
          PROVE  w1[c] = cell
      <4>1. \/ \E i \in 1..n1 : c = s + i /\ cell = BsCell(k, 1, BsIdx(bsSwap, t, i))
            \/ \E i \in 1..n2 : c = m + i /\ cell = BsCell(k, 2, i)
        BY <1>1, <3>1, Zenon DEF BsHome
      <4>2. ~\E i \in 1..n2 : c = m + i /\ cell = BsCell(k, 2, i)
        BY <2>1
      <4> QED
        BY <1>11, <4>1, <4>2
    <3>2. CASE c > s /\ c <= s + n1
      <4>1. c - s \in 1..n1 /\ c = s + (c - s)
        BY <1>2, <3>2
      <4>2. w1[c] = BsCell(k, 1, BsIdx(bsSwap, t, c - s))
        BY <1>11, <4>1
      <4>3. BsHome(bsAlign, bsSwap, k, bsP, t, c, w1[c])
        BY <1>1, <4>1, <4>2, Zenon DEF BsHome
      <4> QED
        BY <1>11, <3>1, <4>3
    <3>3. CASE ~(c > s /\ c <= s + n1)
      BY <1>2, <1>11, <3>1, <3>3
    <3> QED
      BY <3>2, <3>3, Zenon
  <2>6. BsPutAt(bsAlign, bsSwap, bsMem, k, bsP, t, w1)
    BY <1>11, <2>5, Zenon DEF BsPutAt
  <2> QED
    BY <1>1, <1>9, <1>10, <2>2, <2>3, <2>4, <2>6, Zenon
<1>14. CASE BsTwo(t)
  <2>1. PICK g : g = BsFields[t][2]
    OBVIOUS
  <2>2. Len(BsFields[t]) # 1 /\ g.n = n2 /\ ~g.word
    BY <1>1, <1>14, <2>1, BsTypeFields
  <2>3. m = BsAlignment(m, n2, g.word)
    BY <2>2, Zenon DEF BsAlignment
  <2>4. PICK two : two = BsPutField(one, k, 2, g)
    OBVIOUS
  <2>5. BsPutAll(k, t) = two
    BY <1>12, <2>1, <2>2, <2>4, Zenon
  <2>6. m <= m
    BY <1>2
  <2>7. /\ two.pos = m + BsThere(m, n2)
        /\ two.good = (BsThere(m, n2) = n2)
        /\ BsFieldAt(w1, m, m, n2, g.word, k, 2, two.mem)
    <3>1. BsFieldPut(w1, m, m, n2, g.word, k, 2, BsPutField(one, k, 2, g))
      BY <1>2, <1>9, <1>10, <2>2, <2>3, <2>6, BsPutFieldDoes
    <3> QED
      BY <2>4, <3>1, Zenon DEF BsFieldPut
  <2>8. two.pos = e /\ two.good = BsFine(bsAlign, bsP, t)
    BY <1>1, <1>14, <2>7, Zenon DEF BsEnd, BsFine
  <2>9. PICK w2 : w2 = two.mem
    OBVIOUS
  <2>10. /\ w2 = [c \in 1..BsCap |-> w2[c]]
         /\ \A c \in 1..BsCap :
              /\ c <= m => w2[c] = w1[c]
              /\ c > m + n2 => w2[c] = w1[c]
              /\ \A i \in 1..n2 : c = m + i => w2[c] = BsCell(k, 2, i)
    BY <2>2, <2>7, <2>9, Zenon DEF BsFieldAt, BsOrd
  <2>11. ASSUME NEW c \in 1..BsCap
         PROVE  /\ c <= bsP => w2[c] = bsMem[c]
                /\ \A cell : BsHome(bsAlign, bsSwap, k, bsP, t, c, cell) => w2[c] = cell
                /\ \/ w2[c] = bsMem[c] \/ w2[c] = BsZero
                   \/ BsHome(bsAlign, bsSwap, k, bsP, t, c, w2[c])
    <3>0. c <= m \/ c > s + n1
      BY <1>2, BsBounds
    <3>1. ASSUME NEW cell, BsHome(bsAlign, bsSwap, k, bsP, t, c, cell)
          PROVE  w2[c] = cell
      <4>1. \/ \E i \in 1..n1 : c = s + i /\ cell = BsCell(k, 1, BsIdx(bsSwap, t, i))
            \/ \E i \in 1..n2 : c = m + i /\ cell = BsCell(k, 2, i)
        BY <1>1, <3>1, Zenon DEF BsHome
      <4>2. CASE \E i \in 1..n1 : c = s + i /\ cell = BsCell(k, 1, BsIdx(bsSwap, t, i))
        <5>1. c <= s + n1
          BY <1>2, <4>2
        <5>2. w2[c] = w1[c]
          BY <1>2, <2>10, <3>0, <5>1
        <5> QED
          BY <1>11, <4>2, <5>2
      <4>3. CASE \E i \in 1..n2 : c = m + i /\ cell = BsCell(k, 2, i)
        BY <2>10, <4>3
      <4> QED
        BY <4>1, <4>2, <4>3
    <3>2. CASE c > m /\ c <= m + n2
      <4>1. c - m \in 1..n2 /\ c = m + (c - m)
        BY <1>2, <3>2
      <4>2. w2[c] = BsCell(k, 2, c - m)
        BY <2>10, <4>1
      <4>3. BsHome(bsAlign, bsSwap, k, bsP, t, c, w2[c])
        BY <1>1, <4>1, <4>2, Zenon DEF BsHome
      <4>4. ~(c <= bsP)
        BY <1>2, <3>2
      <4> QED
        BY <3>1, <4>3, <4>4, Zenon
    <3>3. CASE ~(c > m /\ c <= m + n2)
      <4>1. w2[c] = w1[c]
        BY <1>2, <2>10, <3>3
      <4>2. CASE c > s /\ c <= s + n1
        <5>1. c - s \in 1..n1 /\ c = s + (c - s)
          BY <1>2, <4>2
        <5>2. w1[c] = BsCell(k, 1, BsIdx(bsSwap, t, c - s))
          BY <1>11, <5>1
        <5>3. BsHome(bsAlign, bsSwap, k, bsP, t, c, w1[c])
          BY <1>1, <5>1, <5>2, Zenon DEF BsHome
        <5>4. ~(c <= bsP)
          BY <1>2, <4>2
        <5> QED
          BY <3>1, <4>1, <5>3, <5>4, Zenon
      <4>3. CASE ~(c > s /\ c <= s + n1)
        <5>1. (c <= bsP /\ w1[c] = bsMem[c]) \/ (~(c <= bsP) /\ (w1[c] = BsZero \/ w1[c] = bsMem[c]))
          BY <1>2, <1>11, <4>3
        <5> QED
          BY <3>1, <4>1, <5>1, Zenon
      <4> QED
        BY <4>2, <4>3, Zenon
    <3> QED
      BY <3>2, <3>3, Zenon
  <2>12. BsPutAt(bsAlign, bsSwap, bsMem, k, bsP, t, w2)
    BY <2>10, <2>11, Zenon DEF BsPutAt
  <2> QED
    BY <1>1, <2>5, <2>8, <2>9, <2>12, Zenon
<1> QED
  BY <1>13, <1>14, Zenon

\* A value that was put: it ends before the next pointer, and its bytes are
\* where they belong.
BsCallWell(al, sw, mem, p, k, call) ==
  /\ call.type \in BsTypes /\ call.at \in Nat
  /\ call.good = BsFine(al, call.at, call.type)
  /\ BsEnd(al, call.at, call.type) <= p
  /\ \A c \in 1..BsCap : \A cell : BsHome(al, sw, k, call.at, call.type, c, cell) => mem[c] = cell

\* Nothing else is in a cell.
BsOwned(al, sw, mem, calls, n, c) ==
  \/ mem[c] = BsOld \/ mem[c] = BsZero
  \/ \E k \in 1..n : BsHome(al, sw, k, calls[k].at, calls[k].type, c, mem[c])

BsAscend(al, calls, n) ==
  \A a, b \in 1..n : a < b => BsEnd(al, calls[a].at, calls[a].type) <= calls[b].at

BsListed(al, sw, mem, p, calls, n) ==
  /\ p \in Nat /\ n \in Nat
  /\ mem = [c \in 1..BsCap |-> mem[c]]
  /\ \A k \in 1..n : BsCallWell(al, sw, mem, p, k, calls[k])
  /\ BsAscend(al, calls, n)
  /\ \A c \in 1..BsCap : BsOwned(al, sw, mem, calls, n, c)

LEMMA BsListsOne ==
  ASSUME NEW al, NEW sw, NEW mem, NEW p, NEW calls, NEW n, BsListed(al, sw, mem, p, calls, n),
         NEW t \in BsTypes, NEW new, BsPutAt(al, sw, mem, n + 1, p, t, new),
         NEW calls2, \A k \in 1..n : calls2[k] = calls[k],
         calls2[n + 1].type = t, calls2[n + 1].at = p, calls2[n + 1].good = BsFine(al, p, t)
  PROVE  BsListed(al, sw, new, BsEnd(al, p, t), calls2, n + 1)
<1>1. /\ p \in Nat /\ n \in Nat
      /\ mem = [c \in 1..BsCap |-> mem[c]]
      /\ \A k \in 1..n : BsCallWell(al, sw, mem, p, k, calls[k])
      /\ BsAscend(al, calls, n)
      /\ \A c \in 1..BsCap : BsOwned(al, sw, mem, calls, n, c)
  BY Zenon DEF BsListed
<1>2. PICK e : e = BsEnd(al, p, t)
  OBVIOUS
<1>3. e \in Nat /\ p <= e
  BY <1>1, <1>2, BsPlaces
<1>4. /\ new = [c \in 1..BsCap |-> new[c]]
      /\ \A c \in 1..BsCap :
           /\ c <= p => new[c] = mem[c]
           /\ \A cell : BsHome(al, sw, n + 1, p, t, c, cell) => new[c] = cell
           /\ new[c] = mem[c] \/ new[c] = BsZero \/ BsHome(al, sw, n + 1, p, t, c, new[c])
  BY Zenon DEF BsPutAt
<1>5. n + 1 \in Nat /\ \A k \in 1..(n + 1) : k \in 1..n \/ k = n + 1
  BY <1>1
<1>6. ASSUME NEW k \in 1..n
      PROVE  BsCallWell(al, sw, new, e, k, calls2[k])
  <2>1. PICK at, u : at = calls[k].at /\ u = calls[k].type
    OBVIOUS
  <2>2. /\ u \in BsTypes /\ at \in Nat /\ calls[k].good = BsFine(al, at, u)
        /\ BsEnd(al, at, u) <= p
        /\ \A c \in 1..BsCap : \A cell : BsHome(al, sw, k, at, u, c, cell) => mem[c] = cell
    BY <1>1, <2>1, Zenon DEF BsCallWell
  <2>3. ASSUME NEW c \in 1..BsCap, NEW cell, BsHome(al, sw, k, at, u, c, cell)
        PROVE  new[c] = cell
    <3>1. mem[c] = cell
      BY <2>2, <2>3, Zenon
    <3>2. c <= BsEnd(al, at, u)
      BY <2>2, <2>3, BsHomeRange
    <3>3. BsEnd(al, at, u) \in Nat
      BY <2>2, BsPlaces
    <3>4. c <= p
      BY <1>1, <2>2, <3>2, <3>3
    <3> QED
      BY <1>4, <3>1, <3>4, Zenon
  <2>4. BsEnd(al, at, u) <= e
    <3>1. BsEnd(al, at, u) \in Nat
      BY <2>2, BsPlaces
    <3> QED
      BY <1>1, <1>3, <2>2, <3>1
  <2> QED
    BY <2>1, <2>2, <2>3, <2>4, Zenon DEF BsCallWell
<1>7. BsCallWell(al, sw, new, e, n + 1, calls2[n + 1])
  <2>1. e <= e
    BY <1>3
  <2> QED
    BY <1>1, <1>2, <1>4, <2>1, Zenon DEF BsCallWell
<1>8. BsAscend(al, calls2, n + 1)
  <2>1. ASSUME NEW a \in 1..(n + 1), NEW b \in 1..(n + 1), a < b
        PROVE  BsEnd(al, calls2[a].at, calls2[a].type) <= calls2[b].at
    <3>1. a \in 1..n
      BY <1>1, <2>1
    <3>2. CASE b \in 1..n
      BY <1>1, <2>1, <3>1, <3>2, Zenon DEF BsAscend
    <3>3. CASE b = n + 1
      <4>1. BsCallWell(al, sw, mem, p, a, calls[a]) /\ calls2[a] = calls[a]
        BY <1>1, <3>1, Zenon
      <4>2. BsEnd(al, calls[a].at, calls[a].type) <= p
        BY <4>1, Zenon DEF BsCallWell
      <4> QED
        BY <3>3, <4>1, <4>2, Zenon
    <3> QED
      BY <1>5, <3>2, <3>3, Zenon
  <2> QED
    BY <2>1, Zenon DEF BsAscend
<1>9. ASSUME NEW c \in 1..BsCap
      PROVE  BsOwned(al, sw, new, calls2, n + 1, c)
  <2>1. n + 1 \in 1..(n + 1) /\ \A k \in 1..n : k \in 1..(n + 1)
    BY <1>1
  <2>2. CASE new[c] = BsZero
    BY <2>2, Zenon DEF BsOwned
  <2>3. CASE BsHome(al, sw, n + 1, p, t, c, new[c])
    BY <2>1, <2>3, Zenon DEF BsOwned
  <2>4. CASE new[c] = mem[c]
    <3>1. BsOwned(al, sw, mem, calls, n, c)
      BY <1>1, Zenon
    <3>2. CASE \E k \in 1..n : BsHome(al, sw, k, calls[k].at, calls[k].type, c, mem[c])
      BY <2>1, <2>4, <3>2, Zenon DEF BsOwned
    <3>3. CASE mem[c] = BsOld \/ mem[c] = BsZero
      BY <2>4, <3>3, Zenon DEF BsOwned
    <3> QED
      BY <3>1, <3>2, <3>3, Zenon DEF BsOwned
  <2> QED
    BY <1>4, <2>2, <2>3, <2>4, Zenon
<1> QED
  BY <1>2, <1>3, <1>4, <1>5, <1>6, <1>7, <1>8, <1>9, Zenon DEF BsListed

\* Ahead, and back to where a value began.
LEMMA BsListsOn ==
  ASSUME NEW al, NEW sw, NEW mem, NEW p, NEW calls, NEW n, BsListed(al, sw, mem, p, calls, n),
         NEW q \in Nat, p <= q
  PROVE  BsListed(al, sw, mem, q, calls, n)
<1>1. /\ p \in Nat /\ n \in Nat
      /\ mem = [c \in 1..BsCap |-> mem[c]]
      /\ \A k \in 1..n : BsCallWell(al, sw, mem, p, k, calls[k])
      /\ BsAscend(al, calls, n)
      /\ \A c \in 1..BsCap : BsOwned(al, sw, mem, calls, n, c)
  BY Zenon DEF BsListed
<1>2. ASSUME NEW k \in 1..n
      PROVE  BsCallWell(al, sw, mem, q, k, calls[k])
  <2>1. PICK e : e = BsEnd(al, calls[k].at, calls[k].type)
    OBVIOUS
  <2>2. e <= p /\ calls[k].type \in BsTypes /\ calls[k].at \in Nat
    BY <1>1, <2>1, Zenon DEF BsCallWell
  <2>3. e \in Nat
    BY <2>1, <2>2, BsPlaces
  <2>4. e <= q
    BY <1>1, <2>2, <2>3
  <2> QED
    BY <1>1, <2>1, <2>4, Zenon DEF BsCallWell
<1> QED
  BY <1>1, <1>2, Zenon DEF BsListed

BsForgotten(mem, q, new) == new = [c \in 1..BsCap |-> IF c > q THEN BsOld ELSE mem[c]]

LEMMA BsListsLess ==
  ASSUME NEW al, NEW sw, NEW mem, NEW p, NEW calls, NEW n, BsListed(al, sw, mem, p, calls, n),
         NEW k \in 1..n, NEW q, q = calls[k].at,
         NEW new, BsForgotten(mem, q, new),
         NEW calls2, \A a \in 1..(k - 1) : calls2[a] = calls[a]
  PROVE  BsListed(al, sw, new, q, calls2, k - 1)
<1>1. /\ p \in Nat /\ n \in Nat
      /\ mem = [c \in 1..BsCap |-> mem[c]]
      /\ \A a \in 1..n : BsCallWell(al, sw, mem, p, a, calls[a])
      /\ BsAscend(al, calls, n)
      /\ \A c \in 1..BsCap : BsOwned(al, sw, mem, calls, n, c)
  BY Zenon DEF BsListed
<1>2. q \in Nat
  BY <1>1, Zenon DEF BsCallWell
<1>3. k - 1 \in Nat /\ \A a \in 1..(k - 1) : a \in 1..n /\ a < k
  BY <1>1
<1>4. new = [c \in 1..BsCap |-> new[c]]
  BY DEF BsForgotten
<1>5. \A c \in 1..BsCap : /\ c <= q => new[c] = mem[c]
                          /\ ~(c <= q) => new[c] = BsOld
  BY <1>2, BsBounds DEF BsForgotten
<1>6. ASSUME NEW a \in 1..(k - 1)
      PROVE  BsCallWell(al, sw, new, q, a, calls2[a])
  <2>1. PICK at, u : at = calls[a].at /\ u = calls[a].type
    OBVIOUS
  <2>2. /\ u \in BsTypes /\ at \in Nat /\ calls[a].good = BsFine(al, at, u)
        /\ \A c \in 1..BsCap : \A cell : BsHome(al, sw, a, at, u, c, cell) => mem[c] = cell
    BY <1>1, <1>3, <2>1, Zenon DEF BsCallWell
  <2>3. BsEnd(al, at, u) <= q
    BY <1>1, <1>3, <2>1, Zenon DEF BsAscend
  <2>4. BsEnd(al, at, u) \in Nat
    BY <2>2, BsPlaces
  <2>5. ASSUME NEW c \in 1..BsCap, NEW cell, BsHome(al, sw, a, at, u, c, cell)
        PROVE  new[c] = cell
    <3>1. mem[c] = cell
      BY <2>2, <2>5, Zenon
    <3>2. c <= BsEnd(al, at, u)
      BY <2>2, <2>5, BsHomeRange
    <3>3. c <= q
      BY <1>2, <2>3, <2>4, <3>2
    <3> QED
      BY <1>5, <3>1, <3>3, Zenon
  <2> QED
    BY <2>1, <2>2, <2>3, <2>5, Zenon DEF BsCallWell
<1>7. BsAscend(al, calls2, k - 1)
  BY <1>1, <1>3, Zenon DEF BsAscend
<1>8. ASSUME NEW c \in 1..BsCap
      PROVE  BsOwned(al, sw, new, calls2, k - 1, c)
  <2>1. CASE ~(c <= q)
    BY <1>5, <2>1, Zenon DEF BsOwned
  <2>2. CASE c <= q
    <3>1. new[c] = mem[c] /\ BsOwned(al, sw, mem, calls, n, c)
      BY <1>1, <1>5, <2>2, Zenon
    <3>2. CASE mem[c] = BsOld \/ mem[c] = BsZero
      BY <3>1, <3>2, Zenon DEF BsOwned
    <3>3. ASSUME NEW a \in 1..n, BsHome(al, sw, a, calls[a].at, calls[a].type, c, mem[c])
          PROVE  BsOwned(al, sw, new, calls2, k - 1, c)
      <4>1. PICK at, u : at = calls[a].at /\ u = calls[a].type
        OBVIOUS
      <4>2. u \in BsTypes /\ at \in Nat
        BY <1>1, <4>1, Zenon DEF BsCallWell
      <4>3. at < c
        BY <3>3, <4>1, <4>2, BsHomeRange
      <4>4. a < k
        <5>1. a # k
          BY <1>2, <2>2, <4>1, <4>3
        <5>2. ASSUME k < a
              PROVE  FALSE
          <6>1. PICK u2 : u2 = calls[k].type
            OBVIOUS
          <6>2. BsEnd(al, q, u2) <= at
            BY <1>1, <4>1, <5>2, <6>1, Zenon DEF BsAscend
          <6>3. u2 \in BsTypes
            BY <1>1, <6>1, Zenon DEF BsCallWell
          <6>4. q <= BsEnd(al, q, u2) /\ BsEnd(al, q, u2) \in Nat
            <7>1. /\ BsStart(al, q, u2) \in Nat /\ q <= BsStart(al, q, u2)
                  /\ BsMid(al, q, u2) \in Nat /\ BsStart(al, q, u2) <= BsMid(al, q, u2)
                  /\ BsEnd(al, q, u2) \in Nat /\ BsMid(al, q, u2) <= BsEnd(al, q, u2)
              BY <1>2, <6>3, BsPlaces
            <7> QED
              BY <1>2, <7>1
          <6> QED
            BY <1>2, <2>2, <4>2, <4>3, <6>2, <6>4
        <5> QED
          BY <5>1, <5>2
      <4>5. a \in 1..(k - 1)
        BY <4>4
      <4> QED
        BY <3>1, <3>3, <4>5, Zenon DEF BsOwned
    <3> QED
      BY <3>1, <3>2, <3>3, Zenon DEF BsOwned
  <2> QED
    BY <2>1, <2>2, Zenon
<1> QED
  BY <1>2, <1>3, <1>4, <1>6, <1>7, <1>8, Zenon DEF BsListed

LEMMA BsCutOf ==
  ASSUME NEW m \in Nat, NEW f, f = [c \in 1..m |-> f[c]], NEW start \in Nat, NEW n \in Nat,
         start + n <= m \/ n = 0
  PROVE  SubSeq(f, start + 1, start + n) = [i \in 1..n |-> f[start + i]]
<1>1. PICK S : f \in Seq(S) /\ Len(f) = m
  BY LenOf
<1>2. CASE n = 0
  BY <1>1, <1>2
<1>3. CASE start + n <= m
  BY <1>1, <1>3
<1> QED
  BY <1>2, <1>3

\* What extract() and get() return of n bytes from start on.
BsFieldGot(start, n, word, got) ==
  /\ got.pos = start + BsThere(start, n)
  /\ got.good = (BsThere(start, n) = n)
  /\ BsThere(start, n) = n =>
       got.value = [i \in 1..n |-> bsMem[start + BsOrd(bsSwap, word, n, i)]]

LEMMA BsGetFieldDoes ==
  ASSUME bsMem = [c \in 1..BsCap |-> bsMem[c]],
         NEW pos \in Nat, NEW f, NEW n \in Nat, NEW start \in Nat,
         f.n = n, start = BsAlignment(pos, n, f.word)
  PROVE  BsFieldGot(start, n, f.word, BsGetField(pos, f))
<1>1. PICK there : there = BsThere(start, n)
  OBVIOUS
<1>2. there \in Nat /\ (there = n => start + n <= BsCap \/ n = 0) /\ BsCap \in Nat
  BY <1>1, BsBounds DEF BsThere, BsLeast
<1>3. PICK v : v = BsOrdered(SubSeq(bsMem, start + 1, start + there), f.word)
  OBVIOUS
<1>4. BsGetField(pos, f) = [pos |-> start + there, good |-> there = n, value |-> v]
  BY <1>1, <1>3, Zenon DEF BsGetField
<1>5. ASSUME there = n
      PROVE  v = [i \in 1..n |-> bsMem[start + BsOrd(bsSwap, f.word, n, i)]]
  <2>1. PICK s : s = SubSeq(bsMem, start + 1, start + n)
    OBVIOUS
  <2>2. s = [i \in 1..n |-> bsMem[start + i]]
    BY <1>2, <1>5, <2>1, BsCutOf
  <2>3. s = [i \in 1..n |-> s[i]]
    BY <2>2
  <2>4. v = BsOrdered(s, f.word)
    BY <1>3, <1>5, <2>1, Zenon
  <2>5. BsInOrder(s, f.word, n, v)
    BY <2>3, <2>4, BsReverses, Zenon
  <2>6. v = [i \in 1..n |-> s[BsOrd(bsSwap, f.word, n, i)]]
    BY <2>5, Zenon DEF BsInOrder
  <2>7. \A i \in 1..n : s[BsOrd(bsSwap, f.word, n, i)] = bsMem[start + BsOrd(bsSwap, f.word, n, i)]
    BY <2>2, BsOrdRange
  <2> QED
    BY <2>6, <2>7
<1>6. /\ BsGetField(pos, f).pos = start + there
      /\ BsGetField(pos, f).good = (there = n)
      /\ BsGetField(pos, f).value = v
  BY <1>4
<1> QED
  BY <1>1, <1>5, <1>6, Zenon DEF BsFieldGot

\* A field that is read where it was put is what was put.
LEMMA BsFirstIs ==
  ASSUME NEW p, NEW k, NEW call, NEW n, NEW start, NEW got,
         BsCallWell(bsAlign, bsSwap, bsMem, p, k, call),
         n = BsN1(call.type), start = BsStart(bsAlign, call.at, call.type),
         BsFieldGot(start, n, BsWord(call.type), got), BsThere(start, n) = n
  PROVE  got.value = BsCells(k, 1, n)
<1>1. PICK t, at : t = call.type /\ at = call.at
  OBVIOUS
<1>2. t \in BsTypes /\ at \in Nat
  BY <1>1, Zenon DEF BsCallWell
<1>3. n \in Nat /\ n > 0 /\ start \in Nat
  BY <1>1, <1>2, BsTypeFields, BsPlaces
<1>4. start + n <= BsCap
  BY <1>3, BsBounds DEF BsThere, BsLeast
<1>5. ASSUME NEW i \in 1..n
      PROVE  bsMem[start + BsOrd(bsSwap, BsWord(t), n, i)] = BsCell(k, 1, i)
  <2>1. PICK j : j = BsOrd(bsSwap, BsWord(t), n, i)
    OBVIOUS
  <2>2. j \in 1..n /\ BsOrd(bsSwap, BsWord(t), n, j) = i
    BY <1>3, <2>1, BsOrdRange
  <2>3. start + j \in 1..BsCap
    BY <1>3, <1>4, <2>2, BsBounds
  <2>4. BsHome(bsAlign, bsSwap, k, at, t, start + j, BsCell(k, 1, i))
    BY <1>1, <2>2, Zenon DEF BsHome, BsIdx
  <2>5. bsMem[start + j] = BsCell(k, 1, i)
    BY <1>1, <2>3, <2>4, Zenon DEF BsCallWell
  <2> QED
    BY <2>1, <2>5, Zenon
<1>6. got.value = [i \in 1..n |-> bsMem[start + BsOrd(bsSwap, BsWord(t), n, i)]]
  BY <1>1, Zenon DEF BsFieldGot
<1>7. BsCells(k, 1, n) = [i \in 1..n |-> BsCell(k, 1, i)]
  BY Zenon DEF BsCells, BsCell
<1>8. \A i \in 1..n : bsMem[start + BsOrd(bsSwap, BsWord(t), n, i)] = BsCell(k, 1, i)
  BY <1>5, Zenon
<1>9. [i \in 1..n |-> bsMem[start + BsOrd(bsSwap, BsWord(t), n, i)]] = [i \in 1..n |-> BsCell(k, 1, i)]
  BY ONLY <1>8
<1> QED
  BY <1>6, <1>7, <1>9, Zenon

LEMMA BsSecondIs ==
  ASSUME NEW p, NEW k, NEW call, NEW n, NEW mid, NEW got, NEW word,
         \A i \in 1..n : BsOrd(bsSwap, word, n, i) = i,
         BsCallWell(bsAlign, bsSwap, bsMem, p, k, call),
         n = BsN2(call.type), mid = BsMid(bsAlign, call.at, call.type),
         BsFieldGot(mid, n, word, got), BsThere(mid, n) = n
  PROVE  got.value = BsCells(k, 2, n)
<1>1. PICK t, at : t = call.type /\ at = call.at
  OBVIOUS
<1>2. t \in BsTypes /\ at \in Nat
  BY <1>1, Zenon DEF BsCallWell
<1>3. n \in Nat /\ mid \in Nat
  BY <1>1, <1>2, BsTypeFields, BsPlaces
<1>4. mid + n <= BsCap \/ n = 0
  BY <1>3, BsBounds DEF BsThere, BsLeast
<1>5. ASSUME NEW i \in 1..n
      PROVE  bsMem[mid + BsOrd(bsSwap, word, n, i)] = BsCell(k, 2, i)
  <2>1. mid + i \in 1..BsCap
    BY <1>3, <1>4, BsBounds
  <2>2. BsHome(bsAlign, bsSwap, k, at, t, mid + i, BsCell(k, 2, i))
    BY <1>1, Zenon DEF BsHome
  <2>3. bsMem[mid + i] = BsCell(k, 2, i)
    BY <1>1, <2>1, <2>2, Zenon DEF BsCallWell
  <2> QED
    BY <2>3, Zenon
<1>6. got.value = [i \in 1..n |-> bsMem[mid + BsOrd(bsSwap, word, n, i)]]
  BY Zenon DEF BsFieldGot
<1>7. BsCells(k, 2, n) = [i \in 1..n |-> BsCell(k, 2, i)]
  BY Zenon DEF BsCells, BsCell
<1>8. \A i \in 1..n : bsMem[mid + BsOrd(bsSwap, word, n, i)] = BsCell(k, 2, i)
  BY <1>5, Zenon
<1>9. [i \in 1..n |-> bsMem[mid + BsOrd(bsSwap, word, n, i)]] = [i \in 1..n |-> BsCell(k, 2, i)]
  BY ONLY <1>8
<1> QED
  BY <1>6, <1>7, <1>9, Zenon

\* The bytes of a value in the order they are told apart.
BsIsWhole(k, n1, n2, w) ==
  /\ DOMAIN w = 1..(n1 + n2)
  /\ \A i \in 1..n1 : w[i] = BsCell(k, 1, i)
  /\ \A i \in 1..n2 : w[n1 + i] = BsCell(k, 2, i)

LEMMA BsWholeIs ==
  ASSUME NEW k, NEW t \in BsTypes, bsCalls[k].type = t
  PROVE  /\ BsIsWhole(k, BsN1(t), BsN2(t), BsWhole(k))
         /\ BsTwo(t) => BsWhole(k) = BsCells(k, 1, BsN1(t)) \o BsCells(k, 2, BsN2(t))
         /\ ~BsTwo(t) => BsWhole(k) = BsCells(k, 1, BsN1(t))
<1>1. PICK n1, n2 : n1 = BsN1(t) /\ n2 = BsN2(t)
  OBVIOUS
<1>2. /\ n1 \in Nat /\ n2 \in Nat
      /\ BsTwo(t) <=> Len(BsFields[t]) # 1
      /\ ~BsTwo(t) => n2 = 0
      /\ BsTwo(t) => BsFields[t][2].n = n2
  BY <1>1, BsTypeFields
<1>3. PICK a, b : a = BsCells(k, 1, n1) /\ b = BsCells(k, 2, n2)
  OBVIOUS
<1>4. a = [i \in 1..n1 |-> BsCell(k, 1, i)] /\ b = [i \in 1..n2 |-> BsCell(k, 2, i)]
  BY <1>3, Zenon DEF BsCells, BsCell
<1>5. CASE ~BsTwo(t)
  <2>1. BsWhole(k) = a
    BY <1>1, <1>2, <1>3, <1>5, Zenon DEF BsWhole, BsN1
  <2>2. n1 + n2 = n1 /\ 1..n2 = {}
    BY <1>2, <1>5
  <2>3. BsIsWhole(k, n1, n2, a)
    BY <1>4, <2>2, Zenon DEF BsIsWhole
  <2> QED
    BY <1>1, <1>3, <1>5, <2>1, <2>3, Zenon
<1>6. CASE BsTwo(t)
  <2>1. BsWhole(k) = a \o b
    BY <1>1, <1>2, <1>3, <1>6, Zenon DEF BsWhole, BsN1
  <2>2. PICK S : /\ S = {BsCell(k, 1, i) : i \in 1..n1} \cup {BsCell(k, 2, i) : i \in 1..n2}
    OBVIOUS
  <2>3. a \in Seq(S) /\ b \in Seq(S) /\ Len(a) = n1 /\ Len(b) = n2
    BY <1>2, <1>4, <2>2
  <2>4. PICK w : w = a \o b
    OBVIOUS
  <2>5. /\ w \in Seq(S) /\ Len(w) = n1 + n2
        /\ \A i \in 1..n1 : w[i] = a[i]
        /\ \A i \in (n1 + 1)..(n1 + n2) : w[i] = b[i - n1]
    <3>1. a \o b \in Seq(S) /\ Len(a \o b) = n1 + n2
      BY ONLY <2>3, Joined
    <3>2. \A i \in 1..n1 : (a \o b)[i] = a[i]
      BY ONLY <2>3, Joined
    <3>3. \A i \in (n1 + 1)..(n1 + n2) : (a \o b)[i] = b[i - n1]
      BY ONLY <2>3, Joined
    <3> QED
      BY <2>4, <3>1, <3>2, <3>3, Zenon
  <2>6. DOMAIN w = 1..(n1 + n2)
    BY <2>5
  <2>7. ASSUME NEW i \in 1..n2
        PROVE  w[n1 + i] = BsCell(k, 2, i)
    <3>1. n1 + i \in (n1 + 1)..(n1 + n2) /\ (n1 + i) - n1 = i
      BY <1>2
    <3>2. w[n1 + i] = b[i]
      BY <2>5, <3>1, Zenon
    <3> QED
      BY <1>4, <3>2, Zenon
  <2>8. \A i \in 1..n1 : w[i] = BsCell(k, 1, i)
    BY <1>4, <2>5, Zenon
  <2>9. BsIsWhole(k, n1, n2, w)
    BY <2>6, <2>7, <2>8, Zenon DEF BsIsWhole
  <2> QED
    BY <1>1, <1>3, <1>6, <2>1, <2>4, <2>9, Zenon
<1> QED
  BY <1>5, <1>6, Zenon

\* A byte of a value is nowhere but where it belongs.
LEMMA BsFound ==
  ASSUME NEW al, NEW sw, NEW mem, NEW p, NEW calls, NEW n, BsListed(al, sw, mem, p, calls, n),
         NEW k \in 1..n, NEW c \in 1..BsCap, NEW j, NEW i, mem[c] = BsCell(k, j, i),
         NEW at, NEW t, at = calls[k].at, t = calls[k].type
  PROVE  BsHome(al, sw, k, at, t, c, BsCell(k, j, i))
<1>1. /\ \A a \in 1..n : BsCallWell(al, sw, mem, p, a, calls[a])
      /\ BsOwned(al, sw, mem, calls, n, c)
  BY Zenon DEF BsListed
<1>2. mem[c].call = k
  BY BsCellFields
<1>3. mem[c] # BsOld /\ mem[c] # BsZero
  BY <1>2 DEF BsOld, BsZero
<1>4. PICK a \in 1..n : BsHome(al, sw, a, calls[a].at, calls[a].type, c, mem[c])
  BY <1>1, <1>3, Zenon DEF BsOwned
<1>5. calls[a].type \in BsTypes /\ calls[a].at \in Nat
  BY <1>1, Zenon DEF BsCallWell
<1>6. mem[c].call = a
  BY <1>4, <1>5, BsHomeRange
<1> QED
  BY <1>2, <1>4, <1>6, Zenon

LEMMA BsTells ==
  ASSUME NEW n, BsListed(bsAlign, bsSwap, bsMem, bsP, bsCalls, n), NEW k \in 1..n,
         bsCalls[k].type # "empty"
  PROVE  bsCalls[k].good <=> \A i \in DOMAIN BsWhole(k) :
                               \E c \in 1..BsCap : bsMem[c] = BsWhole(k)[i]
<1>1. PICK t, at : t = bsCalls[k].type /\ at = bsCalls[k].at
  OBVIOUS
<1>2. /\ t \in BsTypes /\ at \in Nat /\ bsCalls[k].good = BsFine(bsAlign, at, t)
      /\ \A c \in 1..BsCap : \A cell : BsHome(bsAlign, bsSwap, k, at, t, c, cell) => bsMem[c] = cell
  BY <1>1, Zenon DEF BsListed, BsCallWell
<1>3. PICK n1, n2, s, m : /\ n1 = BsN1(t) /\ n2 = BsN2(t)
                          /\ s = BsStart(bsAlign, at, t) /\ m = BsMid(bsAlign, at, t)
  OBVIOUS
<1>4. /\ n1 \in Nat /\ n1 > 0 /\ n2 \in Nat /\ s \in Nat /\ m \in Nat
      /\ m <= s + n1 /\ (m < s + n1 => m >= BsCap)
      /\ BsTwo(t) => n2 > 0
      /\ ~BsTwo(t) => n2 = 0
  BY <1>1, <1>2, <1>3, BsTypeFields, BsPlaces
<1>5. PICK w : w = BsWhole(k) /\ BsIsWhole(k, n1, n2, w)
  BY <1>1, <1>2, <1>3, BsWholeIs, Zenon
<1>6. /\ DOMAIN w = 1..(n1 + n2)
      /\ \A i \in 1..n1 : w[i] = BsCell(k, 1, i)
      /\ \A i \in 1..n2 : w[n1 + i] = BsCell(k, 2, i)
  BY <1>5, Zenon DEF BsIsWhole
<1>7. BsFine(bsAlign, at, t) <=> s + n1 <= BsCap /\ (n2 > 0 => m + n2 <= BsCap)
  <2>1. BsThere(s, n1) = n1 <=> s + n1 <= BsCap
    BY <1>4, BsBounds DEF BsThere, BsLeast
  <2>2. n2 > 0 => (BsThere(m, n2) = n2 <=> m + n2 <= BsCap)
    BY <1>4, BsBounds DEF BsThere, BsLeast
  <2>3. CASE ~BsTwo(t)
    <3>1. ~(n2 > 0)
      BY <1>4, <2>3
    <3> QED
      BY <1>3, <2>1, <2>3, <3>1, Zenon DEF BsFine
  <2>4. CASE BsTwo(t)
    <3>1. n2 > 0 /\ (m + n2 <= BsCap => s + n1 <= BsCap)
      BY <1>4, <2>4, BsBounds
    <3> QED
      BY <1>3, <2>2, <2>4, <3>1, Zenon DEF BsFine
  <2> QED
    BY <2>3, <2>4, Zenon
<1>8. ASSUME BsFine(bsAlign, at, t), NEW i \in DOMAIN w
      PROVE  \E c \in 1..BsCap : bsMem[c] = w[i]
  <2>1. s + n1 <= BsCap /\ (n2 > 0 => m + n2 <= BsCap)
    BY <1>7, <1>8, Zenon
  <2>2. CASE i \in 1..n1
    <3>1. PICK o : o = BsIdx(bsSwap, t, i)
      OBVIOUS
    <3>2. o \in 1..n1 /\ BsIdx(bsSwap, t, o) = i
      BY <1>3, <1>4, <2>2, <3>1, BsOrdRange DEF BsIdx
    <3>3. s + o \in 1..BsCap
      BY <1>4, <2>1, <3>2, BsBounds
    <3>4. bsMem[s + o] = BsCell(k, 1, i)
      BY <1>2, <1>3, <3>2, <3>3, Zenon DEF BsHome
    <3> QED
      BY <1>6, <2>2, <3>3, <3>4, Zenon
  <2>3. CASE ~(i \in 1..n1)
    <3>1. PICK o \in 1..n2 : i = n1 + o
      <4>1. i \in 1..(n1 + n2)
        BY <1>6, <1>8, Zenon
      <4>2. i - n1 \in 1..n2 /\ i = n1 + (i - n1)
        BY <1>4, <2>3, <4>1
      <4> QED
        BY <4>2
    <3>2. m + o \in 1..BsCap
      BY <1>4, <2>1, <3>1, BsBounds
    <3>3. bsMem[m + o] = BsCell(k, 2, o)
      BY <1>2, <1>3, <3>1, <3>2, Zenon DEF BsHome
    <3> QED
      BY <1>6, <3>1, <3>2, <3>3, Zenon
  <2> QED
    BY <2>2, <2>3, Zenon
<1>9. ASSUME \A i \in DOMAIN w : \E c \in 1..BsCap : bsMem[c] = w[i]
      PROVE  BsFine(bsAlign, at, t)
  <2>1. s + n1 <= BsCap
    <3>1. n1 \in 1..n1
      BY <1>4
    <3>2. PICK o : o = BsIdx(bsSwap, t, n1)
      OBVIOUS
    <3>3. o \in 1..n1 /\ BsIdx(bsSwap, t, o) = n1
      BY <1>3, <1>4, <3>1, <3>2, BsOrdRange DEF BsIdx
    <3>4. o \in 1..(n1 + n2)
      BY <1>4, <3>3
    <3>5. PICK c \in 1..BsCap : bsMem[c] = BsCell(k, 1, o)
      BY <1>6, <1>9, <3>3, <3>4, Zenon
    <3>6. BsHome(bsAlign, bsSwap, k, at, t, c, BsCell(k, 1, o))
      BY <1>1, <3>5, BsFound, Zenon
    <3>7. PICK i \in 1..n1 : c = s + i /\ BsCell(k, 1, o) = BsCell(k, 1, BsIdx(bsSwap, t, i))
      <4>1. ASSUME NEW i, BsCell(k, 1, o) = BsCell(k, 2, i)
            PROVE  FALSE
        BY <4>1, BsCellFields
      <4> QED
        BY <1>3, <3>6, <4>1, Zenon DEF BsHome
    <3>8. o = BsIdx(bsSwap, t, i)
      BY <3>7, BsCellFields
    <3>9. BsIdx(bsSwap, t, o) = i
      BY <1>3, <1>4, <3>7, <3>8, BsOrdRange DEF BsIdx
    <3>10. i = n1
      BY <3>3, <3>9, Zenon
    <3> QED
      BY <3>5, <3>7, <3>10, BsBounds
  <2>2. ASSUME n2 > 0
        PROVE  m + n2 <= BsCap
    <3>1. n2 \in 1..n2 /\ n1 + n2 \in 1..(n1 + n2)
      BY <1>4, <2>2
    <3>2. PICK c \in 1..BsCap : bsMem[c] = BsCell(k, 2, n2)
      BY <1>6, <1>9, <3>1, Zenon
    <3>3. BsHome(bsAlign, bsSwap, k, at, t, c, BsCell(k, 2, n2))
      BY <1>1, <3>2, BsFound, Zenon
    <3>4. PICK i \in 1..n2 : c = m + i /\ BsCell(k, 2, n2) = BsCell(k, 2, i)
      <4>1. ASSUME NEW i, BsCell(k, 2, n2) = BsCell(k, 1, i)
            PROVE  FALSE
        BY <4>1, BsCellFields
      <4> QED
        BY <1>3, <3>3, <4>1, Zenon DEF BsHome
    <3>5. i = n2
      BY <3>4, BsCellFields
    <3> QED
      BY <3>2, <3>4, <3>5, BsBounds
  <2> QED
    BY <1>7, <2>1, <2>2, Zenon
<1> QED
  BY <1>2, <1>5, <1>8, <1>9, Zenon

BsInv == /\ \E S : bsCalls \in Seq(S)
         /\ BsListed(bsAlign, bsSwap, bsMem, bsP, bsCalls, Len(bsCalls))
         /\ bsRead \in Nat
         /\ BsRoundTrip

LEMMA BsListsNone ==
  ASSUME NEW al, NEW sw, NEW calls, NEW mem, mem = [i \in 1..BsCap |-> BsOld],
         NEW p, p = 0, NEW n, n = 0
  PROVE  BsListed(al, sw, mem, p, calls, n)
<1>1. \A c \in 1..BsCap : BsOwned(al, sw, mem, calls, n, c)
  BY DEF BsOwned
<1>2. 1..n = {} /\ p \in Nat /\ n \in Nat
  OBVIOUS
<1>3. mem = [c \in 1..BsCap |-> mem[c]]
  OBVIOUS
<1> QED
  BY <1>1, <1>2, <1>3, Zenon DEF BsListed, BsAscend

LEMMA BsQuiet ==
  ASSUME NEW S, bsCalls' \in Seq(S), bsGot' = BsNone
  PROVE  BsRoundTrip'
  BY DEF BsRoundTrip, BsNone

\* A read that gives what was put.
LEMMA BsGotRight ==
  ASSUME NEW k, NEW good, NEW value, bsCalls' = bsCalls,
         bsGot' = [call |-> k, good |-> good, value |-> value],
         good = bsCalls[k].good, good => value = BsWhole(k)
  PROVE  BsRoundTrip'
<1>1. bsGot'.call = k /\ bsGot'.good = good /\ bsGot'.value = value
  OBVIOUS
<1>2. BsWhole(k)' = BsWhole(k)
  BY Zenon DEF BsWhole
<1> QED
  BY <1>1, <1>2, Zenon DEF BsRoundTrip

LEMMA BsStarts == BsInit => BsInv
<1> SUFFICES ASSUME BsInit PROVE BsInv
  OBVIOUS
<1>1. bsCalls \in Seq({}) /\ Len(bsCalls) = 0 /\ bsGot = BsNone
  BY DEF BsInit
<1>2. BsListed(bsAlign, bsSwap, bsMem, bsP, bsCalls, Len(bsCalls))
  BY <1>1, BsListsNone, Zenon DEF BsInit
<1>3. bsRead \in Nat
  BY DEF BsInit
<1>4. BsRoundTrip
  BY <1>1 DEF BsRoundTrip, BsNone
<1> QED
  BY <1>1, <1>2, <1>3, <1>4, Zenon DEF BsInv

LEMMA BsPutKeeps ==
  ASSUME BsInv, NEW t \in BsTypes, BsPut(t)
  PROVE  BsInv'
<1>1. PICK S : bsCalls \in Seq(S)
  BY Zenon DEF BsInv
<1>2. PICK n : n = Len(bsCalls)
  OBVIOUS
<1>3. n \in Nat
  BY <1>1, <1>2
<1>4. bsP \in Nat /\ BsListed(bsAlign, bsSwap, bsMem, bsP, bsCalls, n) /\ bsRead \in Nat
  BY <1>2, Zenon DEF BsInv, BsListed
<1>5. PICK after, r : /\ after = BsPutAll(n + 1, t)
                      /\ r = [type |-> t, at |-> bsP, good |-> after.good]
  OBVIOUS
<1>6. /\ bsMem' = after.mem /\ bsP' = after.pos /\ bsCalls' = Append(bsCalls, r)
      /\ bsAlign' = bsAlign /\ bsSwap' = bsSwap /\ bsRead' = bsRead /\ bsGot' = BsNone
  BY <1>2, <1>5 DEF BsPut, BsUnread
<1>7. /\ after.pos = BsEnd(bsAlign, bsP, t)
      /\ after.good = BsFine(bsAlign, bsP, t)
      /\ BsPutAt(bsAlign, bsSwap, bsMem, n + 1, bsP, t, after.mem)
  BY <1>4, <1>5, BsPutsAll, Zenon
<1>8. bsCalls' \in Seq(S \cup {r}) /\ Len(bsCalls') = n + 1
  BY <1>1, <1>2, <1>6
<1>9. bsCalls'[n + 1] = r /\ \A i \in 1..n : bsCalls'[i] = bsCalls[i]
  BY <1>1, <1>2, <1>6
<1>10. r.type = t /\ r.at = bsP /\ r.good = after.good
  BY <1>5
<1>11. BsListed(bsAlign, bsSwap, bsMem', BsEnd(bsAlign, bsP, t), bsCalls', n + 1)
  BY <1>4, <1>6, <1>7, <1>9, <1>10, BsListsOne, Zenon
<1>12. BsListed(bsAlign, bsSwap, bsMem, bsP, bsCalls, Len(bsCalls))'
  BY <1>6, <1>7, <1>8, <1>11, Zenon
<1>13. BsRoundTrip'
  BY <1>6, <1>8, BsQuiet
<1> QED
  BY <1>4, <1>6, <1>8, <1>12, <1>13, Zenon DEF BsInv

LEMMA BsSeekOnKeeps ==
  ASSUME BsInv, NEW q \in Nat, bsP <= q, bsP' = q, UNCHANGED <<bsMem, bsCalls>>, BsUnread
  PROVE  BsInv'
<1>1. PICK S : bsCalls \in Seq(S)
  BY Zenon DEF BsInv
<1>2. /\ bsMem' = bsMem /\ bsCalls' = bsCalls
      /\ bsAlign' = bsAlign /\ bsSwap' = bsSwap /\ bsRead' = bsRead /\ bsGot' = BsNone
  BY DEF BsUnread
<1>3. BsListed(bsAlign, bsSwap, bsMem, bsP, bsCalls, Len(bsCalls)) /\ bsRead \in Nat
  BY Zenon DEF BsInv
<1>4. BsListed(bsAlign, bsSwap, bsMem, q, bsCalls, Len(bsCalls))
  BY <1>3, BsListsOn, Zenon
<1>5. BsListed(bsAlign, bsSwap, bsMem, bsP, bsCalls, Len(bsCalls))'
  BY <1>2, <1>4, Zenon
<1>6. BsRoundTrip'
  BY <1>1, <1>2, BsQuiet
<1> QED
  BY <1>1, <1>2, <1>3, <1>5, <1>6, Zenon DEF BsInv

LEMMA BsSeekBackKeeps ==
  ASSUME BsInv, NEW k \in DOMAIN bsCalls, BsSeekBack(k)
  PROVE  BsInv'
<1>1. PICK S : bsCalls \in Seq(S)
  BY Zenon DEF BsInv
<1>2. PICK n, q : n = Len(bsCalls) /\ q = bsCalls[k].at
  OBVIOUS
<1>3. n \in Nat /\ k \in 1..n /\ k - 1 \in Nat /\ k - 1 <= Len(bsCalls)
  BY <1>1, <1>2
<1>4. /\ bsP' = q /\ bsMem' = [i \in 1..BsCap |-> IF i > q THEN BsOld ELSE bsMem[i]]
      /\ bsCalls' = SubSeq(bsCalls, 1, k - 1)
      /\ bsAlign' = bsAlign /\ bsSwap' = bsSwap /\ bsRead' = bsRead /\ bsGot' = BsNone
  BY <1>2 DEF BsSeekBack, BsUnread
<1>5. BsListed(bsAlign, bsSwap, bsMem, bsP, bsCalls, n) /\ bsRead \in Nat
  BY <1>2, Zenon DEF BsInv
<1>6. /\ bsCalls' \in Seq(S) /\ Len(bsCalls') = k - 1
      /\ \A i \in 1..(k - 1) : bsCalls'[i] = bsCalls[i]
  BY <1>1, <1>3, <1>4, FrontOf
<1>7. BsListed(bsAlign, bsSwap, bsMem', q, bsCalls', k - 1)
  <2>1. PICK new, calls : new = bsMem' /\ calls = bsCalls'
    OBVIOUS
  <2>2. /\ BsForgotten(bsMem, q, new)
        /\ \A a \in 1..(k - 1) : calls[a] = bsCalls[a]
    BY <1>4, <1>6, <2>1, Zenon DEF BsForgotten
  <2>3. BsListed(bsAlign, bsSwap, new, q, calls, k - 1)
    BY ONLY <1>2, <1>3, <1>5, <2>2, BsListsLess, Zenon
  <2> QED
    BY <2>1, <2>3, Zenon
<1>8. BsListed(bsAlign, bsSwap, bsMem, bsP, bsCalls, Len(bsCalls))'
  BY <1>4, <1>6, <1>7, Zenon
<1>9. BsRoundTrip'
  BY <1>4, <1>6, BsQuiet
<1> QED
  BY <1>4, <1>5, <1>6, <1>8, <1>9, Zenon DEF BsInv

\* The reader's steps leave the memory and the list alone.
LEMMA BsReads ==
  ASSUME BsInv, UNCHANGED <<bsAlign, bsSwap, bsMem, bsP, bsCalls>>, bsRead' \in Nat,
         bsGot' = BsNone \/ BsRoundTrip'
  PROVE  BsInv'
<1>1. PICK S : bsCalls \in Seq(S)
  BY Zenon DEF BsInv
<1>2. /\ bsAlign' = bsAlign /\ bsSwap' = bsSwap /\ bsMem' = bsMem /\ bsP' = bsP
      /\ bsCalls' = bsCalls
  OBVIOUS
<1>3. BsListed(bsAlign, bsSwap, bsMem, bsP, bsCalls, Len(bsCalls))'
  BY <1>2, Zenon DEF BsInv
<1>4. bsGot' = BsNone => BsRoundTrip'
  BY <1>1, <1>2, BsQuiet
<1> QED
  BY <1>1, <1>2, <1>3, <1>4, Zenon DEF BsInv

LEMMA BsGetKeeps ==
  ASSUME BsInv, BsGet
  PROVE  BsInv'
<1>1. PICK S : bsCalls \in Seq(S)
  BY Zenon DEF BsInv
<1>2. PICK n, k, call, t : /\ n = Len(bsCalls) /\ k = bsRead + 1
                           /\ call = bsCalls[k] /\ t = call.type
  OBVIOUS
<1>3. BsListed(bsAlign, bsSwap, bsMem, bsP, bsCalls, n) /\ bsRead \in Nat
  BY <1>2, Zenon DEF BsInv
<1>4. PICK f, got : f = BsFields[t][1] /\ got = BsGetField(bsG, f)
  OBVIOUS
<1>5. /\ bsRead < n /\ bsG = call.at /\ Len(BsFields[t]) = 1
      /\ bsRead' = k /\ bsGot' = [call |-> k, good |-> got.good, value |-> got.value]
      /\ UNCHANGED <<bsAlign, bsSwap, bsMem, bsP, bsCalls>>
  BY <1>2, <1>4, Zenon DEF BsGet, BsCome, BsGot
<1>6. k \in 1..n /\ k \in Nat
  BY <1>1, <1>2, <1>3, <1>5
<1>7. BsCallWell(bsAlign, bsSwap, bsMem, bsP, k, call) /\ bsMem = [c \in 1..BsCap |-> bsMem[c]]
  BY <1>2, <1>3, <1>6, Zenon DEF BsListed
<1>8. t \in BsTypes /\ bsG \in Nat /\ call.good = BsFine(bsAlign, bsG, t)
  BY <1>2, <1>5, <1>7, Zenon DEF BsCallWell
<1>9. PICK n1, s : n1 = BsN1(t) /\ s = BsStart(bsAlign, bsG, t)
  OBVIOUS
<1>10. n1 \in Nat /\ s \in Nat /\ ~BsTwo(t)
  BY <1>5, <1>8, <1>9, BsTypeFields, BsPlaces
<1>11. f.n = n1 /\ s = BsAlignment(bsG, n1, f.word) /\ f.word = BsWord(t)
  BY <1>4, <1>9, Zenon DEF BsN1, BsWord, BsStart, BsAl, BsAlignment
<1>12. BsFieldGot(s, n1, BsWord(t), got)
  <2>1. BsFieldGot(s, n1, f.word, BsGetField(bsG, f))
    BY <1>7, <1>8, <1>10, <1>11, BsGetFieldDoes, Zenon
  <2> QED
    BY <1>4, <1>11, <2>1, Zenon
<1>13. got.good = call.good
  BY <1>8, <1>9, <1>10, <1>12, Zenon DEF BsFieldGot, BsFine
<1>14. BsThere(s, n1) = n1 => got.value = BsCells(k, 1, n1)
  <2>1. /\ n1 = BsN1(call.type) /\ s = BsStart(bsAlign, call.at, call.type)
        /\ BsFieldGot(s, n1, BsWord(call.type), got)
    BY <1>2, <1>5, <1>9, <1>12, Zenon
  <2> QED
    BY <1>7, <2>1, BsFirstIs
<1>15. got.good => got.value = BsWhole(k)
  <2>1. BsWhole(k) = BsCells(k, 1, n1)
    BY <1>2, <1>8, <1>9, <1>10, BsWholeIs
  <2> QED
    BY <1>12, <1>14, <2>1, Zenon DEF BsFieldGot
<1>16. BsRoundTrip'
  BY <1>2, <1>5, <1>13, <1>15, BsGotRight, Zenon
<1> QED
  BY <1>5, <1>6, <1>16, BsReads, Zenon

LEMMA BsGetBufferKeeps ==
  ASSUME BsInv, BsGetBuffer
  PROVE  BsInv'
<1>1. PICK S : bsCalls \in Seq(S)
  BY Zenon DEF BsInv
<1>2. PICK n, k, call, t : /\ n = Len(bsCalls) /\ k = bsRead + 1
                           /\ call = bsCalls[k] /\ t = call.type
  OBVIOUS
<1>3. BsListed(bsAlign, bsSwap, bsMem, bsP, bsCalls, n) /\ bsRead \in Nat
  BY <1>2, Zenon DEF BsInv
<1>4. PICK f, length, a, n2, bytes :
        /\ f = BsFields[t][1] /\ length = BsGetField(bsG, f)
        /\ a = length.value[1].call
        /\ n2 = IF a > 0 /\ length.value = BsCells(a, 1, 2)
                THEN BsFields[bsCalls[a].type][2].n ELSE 0
        /\ bytes = BsGetField(length.pos, [n |-> n2, word |-> FALSE])
  OBVIOUS
<1>5. /\ bsRead < n /\ bsG = call.at /\ Len(BsFields[t]) = 2 /\ length.good
      /\ BsGot([bytes EXCEPT !.value = length.value \o bytes.value])
  BY <1>2, <1>4, Zenon DEF BsGetBuffer, BsCome
<1>6. k \in 1..n /\ k \in Nat /\ k > 0
  BY <1>1, <1>2, <1>3, <1>5
<1>7. BsCallWell(bsAlign, bsSwap, bsMem, bsP, k, call) /\ bsMem = [c \in 1..BsCap |-> bsMem[c]]
  BY <1>2, <1>3, <1>6, Zenon DEF BsListed
<1>8. t \in BsTypes /\ bsG \in Nat /\ call.good = BsFine(bsAlign, bsG, t)
  BY <1>2, <1>5, <1>7, Zenon DEF BsCallWell
<1>9. PICK s, m, g : s = BsStart(bsAlign, bsG, t) /\ m = BsMid(bsAlign, bsG, t) /\ g = BsN2(t)
  OBVIOUS
<1>10. /\ s \in Nat /\ m \in Nat /\ g \in Nat /\ BsTwo(t) /\ BsN1(t) = 2
       /\ BsFields[t][2].n = g
  <2>1. Len(BsFields[t]) # 1
    BY <1>5
  <2>2. BsTwo(t) /\ BsN1(t) = 2 /\ g \in Nat /\ BsFields[t][2].n = g
    BY <1>8, <1>9, <2>1, BsTypeFields, Zenon
  <2> QED
    BY <1>8, <1>9, <2>2, BsPlaces, Zenon
<1>11. f.n = 2 /\ s = BsAlignment(bsG, 2, f.word) /\ f.word = BsWord(t)
  BY <1>4, <1>9, <1>10, Zenon DEF BsN1, BsWord, BsStart, BsAl, BsAlignment
<1>12. BsFieldGot(s, 2, BsWord(t), length)
  <2>1. 2 \in Nat
    OBVIOUS
  <2>2. BsFieldGot(s, 2, f.word, BsGetField(bsG, f))
    BY <1>7, <1>8, <1>10, <1>11, <2>1, BsGetFieldDoes, Zenon
  <2> QED
    BY <1>4, <1>11, <2>2, Zenon
<1>13. BsThere(s, 2) = 2 /\ length.pos = m
  BY <1>5, <1>9, <1>10, <1>12, Zenon DEF BsFieldGot, BsMid
<1>14. length.value = BsCells(k, 1, 2)
  <2>1. /\ 2 = BsN1(call.type) /\ s = BsStart(bsAlign, call.at, call.type)
        /\ BsFieldGot(s, 2, BsWord(call.type), length)
    BY <1>2, <1>5, <1>9, <1>10, <1>12, Zenon
  <2> QED
    BY <1>7, <1>13, <2>1, BsFirstIs
<1>15. a = k
  BY <1>4, <1>14 DEF BsCells
<1>16. n2 = g
  BY <1>2, <1>4, <1>6, <1>10, <1>14, <1>15, Zenon
<1>17. PICK h : h = [n |-> g, word |-> FALSE]
  OBVIOUS
<1>18. h.n = g /\ h.word = FALSE
  BY <1>17
<1>19. m = BsAlignment(m, g, h.word)
  BY <1>18, Zenon DEF BsAlignment
<1>20. bytes = BsGetField(m, h)
  BY <1>4, <1>13, <1>16, <1>17, Zenon
<1>21. BsFieldGot(m, g, h.word, bytes)
  BY <1>7, <1>10, <1>18, <1>19, <1>20, BsGetFieldDoes, Zenon
<1>22. bytes.good = call.good
  BY <1>8, <1>9, <1>10, <1>21, Zenon DEF BsFieldGot, BsFine
<1>23. BsThere(m, g) = g => bytes.value = BsCells(k, 2, g)
  <2>1. /\ g = BsN2(call.type) /\ m = BsMid(bsAlign, call.at, call.type)
    BY <1>2, <1>5, <1>9, Zenon
  <2>2. \A i \in 1..g : BsOrd(bsSwap, h.word, g, i) = i
    BY <1>18, Zenon DEF BsOrd
  <2>3. ASSUME BsThere(m, g) = g
        PROVE  bytes.value = BsCells(k, 2, g)
    BY <1>7, <1>21, <2>1, <2>2, <2>3, BsSecondIs
  <2> QED
    BY <2>3, Zenon
<1>24. BsWhole(k) = BsCells(k, 1, 2) \o BsCells(k, 2, g)
  BY <1>2, <1>8, <1>9, <1>10, BsWholeIs, Zenon
<1>25. bytes.good => length.value \o bytes.value = BsWhole(k)
  BY <1>14, <1>21, <1>23, <1>24, Zenon DEF BsFieldGot
<1>26. PICK v : v = length.value \o bytes.value
  OBVIOUS
<1>27. \E pos, good, value : bytes = [pos |-> pos, good |-> good, value |-> value]
  BY <1>20, Zenon DEF BsGetField
<1>28. [bytes EXCEPT !.value = v].good = bytes.good /\ [bytes EXCEPT !.value = v].value = v
  BY <1>27
<1>29. /\ bsRead' = k /\ bsGot' = [call |-> k, good |-> bytes.good, value |-> v]
       /\ UNCHANGED <<bsAlign, bsSwap, bsMem, bsP, bsCalls>>
  BY <1>2, <1>5, <1>26, <1>28, Zenon DEF BsGot
<1>30. BsRoundTrip'
  <2>1. PICK good : good = bytes.good
    OBVIOUS
  <2>2. /\ bsCalls' = bsCalls /\ bsGot' = [call |-> k, good |-> good, value |-> v]
        /\ good = bsCalls[k].good /\ (good => v = BsWhole(k))
    BY <1>2, <1>22, <1>25, <1>26, <1>29, <2>1, Zenon
  <2> QED
    BY <2>2, BsGotRight
<1> QED
  BY <1>6, <1>29, <1>30, BsReads, Zenon

LEMMA BsKept == BsInv /\ [BsNext]_bsVars => BsInv'
<1> SUFFICES ASSUME BsInv, [BsNext]_bsVars PROVE BsInv'
  OBVIOUS
<1>1. PICK S : bsCalls \in Seq(S)
  BY Zenon DEF BsInv
<1>2. bsP \in Nat /\ bsRead \in Nat /\ BsRoundTrip
  BY Zenon DEF BsInv, BsListed
<1>3. ASSUME NEW q \in Int, q > bsP, bsP' = q, UNCHANGED <<bsMem, bsCalls>>, BsUnread
      PROVE  BsInv'
  <2>1. q \in Nat /\ bsP <= q
    BY <1>2, <1>3
  <2> QED
    BY <1>3, <2>1, BsSeekOnKeeps, Zenon
<1>4. CASE BsSeekOn
  <2>1. PICK q \in (bsP + 1)..(BsCap + 1) : bsP' = q /\ UNCHANGED <<bsMem, bsCalls>> /\ BsUnread
    BY <1>4, Zenon DEF BsSeekOn
  <2>2. q \in Int /\ q > bsP
    BY <1>2, BsBounds
  <2> QED
    BY <1>3, <2>1, <2>2, Zenon
<1>5. CASE BsSeekOff
  <2>1. PICK q \in 0..BsCap : q > bsP /\ bsP' = q /\ UNCHANGED <<bsMem, bsCalls>> /\ BsUnread
    BY <1>5, Zenon DEF BsSeekOff
  <2>2. q \in Int
    OBVIOUS
  <2> QED
    BY <1>3, <2>1, <2>2, Zenon
<1>6. ASSUME NEW k \in DOMAIN bsCalls, BsSeekTo(k)
      PROVE  BsInv'
  <2>1. k - 1 \in Nat
    BY <1>1
  <2>2. bsRead' = k - 1 /\ bsGot' = BsNone /\ UNCHANGED <<bsAlign, bsSwap, bsMem, bsP, bsCalls>>
    BY <1>6, Zenon DEF BsSeekTo
  <2> QED
    BY <2>1, <2>2, BsReads, Zenon
<1>7. CASE BsUnget
  <2>1. bsRead > 0 /\ bsRead' = bsRead - 1 /\ bsGot' = BsNone
    BY <1>7, Zenon DEF BsUnget
  <2>2. UNCHANGED <<bsAlign, bsSwap, bsMem, bsP, bsCalls>>
    BY <1>7, Zenon DEF BsUnget
  <2>3. bsRead' \in Nat
    BY <1>2, <2>1
  <2> QED
    BY <2>1, <2>2, <2>3, BsReads, Zenon
<1>8. CASE BsReset
  <2>1. /\ bsMem' = [i \in 1..BsCap |-> BsOld] /\ bsP' = 0 /\ bsRead' = 0 /\ bsGot' = BsNone
        /\ bsCalls' = << >>
    BY <1>8, Zenon DEF BsReset
  <2>2. bsCalls' \in Seq({}) /\ Len(bsCalls') = 0 /\ bsRead' \in Nat
    BY <2>1
  <2>3. BsListed(bsAlign, bsSwap, bsMem, bsP, bsCalls, Len(bsCalls))'
    BY <2>1, <2>2, BsListsNone, Zenon
  <2>4. BsRoundTrip'
    BY <2>1, <2>2, BsQuiet
  <2> QED
    BY <2>2, <2>3, <2>4, Zenon DEF BsInv
<1>9. CASE UNCHANGED bsVars
  <2>1. UNCHANGED <<bsAlign, bsSwap, bsMem, bsP, bsCalls>> /\ bsRead' = bsRead /\ bsGot' = bsGot
    BY <1>9, Zenon DEF bsVars
  <2>2. BsRoundTrip'
    BY <1>2, <2>1, Zenon DEF BsRoundTrip, BsWhole
  <2> QED
    BY <1>2, <2>1, <2>2, BsReads, Zenon
<1>10. CASE \E t \in BsTypes : BsPut(t)
  BY <1>10, BsPutKeeps, Zenon
<1>11. CASE \E k \in DOMAIN bsCalls : BsSeekBack(k) \/ BsSeekTo(k)
  BY <1>6, <1>11, BsSeekBackKeeps, Zenon
<1>12. CASE BsGet \/ BsGetBuffer
  BY <1>12, BsGetKeeps, BsGetBufferKeeps, Zenon
<1> QED
  BY <1>4, <1>5, <1>7, <1>8, <1>9, <1>10, <1>11, <1>12, Zenon DEF BsNext

\* What is read from an InMemBinStream (MemBinStream.h, BinStream.h) is what was
\* put into the OutMemBinStream over the same memory, of every type, aligned and
\* swapped or not, after any seek of either stream and any overwriting; a read
\* fails exactly if the write at that place did, and the state of the stream
\* tells whether the value is in the memory: for any size of the memory and any
\* number of values.
THEOREM MessagesAgree == MCSpec => []BsAgrees
<1>1. MCInit => BsInv
  BY BsStarts, Zenon DEF MCInit
<1>2. BsInv /\ [MCNext]_MCVars => BsInv'
  BY BsKept, StepOfPart, Zenon
<1>3. BsInv => BsAgrees
  <2> SUFFICES ASSUME BsInv PROVE BsAgrees
    OBVIOUS
  <2>1. PICK S : bsCalls \in Seq(S)
    BY Zenon DEF BsInv
  <2>2. DOMAIN bsCalls = 1..Len(bsCalls)
    BY <2>1
  <2>3. BsStateTells
    BY <2>2, BsTells, Zenon DEF BsInv, BsStateTells
  <2> QED
    BY <2>3, Zenon DEF BsInv, BsAgrees
<1> QED
  BY <1>1, <1>2, <1>3, PTL DEF MCSpec, MCVars

-----------------------------------------------------------------------------
(* BufCodec.  Where a call at position p puts the value of a type, within a *)
(* limit, on a coder that is good or does not look.                        *)

BcAlp(p, w) == IF p % w # 0 /\ p + (w - (p % w)) < BcCap THEN p + (w - (p % w)) ELSE p
BcSwaps(kind, t) == ~(t = "array") /\ ~(kind = "native" \/ t = "byte")

\* From where its bytes are; whether they fit; where the position is afterwards.
BcFrom(kind, p, t) ==
  IF t = "array" THEN BcAlp(p, 2) + 2
  ELSE IF BcSwaps(kind, t) THEN p ELSE BcAlp(p, BcWidth(t))
BcFit(kind, l, p, t) == BcFrom(kind, p, t) + BcWidth(t) <= l
BcTo(kind, l, p, t) ==
  IF BcFit(kind, l, p, t) THEN BcFrom(kind, p, t) + BcWidth(t)
  ELSE IF BcFrom(kind, p, t) <= l \/ t # "array" THEN BcFrom(kind, p, t)
  ELSE BcFrom(kind, p, t) - 2

BcByte(v, j) == <<v, j>>
BcOrd(kind, t, j) == IF BcSwaps(kind, t) THEN BcWidth(t) + 1 - j ELSE j

\* Where a byte of a value, or of the count before it, belongs.
BcHome(kind, l, k, p, t, c, cell) ==
  \/ /\ BcFit(kind, l, p, t)
     /\ \E j \in 1..BcWidth(t) : /\ c = BcFrom(kind, p, t) + j
                                 /\ cell = BcByte(<<"value", k>>, BcOrd(kind, t, j))
  \/ /\ t = "array" /\ BcFrom(kind, p, t) <= l
     /\ \E j \in 1..2 : /\ c = BcFrom(kind, p, t) - 2 + j
                        /\ cell = BcByte(<<"count", BcArray>>, j)

LEMMA BcTypeWidth ==
  ASSUME NEW t \in BcTypes
  PROVE  BcWidth(t) \in Nat \ {0}
<1>1. CASE t = "byte"
  BY <1>1 DEF BcWidth
<1>2. CASE t = "int16"
  BY <1>2 DEF BcWidth
<1>3. CASE t = "int32"
  BY <1>3 DEF BcWidth
<1>4. CASE t = "array"
  BY <1>4, BcBounds DEF BcWidth
<1> QED
  BY <1>1, <1>2, <1>3, <1>4 DEF BcTypes

LEMMA BcAlpIs ==
  ASSUME NEW p \in Nat, NEW w \in Nat \ {0}
  PROVE  BcAlp(p, w) \in Nat /\ p <= BcAlp(p, w) /\ (p <= BcCap => BcAlp(p, w) <= BcCap)
<1>1. PICK r : r = p % w
  OBVIOUS
<1>2. r \in Nat /\ r < w
  BY <1>1
<1>3. BcAlp(p, w) = IF r # 0 /\ p + (w - r) < BcCap THEN p + (w - r) ELSE p
  BY <1>1, Zenon DEF BcAlp
<1> QED
  BY <1>2, <1>3, BcBounds

LEMMA BcPlaces ==
  ASSUME NEW kind, NEW l \in Int, NEW p \in Nat, NEW t \in BcTypes
  PROVE  /\ BcFrom(kind, p, t) \in Nat /\ p <= BcFrom(kind, p, t)
         /\ t = "array" => p <= BcFrom(kind, p, t) - 2
         /\ BcTo(kind, l, p, t) \in Nat /\ p <= BcTo(kind, l, p, t)
         /\ p <= BcCap /\ l <= BcCap => BcTo(kind, l, p, t) <= BcCap
<1>1. PICK w, f, e : w = BcWidth(t) /\ f = BcFrom(kind, p, t) /\ e = BcTo(kind, l, p, t)
  OBVIOUS
<1>2. w \in Nat \ {0}
  BY <1>1, BcTypeWidth
<1>3. CASE t = "array"
  <2>1. PICK a : a = BcAlp(p, 2)
    OBVIOUS
  <2>2. a \in Nat /\ p <= a /\ (p <= BcCap => a <= BcCap)
    BY <2>1, BcAlpIs
  <2>3. f = a + 2
    BY <1>1, <1>3, <2>1, Zenon DEF BcFrom
  <2>4. e = IF f + w <= l THEN f + w ELSE IF f <= l THEN f ELSE f - 2
    BY <1>1, <1>3, Zenon DEF BcTo, BcFit
  <2>5. /\ f \in Nat /\ p <= f /\ p <= f - 2 /\ e \in Nat /\ p <= e
        /\ p <= BcCap /\ l <= BcCap => e <= BcCap
    BY <1>2, <2>2, <2>3, <2>4, BcBounds
  <2> QED
    BY <1>1, <2>5, Zenon
<1>4. CASE t # "array"
  <2>1. f \in Nat /\ p <= f /\ (p <= BcCap => f <= BcCap)
    <3>1. CASE BcSwaps(kind, t)
      <4>1. f = p
        BY <1>1, <1>4, <3>1, Zenon DEF BcFrom
      <4> QED
        BY <4>1
    <3>2. CASE ~BcSwaps(kind, t)
      <4>1. f = BcAlp(p, w)
        BY <1>1, <1>4, <3>2, Zenon DEF BcFrom
      <4> QED
        BY <1>2, <4>1, BcAlpIs
    <3> QED
      BY <3>1, <3>2, Zenon
  <2>2. e = IF f + w <= l THEN f + w ELSE f
    BY <1>1, <1>4, Zenon DEF BcTo, BcFit
  <2>3. /\ e \in Nat /\ p <= e
        /\ p <= BcCap /\ l <= BcCap => e <= BcCap
    BY <1>2, <2>1, <2>2, BcBounds
  <2> QED
    BY <1>1, <1>4, <2>1, <2>3, Zenon
<1> QED
  BY <1>3, <1>4, Zenon

\* A limit e within which a call goes as it went within the limit l.
BcReaches(kind, l, e, p, t) ==
  /\ BcTo(kind, l, p, t) <= e
  /\ BcFit(kind, l, p, t) \/ e = BcTo(kind, l, p, t) \/ e <= l
BcSame(kind, l, e, p, t) ==
  /\ BcFit(kind, e, p, t) <=> BcFit(kind, l, p, t)
  /\ BcTo(kind, e, p, t) = BcTo(kind, l, p, t)
  /\ t = "array" => (BcFrom(kind, p, t) <= e <=> BcFrom(kind, p, t) <= l)

\* The decoder's limit is where the encoder stopped: the same calls fit.
LEMMA BcSameFit ==
  ASSUME NEW kind, NEW l \in Int, NEW e \in Int, NEW p \in Nat, NEW t \in BcTypes,
         BcReaches(kind, l, e, p, t)
  PROVE  BcSame(kind, l, e, p, t)
<1>1. PICK w, f : w = BcWidth(t) /\ f = BcFrom(kind, p, t)
  OBVIOUS
<1>2. w \in Nat \ {0} /\ f \in Nat
  BY <1>1, BcTypeWidth, BcPlaces
<1>3. /\ BcFit(kind, e, p, t) <=> f + w <= e
      /\ BcFit(kind, l, p, t) <=> f + w <= l
  BY <1>1, Zenon DEF BcFit
<1>4. CASE t = "array"
  <2>1. /\ BcTo(kind, e, p, t) = IF f + w <= e THEN f + w ELSE IF f <= e THEN f ELSE f - 2
        /\ BcTo(kind, l, p, t) = IF f + w <= l THEN f + w ELSE IF f <= l THEN f ELSE f - 2
    BY <1>1, <1>4, Zenon DEF BcTo, BcFit
  <2>2. PICK a, b : a = BcTo(kind, e, p, t) /\ b = BcTo(kind, l, p, t)
    OBVIOUS
  <2>3. /\ b <= e /\ (f + w <= l \/ e = b \/ e <= l)
        /\ a = IF f + w <= e THEN f + w ELSE IF f <= e THEN f ELSE f - 2
        /\ b = IF f + w <= l THEN f + w ELSE IF f <= l THEN f ELSE f - 2
    BY <1>3, <2>1, <2>2, Zenon DEF BcReaches
  <2>4. (f + w <= e <=> f + w <= l) /\ a = b /\ (f <= e <=> f <= l)
    BY <1>2, <2>3
  <2> QED
    BY <1>1, <1>3, <2>2, <2>4, Zenon DEF BcSame
<1>5. CASE t # "array"
  <2>1. /\ BcTo(kind, e, p, t) = IF f + w <= e THEN f + w ELSE f
        /\ BcTo(kind, l, p, t) = IF f + w <= l THEN f + w ELSE f
    BY <1>1, <1>5, Zenon DEF BcTo, BcFit
  <2>2. PICK a, b : a = BcTo(kind, e, p, t) /\ b = BcTo(kind, l, p, t)
    OBVIOUS
  <2>3. /\ b <= e /\ (f + w <= l \/ e = b \/ e <= l)
        /\ a = IF f + w <= e THEN f + w ELSE f
        /\ b = IF f + w <= l THEN f + w ELSE f
    BY <1>3, <2>1, <2>2, Zenon DEF BcReaches
  <2>4. (f + w <= e <=> f + w <= l) /\ a = b
    BY <1>2, <2>3
  <2> QED
    BY <1>3, <1>5, <2>2, <2>4, Zenon DEF BcSame
<1> QED
  BY <1>4, <1>5, Zenon

\* A byte of a value is behind where the call began, and not past where it ended.
LEMMA BcHomeRange ==
  ASSUME NEW kind, NEW l \in Int, NEW k, NEW p \in Nat, NEW t \in BcTypes, NEW c \in 1..BcCap,
         NEW cell, BcHome(kind, l, k, p, t, c, cell)
  PROVE  p < c /\ c <= BcTo(kind, l, p, t)
<1>1. PICK w, f, e : w = BcWidth(t) /\ f = BcFrom(kind, p, t) /\ e = BcTo(kind, l, p, t)
  OBVIOUS
<1>2. /\ w \in Nat \ {0} /\ f \in Nat /\ p <= f /\ e \in Nat
      /\ t = "array" => p <= f - 2
  BY <1>1, BcTypeWidth, BcPlaces
<1>3. ASSUME BcFit(kind, l, p, t), NEW j \in 1..w, c = f + j
      PROVE  p < c /\ c <= e
  <2>1. e = f + w
    BY <1>1, <1>3, Zenon DEF BcTo
  <2> QED
    BY <1>2, <1>3, <2>1
<1>4. ASSUME t = "array", f <= l, NEW j \in 1..2, c = f - 2 + j
      PROVE  p < c /\ c <= e
  <2>1. e = IF f + w <= l THEN f + w ELSE f
    BY <1>1, <1>4, Zenon DEF BcTo, BcFit
  <2> QED
    BY <1>2, <1>4, <2>1
<1> QED
  BY <1>1, <1>3, <1>4, Zenon DEF BcHome

LEMMA BcBytesAre ==
  ASSUME NEW v, NEW w \in Nat
  PROVE  Len(BcBytes(v, w)) = w /\ \A j \in 1..w : BcBytes(v, w)[j] = BcByte(v, j)
<1>1. PICK s : s = BcBytes(v, w)
  OBVIOUS
<1>2. s = [j \in 1..w |-> BcByte(v, j)]
  BY <1>1, Zenon DEF BcBytes, BcByte
<1>3. Len(s) = w /\ \A j \in 1..w : s[j] = BcByte(v, j)
  BY <1>2
<1> QED
  BY <1>1, <1>3, Zenon

LEMMA BcTurned ==
  ASSUME NEW s, NEW w \in Nat, Len(s) = w
  PROVE  /\ BcReversed(s) = [j \in 1..w |-> s[w + 1 - j]]
         /\ Len(BcReversed(s)) = w /\ \A j \in 1..w : BcReversed(s)[j] = s[w + 1 - j]
<1>1. PICK r : r = BcReversed(s)
  OBVIOUS
<1>2. r = [j \in 1..w |-> s[w + 1 - j]]
  BY <1>1, Zenon DEF BcReversed
<1>3. Len(r) = w /\ \A j \in 1..w : r[j] = s[w + 1 - j]
  BY <1>2
<1> QED
  BY <1>1, <1>2, <1>3, Zenon

LEMMA BcAligns ==
  ASSUME NEW m, NEW p, NEW l, NEW mk, NEW b, b = BfRec(m, BcCap, p, l, mk), NEW w
  PROVE  BuAlign(b, w) = BfRec(m, BcCap, BcAlp(p, w), l, mk)
<1>1. b.pos = p /\ b.cap = BcCap
  BY BfFields
<1>2. PICK up : up = p + (w - (p % w))
  OBVIOUS
<1>3. BuAlign(b, w) = IF p % w # 0 /\ up < BcCap THEN [b EXCEPT !.pos = up] ELSE b
  BY <1>1, <1>2, Zenon DEF BuAlign
<1>4. BcAlp(p, w) = IF p % w # 0 /\ up < BcCap THEN up ELSE p
  BY <1>2, Zenon DEF BcAlp
<1>5. [b EXCEPT !.pos = up] = BfRec(m, BcCap, up, l, mk)
  BY DEF BfRec
<1>6. CASE p % w # 0 /\ up < BcCap
  BY <1>3, <1>4, <1>5, <1>6, Zenon
<1>7. CASE ~(p % w # 0 /\ up < BcCap)
  BY <1>3, <1>4, <1>7, Zenon
<1> QED
  BY <1>6, <1>7, Zenon

\* The n cells of s stored from pos on, and nothing else.
BcStoredAt(mem, pos, s, n, r) ==
  /\ r = [c \in 1..BcCap |-> r[c]]
  /\ \A c \in 1..BcCap : /\ c <= pos => r[c] = mem[c]
                         /\ c > pos + n => r[c] = mem[c]
                         /\ \A j \in 1..n : c = pos + j => r[c] = s[j]

BcStoredIn(m, p, l, mk, s, n, b) ==
  \E r : b = BfRec(r, BcCap, p + n, l, mk) /\ BcStoredAt(m, p, s, n, r)

LEMMA BcStores ==
  ASSUME NEW m, NEW p \in Nat, NEW l, NEW mk, NEW b, b = BfRec(m, BcCap, p, l, mk),
         NEW s, NEW n \in Nat, Len(s) = n
  PROVE  BcStoredIn(m, p, l, mk, s, n, BuStored(b, s))
<1>1. PICK r : r = [i \in 1..BcCap |-> IF i \in (p + 1)..(p + Len(s)) THEN s[i - p] ELSE m[i]]
  OBVIOUS
<1>2. BuStored(b, s) = BfRec(r, BcCap, p + n, l, mk)
  <2>1. BuStored(b, s) = BfRec([i \in 1..BcCap |-> IF i \in (p + 1)..(p + Len(s))
                                                   THEN s[i - p] ELSE m[i]],
                               BcCap, p + Len(s), l, mk)
    BY BfStoresAt
  <2> QED
    BY <1>1, <2>1, Zenon
<1>3. r = [i \in 1..BcCap |-> IF i \in (p + 1)..(p + n) THEN s[i - p] ELSE m[i]]
  BY <1>1
<1>4. r = [c \in 1..BcCap |-> r[c]]
  BY <1>3
<1>5. ASSUME NEW c \in 1..BcCap
      PROVE  /\ c <= p => r[c] = m[c]
             /\ c > p + n => r[c] = m[c]
             /\ \A j \in 1..n : c = p + j => r[c] = s[j]
  BY <1>3, BcBounds
<1>6. BcStoredAt(m, p, s, n, r)
  BY <1>4, <1>5, Zenon DEF BcStoredAt
<1> QED
  BY <1>2, <1>6, Zenon DEF BcStoredIn

\* What put(v) makes of a good coder at p, or at a once it is aligned.
BcNativePut(m, a, l, mk, s, w, res) ==
  \E r, e : /\ res.buf = BfRec(r, BcCap, e, l, mk)
            /\ a + w <= l => res.good /\ e = a + w /\ BcStoredAt(m, a, s, w, r)
            /\ ~(a + w <= l) => ~res.good /\ e = a /\ r = m

LEMMA BcPutsNative ==
  ASSUME NEW m, NEW p \in Nat, NEW l, NEW mk, NEW c, c.buf = BfRec(m, BcCap, p, l, mk), c.good,
         NEW s, NEW w \in Nat \ {0}, Len(s) = w
  PROVE  BcNativePut(m, BcAlp(p, w), l, mk, s, w, BcPutNative(c, s))
<1>1. PICK a, d : a = BcAlp(p, w) /\ d = BfRec(m, BcCap, a, l, mk)
  OBVIOUS
<1>2. a \in Nat /\ w \in Nat
  BY <1>1, BcAlpIs
<1>3. BuAlign(c.buf, w) = d
  BY <1>1, BcAligns
<1>4. BuFits(d, w) <=> a + w <= l
  <2>1. d.pos = a /\ d.lim = l
    BY <1>1, BfFields
  <2> QED
    BY <2>1, Zenon DEF BuFits
<1>5. BcPutNative(c, s) = [buf |-> BuPut(d, s), good |-> BuFits(d, w)]
  BY <1>3, Zenon DEF BcPutNative
<1>6. PICK b, g : /\ b = BuPut(d, s) /\ g = BuFits(d, w)
                  /\ BcPutNative(c, s) = [buf |-> b, good |-> g]
  BY <1>5, Zenon
<1>7. BcPutNative(c, s).buf = b /\ BcPutNative(c, s).good = g
  BY <1>6
<1>8. BuPut(d, s) = IF BuFits(d, w) THEN BuStored(d, s) ELSE d
  BY Zenon DEF BuPut
<1>9. CASE a + w <= l
  <2>1. b = BuStored(d, s) /\ g
    BY <1>4, <1>6, <1>8, <1>9, Zenon
  <2>2. BcStoredIn(m, a, l, mk, s, w, b)
    BY <1>1, <1>2, <2>1, BcStores, Zenon
  <2>3. PICK r : b = BfRec(r, BcCap, a + w, l, mk) /\ BcStoredAt(m, a, s, w, r)
    BY <2>2, Zenon DEF BcStoredIn
  <2> QED
    BY <1>1, <1>7, <1>9, <2>1, <2>3, Zenon DEF BcNativePut
<1>10. CASE ~(a + w <= l)
  <2>1. b = BfRec(m, BcCap, a, l, mk) /\ ~g
    BY <1>1, <1>4, <1>6, <1>8, <1>10, Zenon
  <2> QED
    BY <1>1, <1>7, <1>10, <2>1, Zenon DEF BcNativePut
<1> QED
  BY <1>9, <1>10, Zenon

\* What a put leaves in memory.
BcPutAt(kind, l, m, k, p, t, r) ==
  /\ r = [c \in 1..BcCap |-> r[c]]
  /\ \A c \in 1..BcCap :
       /\ c <= p => r[c] = m[c]
       /\ \A cell : BcHome(kind, l, k, p, t, c, cell) => r[c] = cell
       /\ r[c] = m[c] \/ BcHome(kind, l, k, p, t, c, r[c])

\* What a put leaves of a coder whose buffer is BfRec(m, BcCap, p, l, mk).
BcPutDoes(kind, l, m, mk, k, p, t, c, res) ==
  \E r, e : /\ res.buf = BfRec(r, BcCap, e, l, mk)
            /\ c.good \/ BcSwaps(kind, t) => /\ e = BcTo(kind, l, p, t)
                                             /\ BcPutAt(kind, l, m, k, p, t, r)
            /\ ~(c.good \/ BcSwaps(kind, t)) => e = p /\ r = m
            /\ res.good <=> c.good /\ (BcSwaps(kind, t) \/ BcFit(kind, l, p, t))

LEMMA BcStoredIsPut ==
  ASSUME NEW kind, NEW l \in Int, NEW k, NEW p \in Nat, NEW t \in BcTypes, t # "array",
         NEW m, NEW r, NEW f, f = BcFrom(kind, p, t), NEW w, w = BcWidth(t),
         NEW s, BcStoredAt(m, f, s, w, r), BcFit(kind, l, p, t),
         \A j \in 1..w : s[j] = BcByte(<<"value", k>>, BcOrd(kind, t, j))
  PROVE  BcPutAt(kind, l, m, k, p, t, r)
<1>1. w \in Nat \ {0} /\ f \in Nat /\ p <= f
  BY BcTypeWidth, BcPlaces
<1>2. /\ r = [c \in 1..BcCap |-> r[c]]
      /\ \A c \in 1..BcCap : /\ c <= f => r[c] = m[c]
                             /\ c > f + w => r[c] = m[c]
                             /\ \A j \in 1..w : c = f + j => r[c] = s[j]
  BY Zenon DEF BcStoredAt
<1>3. ASSUME NEW c \in 1..BcCap
      PROVE  /\ c <= p => r[c] = m[c]
             /\ \A cell : BcHome(kind, l, k, p, t, c, cell) => r[c] = cell
             /\ r[c] = m[c] \/ BcHome(kind, l, k, p, t, c, r[c])
  <2>1. c <= p => c <= f
    BY <1>1, BcBounds
  <2>2. ASSUME NEW j \in 1..w, c = f + j
        PROVE  r[c] = BcByte(<<"value", k>>, BcOrd(kind, t, j)) /\ BcHome(kind, l, k, p, t, c, r[c])
    <3>1. r[c] = BcByte(<<"value", k>>, BcOrd(kind, t, j))
      BY <1>2, <2>2, Zenon
    <3> QED
      BY <2>2, <3>1, Zenon DEF BcHome
  <2>3. c <= f \/ c > f + w \/ \E j \in 1..w : c = f + j
    <3>1. (c - f \in 1..w /\ c = f + (c - f)) \/ c <= f \/ c > f + w
      BY <1>1, BcBounds
    <3> QED
      BY <3>1
  <2>4. ASSUME NEW cell, BcHome(kind, l, k, p, t, c, cell)
        PROVE  r[c] = cell
    <3>1. PICK j \in 1..w : c = f + j /\ cell = BcByte(<<"value", k>>, BcOrd(kind, t, j))
      BY <2>4, Zenon DEF BcHome
    <3> QED
      BY <2>2, <3>1, Zenon
  <2> QED
    BY <1>2, <2>1, <2>2, <2>3, <2>4, Zenon
<1> QED
  BY <1>2, <1>3, Zenon DEF BcPutAt

\* A put that puts nothing.
LEMMA BcNothingIsPut ==
  ASSUME NEW kind, NEW l, NEW k, NEW p, NEW t, NEW m, m = [c \in 1..BcCap |-> m[c]],
         ~BcFit(kind, l, p, t), t = "array" => ~(BcFrom(kind, p, t) <= l)
  PROVE  BcPutAt(kind, l, m, k, p, t, m)
<1>1. \A c, cell : ~BcHome(kind, l, k, p, t, c, cell)
  BY Zenon DEF BcHome
<1> QED
  BY <1>1, Zenon DEF BcPutAt

LEMMA BcPutsValue ==
  ASSUME NEW m, m = [x \in 1..BcCap |-> m[x]], NEW p \in Nat, NEW l \in Int, NEW mk,
         NEW c, c.buf = BfRec(m, BcCap, p, l, mk), c.good,
         NEW t \in BcTypes, t # "array", NEW kind, ~BcSwaps(kind, t), NEW k
  PROVE  BcPutDoes(kind, l, m, mk, k, p, t, c, BcPutNative(c, BcValue(k, t)))
<1>1. PICK w, f, s, res : /\ w = BcWidth(t) /\ f = BcFrom(kind, p, t)
                          /\ s = BcValue(k, t) /\ res = BcPutNative(c, s)
  OBVIOUS
<1>2. w \in Nat \ {0} /\ w \in Nat
  BY <1>1, BcTypeWidth
<1>3. f = BcAlp(p, w)
  BY <1>1, Zenon DEF BcFrom
<1>4. s = BcBytes(<<"value", k>>, w)
  BY <1>1, Zenon DEF BcValue
<1>5. Len(s) = w /\ \A j \in 1..w : s[j] = BcByte(<<"value", k>>, BcOrd(kind, t, j))
  BY <1>2, <1>4, BcBytesAre, Zenon DEF BcOrd
<1>6. BcNativePut(m, f, l, mk, s, w, res)
  BY <1>1, <1>2, <1>3, <1>5, BcPutsNative, Zenon
<1>7. PICK r, e : /\ res.buf = BfRec(r, BcCap, e, l, mk)
                  /\ f + w <= l => res.good /\ e = f + w /\ BcStoredAt(m, f, s, w, r)
                  /\ ~(f + w <= l) => ~res.good /\ e = f /\ r = m
  BY <1>6, Zenon DEF BcNativePut
<1>8. BcFit(kind, l, p, t) <=> f + w <= l
  BY <1>1, Zenon DEF BcFit
<1>9. e = BcTo(kind, l, p, t)
  BY <1>1, <1>7, <1>8, Zenon DEF BcTo
<1>10. BcPutAt(kind, l, m, k, p, t, r)
  <2>1. CASE f + w <= l
    <3>1. BcStoredAt(m, f, s, w, r) /\ BcFit(kind, l, p, t)
      BY <1>7, <1>8, <2>1, Zenon
    <3> QED
      BY <1>1, <1>5, <3>1, BcStoredIsPut
  <2>2. CASE ~(f + w <= l)
    BY <1>7, <1>8, <2>2, BcNothingIsPut, Zenon
  <2> QED
    BY <2>1, <2>2, Zenon
<1> QED
  BY <1>1, <1>7, <1>8, <1>9, <1>10, Zenon DEF BcPutDoes

LEMMA BcPutsSwapped ==
  ASSUME NEW m, m = [x \in 1..BcCap |-> m[x]], NEW p \in Nat, NEW l \in Int, NEW mk,
         NEW c, NEW good, c = [buf |-> BfRec(m, BcCap, p, l, mk), good |-> good],
         NEW t \in BcTypes, NEW kind, BcSwaps(kind, t), NEW k
  PROVE  BcPutDoes(kind, l, m, mk, k, p, t, c, BcPutSwap(c, BcValue(k, t)))
<1>1. PICK w, s, b, z, res : /\ w = BcWidth(t) /\ s = BcValue(k, t) /\ z = BcReversed(s)
                             /\ b = BfRec(m, BcCap, p, l, mk) /\ res = BcPutSwap(c, s)
  OBVIOUS
<1>2. w \in Nat \ {0} /\ w \in Nat
  BY <1>1, BcTypeWidth
<1>3. p = BcFrom(kind, p, t) /\ t # "array"
  BY Zenon DEF BcFrom, BcSwaps
<1>4. s = BcBytes(<<"value", k>>, w)
  BY <1>1, Zenon DEF BcValue
<1>5. Len(s) = w /\ \A j \in 1..w : s[j] = BcByte(<<"value", k>>, j)
  BY <1>2, <1>4, BcBytesAre, Zenon
<1>6. Len(z) = w /\ \A j \in 1..w : z[j] = s[w + 1 - j]
  BY <1>1, <1>2, <1>5, BcTurned
<1>7. \A j \in 1..w : w + 1 - j \in 1..w
  BY <1>2
<1>8. \A j \in 1..w : z[j] = BcByte(<<"value", k>>, BcOrd(kind, t, j))
  BY <1>1, <1>5, <1>6, <1>7, ZenonT(60) DEF BcOrd
<1>9. c.buf = b /\ c.good = good
  BY <1>1
<1>10. BcFit(kind, l, p, t) <=> p + w <= l
  BY <1>1, <1>3, Zenon DEF BcFit
<1>11. BuAvailable(b) < w <=> ~(p + w <= l)
  <2>1. BuAvailable(b) = l - p
    BY <1>1, BfFields DEF BuAvailable
  <2> QED
    BY <1>2, <2>1
<1>12. CASE p + w <= l
  <2>1. res = [c EXCEPT !.buf = BuStored(b, z)]
    BY <1>1, <1>5, <1>9, <1>11, <1>12, Zenon DEF BcPutSwap
  <2>2. PICK b2 : b2 = BuStored(b, z)
    OBVIOUS
  <2>3. res.buf = b2 /\ res.good = good
    BY <2>1, <2>2
  <2>4. BcStoredIn(m, p, l, mk, z, w, b2)
    BY <1>1, <1>2, <1>6, <2>2, BcStores, Zenon
  <2>5. PICK r : b2 = BfRec(r, BcCap, p + w, l, mk) /\ BcStoredAt(m, p, z, w, r)
    BY <2>4, Zenon DEF BcStoredIn
  <2>6. BcPutAt(kind, l, m, k, p, t, r)
    BY <1>1, <1>3, <1>8, <1>10, <1>12, <2>5, BcStoredIsPut, Zenon
  <2>7. BcTo(kind, l, p, t) = p + w
    BY <1>1, <1>3, <1>10, <1>12, Zenon DEF BcTo
  <2>8. /\ res.buf = BfRec(r, BcCap, p + w, l, mk)
        /\ res.good <=> c.good
    BY <1>9, <2>3, <2>5, Zenon
  <2> QED
    BY <1>1, <2>6, <2>7, <2>8, Zenon DEF BcPutDoes
<1>13. CASE ~(p + w <= l)
  <2>1. res = c
    BY <1>1, <1>5, <1>9, <1>11, <1>13, Zenon DEF BcPutSwap
  <2>2. BcPutAt(kind, l, m, k, p, t, m)
    BY <1>3, <1>10, <1>13, BcNothingIsPut, Zenon
  <2>3. BcTo(kind, l, p, t) = p
    BY <1>1, <1>3, <1>10, <1>13, Zenon DEF BcTo
  <2>4. /\ res.buf = BfRec(m, BcCap, p, l, mk)
        /\ res.good <=> c.good
    BY <1>1, <1>9, <2>1, Zenon
  <2> QED
    BY <1>1, <2>2, <2>3, <2>4, Zenon DEF BcPutDoes
<1> QED
  BY <1>12, <1>13, Zenon

\* The count stored, and the array behind it.
BcArrayThen(kind, l, p, t, r1, f, s, w, r) ==
  \/ BcFit(kind, l, p, t) /\ BcStoredAt(r1, f, s, w, r)
  \/ ~BcFit(kind, l, p, t) /\ r = r1

LEMMA BcArrayIsPut ==
  ASSUME NEW kind, NEW l \in Int, NEW k, NEW p \in Nat, NEW t, t = "array",
         NEW m, NEW r1, NEW r, NEW f, f = BcFrom(kind, p, t), NEW w, w = BcWidth(t),
         NEW s1, BcStoredAt(m, f - 2, s1, 2, r1), f <= l,
         \A j \in 1..2 : s1[j] = BcByte(<<"count", BcArray>>, j),
         NEW s, \A j \in 1..w : s[j] = BcByte(<<"value", k>>, j),
         BcArrayThen(kind, l, p, t, r1, f, s, w, r)
  PROVE  BcPutAt(kind, l, m, k, p, t, r)
<1>1. t \in BcTypes
  BY DEF BcTypes
<1>2. w \in Nat \ {0} /\ f \in Nat /\ f - 2 \in Nat /\ p <= f - 2
  <2>1. w \in Nat \ {0}
    BY <1>1, BcTypeWidth
  <2>2. f \in Nat /\ p <= f - 2
    BY <1>1, BcPlaces
  <2> QED
    BY <2>1, <2>2
<1>3. PICK a : a = f - 2
  OBVIOUS
<1>4. a \in Nat /\ p <= a /\ a + 2 = f
  BY <1>2, <1>3
<1>5. /\ r1 = [c \in 1..BcCap |-> r1[c]]
      /\ \A c \in 1..BcCap : /\ c <= a => r1[c] = m[c]
                             /\ c > a + 2 => r1[c] = m[c]
                             /\ \A j \in 1..2 : c = a + j => r1[c] = s1[j]
  BY <1>3, Zenon DEF BcStoredAt
<1>6. \A j : BcOrd(kind, t, j) = j
  BY Zenon DEF BcOrd, BcSwaps
<1>7. ASSUME NEW c \in 1..BcCap
      PROVE  c <= a \/ c > f \/ \E j \in 1..2 : c = a + j
  <2>1. (c - a \in 1..2 /\ c = a + (c - a)) \/ c <= a \/ c > f
    BY <1>4, BcBounds
  <2> QED
    BY <2>1
<1>8. ASSUME NEW c \in 1..BcCap, NEW j \in 1..2, c = a + j
      PROVE  /\ r1[c] = BcByte(<<"count", BcArray>>, j)
             /\ BcHome(kind, l, k, p, t, c, r1[c]) /\ ~(c <= p) /\ c <= f
  <2>1. r1[c] = BcByte(<<"count", BcArray>>, j)
    BY <1>5, <1>8, Zenon
  <2>2. BcHome(kind, l, k, p, t, c, r1[c])
    BY <1>3, <1>8, <2>1, Zenon DEF BcHome
  <2> QED
    BY <1>4, <1>8, <2>1, <2>2
<1>9. CASE ~BcFit(kind, l, p, t) /\ r = r1
  <2>1. ASSUME NEW c \in 1..BcCap
        PROVE  /\ c <= p => r1[c] = m[c]
               /\ \A cell : BcHome(kind, l, k, p, t, c, cell) => r1[c] = cell
               /\ r1[c] = m[c] \/ BcHome(kind, l, k, p, t, c, r1[c])
    <3>1. (c <= p => c <= a) /\ (c > f => c > a + 2)
      BY <1>4, BcBounds
    <3>2. ASSUME NEW cell, BcHome(kind, l, k, p, t, c, cell)
          PROVE  r1[c] = cell
      <4>1. PICK j \in 1..2 : c = a + j /\ cell = BcByte(<<"count", BcArray>>, j)
        BY <1>3, <1>9, <3>2, Zenon DEF BcHome
      <4> QED
        BY <1>8, <4>1, Zenon
    <3> QED
      BY <1>5, <1>7, <1>8, <3>1, <3>2, Zenon
  <2> QED
    BY <1>5, <1>9, <2>1, Zenon DEF BcPutAt
<1>10. CASE BcFit(kind, l, p, t) /\ BcStoredAt(r1, f, s, w, r)
  <2>1. /\ r = [c \in 1..BcCap |-> r[c]]
        /\ \A c \in 1..BcCap : /\ c <= f => r[c] = r1[c]
                               /\ c > f + w => r[c] = r1[c]
                               /\ \A j \in 1..w : c = f + j => r[c] = s[j]
    BY <1>10, Zenon DEF BcStoredAt
  <2>2. ASSUME NEW c \in 1..BcCap
        PROVE  /\ c <= p => r[c] = m[c]
               /\ \A cell : BcHome(kind, l, k, p, t, c, cell) => r[c] = cell
               /\ r[c] = m[c] \/ BcHome(kind, l, k, p, t, c, r[c])
    <3>1. (c <= p => c <= a /\ c <= f) /\ (c > f + w => c > a + 2)
      BY <1>2, <1>4, BcBounds
    <3>2. ASSUME NEW j \in 1..w, c = f + j
          PROVE  r[c] = BcByte(<<"value", k>>, j) /\ BcHome(kind, l, k, p, t, c, r[c])
      <4>1. r[c] = BcByte(<<"value", k>>, j)
        BY <2>1, <3>2, Zenon
      <4> QED
        BY <1>6, <1>10, <3>2, <4>1, Zenon DEF BcHome
    <3>3. ASSUME NEW cell, BcHome(kind, l, k, p, t, c, cell)
          PROVE  r[c] = cell
      <4>1. CASE \E j \in 1..w : c = f + j /\ cell = BcByte(<<"value", k>>, BcOrd(kind, t, j))
        BY <1>6, <3>2, <4>1, Zenon
      <4>2. CASE \E j \in 1..2 : c = a + j /\ cell = BcByte(<<"count", BcArray>>, j)
        BY <1>8, <2>1, <4>2, Zenon
      <4> QED
        BY <1>3, <3>3, <4>1, <4>2, Zenon DEF BcHome
    <3>4. c > f + w \/ c <= f \/ \E j \in 1..w : c = f + j
      <4>1. (c - f \in 1..w /\ c = f + (c - f)) \/ c <= f \/ c > f + w
        BY <1>2, BcBounds
      <4> QED
        BY <4>1
    <3>5. r[c] = m[c] \/ BcHome(kind, l, k, p, t, c, r[c])
      <4>1. CASE c > f + w
        BY <1>5, <2>1, <3>1, <4>1, Zenon
      <4>2. CASE c <= f
        <5>1. r[c] = r1[c] /\ ~(c > f)
          BY <1>2, <2>1, <4>2
        <5> QED
          BY <1>5, <1>7, <1>8, <5>1, Zenon
      <4> QED
        BY <3>2, <3>4, <4>1, <4>2, Zenon
    <3> QED
      BY <1>5, <2>1, <3>1, <3>3, <3>5, Zenon
  <2> QED
    BY <2>1, <2>2, Zenon DEF BcPutAt
<1> QED
  BY <1>9, <1>10, Zenon DEF BcArrayThen

LEMMA BcPutsArray ==
  ASSUME NEW m, m = [x \in 1..BcCap |-> m[x]], NEW p \in Nat, NEW l \in Int, NEW mk,
         NEW c, c.buf = BfRec(m, BcCap, p, l, mk), c.good,
         NEW t, t = "array", NEW kind, NEW k
  PROVE  BcPutDoes(kind, l, m, mk, k, p, t, c, BcPutArray(c, BcValue(k, t)))
<1>1. t \in BcTypes
  BY DEF BcTypes
<1>2. PICK w, f, a, s, s1 : /\ w = BcWidth(t) /\ f = BcFrom(kind, p, t) /\ a = BcAlp(p, 2)
                            /\ s = BcValue(k, t) /\ s1 = BcCountOf(Len(s))
  OBVIOUS
<1>3. w = BcArray /\ w \in Nat \ {0} /\ w \in Nat
  BY <1>2, BcBounds DEF BcWidth
<1>4. a \in Nat /\ f = a + 2 /\ f - 2 = a /\ f \in Nat
  <2>1. f = a + 2
    BY <1>2, Zenon DEF BcFrom
  <2> QED
    BY <1>2, <2>1, BcAlpIs
<1>5. s = BcBytes(<<"value", k>>, w)
  BY <1>2, Zenon DEF BcValue
<1>6. Len(s) = w /\ \A j \in 1..w : s[j] = BcByte(<<"value", k>>, j)
  BY <1>3, <1>5, BcBytesAre, Zenon
<1>7. Len(s1) = 2 /\ \A j \in 1..2 : s1[j] = BcByte(<<"count", BcArray>>, j)
  <2>1. s1 = BcBytes(<<"count", BcArray>>, 2) /\ 2 \in Nat
    BY <1>2, <1>3, <1>6, Zenon DEF BcCountOf
  <2> QED
    BY <2>1, BcBytesAre
<1>8. PICK d, res : d = BcPutNative(c, s1) /\ res = BcPutArray(c, s)
  OBVIOUS
<1>9. BcNativePut(m, a, l, mk, s1, 2, d)
  <2>1. 2 \in Nat \ {0}
    OBVIOUS
  <2> QED
    BY <1>2, <1>7, <1>8, <2>1, BcPutsNative, Zenon
<1>10. PICK r1, e1 : /\ d.buf = BfRec(r1, BcCap, e1, l, mk)
                     /\ a + 2 <= l => d.good /\ e1 = a + 2 /\ BcStoredAt(m, a, s1, 2, r1)
                     /\ ~(a + 2 <= l) => ~d.good /\ e1 = a /\ r1 = m
  BY <1>9, Zenon DEF BcNativePut
<1>11. BcFit(kind, l, p, t) <=> f + w <= l
  BY <1>2, Zenon DEF BcFit
<1>12. ~BcSwaps(kind, t)
  BY Zenon DEF BcSwaps
<1>13. CASE ~(f <= l)
  <2>1. ~d.good /\ e1 = a /\ r1 = m
    BY <1>4, <1>10, <1>13, Zenon
  <2>2. res = d
    BY <1>2, <1>8, <2>1, Zenon DEF BcPutArray
  <2>3. ~(f + w <= l)
    BY <1>3, <1>4, <1>13
  <2>4. BcTo(kind, l, p, t) = a
    BY <1>2, <1>4, <1>11, <1>13, <2>3, Zenon DEF BcTo
  <2>5. BcPutAt(kind, l, m, k, p, t, m)
    BY <1>2, <1>11, <1>13, <2>3, BcNothingIsPut, Zenon
  <2> QED
    BY <1>2, <1>8, <1>10, <1>11, <1>12, <2>1, <2>2, <2>3, <2>4, <2>5, Zenon DEF BcPutDoes
<1>14. CASE f <= l
  <2>1. d.good /\ e1 = f /\ BcStoredAt(m, f - 2, s1, 2, r1)
    BY <1>4, <1>10, <1>14, Zenon
  <2>2. PICK b : b = d.buf
    OBVIOUS
  <2>3. b = BfRec(r1, BcCap, f, l, mk)
    BY <1>10, <2>1, <2>2, Zenon
  <2>4. BuFits(b, w) <=> f + w <= l
    <3>1. b.pos = f /\ b.lim = l
      BY <2>3, BfFields
    <3> QED
      BY <3>1, Zenon DEF BuFits
  <2>5. res = [buf |-> BuPut(b, s), good |-> BuFits(b, w)]
    BY <1>2, <1>6, <1>8, <2>1, <2>2, Zenon DEF BcPutArray
  <2>6. PICK b2, g : b2 = BuPut(b, s) /\ g = BuFits(b, w) /\ res = [buf |-> b2, good |-> g]
    BY <2>5, Zenon
  <2>7. res.buf = b2 /\ res.good = g
    BY <2>6
  <2>8. BuPut(b, s) = IF BuFits(b, w) THEN BuStored(b, s) ELSE b
    BY <1>6, Zenon DEF BuPut
  <2>9. CASE f + w <= l
    <3>1. b2 = BuStored(b, s) /\ g
      BY <2>4, <2>6, <2>8, <2>9, Zenon
    <3>2. BcStoredIn(r1, f, l, mk, s, w, b2)
      BY <1>3, <1>4, <1>6, <2>3, <3>1, BcStores, Zenon
    <3>3. PICK r : b2 = BfRec(r, BcCap, f + w, l, mk) /\ BcStoredAt(r1, f, s, w, r)
      BY <3>2, Zenon DEF BcStoredIn
    <3>4. BcPutAt(kind, l, m, k, p, t, r)
      <4>1. BcArrayThen(kind, l, p, t, r1, f, s, w, r)
        BY <1>11, <2>9, <3>3, Zenon DEF BcArrayThen
      <4> QED
        BY <1>2, <1>6, <1>7, <1>14, <2>1, <4>1, BcArrayIsPut
    <3>5. BcTo(kind, l, p, t) = f + w
      BY <1>2, <1>11, <2>9, Zenon DEF BcTo
    <3> QED
      BY <1>2, <1>8, <1>11, <1>12, <2>7, <2>9, <3>1, <3>3, <3>4, <3>5, Zenon DEF BcPutDoes
  <2>10. CASE ~(f + w <= l)
    <3>1. b2 = BfRec(r1, BcCap, f, l, mk) /\ ~g
      BY <2>3, <2>4, <2>6, <2>8, <2>10, Zenon
    <3>2. BcPutAt(kind, l, m, k, p, t, r1)
      <4>1. BcArrayThen(kind, l, p, t, r1, f, s, w, r1)
        BY <1>11, <2>10, Zenon DEF BcArrayThen
      <4> QED
        BY <1>2, <1>6, <1>7, <1>14, <2>1, <4>1, BcArrayIsPut
    <3>3. BcTo(kind, l, p, t) = f
      BY <1>2, <1>11, <1>14, <2>10, Zenon DEF BcTo
    <3> QED
      BY <1>2, <1>8, <1>11, <1>12, <2>7, <2>10, <3>1, <3>2, <3>3, Zenon DEF BcPutDoes
  <2> QED
    BY <2>9, <2>10, Zenon
<1> QED
  BY <1>13, <1>14, Zenon

LEMMA BcPutsAny ==
  ASSUME NEW m, m = [x \in 1..BcCap |-> m[x]], NEW p \in Nat, NEW l \in Int, NEW mk,
         NEW good, NEW c, c = [buf |-> BfRec(m, BcCap, p, l, mk), good |-> good],
         NEW t \in BcTypes, NEW k, NEW kind, kind = bcKind
  PROVE  BcPutDoes(kind, l, m, mk, k, p, t, c, BcPut(c, t, BcValue(k, t)))
<1>1. PICK s : s = BcValue(k, t)
  OBVIOUS
<1>2. c.buf = BfRec(m, BcCap, p, l, mk)
  OBVIOUS
<1>3. CASE BcSwaps(kind, t)
  <2>1. BcPut(c, t, s) = BcPutSwap(c, s)
    BY <1>3, Zenon DEF BcPut, BcSwaps
  <2> QED
    BY <1>1, <1>3, <2>1, BcPutsSwapped
<1>4. ASSUME ~BcSwaps(kind, t), c.good
      PROVE  BcPutDoes(kind, l, m, mk, k, p, t, c, BcPut(c, t, s))
  <2>1. CASE t = "array"
    <3>1. BcPut(c, t, s) = BcPutArray(c, s)
      BY <2>1, Zenon DEF BcPut
    <3> QED
      <4>1. BcPutDoes(kind, l, m, mk, k, p, t, c, BcPutArray(c, BcValue(k, t)))
        BY ONLY m = [x \in 1..BcCap |-> m[x]], p \in Nat, l \in Int, <1>2, <1>4, <2>1, BcPutsArray
      <4> QED
        BY <1>1, <3>1, <4>1, Zenon
  <2>2. CASE t # "array"
    <3>1. BcPut(c, t, s) = BcPutNative(c, s)
      BY <1>4, <2>2, Zenon DEF BcPut, BcSwaps
    <3> QED
      BY <1>1, <1>2, <1>4, <2>2, <3>1, BcPutsValue, ZenonT(60)
  <2> QED
    BY <2>1, <2>2, Zenon
<1>5. CASE ~BcSwaps(kind, t) /\ ~c.good
  <2>1. BcPutNative(c, s) = c /\ BcPutNative(c, BcCountOf(Len(s))) = c
    BY <1>5, Zenon DEF BcPutNative
  <2>2. BcPut(c, t, s) = c
    BY <1>5, <2>1, Zenon DEF BcPut, BcPutArray, BcSwaps
  <2> QED
    BY <1>1, <1>2, <1>5, <2>2, Zenon DEF BcPutDoes
<1> QED
  BY <1>1, <1>3, <1>4, <1>5, Zenon

LEMMA IsTruth == \A a, b : (a <= b) \in BOOLEAN
  OBVIOUS

\* What get(p) makes of a good coder at p, or at a once it is aligned.
BcNativeGot(m, a, e, mk, w, g) ==
  /\ a + w <= e => /\ g.c.buf = BfRec(m, BcCap, a + w, e, mk)
                   /\ g.ok /\ g.c.good /\ g.cells = [j \in 1..w |-> m[a + j]]
  /\ ~(a + w <= e) => g.c.buf = BfRec(m, BcCap, a, e, mk) /\ ~g.ok /\ ~g.c.good
  /\ g.ok \in BOOLEAN /\ g.c.good \in BOOLEAN

BcCellsFrom(m, a, w, s) == s = [j \in 1..w |-> m[a + j]]

LEMMA BcCellsAre ==
  ASSUME NEW m, m = [c \in 1..BcCap |-> m[c]], NEW a \in Nat, NEW e \in Int, e <= BcCap, NEW mk,
         NEW w \in Nat, a + w <= e, NEW d, d = BfRec(m, BcCap, a, e, mk)
  PROVE  BcCellsFrom(m, a, w, BuCells(d, w))
<1>1. d.mem = m /\ d.pos = a
  BY BfFields
<1>2. BuCells(d, w) = SubSeq(m, a + 1, a + w)
  BY <1>1, Zenon DEF BuCells
<1>3. BcCap \in Nat /\ a + w <= BcCap
  BY BcBounds
<1>4. SubSeq(m, a + 1, a + w) = [j \in 1..w |-> m[a + j]]
  BY <1>3, BsCutOf
<1> QED
  BY <1>2, <1>4, Zenon DEF BcCellsFrom

LEMMA BcGetsNative ==
  ASSUME NEW m, m = [x \in 1..BcCap |-> m[x]], NEW p \in Nat, NEW e \in Int, e <= BcCap, NEW mk,
         NEW c, c.buf = BfRec(m, BcCap, p, e, mk), c.good, NEW w \in Nat \ {0}
  PROVE  BcNativeGot(m, BcAlp(p, w), e, mk, w, BcGetNative(c, w))
<1>1. PICK a, d : a = BcAlp(p, w) /\ d = BfRec(m, BcCap, a, e, mk)
  OBVIOUS
<1>2. a \in Nat /\ w \in Nat
  BY <1>1, BcAlpIs
<1>3. BuAlign(c.buf, w) = d
  BY <1>1, BcAligns
<1>4. BuFits(d, w) <=> a + w <= e
  <2>1. d.pos = a /\ d.lim = e
    BY <1>1, BfFields
  <2> QED
    BY <2>1, Zenon DEF BuFits
<1>5. PICK f, b, s : /\ f = BuFits(d, w) /\ b = BuGet(d, w)
                     /\ s = IF f THEN BuCells(d, w) ELSE << >>
  OBVIOUS
<1>6. BcGetNative(c, w) = [c |-> [buf |-> b, good |-> f], ok |-> f, cells |-> s]
  BY <1>3, <1>5, Zenon DEF BcGetNative
<1>7. PICK g : g = BcGetNative(c, w)
  OBVIOUS
<1>8. g.c.buf = b /\ g.c.good = f /\ g.ok = f /\ g.cells = s
  <2>1. PICK h : h = [buf |-> b, good |-> f]
    OBVIOUS
  <2>2. h.buf = b /\ h.good = f
    BY <2>1
  <2>3. g = [c |-> h, ok |-> f, cells |-> s]
    BY <1>6, <1>7, <2>1, Zenon
  <2>4. g.c = h /\ g.ok = f /\ g.cells = s
    BY <2>3
  <2> QED
    BY <2>2, <2>4, Zenon
<1>9. f \in BOOLEAN
  BY <1>5, IsTruth, Zenon DEF BuFits
<1>10. CASE a + w <= e
  <2>1. f /\ b = BuMoved(d, w) /\ s = BuCells(d, w)
    BY <1>4, <1>5, <1>10, Zenon DEF BuGet
  <2>2. b = BfRec(m, BcCap, a + w, e, mk)
    BY <1>1, <2>1, BfSetOne
  <2>3. s = [j \in 1..w |-> m[a + j]]
    <3>1. BcCellsFrom(m, a, w, BuCells(d, w))
      BY <1>1, <1>2, <1>10, BcCellsAre, Zenon
    <3> QED
      BY <2>1, <3>1, Zenon DEF BcCellsFrom
  <2> QED
    BY <1>1, <1>7, <1>8, <1>9, <1>10, <2>1, <2>2, <2>3, Zenon DEF BcNativeGot
<1>11. CASE ~(a + w <= e)
  <2>1. ~f /\ b = d
    BY <1>4, <1>5, <1>11, Zenon DEF BuGet
  <2> QED
    BY <1>1, <1>7, <1>8, <1>9, <1>11, <2>1, Zenon DEF BcNativeGot
<1> QED
  BY <1>10, <1>11, Zenon

\* The bytes of a value, and of the count before it, are where they belong.
BcStands(kind, e, m, k, p, t) ==
  \A c \in 1..BcCap : \A cell : BcHome(kind, e, k, p, t, c, cell) => m[c] = cell

\* What a get makes of a coder whose buffer is BfRec(m, BcCap, p, e, mk).
BcGetDoes(kind, e, m, mk, k, p, t, c, g) ==
  /\ c.good \/ BcSwaps(kind, t) => /\ g.c.buf = BfRec(m, BcCap, BcTo(kind, e, p, t), e, mk)
                                   /\ g.ok <=> BcFit(kind, e, p, t)
                                   /\ g.ok => g.cells = BcValue(k, t)
  /\ ~(c.good \/ BcSwaps(kind, t)) => g.c.buf = BfRec(m, BcCap, p, e, mk) /\ ~g.ok
  /\ g.c.good <=> c.good /\ (BcSwaps(kind, t) \/ BcFit(kind, e, p, t))
  /\ g.ok \in BOOLEAN /\ g.c.good \in BOOLEAN

BcIsBytes(s, w, v) == s = [j \in 1..w |-> BcByte(v, j)]

LEMMA BcValueOf ==
  ASSUME NEW k, NEW t, NEW w, w = BcWidth(t), NEW s, BcIsBytes(s, w, <<"value", k>>)
  PROVE  s = BcValue(k, t)
  BY Zenon DEF BcIsBytes, BcValue, BcBytes, BcByte

LEMMA BcGetsValue ==
  ASSUME NEW m, m = [x \in 1..BcCap |-> m[x]], NEW p \in Nat, NEW e \in Int, e <= BcCap, NEW mk,
         NEW c, c.buf = BfRec(m, BcCap, p, e, mk), c.good,
         NEW t \in BcTypes, t # "array", NEW kind, ~BcSwaps(kind, t), NEW k,
         BcStands(kind, e, m, k, p, t)
  PROVE  BcGetDoes(kind, e, m, mk, k, p, t, c, BcGetNative(c, BcWidth(t)))
<1>1. PICK w, f, g : w = BcWidth(t) /\ f = BcFrom(kind, p, t) /\ g = BcGetNative(c, w)
  OBVIOUS
<1>2. w \in Nat \ {0} /\ f \in Nat
  BY <1>1, BcTypeWidth, BcPlaces
<1>3. f = BcAlp(p, w)
  BY <1>1, Zenon DEF BcFrom
<1>4. BcNativeGot(m, f, e, mk, w, g)
  BY <1>1, <1>2, <1>3, BcGetsNative
<1>5. BcFit(kind, e, p, t) <=> f + w <= e
  BY <1>1, Zenon DEF BcFit
<1>6. CASE f + w <= e
  <2>1. /\ g.c.buf = BfRec(m, BcCap, f + w, e, mk)
        /\ g.ok /\ g.c.good /\ g.cells = [j \in 1..w |-> m[f + j]]
        /\ g.ok \in BOOLEAN /\ g.c.good \in BOOLEAN
    BY <1>4, <1>6, Zenon DEF BcNativeGot
  <2>2. ASSUME NEW j \in 1..w
        PROVE  m[f + j] = BcByte(<<"value", k>>, j)
    <3>1. f + j \in 1..BcCap
      BY <1>2, <1>6, BcBounds
    <3>2. BcHome(kind, e, k, p, t, f + j, BcByte(<<"value", k>>, j))
      <4>1. BcOrd(kind, t, j) = j
        BY Zenon DEF BcOrd
      <4> QED
        BY <1>1, <1>5, <1>6, <4>1, Zenon DEF BcHome
    <3> QED
      BY <3>1, <3>2, Zenon DEF BcStands
  <2>3. BcIsBytes(g.cells, w, <<"value", k>>)
    <3>1. \A j \in 1..w : m[f + j] = BcByte(<<"value", k>>, j)
      BY <2>2, Zenon
    <3>2. [j \in 1..w |-> m[f + j]] = [j \in 1..w |-> BcByte(<<"value", k>>, j)]
      BY ONLY <3>1
    <3> QED
      BY <2>1, <3>2, Zenon DEF BcIsBytes
  <2>4. g.cells = BcValue(k, t)
    BY <1>1, <2>3, BcValueOf, Zenon
  <2>5. BcTo(kind, e, p, t) = f + w
    BY <1>1, <1>5, <1>6, Zenon DEF BcTo
  <2> QED
    BY <1>1, <1>5, <1>6, <2>1, <2>4, <2>5, Zenon DEF BcGetDoes
<1>7. CASE ~(f + w <= e)
  <2>1. /\ g.c.buf = BfRec(m, BcCap, f, e, mk) /\ ~g.ok /\ ~g.c.good
        /\ g.ok \in BOOLEAN /\ g.c.good \in BOOLEAN
    BY <1>4, <1>7, Zenon DEF BcNativeGot
  <2>2. BcTo(kind, e, p, t) = f
    BY <1>1, <1>5, <1>7, Zenon DEF BcTo
  <2> QED
    BY <1>1, <1>5, <1>7, <2>1, <2>2, Zenon DEF BcGetDoes
<1> QED
  BY <1>6, <1>7, Zenon

LEMMA BcGetsSwapped ==
  ASSUME NEW m, m = [x \in 1..BcCap |-> m[x]], NEW p \in Nat, NEW e \in Int, e <= BcCap, NEW mk,
         NEW good \in BOOLEAN, NEW c, c = [buf |-> BfRec(m, BcCap, p, e, mk), good |-> good],
         NEW t \in BcTypes, NEW kind, BcSwaps(kind, t), NEW k,
         BcStands(kind, e, m, k, p, t)
  PROVE  BcGetDoes(kind, e, m, mk, k, p, t, c, BcGetSwap(c, BcWidth(t)))
<1>1. PICK w, b, g : /\ w = BcWidth(t) /\ b = BfRec(m, BcCap, p, e, mk)
                     /\ g = BcGetSwap(c, w)
  OBVIOUS
<1>2. w \in Nat \ {0} /\ w \in Nat
  BY <1>1, BcTypeWidth
<1>3. p = BcFrom(kind, p, t) /\ t # "array"
  BY Zenon DEF BcFrom, BcSwaps
<1>4. c.buf = b /\ c.good = good
  BY <1>1
<1>5. BcFit(kind, e, p, t) <=> p + w <= e
  BY <1>1, <1>3, Zenon DEF BcFit
<1>6. BuAvailable(b) < w <=> ~(p + w <= e)
  <2>1. BuAvailable(b) = e - p
    BY <1>1, BfFields DEF BuAvailable
  <2> QED
    BY <1>2, <2>1
<1>7. CASE p + w <= e
  <2>1. PICK s, z, b2, d : /\ s = BuCells(b, w) /\ z = BcReversed(s) /\ b2 = BuMoved(b, w)
                           /\ d = [c EXCEPT !.buf = b2]
    OBVIOUS
  <2>2. g = [c |-> d, ok |-> TRUE, cells |-> z]
    BY <1>1, <1>4, <1>6, <1>7, <2>1, Zenon DEF BcGetSwap
  <2>3. d.buf = b2 /\ d.good = good
    BY <2>1
  <2>4. g.c = d /\ g.ok /\ g.cells = z /\ g.ok \in BOOLEAN
    BY <2>2
  <2>5. b2 = BfRec(m, BcCap, p + w, e, mk)
    BY <1>1, <2>1, BfSetOne
  <2>6. BcCellsFrom(m, p, w, s)
    BY <1>1, <1>2, <1>7, <2>1, BcCellsAre, Zenon
  <2>7. s = [j \in 1..w |-> m[p + j]]
    BY <2>6, Zenon DEF BcCellsFrom
  <2>8. Len(s) = w /\ \A j \in 1..w : s[j] = m[p + j]
    BY <1>2, <2>7
  <2>9. z = [j \in 1..w |-> s[w + 1 - j]]
    BY <1>2, <2>1, <2>8, BcTurned
  <2>10. ASSUME NEW j \in 1..w
         PROVE  s[w + 1 - j] = BcByte(<<"value", k>>, j)
    <3>1. PICK i : i = w + 1 - j
      OBVIOUS
    <3>2. i \in 1..w /\ j = w + 1 - i /\ p + i \in 1..BcCap
      BY <1>2, <1>7, <3>1, BcBounds, SMTT(30)
    <3>3. BcOrd(kind, t, i) = j
      BY <1>1, <3>2, Zenon DEF BcOrd
    <3>4. BcHome(kind, e, k, p, t, p + i, BcByte(<<"value", k>>, j))
      BY <1>1, <1>3, <1>5, <1>7, <3>2, <3>3, Zenon DEF BcHome
    <3>5. m[p + i] = BcByte(<<"value", k>>, j)
      BY <3>2, <3>4, Zenon DEF BcStands
    <3> QED
      BY <2>8, <3>1, <3>2, <3>5, Zenon
  <2>11. BcIsBytes(z, w, <<"value", k>>)
    <3>1. \A j \in 1..w : s[w + 1 - j] = BcByte(<<"value", k>>, j)
      BY <2>10, Zenon
    <3>2. [j \in 1..w |-> s[w + 1 - j]] = [j \in 1..w |-> BcByte(<<"value", k>>, j)]
      BY ONLY <3>1
    <3> QED
      BY <2>9, <3>2, Zenon DEF BcIsBytes
  <2>12. z = BcValue(k, t)
    BY <1>1, <2>11, BcValueOf, Zenon
  <2>13. BcTo(kind, e, p, t) = p + w
    BY <1>1, <1>3, <1>5, <1>7, Zenon DEF BcTo
  <2>14. /\ g.c.buf = BfRec(m, BcCap, p + w, e, mk)
         /\ g.c.good <=> c.good
         /\ g.c.good \in BOOLEAN
    BY <1>4, <2>3, <2>4, <2>5, Zenon
  <2> QED
    BY <1>1, <1>5, <1>7, <2>4, <2>12, <2>13, <2>14, Zenon DEF BcGetDoes
<1>8. CASE ~(p + w <= e)
  <2>1. g = [c |-> c, ok |-> FALSE, cells |-> << >>]
    BY <1>1, <1>4, <1>6, <1>8, Zenon DEF BcGetSwap
  <2>2. g.c = c /\ ~g.ok /\ g.ok \in BOOLEAN
    BY <2>1
  <2>3. BcTo(kind, e, p, t) = p
    BY <1>1, <1>3, <1>5, <1>8, Zenon DEF BcTo
  <2>4. /\ g.c.buf = BfRec(m, BcCap, p, e, mk)
        /\ g.c.good <=> c.good
        /\ g.c.good \in BOOLEAN
    BY <1>1, <1>4, <2>2, Zenon
  <2> QED
    BY <1>1, <1>5, <1>8, <2>2, <2>3, <2>4, Zenon DEF BcGetDoes
<1> QED
  BY <1>7, <1>8, Zenon

LEMMA BcGetsArray ==
  ASSUME NEW m, m = [x \in 1..BcCap |-> m[x]], NEW p \in Nat, NEW e \in Int, e <= BcCap, NEW mk,
         NEW c, c.buf = BfRec(m, BcCap, p, e, mk), c.good,
         NEW t, t = "array", NEW kind, NEW k,
         BcStands(kind, e, m, k, p, t)
  PROVE  BcGetDoes(kind, e, m, mk, k, p, t, c, BcGetArray(c, BcArray))
<1>1. t \in BcTypes
  BY DEF BcTypes
<1>2. PICK w, f, a, d, g : /\ w = BcWidth(t) /\ f = BcFrom(kind, p, t) /\ a = BcAlp(p, 2)
                           /\ d = BcGetNative(c, 2) /\ g = BcGetArray(c, BcArray)
  OBVIOUS
<1>3. w = BcArray /\ w \in Nat \ {0} /\ w \in Nat
  BY <1>2, BcBounds DEF BcWidth
<1>4. a \in Nat /\ f = a + 2 /\ f - 2 = a /\ f \in Nat
  <2>1. f = a + 2
    BY <1>2, Zenon DEF BcFrom
  <2> QED
    BY <1>2, <2>1, BcAlpIs
<1>5. BcNativeGot(m, a, e, mk, 2, d)
  <2>1. 2 \in Nat \ {0}
    OBVIOUS
  <2> QED
    BY <1>2, <2>1, BcGetsNative, Zenon
<1>6. BcFit(kind, e, p, t) <=> f + w <= e
  BY <1>2, Zenon DEF BcFit
<1>7. ~BcSwaps(kind, t)
  BY Zenon DEF BcSwaps
<1>8. CASE ~(f <= e)
  <2>1. /\ d.c.buf = BfRec(m, BcCap, a, e, mk) /\ ~d.ok /\ ~d.c.good
        /\ d.ok \in BOOLEAN /\ d.c.good \in BOOLEAN
    BY <1>4, <1>5, <1>8, Zenon DEF BcNativeGot
  <2>2. g = d
    BY <1>2, <2>1, Zenon DEF BcGetArray
  <2>3. ~(f + w <= e)
    BY <1>3, <1>4, <1>8
  <2>4. BcTo(kind, e, p, t) = a
    BY <1>2, <1>4, <1>6, <1>8, <2>3, Zenon DEF BcTo
  <2> QED
    BY <1>2, <1>6, <1>7, <2>1, <2>2, <2>3, <2>4, Zenon DEF BcGetDoes
<1>9. CASE f <= e
  <2>1. /\ d.c.buf = BfRec(m, BcCap, f, e, mk)
        /\ d.ok /\ d.cells = [j \in 1..2 |-> m[a + j]]
    BY <1>4, <1>5, <1>9, Zenon DEF BcNativeGot
  <2>2. m[a + 1] = BcByte(<<"count", BcArray>>, 1)
    <3>1. a + 1 \in 1..BcCap /\ 1 \in 1..2
      BY <1>4, <1>9, BcBounds
    <3>2. BcHome(kind, e, k, p, t, a + 1, BcByte(<<"count", BcArray>>, 1))
      BY <1>2, <1>4, <1>9, <3>1, Zenon DEF BcHome
    <3> QED
      BY <3>1, <3>2, Zenon DEF BcStands
  <2>3. d.cells[1] = <<<<"count", BcArray>>, 1>>
    BY <2>1, <2>2 DEF BcByte
  <2>4. d.cells[1][1][2] = w
    BY <1>3, <2>3
  <2>5. (IF w < w THEN w ELSE w) = w
    OBVIOUS
  <2>6. PICK b, h, b2, s : /\ b = d.c.buf /\ h = BuFits(b, w) /\ b2 = BuGet(b, w)
                           /\ s = IF h THEN BuCells(b, w) ELSE << >>
    OBVIOUS
  <2>7. g = [c |-> [buf |-> b2, good |-> h], ok |-> h, cells |-> s]
    BY <1>2, <1>3, <2>1, <2>4, <2>5, <2>6, Zenon DEF BcGetArray
  <2>8. g.c.buf = b2 /\ g.c.good = h /\ g.ok = h /\ g.cells = s
    <3>1. PICK q : q = [buf |-> b2, good |-> h]
      OBVIOUS
    <3>2. q.buf = b2 /\ q.good = h
      BY <3>1
    <3>3. g = [c |-> q, ok |-> h, cells |-> s]
      BY <2>7, <3>1, Zenon
    <3>4. g.c = q /\ g.ok = h /\ g.cells = s
      BY <3>3
    <3> QED
      BY <3>2, <3>4, Zenon
  <2>9. h \in BOOLEAN
    BY <2>6, IsTruth, Zenon DEF BuFits
  <2>10. b = BfRec(m, BcCap, f, e, mk)
    BY <2>1, <2>6, Zenon
  <2>11. h <=> f + w <= e
    <3>1. b.pos = f /\ b.lim = e
      BY <2>10, BfFields
    <3> QED
      BY <2>6, <3>1, Zenon DEF BuFits
  <2>12. CASE f + w <= e
    <3>1. h /\ b2 = BuMoved(b, w) /\ s = BuCells(b, w)
      BY <2>6, <2>11, <2>12, Zenon DEF BuGet
    <3>2. b2 = BfRec(m, BcCap, f + w, e, mk)
      BY <2>10, <3>1, BfSetOne
    <3>3. BcCellsFrom(m, f, w, s)
      <4>1. BcCellsFrom(m, f, w, BuCells(b, w))
        BY <1>3, <1>4, <2>10, <2>12, BcCellsAre, Zenon
      <4> QED
        BY <3>1, <4>1, Zenon
    <3>4. ASSUME NEW j \in 1..w
          PROVE  m[f + j] = BcByte(<<"value", k>>, j)
      <4>1. f + j \in 1..BcCap
        BY <1>3, <1>4, <2>12, BcBounds
      <4>2. BcOrd(kind, t, j) = j
        BY <1>7, Zenon DEF BcOrd
      <4>3. BcHome(kind, e, k, p, t, f + j, BcByte(<<"value", k>>, j))
        BY <1>2, <1>6, <2>12, <4>2, Zenon DEF BcHome
      <4> QED
        BY <4>1, <4>3, Zenon DEF BcStands
    <3>5. BcIsBytes(s, w, <<"value", k>>)
      <4>1. \A j \in 1..w : m[f + j] = BcByte(<<"value", k>>, j)
        BY <3>4, Zenon
      <4>2. [j \in 1..w |-> m[f + j]] = [j \in 1..w |-> BcByte(<<"value", k>>, j)]
        BY ONLY <4>1
      <4> QED
        BY <3>3, <4>2, Zenon DEF BcIsBytes, BcCellsFrom
    <3>6. s = BcValue(k, t)
      BY <1>2, <3>5, BcValueOf, Zenon
    <3>7. BcTo(kind, e, p, t) = f + w
      BY <1>2, <1>6, <2>12, Zenon DEF BcTo
    <3> QED
      BY <1>2, <1>6, <1>7, <2>8, <2>9, <2>12, <3>1, <3>2, <3>6, <3>7, Zenon DEF BcGetDoes
  <2>13. CASE ~(f + w <= e)
    <3>1. ~h /\ b2 = b
      BY <2>6, <2>11, <2>13, Zenon DEF BuGet
    <3>2. BcTo(kind, e, p, t) = f
      BY <1>2, <1>6, <1>9, <2>13, Zenon DEF BcTo
    <3> QED
      BY <1>2, <1>6, <1>7, <2>8, <2>9, <2>10, <2>13, <3>1, <3>2, Zenon DEF BcGetDoes
  <2> QED
    BY <2>12, <2>13, Zenon
<1> QED
  BY <1>8, <1>9, Zenon

LEMMA BcGetsAny ==
  ASSUME NEW m, m = [x \in 1..BcCap |-> m[x]], NEW p \in Nat, NEW e \in Int, e <= BcCap, NEW mk,
         NEW good \in BOOLEAN, NEW c, c = [buf |-> BfRec(m, BcCap, p, e, mk), good |-> good],
         NEW t \in BcTypes, NEW kind, kind = bcKind, NEW k,
         good \/ BcSwaps(kind, t) => BcStands(kind, e, m, k, p, t)
  PROVE  BcGetDoes(kind, e, m, mk, k, p, t, c, BcGet(c, t))
<1>1. c.buf = BfRec(m, BcCap, p, e, mk) /\ c.good = good
  OBVIOUS
<1>2. CASE BcSwaps(kind, t)
  <2>1. BcGet(c, t) = BcGetSwap(c, BcWidth(t))
    BY <1>2, Zenon DEF BcGet, BcSwaps
  <2> QED
    BY <1>2, <2>1, BcGetsSwapped
<1>3. CASE ~BcSwaps(kind, t) /\ c.good
  <2>1. BcStands(kind, e, m, k, p, t)
    BY <1>1, <1>3, Zenon
  <2>2. CASE t = "array"
    <3>1. BcGet(c, t) = BcGetArray(c, BcArray)
      BY <2>2, Zenon DEF BcGet
    <3> QED
      BY <1>1, <1>3, <2>1, <2>2, <3>1, BcGetsArray, ZenonT(60)
  <2>3. CASE t # "array"
    <3>1. BcGet(c, t) = BcGetNative(c, BcWidth(t))
      BY <1>3, <2>3, Zenon DEF BcGet, BcSwaps
    <3> QED
      BY <1>1, <1>3, <2>1, <2>3, <3>1, BcGetsValue, ZenonT(60)
  <2> QED
    BY <2>2, <2>3, Zenon
<1>4. CASE ~BcSwaps(kind, t) /\ ~c.good
  <2>1. PICK g : g = [c |-> c, ok |-> FALSE, cells |-> << >>]
    OBVIOUS
  <2>2. \A w : BcGetNative(c, w) = g
    BY <1>4, <2>1, Zenon DEF BcGetNative
  <2>3. g.c = c /\ ~g.ok /\ g.ok \in BOOLEAN
    BY <2>1
  <2>4. BcGetArray(c, BcArray) = g
    BY <2>2, <2>3, Zenon DEF BcGetArray
  <2>5. BcGet(c, t) = g
    BY <1>4, <2>2, <2>4, Zenon DEF BcGet, BcSwaps
  <2>6. /\ g.c.buf = BfRec(m, BcCap, p, e, mk) /\ ~g.c.good
        /\ g.c.good \in BOOLEAN
    BY <1>1, <1>4, <2>3, Zenon
  <2> QED
    BY <1>4, <2>3, <2>5, <2>6, Zenon DEF BcGetDoes
<1> QED
  BY <1>2, <1>3, <1>4, Zenon

LEMMA BcByteFields ==
  ASSUME NEW k, NEW j, NEW k2, NEW j2
  PROVE  /\ BcByte(<<"value", k>>, j) = BcByte(<<"value", k2>>, j2) => k = k2
         /\ BcByte(<<"value", k>>, j) # BcByte(<<"count", k2>>, j2)
         /\ BcByte(<<"value", k>>, j) # BcJunk
  BY DEF BcByte, BcJunk

\* A call of the message: from p to p2, within the encoder's limit l, with the
\* first b - 1 calls leaving the coder good.
BcCallWell(kind, l, m, b, k, call, p, p2) ==
  /\ call.type \in BcTypes /\ call.ok \in BOOLEAN
  /\ p \in Nat /\ p2 \in Nat /\ p2 <= BcCap
  /\ k <= b \/ BcSwaps(kind, call.type) => /\ call.ok <=> BcFit(kind, l, p, call.type)
                                           /\ p2 = BcTo(kind, l, p, call.type)
                                           /\ BcStands(kind, l, m, k, p, call.type)
  /\ ~(k <= b \/ BcSwaps(kind, call.type)) => ~call.ok /\ p2 = p
  /\ k < b <=> k <= b /\ (BcSwaps(kind, call.type) \/ BcFit(kind, l, p, call.type))

\* No byte of a value stands before its call began, and none of a call not made.
BcClean(m, q, n) ==
  \A c \in 1..BcCap : \A k \in Nat \ {0} : \A j :
    m[c] = BcByte(<<"value", k>>, j) => k \in 1..n /\ q[k - 1] < c

\* The positions, and none moves on a native coder that is bad.
BcOrder(kind, q, b, n) ==
  /\ n \in Nat /\ b \in 1..(n + 1) /\ q[0] = 0
  /\ \A i \in 0..n : q[i] \in Nat /\ q[i] <= BcCap
  /\ \A i, j \in 0..n : i <= j => q[i] <= q[j] /\ (kind = "native" /\ b <= i => q[j] = q[i])

BcListed(kind, l, m, q, b, calls, n) ==
  /\ l \in Int /\ l <= BcCap /\ (kind # "native" => l = BcCap)
  /\ m = [c \in 1..BcCap |-> m[c]]
  /\ BcOrder(kind, q, b, n)
  /\ \A k \in 1..n : BcCallWell(kind, l, m, b, k, calls[k], q[k - 1], q[k])
  /\ BcClean(m, q, n)

\* The test of BcEncode, and what it tells.
BcSeen(r, e, w, v) == w <= e /\ SubSeq(r, e - w + 1, e) \in {v, BcReversed(v)}
BcTells(kind, l, p, t, acts, r, e, w, v) == BcSeen(r, e, w, v) <=> acts /\ BcFit(kind, l, p, t)

\* The test of BcEncode tells whether the value was put.
LEMMA BcWorked ==
  ASSUME NEW kind, NEW l \in Int, l <= BcCap, NEW m, NEW q, NEW n \in Nat, BcClean(m, q, n),
         m = [x \in 1..BcCap |-> m[x]],
         NEW p \in Nat, p <= BcCap, NEW t \in BcTypes, NEW acts \in BOOLEAN,
         NEW r, NEW e,
         acts => e = BcTo(kind, l, p, t) /\ BcPutAt(kind, l, m, n + 1, p, t, r),
         ~acts => e = p /\ r = m,
         NEW w, w = BcWidth(t), NEW v, v = BcValue(n + 1, t)
  PROVE  BcTells(kind, l, p, t, acts, r, e, w, v)
<1>1. w \in Nat \ {0} /\ w \in Nat
  BY BcTypeWidth
<1>2. e \in Nat /\ e <= BcCap
  BY BcPlaces
<1>3. r = [c \in 1..BcCap |-> r[c]]
  BY Zenon DEF BcPutAt
<1>4. Len(v) = w /\ \A j \in 1..w : v[j] = BcByte(<<"value", n + 1>>, j)
  <2>1. v = BcBytes(<<"value", n + 1>>, w)
    BY Zenon DEF BcValue
  <2> QED
    BY <1>1, <2>1, BcBytesAre, Zenon
<1>5. PICK z : z = BcReversed(v)
  OBVIOUS
<1>6. z = [j \in 1..w |-> v[w + 1 - j]] /\ Len(z) = w /\ \A j \in 1..w : z[j] = v[w + 1 - j]
  BY <1>1, <1>4, <1>5, BcTurned, ZenonT(60)
<1>7. ASSUME w <= e
      PROVE  /\ BcCellsFrom(r, e - w, w, SubSeq(r, e - w + 1, e))
             /\ e - w \in Nat
  <2>1. PICK a : a = e - w
    OBVIOUS
  <2>2. a \in Nat /\ a + w = e /\ a + w <= BcCap /\ BcCap \in Nat
    BY <1>1, <1>2, <1>7, <2>1, BcBounds
  <2>3. SubSeq(r, a + 1, a + w) = [j \in 1..w |-> r[a + j]]
    BY <1>1, <1>3, <2>2, BsCutOf, SMTT(30)
  <2> QED
    BY <2>1, <2>2, <2>3, Zenon DEF BcCellsFrom
<1>8. ASSUME acts, BcFit(kind, l, p, t)
      PROVE  w <= e /\ SubSeq(r, e - w + 1, e) \in {v, z}
  <2>1. PICK f : f = BcFrom(kind, p, t)
    OBVIOUS
  <2>2. f \in Nat /\ e = f + w
    <3>1. e = f + w
      BY <1>8, <2>1, Zenon DEF BcTo
    <3> QED
      BY <2>1, <3>1, BcPlaces
  <2>3. w <= e /\ e - w = f
    BY <1>1, <2>2
  <2>4. PICK s : s = SubSeq(r, e - w + 1, e)
    OBVIOUS
  <2>5. s = [j \in 1..w |-> r[f + j]]
    BY <1>7, <2>3, <2>4, Zenon DEF BcCellsFrom
  <2>6. ASSUME NEW j \in 1..w
        PROVE  r[f + j] = BcByte(<<"value", n + 1>>, BcOrd(kind, t, j))
    <3>1. f + j \in 1..BcCap
      BY <1>1, <1>2, <2>2, BcBounds
    <3>2. BcHome(kind, l, n + 1, p, t, f + j, BcByte(<<"value", n + 1>>, BcOrd(kind, t, j)))
      BY <1>8, <2>1, Zenon DEF BcHome
    <3> QED
      BY <1>8, <3>1, <3>2, Zenon DEF BcPutAt
  <2>7. CASE BcSwaps(kind, t)
    <3>1. \A j \in 1..w : w + 1 - j \in 1..w
      BY <1>1
    <3>2. ASSUME NEW j \in 1..w
          PROVE  r[f + j] = v[w + 1 - j]
      <4>1. PICK i \in 1..w : i = w + 1 - j
        BY <3>1
      <4>2. BcOrd(kind, t, j) = i
        BY <2>7, <4>1, Zenon DEF BcOrd
      <4>3. v[i] = BcByte(<<"value", n + 1>>, i)
        BY <1>4
      <4>4. r[f + j] = BcByte(<<"value", n + 1>>, i)
        BY <2>6, <4>2, Zenon
      <4> QED
        BY <4>1, <4>3, <4>4, Zenon
    <3>3. [j \in 1..w |-> r[f + j]] = [j \in 1..w |-> v[w + 1 - j]]
      BY ONLY <3>2
    <3>4. s = z
      BY <1>6, <2>5, <3>3, Zenon
    <3> QED
      BY <2>3, <2>4, <3>4
  <2>8. CASE ~BcSwaps(kind, t)
    <3>1. \A j \in 1..w : r[f + j] = BcByte(<<"value", n + 1>>, j)
      BY <2>6, <2>8, Zenon DEF BcOrd
    <3>2. [j \in 1..w |-> r[f + j]] = [j \in 1..w |-> BcByte(<<"value", n + 1>>, j)]
      BY ONLY <3>1
    <3>3. BcIsBytes(s, w, <<"value", n + 1>>)
      BY <2>5, <3>2, Zenon DEF BcIsBytes
    <3>4. s = v
      BY <3>3, BcValueOf, Zenon
    <3> QED
      BY <2>3, <2>4, <3>4
  <2> QED
    BY <2>7, <2>8, Zenon
<1>9. ASSUME w <= e, SubSeq(r, e - w + 1, e) \in {v, z}, ~(acts /\ BcFit(kind, l, p, t))
      PROVE  FALSE
  <2>1. PICK s : s = SubSeq(r, e - w + 1, e)
    OBVIOUS
  <2>2. s = v \/ s = z
    BY <1>9, <2>1
  <2>3. s = [j \in 1..w |-> r[(e - w) + j]]
    BY <1>7, <1>9, <2>1, Zenon DEF BcCellsFrom
  <2>4. e \in 1..BcCap /\ w \in 1..w /\ 1 \in 1..w /\ w + 1 - w = 1 /\ (e - w) + w = e
    BY <1>1, <1>2, <1>9, BcBounds
  <2>5. s[w] = r[e]
    BY <2>3, <2>4
  <2>6. v[w] = BcByte(<<"value", n + 1>>, w) /\ z[w] = BcByte(<<"value", n + 1>>, 1)
    BY <1>4, <1>6, <2>4
  <2>7. PICK j : r[e] = BcByte(<<"value", n + 1>>, j)
    BY <2>2, <2>5, <2>6, Zenon
  <2>8. ~BcHome(kind, l, n + 1, p, t, e, r[e]) \/ ~acts
    <3>1. \A i : BcByte(<<"value", n + 1>>, j) # BcByte(<<"count", BcArray>>, i)
      BY BcByteFields
    <3> QED
      BY <1>9, <2>7, <3>1, Zenon DEF BcHome
  <2>9. r[e] = m[e]
    BY <2>4, <2>8, Zenon DEF BcPutAt
  <2>10. n + 1 \in Nat \ {0} /\ ~(n + 1 \in 1..n)
    OBVIOUS
  <2>11. n + 1 \in 1..n
    BY <2>4, <2>7, <2>9, <2>10, Zenon DEF BcClean
  <2> QED
    BY <2>10, <2>11, Zenon
<1> QED
  BY <1>5, <1>8, <1>9, Zenon DEF BcTells, BcSeen

\* The list of calls of a message not begun.
BcListedSome(kind, l, m, calls) ==
  \E q : BcListed(kind, l, m, q, 1, calls, 0)

LEMMA BcListsNone ==
  ASSUME NEW kind, NEW l \in Int, l <= BcCap, kind # "native" => l = BcCap,
         NEW m, m = [c \in 1..BcCap |-> BcJunk], NEW calls
  PROVE  BcListedSome(kind, l, m, calls)
<1>1. PICK q : q = [i \in 0..0 |-> 0]
  OBVIOUS
<1>2. q[0] = 0 /\ \A i \in 0..0 : i = 0
  BY <1>1
<1>3. m = [c \in 1..BcCap |-> m[c]] /\ \A c \in 1..BcCap : m[c] = BcJunk
  OBVIOUS
<1>4. BcClean(m, q, 0)
  BY <1>3, BcByteFields, Zenon DEF BcClean
<1>5. 0 \in Nat /\ 1 \in 1..(0 + 1) /\ 0 <= BcCap /\ 0 <= 0 /\ \A k : ~(k \in 1..0)
  BY BcBounds
<1>6. BcOrder(kind, q, 1, 0)
  BY <1>2, <1>5, Zenon DEF BcOrder
<1> QED
  BY <1>3, <1>4, <1>5, <1>6, Zenon DEF BcListedSome, BcListed

\* The bytes of a call already made stay when what is behind the position changes.
LEMMA BcStandsStill ==
  ASSUME NEW kind, NEW l \in Int, NEW m, NEW r, NEW k, NEW p \in Nat, NEW t \in BcTypes,
         NEW e \in Nat, BcTo(kind, l, p, t) <= e, BcStands(kind, l, m, k, p, t),
         \A c \in 1..BcCap : c <= e => r[c] = m[c]
  PROVE  BcStands(kind, l, r, k, p, t)
<1>1. ASSUME NEW c \in 1..BcCap, NEW cell, BcHome(kind, l, k, p, t, c, cell)
      PROVE  r[c] = cell
  <2>1. PICK z : z = BcTo(kind, l, p, t)
    OBVIOUS
  <2>2. z \in Nat /\ z <= e
    BY <2>1, BcPlaces
  <2>3. c <= z
    BY <1>1, <2>1, BcHomeRange
  <2>4. c <= e
    BY <2>2, <2>3, BcBounds
  <2> QED
    BY <1>1, <2>4, Zenon DEF BcStands
<1> QED
  BY <1>1, Zenon DEF BcStands

LEMMA BcCallStays ==
  ASSUME NEW kind, NEW l \in Int, NEW m, NEW r, NEW b \in Int, NEW b2 \in Int, NEW k \in Int,
         NEW call, NEW p, NEW p2, BcCallWell(kind, l, m, b, k, call, p, p2),
         NEW e \in Nat, p2 <= e, \A c \in 1..BcCap : c <= e => r[c] = m[c],
         k <= b <=> k <= b2, k < b <=> k < b2
  PROVE  BcCallWell(kind, l, r, b2, k, call, p, p2)
<1>1. PICK t : t = call.type
  OBVIOUS
<1>2. t \in BcTypes /\ p \in Nat
  BY <1>1, Zenon DEF BcCallWell
<1>3. ASSUME k <= b \/ BcSwaps(kind, t)
      PROVE  BcStands(kind, l, r, k, p, t)
  <2>1. BcTo(kind, l, p, t) <= e /\ BcStands(kind, l, m, k, p, t)
    BY <1>1, <1>3, Zenon DEF BcCallWell
  <2> QED
    BY <1>2, <2>1, BcStandsStill
<1> QED
  BY <1>1, <1>3, Zenon DEF BcCallWell

\* Going back to the n2-th call, which left the coder good.
LEMMA BcListsLess ==
  ASSUME NEW kind, NEW l, NEW m, NEW q, NEW b, NEW calls, NEW n,
         BcListed(kind, l, m, q, b, calls, n),
         NEW n2 \in Nat, n2 <= n, n2 < b, NEW calls2, \A k \in 1..n2 : calls2[k] = calls[k],
         NEW r, r = [c \in 1..BcCap |-> IF c <= q[n2] THEN m[c] ELSE BcJunk]
  PROVE  BcListed(kind, l, r, q, n2 + 1, calls2, n2)
<1>1. /\ l \in Int /\ l <= BcCap /\ (kind # "native" => l = BcCap)
      /\ BcOrder(kind, q, b, n) /\ BcClean(m, q, n)
      /\ \A k \in 1..n : BcCallWell(kind, l, m, b, k, calls[k], q[k - 1], q[k])
  BY Zenon DEF BcListed
<1>2. /\ n \in Nat /\ b \in 1..(n + 1) /\ q[0] = 0
      /\ \A i \in 0..n : q[i] \in Nat /\ q[i] <= BcCap
      /\ \A i, j \in 0..n : i <= j => q[i] <= q[j]
  BY <1>1, Zenon DEF BcOrder
<1>3. n2 \in 0..n
  BY <1>2
<1>4. PICK e : e = q[n2]
  OBVIOUS
<1>5. e \in Nat
  BY <1>2, <1>3, <1>4
<1>6. /\ r = [c \in 1..BcCap |-> r[c]]
      /\ \A c \in 1..BcCap : IF c <= e THEN r[c] = m[c] ELSE r[c] = BcJunk
  BY <1>4
<1>7. \A c \in 1..BcCap : c <= e => r[c] = m[c]
  BY <1>6, Zenon
<1>8. ASSUME NEW k \in 1..n2
      PROVE  BcCallWell(kind, l, r, n2 + 1, k, calls2[k], q[k - 1], q[k])
  <2>1. /\ k \in Int /\ k \in 1..n /\ k \in 0..n /\ k <= n2 /\ b \in Int /\ n2 + 1 \in Int
        /\ k <= b /\ k <= n2 + 1 /\ k < b /\ k < n2 + 1
    BY <1>2, <1>3
  <2>2. BcCallWell(kind, l, m, b, k, calls[k], q[k - 1], q[k])
    BY <1>1, <2>1, Zenon
  <2>3. q[k] <= e
    BY <1>2, <1>3, <1>4, <2>1, Zenon
  <2>4. BcCallWell(kind, l, r, n2 + 1, k, calls[k], q[k - 1], q[k])
    BY <1>1, <1>5, <1>7, <2>1, <2>2, <2>3, BcCallStays, Zenon
  <2> QED
    BY <2>4, Zenon
<1>9. ASSUME NEW c \in 1..BcCap, NEW k \in Nat \ {0}, NEW j, r[c] = BcByte(<<"value", k>>, j)
      PROVE  k \in 1..n2 /\ q[k - 1] < c
  <2>1. c <= e /\ r[c] = m[c]
    BY <1>6, <1>9, BcByteFields, ZenonT(60)
  <2>2. k \in 1..n /\ q[k - 1] < c
    BY <1>1, <1>9, <2>1, Zenon DEF BcClean
  <2>3. k - 1 \in 0..n /\ (n2 <= k - 1 \/ k \in 1..n2)
    BY <1>2, <2>2
  <2>4. n2 <= k - 1 => e <= q[k - 1]
    BY <1>2, <1>3, <1>4, <2>3, Zenon
  <2>5. q[k - 1] \in Nat
    BY <1>2, <2>3, Zenon
  <2>6. ~(e <= q[k - 1])
    BY <1>5, <2>1, <2>2, <2>5, BcBounds
  <2> QED
    BY <2>2, <2>3, <2>4, <2>6, Zenon
<1>10. BcClean(r, q, n2)
  BY <1>9, Zenon DEF BcClean
<1>11. BcOrder(kind, q, n2 + 1, n2)
  <2>1. n2 \in Nat /\ n2 + 1 \in 1..(n2 + 1) /\ \A i \in 0..n2 : i \in 0..n /\ ~(n2 + 1 <= i)
    BY <1>2
  <2> QED
    BY <1>2, <2>1, Zenon DEF BcOrder
<1> QED
  BY <1>1, <1>6, <1>8, <1>10, <1>11, Zenon DEF BcListed

\* A message with one call more, and the coder after it.
BcListedOne(kind, l, mk, q, b, calls, n, buf, good) ==
  \E r, q2, b2 : /\ BcListed(kind, l, r, q2, b2, calls, n + 1)
                 /\ buf = BfRec(r, BcCap, q2[n + 1], l, mk)
                 /\ good <=> n + 1 < b2
                 /\ \A i \in 0..n : q2[i] = q[i]
                 /\ b <= b2

LEMMA BcListsOne ==
  ASSUME NEW kind, NEW l, NEW m, NEW q, NEW b, NEW calls, NEW n,
         BcListed(kind, l, m, q, b, calls, n), NEW mk,
         NEW t \in BcTypes, NEW c, c.good <=> n < b,
         NEW res, BcPutDoes(kind, l, m, mk, n + 1, q[n], t, c, res),
         NEW w, w = BcWidth(t), NEW v, v = BcValue(n + 1, t),
         NEW buf, buf = res.buf, NEW good, good = res.good,
         NEW worked, worked = BcSeen(buf.mem, buf.pos, w, v),
         NEW calls2, \A k \in 1..n : calls2[k] = calls[k],
         calls2[n + 1] = [type |-> t, ok |-> worked]
  PROVE  BcListedOne(kind, l, mk, q, b, calls2, n, buf, good)
<1>1. /\ l \in Int /\ l <= BcCap /\ (kind # "native" => l = BcCap)
      /\ BcOrder(kind, q, b, n) /\ BcClean(m, q, n)
      /\ m = [x \in 1..BcCap |-> m[x]]
      /\ \A k \in 1..n : BcCallWell(kind, l, m, b, k, calls[k], q[k - 1], q[k])
  BY Zenon DEF BcListed
<1>2. /\ n \in Nat /\ b \in 1..(n + 1) /\ q[0] = 0
      /\ \A i \in 0..n : q[i] \in Nat /\ q[i] <= BcCap
      /\ \A i, j \in 0..n : i <= j => q[i] <= q[j] /\ (kind = "native" /\ b <= i => q[j] = q[i])
  BY <1>1, Zenon DEF BcOrder
<1>3. PICK r, e : /\ res.buf = BfRec(r, BcCap, e, l, mk)
                  /\ c.good \/ BcSwaps(kind, t) => /\ e = BcTo(kind, l, q[n], t)
                                                   /\ BcPutAt(kind, l, m, n + 1, q[n], t, r)
                  /\ ~(c.good \/ BcSwaps(kind, t)) => e = q[n] /\ r = m
                  /\ res.good <=> c.good /\ (BcSwaps(kind, t) \/ BcFit(kind, l, q[n], t))
  BY Zenon DEF BcPutDoes
<1>4. PICK p : p = q[n]
  OBVIOUS
<1>5. p \in Nat /\ p <= BcCap /\ n \in 0..n
  <2>1. n \in 0..n
    BY <1>2
  <2> QED
    BY <1>2, <1>4, <2>1, Zenon
<1>6. PICK acts \in BOOLEAN : acts <=> n < b \/ BcSwaps(kind, t)
  OBVIOUS
<1>7. /\ acts => e = BcTo(kind, l, p, t) /\ BcPutAt(kind, l, m, n + 1, p, t, r)
      /\ ~acts => e = p /\ r = m
  BY <1>3, <1>4, <1>6, Zenon
<1>8. e \in Nat /\ p <= e /\ e <= BcCap
  <2>1. PICK z : z = BcTo(kind, l, p, t)
    OBVIOUS
  <2>2. z \in Nat /\ p <= z /\ z <= BcCap
    BY <1>1, <1>5, <2>1, BcPlaces
  <2> QED
    BY <1>5, <1>7, <2>1, <2>2
<1>9. r = [x \in 1..BcCap |-> r[x]] /\ \A x \in 1..BcCap : x <= p => r[x] = m[x]
  BY <1>1, <1>6, <1>7, Zenon DEF BcPutAt
<1>10. worked <=> acts /\ BcFit(kind, l, p, t)
  <2>0. buf = BfRec(r, BcCap, e, l, mk)
    BY <1>3, Zenon
  <2>1. buf.mem = r /\ buf.pos = e
    BY <2>0, BfFields
  <2>2. worked = BcSeen(r, e, w, v)
    BY <2>1, Zenon
  <2>3. BcTells(kind, l, p, t, acts, r, e, w, v)
    BY <1>1, <1>2, <1>5, <1>6, <1>7, BcWorked, Zenon
  <2> QED
    BY <2>2, <2>3, Zenon DEF BcTells
<1>11. PICK b2 : b2 = IF good THEN n + 2 ELSE b
  OBVIOUS
<1>12. good <=> n < b /\ (BcSwaps(kind, t) \/ BcFit(kind, l, p, t))
  BY <1>3, <1>4, Zenon
<1>13. /\ b2 \in 1..(n + 1 + 1) /\ b <= b2 /\ b2 \in Int /\ b \in Int
       /\ n + 1 < b2 <=> good
       /\ n + 1 <= b2 <=> n < b
       /\ b2 = b \/ n < b
       /\ b2 <= n => b2 = b
       /\ \A k \in 1..n : (k <= b <=> k <= b2) /\ (k < b <=> k < b2) /\ k \in Int
  <2>1. good => n < b
    BY <1>12, Zenon
  <2>2. CASE good
    <3>1. b2 = n + 2 /\ n < b
      BY <1>11, <2>1, <2>2, Zenon
    <3>2. /\ b2 \in 1..(n + 1 + 1) /\ b <= b2 /\ b2 \in Int /\ b \in Int
          /\ n + 1 < b2
          /\ n + 1 <= b2
          /\ ~(b2 <= n)
          /\ \A k \in 1..n : (k <= b <=> k <= b2) /\ (k < b <=> k < b2) /\ k \in Int
      BY <1>2, <3>1
    <3> QED
      BY <2>2, <3>1, <3>2, Zenon
  <2>3. CASE ~good
    <3>1. b2 = b
      BY <1>11, <2>3, Zenon
    <3>2. /\ b2 \in 1..(n + 1 + 1) /\ b <= b2 /\ b2 \in Int /\ b \in Int
          /\ ~(n + 1 < b2)
          /\ n + 1 <= b2 <=> n < b
          /\ \A k \in 1..n : (k <= b <=> k <= b2) /\ (k < b <=> k < b2) /\ k \in Int
      BY <1>2, <3>1
    <3> QED
      BY <2>3, <3>1, <3>2, Zenon
  <2> QED
    BY <2>2, <2>3, Zenon
<1>14. PICK q2 : q2 = [i \in 0..(n + 1) |-> IF i <= n THEN q[i] ELSE e]
  OBVIOUS
<1>15. q2[n + 1] = e /\ \A i \in 0..n : q2[i] = q[i]
  BY <1>2, <1>14
<1>16. ASSUME NEW k \in 1..n
       PROVE  BcCallWell(kind, l, r, b2, k, calls2[k], q2[k - 1], q2[k])
  <2>1. k \in 0..n /\ k - 1 \in 0..n /\ k <= n
    BY <1>2
  <2>2. BcCallWell(kind, l, m, b, k, calls[k], q[k - 1], q[k])
    BY <1>1
  <2>3. q[k] <= p
    BY <1>2, <1>4, <1>5, <2>1, Zenon
  <2>4. BcCallWell(kind, l, r, b2, k, calls[k], q[k - 1], q[k])
    <3>1. (k <= b <=> k <= b2) /\ (k < b <=> k < b2) /\ k \in Int
      BY <1>13
    <3>2. b \in Int /\ b2 \in Int
      BY <1>13, Zenon
    <3>3. BcCallWell(kind, l, r, b2, k, calls[k], q[k - 1], q[k])
      <4>1. l \in Int /\ p \in Nat /\ \A x \in 1..BcCap : x <= p => r[x] = m[x]
        BY <1>1, <1>5, <1>9, Zenon
      <4> QED
        BY <2>2, <2>3, <3>1, <3>2, <4>1, BcCallStays
    <3> QED
      BY <3>3
  <2> QED
    BY <1>15, <2>1, <2>4, Zenon
<1>17. BcCallWell(kind, l, r, b2, n + 1, calls2[n + 1], p, e)
  <2>1. PICK call : call = calls2[n + 1]
    OBVIOUS
  <2>2. call.type = t /\ call.ok = worked
    BY <2>1
  <2>3. worked \in BOOLEAN
    BY DEF BcSeen
  <2>4. acts => BcStands(kind, l, r, n + 1, p, t)
    BY <1>7, Zenon DEF BcPutAt, BcStands
  <2>5. acts <=> n + 1 <= b2 \/ BcSwaps(kind, t)
    BY <1>6, <1>13, Zenon
  <2>6. n + 1 < b2 <=> n + 1 <= b2 /\ (BcSwaps(kind, t) \/ BcFit(kind, l, p, t))
    BY <1>12, <1>13, Zenon
  <2>7. BcCallWell(kind, l, r, b2, n + 1, call, p, e)
    BY <1>5, <1>7, <1>8, <1>10, <2>2, <2>3, <2>4, <2>5, <2>6, Zenon DEF BcCallWell
  <2> QED
    BY <2>1, <2>7, Zenon
<1>18. ASSUME NEW k \in 1..(n + 1)
       PROVE  BcCallWell(kind, l, r, b2, k, calls2[k], q2[k - 1], q2[k])
  <2>1. k \in 1..n \/ (k = n + 1 /\ k - 1 = n)
    BY <1>2
  <2> QED
    BY <1>4, <1>5, <1>15, <1>16, <1>17, <2>1, Zenon
<1>19. ASSUME NEW x \in 1..BcCap, NEW k \in Nat \ {0}, NEW j, r[x] = BcByte(<<"value", k>>, j)
       PROVE  k \in 1..(n + 1) /\ q2[k - 1] < x
  <2>1. CASE r[x] = m[x]
    <3>1. k \in 1..n /\ q[k - 1] < x
      BY <1>1, <1>19, <2>1, Zenon DEF BcClean
    <3>2. k - 1 \in 0..n /\ k \in 1..(n + 1)
      BY <1>2, <3>1
    <3> QED
      BY <1>15, <3>1, <3>2, Zenon
  <2>2. CASE r[x] # m[x]
    <3>1. BcHome(kind, l, n + 1, p, t, x, r[x])
      BY <1>7, <2>2, Zenon DEF BcPutAt
    <3>2. p < x
      BY <1>1, <1>5, <3>1, BcHomeRange
    <3>3. k = n + 1
      <4>1. PICK i, k2 : \/ r[x] = BcByte(<<"value", n + 1>>, i)
                         \/ r[x] = BcByte(<<"count", k2>>, i)
        BY <3>1, Zenon DEF BcHome
      <4>2. BcByte(<<"value", k>>, j) = BcByte(<<"value", n + 1>>, i) => k = n + 1
        BY DEF BcByte
      <4>3. BcByte(<<"value", k>>, j) # BcByte(<<"count", k2>>, i)
        BY DEF BcByte
      <4> QED
        BY <1>19, <4>1, <4>2, <4>3
    <3>4. n + 1 \in 1..(n + 1) /\ k - 1 = n
      BY <1>2, <3>3
    <3> QED
      BY <1>4, <1>5, <1>15, <3>2, <3>3, <3>4, Zenon
  <2> QED
    BY <2>1, <2>2, Zenon
<1>20. BcClean(r, q2, n + 1)
  BY <1>19, Zenon DEF BcClean
<1>21. BcOrder(kind, q2, b2, n + 1)
  <2>1. \A i \in 0..(n + 1) : i \in 0..n \/ i = n + 1
    BY <1>2
  <2>2. 0 \in 0..n /\ n + 1 \in Nat /\ e <= e
    BY <1>2, <1>8
  <2>3. \A i \in 0..(n + 1) : q2[i] \in Nat /\ q2[i] <= BcCap
    BY <1>2, <1>8, <1>15, <2>1, Zenon
  <2>4. ASSUME NEW i \in 0..(n + 1), NEW j \in 0..(n + 1), i <= j
        PROVE  q2[i] <= q2[j] /\ (kind = "native" /\ b2 <= i => q2[j] = q2[i])
    <3>1. CASE i \in 0..n /\ j \in 0..n
      <4>1. b2 <= i => b <= i
        <5>1. i <= n
          BY <3>1
        <5>2. b2 <= i => b2 <= n
          BY <1>2, <1>13, <5>1
        <5> QED
          BY <1>13, <5>2, Zenon
      <4>2. q2[i] <= q2[j] /\ (kind = "native" /\ b2 <= i => q2[j] = q2[i])
        <5>1. q[i] <= q[j] /\ (kind = "native" /\ b <= i => q[j] = q[i])
          BY <1>2, <2>4, <3>1
        <5>2. q2[i] = q[i] /\ q2[j] = q[j]
          BY <1>15, <3>1
        <5> QED
          BY <4>1, <5>1, <5>2, Zenon
      <4> QED
        BY <4>2
    <3>2. CASE i \in 0..n /\ j = n + 1
      <4>1. i <= n /\ (b2 <= i => b2 <= n)
        BY <1>2, <1>13, <3>2
      <4>2. q[i] <= p /\ q[i] \in Nat /\ (kind = "native" /\ b <= i => q[i] = p)
        BY <1>2, <1>4, <1>5, <3>2, <4>1, Zenon
      <4>3. q[i] <= e
        BY <1>5, <1>8, <4>2
      <4>4. ASSUME kind = "native", b2 <= i
            PROVE  q[i] = e
        <5>1. b2 <= n /\ b2 = b /\ b <= i
          BY <1>13, <4>1, <4>4, Zenon
        <5>2. ~(n < b)
          BY <1>2, <1>13, <5>1
        <5>3. ~BcSwaps(kind, t)
          BY <4>4 DEF BcSwaps
        <5> QED
          BY <1>6, <1>7, <4>2, <4>4, <5>1, <5>2, <5>3, Zenon
      <4> QED
        BY <1>15, <3>2, <4>3, <4>4, Zenon
    <3>3. CASE i = n + 1
      <4>1. j = n + 1
        BY <1>2, <2>4, <3>3
      <4> QED
        BY <1>15, <2>2, <3>3, <4>1, Zenon
    <3> QED
      BY <2>1, <3>1, <3>2, <3>3, Zenon
  <2> QED
    BY <1>2, <1>13, <1>15, <2>2, <2>3, <2>4, Zenon DEF BcOrder
<1>22. BcListed(kind, l, r, q2, b2, calls2, n + 1)
  BY <1>1, <1>9, <1>18, <1>20, <1>21, Zenon DEF BcListed
<1>23. buf = BfRec(r, BcCap, q2[n + 1], l, mk)
  BY <1>3, <1>15, Zenon
<1> QED
  BY <1>13, <1>15, <1>22, <1>23, Zenon DEF BcListedOne

\* What the decoder of a message does with its k-th call, from a coder at q[k - 1].
BcReadOne(m, q, b, calls, e, mk, k, g) ==
  /\ g.c.buf = BfRec(m, BcCap, q[k], e, mk)
  /\ g.c.good <=> k < b
  /\ g.ok <=> calls[k].ok
  /\ g.ok => g.cells = BcValue(k, calls[k].type)
  /\ g.c.good \in BOOLEAN /\ g.ok \in BOOLEAN /\ calls[k].ok \in BOOLEAN

LEMMA BcReadsOne ==
  ASSUME NEW kind, kind = bcKind, NEW l, NEW m, NEW q, NEW b, NEW calls, NEW n,
         BcListed(kind, l, m, q, b, calls, n), NEW e, e = q[n], NEW mk,
         NEW k \in 1..n, NEW p, p = q[k - 1], NEW t, t = calls[k].type,
         NEW good \in BOOLEAN, good <=> k - 1 < b,
         NEW c, c = [buf |-> BfRec(m, BcCap, p, e, mk), good |-> good],
         NEW g, g = BcGet(c, t)
  PROVE  BcReadOne(m, q, b, calls, e, mk, k, g)
<1>1. /\ l \in Int /\ l <= BcCap /\ (kind # "native" => l = BcCap)
      /\ BcOrder(kind, q, b, n)
      /\ m = [x \in 1..BcCap |-> m[x]]
      /\ BcCallWell(kind, l, m, b, k, calls[k], q[k - 1], q[k])
  BY Zenon DEF BcListed
<1>2. /\ n \in Nat /\ b \in 1..(n + 1)
      /\ \A i \in 0..n : q[i] \in Nat /\ q[i] <= BcCap
      /\ \A i, j \in 0..n : i <= j => q[i] <= q[j] /\ (kind = "native" /\ b <= i => q[j] = q[i])
  BY <1>1, Zenon DEF BcOrder
<1>3. k \in 0..n /\ k - 1 \in 0..n /\ n \in 0..n /\ k <= n
  BY <1>2
<1>4. /\ t \in BcTypes /\ p \in Nat /\ calls[k].ok \in BOOLEAN
      /\ k <= b \/ BcSwaps(kind, t) => /\ calls[k].ok <=> BcFit(kind, l, p, t)
                                       /\ q[k] = BcTo(kind, l, p, t)
                                       /\ BcStands(kind, l, m, k, p, t)
      /\ ~(k <= b \/ BcSwaps(kind, t)) => ~calls[k].ok /\ q[k] = p
      /\ k < b <=> k <= b /\ (BcSwaps(kind, t) \/ BcFit(kind, l, p, t))
  BY <1>1, Zenon DEF BcCallWell
<1>5. e \in Nat /\ e \in Int /\ e <= BcCap /\ q[k] <= e /\ (kind = "native" /\ b <= k => e = q[k])
  <2>1. e \in Nat /\ e <= BcCap
    BY <1>2, <1>3, Zenon
  <2>2. q[k] <= e /\ (kind = "native" /\ b <= k => e = q[k])
    BY <1>2, <1>3, Zenon
  <2> QED
    BY <2>1, <2>2
<1>6. good <=> k <= b
  BY <1>2
<1>7. PICK acts \in BOOLEAN : acts <=> k <= b \/ BcSwaps(kind, t)
  OBVIOUS
<1>8. ASSUME acts
      PROVE  /\ BcFit(kind, e, p, t) <=> BcFit(kind, l, p, t)
             /\ BcTo(kind, e, p, t) = q[k]
             /\ t = "array" => (BcFrom(kind, p, t) <= e <=> BcFrom(kind, p, t) <= l)
  <2>1. PICK z : z = BcTo(kind, l, p, t)
    OBVIOUS
  <2>2. z = q[k] /\ z <= e
    BY <1>4, <1>5, <1>7, <1>8, <2>1, Zenon
  <2>3. BcFit(kind, l, p, t) \/ e = z \/ e <= l
    <3>1. CASE kind = "native"
      <4>1. k < b <=> BcFit(kind, l, p, t)
        <5>1. ~BcSwaps(kind, t)
          BY <3>1 DEF BcSwaps
        <5> QED
          BY <1>4, <1>7, <1>8, <5>1, Zenon
      <4>2. k < b \/ b <= k
        BY <1>2
      <4> QED
        BY <1>5, <2>2, <3>1, <4>1, <4>2, Zenon
    <3>2. CASE kind # "native"
      BY <1>1, <1>5, <3>2
    <3> QED
      BY <3>1, <3>2, Zenon
  <2>4. /\ BcFit(kind, e, p, t) <=> BcFit(kind, l, p, t)
        /\ BcTo(kind, e, p, t) = BcTo(kind, l, p, t)
        /\ t = "array" => (BcFrom(kind, p, t) <= e <=> BcFrom(kind, p, t) <= l)
    <3>1. BcTo(kind, l, p, t) <= e
      BY <2>1, <2>2
    <3>2. BcFit(kind, l, p, t) \/ e = BcTo(kind, l, p, t) \/ e <= l
      BY <2>1, <2>3
    <3>4. BcReaches(kind, l, e, p, t)
      BY <3>1, <3>2, Zenon DEF BcReaches
    <3>3. l \in Int /\ e \in Int /\ p \in Nat /\ t \in BcTypes
      BY <1>1, <1>4, <1>5, Zenon
    <3>5. BcSame(kind, l, e, p, t)
      BY <3>3, <3>4, BcSameFit, Zenon
    <3> QED
      BY <3>5, Zenon DEF BcSame
  <2> QED
    BY <2>1, <2>2, <2>4, Zenon
<1>9. ASSUME acts
      PROVE  BcStands(kind, e, m, k, p, t)
  <2>1. BcStands(kind, l, m, k, p, t)
    BY <1>4, <1>7, <1>9, Zenon
  <2>2. ASSUME NEW x \in 1..BcCap, NEW cell, BcHome(kind, e, k, p, t, x, cell)
        PROVE  BcHome(kind, l, k, p, t, x, cell)
    BY <1>8, <1>9, <2>2, Zenon DEF BcHome
  <2> QED
    BY <2>1, <2>2, Zenon DEF BcStands
<1>10. BcGetDoes(kind, e, m, mk, k, p, t, c, g)
  <2>1. good \/ BcSwaps(kind, t) => BcStands(kind, e, m, k, p, t)
    BY <1>6, <1>7, <1>9, Zenon
  <2> QED
    BY <1>1, <1>4, <1>5, <2>1, BcGetsAny, Zenon
<1>11. c.good = good
  OBVIOUS
<1>12. c.good <=> k <= b
  BY <1>6, <1>11, Zenon
<1>13. /\ acts => /\ g.c.buf = BfRec(m, BcCap, BcTo(kind, e, p, t), e, mk)
                  /\ g.ok <=> BcFit(kind, e, p, t)
                  /\ g.ok => g.cells = BcValue(k, t)
       /\ ~acts => g.c.buf = BfRec(m, BcCap, p, e, mk) /\ ~g.ok
       /\ g.c.good <=> k <= b /\ (BcSwaps(kind, t) \/ BcFit(kind, e, p, t))
       /\ g.ok \in BOOLEAN /\ g.c.good \in BOOLEAN
  BY <1>7, <1>10, <1>12, Zenon DEF BcGetDoes
<1>14. CASE acts
  <2>1. g.c.buf = BfRec(m, BcCap, q[k], e, mk)
    BY <1>8, <1>13, <1>14, Zenon
  <2>2. g.ok <=> calls[k].ok
    BY <1>4, <1>7, <1>8, <1>13, <1>14, Zenon
  <2>3. g.c.good <=> k < b
    BY <1>4, <1>8, <1>13, <1>14, Zenon
  <2> QED
    BY <1>4, <1>13, <1>14, <2>1, <2>2, <2>3, Zenon DEF BcReadOne
<1>15. CASE ~acts
  <2>1. g.c.buf = BfRec(m, BcCap, q[k], e, mk) /\ ~g.ok /\ ~calls[k].ok
    BY <1>4, <1>7, <1>13, <1>15, Zenon
  <2>2. ~g.c.good /\ ~(k < b)
    BY <1>4, <1>7, <1>13, <1>15, Zenon
  <2> QED
    BY <1>4, <1>13, <2>1, <2>2, Zenon DEF BcReadOne
<1> QED
  BY <1>14, <1>15, Zenon

\* A call too many, by a native decoder at the end or gone bad there.
BcReadNone(m, e, mk, g) ==
  /\ \E p2 \in Nat : g.c.buf = BfRec(m, BcCap, p2, e, mk)
  /\ ~g.c.good /\ ~g.ok /\ g.c.good \in BOOLEAN /\ g.ok \in BOOLEAN

LEMMA BcReadsPast ==
  ASSUME NEW kind, kind = bcKind, kind = "native", NEW m, m = [x \in 1..BcCap |-> m[x]],
         NEW e \in Nat, e <= BcCap, NEW mk, NEW k, NEW p \in Nat, NEW t \in BcTypes,
         NEW good \in BOOLEAN, good => p = e,
         NEW c, c = [buf |-> BfRec(m, BcCap, p, e, mk), good |-> good],
         NEW g, g = BcGet(c, t)
  PROVE  BcReadNone(m, e, mk, g)
<1>1. ~BcSwaps(kind, t)
  BY DEF BcSwaps
<1>2. PICK f, w : f = BcFrom(kind, p, t) /\ w = BcWidth(t)
  OBVIOUS
<1>3. /\ f \in Nat /\ p <= f /\ (t = "array" => p <= f - 2) /\ BcTo(kind, e, p, t) \in Nat
      /\ w \in Nat \ {0}
  <2>1. e \in Int
    OBVIOUS
  <2>2. w \in Nat \ {0}
    BY <1>2, BcTypeWidth
  <2>3. f \in Nat /\ p <= f /\ (t = "array" => p <= f - 2) /\ BcTo(kind, e, p, t) \in Nat
    BY <1>2, <2>1, BcPlaces
  <2> QED
    BY <2>2, <2>3, Zenon
<1>4. ASSUME good
      PROVE  ~BcFit(kind, e, p, t) /\ (t = "array" => ~(BcFrom(kind, p, t) <= e))
  <2>1. ~(f + w <= e) /\ (t = "array" => ~(f <= e))
    BY <1>3, <1>4
  <2> QED
    BY <1>2, <2>1, Zenon DEF BcFit
<1>5. good \/ BcSwaps(kind, t) => BcStands(kind, e, m, k, p, t)
  BY <1>1, <1>4, Zenon DEF BcStands, BcHome
<1>6. e \in Int
  OBVIOUS
<1>7. BcGetDoes(kind, e, m, mk, k, p, t, c, g)
  BY <1>5, <1>6, BcGetsAny, Zenon
<1>8. c.good = good
  OBVIOUS
<1>9. CASE good
  <2>1. g.c.buf = BfRec(m, BcCap, BcTo(kind, e, p, t), e, mk)
    BY <1>7, <1>8, <1>9, Zenon DEF BcGetDoes
  <2>2. ~g.ok /\ ~g.c.good /\ g.ok \in BOOLEAN /\ g.c.good \in BOOLEAN
    BY <1>1, <1>4, <1>7, <1>8, <1>9, Zenon DEF BcGetDoes
  <2> QED
    BY <1>3, <2>1, <2>2, Zenon DEF BcReadNone
<1>10. CASE ~good
  <2>1. g.c.buf = BfRec(m, BcCap, p, e, mk)
    BY <1>1, <1>7, <1>8, <1>10, Zenon DEF BcGetDoes
  <2>2. ~g.ok /\ ~g.c.good /\ g.ok \in BOOLEAN /\ g.c.good \in BOOLEAN
    BY <1>1, <1>7, <1>8, <1>10, Zenon DEF BcGetDoes
  <2> QED
    BY <2>1, <2>2, Zenon DEF BcReadNone
<1> QED
  BY <1>9, <1>10, Zenon

BcEncodes(l, m, q, b, buf, good, calls, back) ==
  /\ buf = BfRec(m, BcCap, q[Len(calls)], l, q[back])
  /\ good <=> Len(calls) < b

BcDecodes(kind, m, q, b, buf, good, calls, next, back) ==
  \E p \in Nat : /\ buf = BfRec(m, BcCap, p, q[Len(calls)], q[back])
                 /\ next <= Len(calls) => p = q[next] /\ (good <=> next < b)
                 /\ next > Len(calls) => kind = "native" /\ ~good

\* A coder, the message it is at and the list of its calls.
BcState(kind, buf, good, mode, calls, next, back, got) ==
  \E l, m, q, b : /\ BcListed(kind, l, m, q, b, calls, Len(calls))
                  /\ back \in Nat /\ back <= Len(calls) /\ back < b
                  /\ \/ /\ mode = "encode" /\ got = BcNone
                        /\ BcEncodes(l, m, q, b, buf, good, calls, back)
                     \/ /\ mode = "decode"
                        /\ BcDecodes(kind, m, q, b, buf, good, calls, next, back)

BcGotWell(calls, got) ==
  /\ got.call \in DOMAIN calls =>
       /\ got.ok = calls[got.call].ok
       /\ got.ok => got.cells = BcValue(got.call, calls[got.call].type)
  /\ got.call > Len(calls) => ~got.ok

BcInv == /\ bcKind \in {"native", "swap"} /\ good_ \in BOOLEAN /\ bcNext \in Nat
         /\ bcCalls \in Seq([type : BcTypes, ok : BOOLEAN])
         /\ BcGotWell(bcCalls, bcGot)
         /\ BcState(bcKind, bcBuf, good_, bcMode, bcCalls, bcNext, bcBack, bcGot)

LEMMA BcNoneWell ==
  ASSUME NEW S, NEW calls \in Seq(S), NEW got, got = BcNone
  PROVE  BcGotWell(calls, got)
<1>1. got.call = 0 /\ ~got.ok
  BY DEF BcNone
<1>2. Len(calls) \in Nat /\ DOMAIN calls = 1..Len(calls)
  OBVIOUS
<1>3. ~(got.call \in DOMAIN calls)
  BY <1>1, <1>2
<1> QED
  BY <1>1, <1>3, Zenon DEF BcGotWell

LEMMA BcHasBuf ==
  ASSUME NEW kind, NEW buf, NEW good, NEW mode, NEW calls, NEW next, NEW back, NEW got,
         BcState(kind, buf, good, mode, calls, next, back, got)
  PROVE  \E m, p, l, k : buf = BfRec(m, BcCap, p, l, k)
  BY Zenon DEF BcState, BcEncodes, BcDecodes

LEMMA BcForgets ==
  ASSUME NEW m, NEW p, NEW l, NEW k, NEW b, b = BfRec(m, BcCap, p, l, k),
         NEW r, r = [i \in 1..BcCap |-> IF i <= p THEN m[i] ELSE BcJunk]
  PROVE  BcForgotten(b) = BfRec(r, BcCap, p, l, k)
<1>1. b.mem = m /\ b.cap = BcCap /\ b.pos = p
  BY BfFields
<1>2. [i \in 1..b.cap |-> IF i <= b.pos THEN b.mem[i] ELSE BcJunk] = r
  BY <1>1, Zenon
<1>3. BcForgotten(b) = [b EXCEPT !.mem = r]
  BY <1>2 DEF BcForgotten
<1>4. [b EXCEPT !.mem = r] = BfRec(r, BcCap, p, l, k)
  <2>1. b = BfRec(m, BcCap, p, l, k)
    OBVIOUS
  <2> QED
    BY ONLY <2>1 DEF BfRec
<1> QED
  BY <1>3, <1>4, Zenon

LEMMA BcStarts == BcInit => BcInv
<1> SUFFICES ASSUME BcInit PROVE BcInv
  OBVIOUS
<1>1. PICK m : m = [i \in 1..BcCap |-> BcJunk]
  OBVIOUS
<1>2. Len(m) = BcCap /\ BcCap \in Int /\ BcCap <= BcCap
  BY <1>1, BcBounds
<1>3. bcBuf = BfRec(m, BcCap, 0, BcCap, 0)
  <2>1. bcBuf = BuNew(m, 0)
    BY <1>1 DEF BcInit
  <2> QED
    BY <1>2, <2>1, Zenon DEF BuNew, BfRec
<1>4. /\ bcKind \in {"native", "swap"} /\ good_ = TRUE /\ bcMode = "encode"
      /\ bcCalls = << >> /\ bcNext = 0 /\ bcBack = 0 /\ bcGot = BcNone
  BY DEF BcInit
<1>5. BcListedSome(bcKind, BcCap, m, bcCalls)
  BY <1>1, <1>2, BcListsNone
<1>6. PICK q : BcListed(bcKind, BcCap, m, q, 1, bcCalls, 0)
  BY <1>5, Zenon DEF BcListedSome
<1>7. q[0] = 0
  BY <1>6, Zenon DEF BcListed, BcOrder
<1>8. /\ Len(bcCalls) = 0 /\ bcCalls \in Seq([type : BcTypes, ok : BOOLEAN])
      /\ bcBack \in Nat /\ bcBack <= 0 /\ bcBack < 1 /\ 0 < 1 /\ bcNext \in Nat /\ good_ \in BOOLEAN
  BY <1>4
<1>9. BcEncodes(BcCap, m, q, 1, bcBuf, good_, bcCalls, bcBack)
  BY <1>3, <1>4, <1>7, <1>8, Zenon DEF BcEncodes
<1>10. BcState(bcKind, bcBuf, good_, bcMode, bcCalls, bcNext, bcBack, bcGot)
  BY <1>4, <1>6, <1>8, <1>9, Zenon DEF BcState
<1>11. BcGotWell(bcCalls, bcGot)
  BY <1>4, <1>8, BcNoneWell, Zenon
<1> QED
  BY <1>4, <1>8, <1>10, <1>11, Zenon DEF BcInv

\* mark(), in either direction.
LEMMA BcMarks ==
  ASSUME BcInv, BcMark
  PROVE  BcInv'
<1>1. /\ good_ /\ bcBuf' = BuMark(bcBuf)
      /\ bcBack' = IF bcMode = "encode" THEN Len(bcCalls) ELSE bcNext
      /\ bcKind' = bcKind /\ good_' = good_ /\ bcMode' = bcMode /\ bcCalls' = bcCalls
      /\ bcNext' = bcNext /\ bcGot' = bcGot
  BY DEF BcMark
<1>2. PICK l, m, q, b :
        /\ BcListed(bcKind, l, m, q, b, bcCalls, Len(bcCalls))
        /\ bcBack \in Nat /\ bcBack <= Len(bcCalls) /\ bcBack < b
        /\ \/ /\ bcMode = "encode" /\ bcGot = BcNone
              /\ BcEncodes(l, m, q, b, bcBuf, good_, bcCalls, bcBack)
           \/ /\ bcMode = "decode"
              /\ BcDecodes(bcKind, m, q, b, bcBuf, good_, bcCalls, bcNext, bcBack)
  BY Zenon DEF BcInv, BcState
<1>3. PICK n : n = Len(bcCalls)
  OBVIOUS
<1>4. n \in Nat /\ n <= n /\ bcNext \in Nat /\ (bcNext <= n \/ bcNext > n)
  BY <1>3 DEF BcInv
<1>5. CASE bcMode = "encode"
  <2>1. bcGot = BcNone /\ bcBuf = BfRec(m, BcCap, q[n], l, q[bcBack]) /\ n < b
    BY <1>1, <1>2, <1>3, <1>5, Zenon DEF BcEncodes
  <2>2. bcBuf' = BfRec(m, BcCap, q[n], l, q[n])
    BY <1>1, <2>1, BfSetOne
  <2>3. bcBack' = n
    BY <1>1, <1>3, <1>5
  <2>4. BcEncodes(l, m, q, b, bcBuf', good_', bcCalls', bcBack')
    BY <1>1, <1>3, <2>1, <2>2, <2>3, Zenon DEF BcEncodes
  <2>5. BcState(bcKind, bcBuf, good_, bcMode, bcCalls, bcNext, bcBack, bcGot)'
    BY <1>1, <1>2, <1>3, <1>4, <1>5, <2>1, <2>3, <2>4, Zenon DEF BcState
  <2> QED
    BY <1>1, <2>5, Zenon DEF BcInv
<1>6. CASE bcMode = "decode"
  <2>1. PICK p \in Nat : /\ bcBuf = BfRec(m, BcCap, p, q[n], q[bcBack])
                         /\ bcNext <= n => p = q[bcNext] /\ (good_ <=> bcNext < b)
                         /\ bcNext > n => bcKind = "native" /\ ~good_
    BY <1>2, <1>3, <1>6, Zenon DEF BcDecodes
  <2>2. bcNext <= n /\ p = q[bcNext] /\ bcNext < b
    BY <1>1, <1>4, <2>1, Zenon
  <2>3. bcBuf' = BfRec(m, BcCap, p, q[n], p)
    BY <1>1, <2>1, BfSetOne
  <2>4. bcBack' = bcNext
    BY <1>1, <1>6
  <2>5. BcDecodes(bcKind', m, q, b, bcBuf', good_', bcCalls', bcNext', bcBack')
    BY <1>1, <1>3, <2>1, <2>2, <2>3, <2>4, Zenon DEF BcDecodes
  <2>6. BcState(bcKind, bcBuf, good_, bcMode, bcCalls, bcNext, bcBack, bcGot)'
    BY <1>1, <1>2, <1>3, <1>4, <1>6, <2>2, <2>4, <2>5, Zenon DEF BcState
  <2> QED
    BY <1>1, <2>6, Zenon DEF BcInv
<1> QED
  BY <1>2, <1>5, <1>6, Zenon

\* The message is flipped and a decoder made for it.
LEMMA BcFlipsOver ==
  ASSUME BcInv, BcFlip
  PROVE  BcInv'
<1>1. /\ bcMode = "encode" /\ bcBuf' = BuFlip(bcBuf) /\ good_' = TRUE
      /\ bcMode' = "decode" /\ bcNext' = 0 /\ bcBack' = 0
      /\ bcKind' = bcKind /\ bcCalls' = bcCalls /\ bcGot' = bcGot
  BY DEF BcFlip
<1>2. PICK l, m, q, b :
        /\ BcListed(bcKind, l, m, q, b, bcCalls, Len(bcCalls))
        /\ BcEncodes(l, m, q, b, bcBuf, good_, bcCalls, bcBack)
  <2>1. bcMode # "decode"
    BY <1>1
  <2> QED
    BY <2>1, Zenon DEF BcInv, BcState
<1>3. PICK n : n = Len(bcCalls)
  OBVIOUS
<1>4. /\ n \in Nat /\ b \in 1..(n + 1) /\ q[0] = 0
  BY <1>2, <1>3, Zenon DEF BcListed, BcOrder
<1>5. 0 <= n /\ 0 < b /\ ~(0 > n) /\ 0 \in Nat
  BY <1>4
<1>6. bcBuf = BfRec(m, BcCap, q[n], l, q[bcBack])
  BY <1>2, <1>3, Zenon DEF BcEncodes
<1>7. bcBuf' = BfRec(m, BcCap, 0, q[n], 0)
  BY <1>1, <1>6, BfFlips
<1>8. BcDecodes(bcKind', m, q, b, bcBuf', good_', bcCalls', bcNext', bcBack')
  BY <1>1, <1>3, <1>4, <1>5, <1>7, Zenon DEF BcDecodes
<1>9. BcState(bcKind, bcBuf, good_, bcMode, bcCalls, bcNext, bcBack, bcGot)'
  BY <1>1, <1>2, <1>3, <1>5, <1>8, Zenon DEF BcState
<1>10. BcGotWell(bcCalls, bcGot)' /\ bcCalls \in Seq([type : BcTypes, ok : BOOLEAN])
       /\ bcKind \in {"native", "swap"} /\ TRUE \in BOOLEAN
  BY <1>1, Zenon DEF BcInv
<1> QED
  BY <1>1, <1>5, <1>9, <1>10, Zenon DEF BcInv

\* clear() of the encoder or of the buffer: a new message.
LEMMA BcClears ==
  ASSUME BcInv, NEW sz \in {BcCap - 3, BcCap}, BcClear(sz)
  PROVE  BcInv'
<1>1. /\ bcKind = "swap" => sz = BcCap
      /\ bcBuf' = BcForgotten(BuClear(bcBuf, sz)) /\ good_' = TRUE
      /\ bcMode' = "encode" /\ bcCalls' = << >> /\ bcNext' = 0 /\ bcBack' = 0
      /\ bcGot' = BcNone /\ bcKind' = bcKind
  BY DEF BcClear
<1>2. bcKind \in {"native", "swap"}
  BY DEF BcInv
<1>3. PICK l2 : l2 = IF sz > BcCap THEN BcCap ELSE sz
  OBVIOUS
<1>4. l2 \in Int /\ l2 <= BcCap /\ (bcKind # "native" => l2 = BcCap)
  <2>1. sz \in Int /\ l2 \in Int /\ l2 <= BcCap /\ (sz = BcCap => l2 = BcCap)
    BY <1>3, BcBounds
  <2>2. bcKind # "native" => bcKind = "swap"
    BY <1>2
  <2> QED
    BY <1>1, <2>1, <2>2, Zenon
<1>5. PICK m, p, l, k : bcBuf = BfRec(m, BcCap, p, l, k)
  BY BcHasBuf, ZenonT(60) DEF BcInv
<1>6. PICK d : d = BuClear(bcBuf, sz)
  OBVIOUS
<1>7. d = BfRec(m, BcCap, 0, l2, 0)
  BY <1>3, <1>5, <1>6, BfClears
<1>8. PICK r : r = [i \in 1..BcCap |-> IF i <= 0 THEN m[i] ELSE BcJunk]
  OBVIOUS
<1>9. r = [i \in 1..BcCap |-> BcJunk]
  <2>1. \A i \in 1..BcCap : ~(i <= 0)
    OBVIOUS
  <2> QED
    BY ONLY <1>8, <2>1
<1>10. bcBuf' = BfRec(r, BcCap, 0, l2, 0)
  <2>1. BcForgotten(d) = BfRec(r, BcCap, 0, l2, 0)
    BY <1>7, <1>8, BcForgets
  <2> QED
    BY <1>1, <1>6, <2>1, Zenon
<1>11. BcListedSome(bcKind, l2, r, bcCalls')
  BY <1>4, <1>9, BcListsNone
<1>12. PICK q : BcListed(bcKind, l2, r, q, 1, bcCalls', 0)
  BY <1>11, Zenon DEF BcListedSome
<1>13. q[0] = 0
  BY <1>12, Zenon DEF BcListed, BcOrder
<1>14. /\ Len(bcCalls') = 0 /\ bcCalls' \in Seq([type : BcTypes, ok : BOOLEAN])
       /\ bcBack' \in Nat /\ bcBack' <= 0 /\ bcBack' < 1 /\ 0 < 1 /\ bcNext' \in Nat
       /\ good_' \in BOOLEAN
  BY <1>1
<1>15. BcEncodes(l2, r, q, 1, bcBuf', good_', bcCalls', bcBack')
  BY <1>1, <1>10, <1>13, <1>14, Zenon DEF BcEncodes
<1>16. BcState(bcKind, bcBuf, good_, bcMode, bcCalls, bcNext, bcBack, bcGot)'
  BY <1>1, <1>12, <1>14, <1>15, Zenon DEF BcState
<1>17. BcGotWell(bcCalls, bcGot)'
  BY <1>1, <1>14, BcNoneWell, Zenon
<1> QED
  BY <1>1, <1>2, <1>14, <1>16, <1>17, Zenon DEF BcInv

\* reset() and rewind(), to the mark or to the beginning.
LEMMA BcGoesBack ==
  ASSUME BcInv, NEW buf, NEW n2, BcBackTo(buf, n2),
         \/ n2 = 0 /\ buf = BuRewind(bcBuf)
         \/ n2 = bcBack /\ buf = BuReset(bcBuf)
  PROVE  BcInv'
<1>1. /\ good_' = TRUE /\ bcBack' = n2 /\ bcGot' = BcNone
      /\ bcKind' = bcKind /\ bcMode' = bcMode
      /\ bcMode = "encode" => /\ bcBuf' = BcForgotten(buf)
                              /\ bcCalls' = SubSeq(bcCalls, 1, n2) /\ bcNext' = bcNext
      /\ bcMode # "encode" => bcBuf' = buf /\ bcNext' = n2 /\ bcCalls' = bcCalls
  BY DEF BcBackTo
<1>2. PICK l, m, q, b :
        /\ BcListed(bcKind, l, m, q, b, bcCalls, Len(bcCalls))
        /\ bcBack \in Nat /\ bcBack <= Len(bcCalls) /\ bcBack < b
        /\ \/ /\ bcMode = "encode" /\ bcGot = BcNone
              /\ BcEncodes(l, m, q, b, bcBuf, good_, bcCalls, bcBack)
           \/ /\ bcMode = "decode"
              /\ BcDecodes(bcKind, m, q, b, bcBuf, good_, bcCalls, bcNext, bcBack)
  BY Zenon DEF BcInv, BcState
<1>3. PICK n : n = Len(bcCalls)
  OBVIOUS
<1>4. /\ bcCalls \in Seq([type : BcTypes, ok : BOOLEAN]) /\ bcKind \in {"native", "swap"}
      /\ bcNext \in Nat
  BY DEF BcInv
<1>5. /\ n \in Nat /\ b \in 1..(n + 1) /\ q[0] = 0
  BY <1>2, <1>3, Zenon DEF BcListed, BcOrder
<1>6. n2 \in Nat /\ n2 <= n /\ n2 < b
  <2>1. 0 \in Nat /\ 0 <= n /\ 0 < b
    BY <1>5
  <2> QED
    BY <1>2, <1>3, <2>1, Zenon
<1>7. ASSUME NEW p, NEW e, bcBuf = BfRec(m, BcCap, p, e, q[bcBack])
      PROVE  buf = BfRec(m, BcCap, q[n2], e, q[n2])
  <2>1. BuRewind(bcBuf) = BfRec(m, BcCap, 0, e, 0)
    BY <1>7, BfRewinds
  <2>2. BuReset(bcBuf) = BfRec(m, BcCap, q[bcBack], e, q[bcBack])
    BY <1>7, BfSetOne
  <2> QED
    BY <1>5, <2>1, <2>2, Zenon
<1>8. n2 <= n2 /\ n2 < n2 + 1 /\ ~(n2 > n) /\ TRUE \in BOOLEAN
  BY <1>5, <1>6
<1>9. CASE bcMode = "encode"
  <2>1. bcBuf = BfRec(m, BcCap, q[n], l, q[bcBack])
    <3>1. bcMode # "decode"
      BY <1>9
    <3> QED
      BY <1>2, <1>3, <3>1, Zenon DEF BcEncodes
  <2>2. buf = BfRec(m, BcCap, q[n2], l, q[n2])
    BY <1>7, <2>1, Zenon
  <2>3. PICK r : r = [i \in 1..BcCap |-> IF i <= q[n2] THEN m[i] ELSE BcJunk]
    OBVIOUS
  <2>4. bcBuf' = BfRec(r, BcCap, q[n2], l, q[n2])
    <3>1. BcForgotten(buf) = BfRec(r, BcCap, q[n2], l, q[n2])
      BY <2>2, <2>3, BcForgets
    <3> QED
      BY <1>1, <1>9, <3>1, Zenon
  <2>5. bcCalls' = SubSeq(bcCalls, 1, n2)
    BY <1>1, <1>9
  <2>6. PICK calls : calls = bcCalls'
    OBVIOUS
  <2>7. /\ calls \in Seq([type : BcTypes, ok : BOOLEAN]) /\ Len(calls) = n2
        /\ \A k \in 1..n2 : calls[k] = bcCalls[k]
    <3>1. calls = SubSeq(bcCalls, 1, n2)
      BY <2>5, <2>6
    <3>2. n2 \in Nat /\ n2 <= Len(bcCalls) /\ Len(bcCalls) \in Nat
      BY <1>3, <1>5, <1>6
    <3>3. /\ SubSeq(bcCalls, 1, n2) \in Seq([type : BcTypes, ok : BOOLEAN])
          /\ Len(SubSeq(bcCalls, 1, n2)) = n2
          /\ \A k \in 1..n2 : SubSeq(bcCalls, 1, n2)[k] = bcCalls[k]
      BY <1>4, <3>2, FrontOf
    <3> QED
      BY <3>1, <3>3, Zenon
  <2>8. BcListed(bcKind, l, r, q, n2 + 1, calls, n2)
    BY <1>2, <1>3, <1>6, <2>3, <2>7, BcListsLess, Zenon
  <2>9. BcEncodes(l, r, q, n2 + 1, bcBuf', good_', calls, bcBack')
    BY <1>1, <1>8, <2>4, <2>7, Zenon DEF BcEncodes
  <2>10. BcState(bcKind', bcBuf', good_', bcMode', calls, bcNext', bcBack', bcGot')
    BY <1>1, <1>6, <1>8, <1>9, <2>7, <2>8, <2>9, Zenon DEF BcState
  <2>11. BcGotWell(calls, bcGot')
    BY <1>1, <2>7, BcNoneWell, Zenon
  <2>12. bcNext' \in Nat /\ good_' \in BOOLEAN /\ bcKind' \in {"native", "swap"}
    BY <1>1, <1>4, <1>8, <1>9, Zenon
  <2> QED
    BY <2>6, <2>7, <2>10, <2>11, <2>12, Zenon DEF BcInv
<1>10. CASE bcMode = "decode"
  <2>1. bcMode # "encode"
    BY <1>10
  <2>2. PICK p : bcBuf = BfRec(m, BcCap, p, q[n], q[bcBack])
    BY <1>2, <1>3, <2>1, Zenon DEF BcDecodes
  <2>3. bcBuf' = BfRec(m, BcCap, q[n2], q[n], q[n2])
    BY <1>1, <1>7, <2>1, <2>2, Zenon
  <2>4. q[n2] \in Nat
    <3>1. \A i \in 0..n : q[i] \in Nat
      BY <1>2, <1>3, Zenon DEF BcListed, BcOrder
    <3>2. n2 \in 0..n
      BY <1>5, <1>6
    <3> QED
      BY <3>1, <3>2, Zenon
  <2>5. BcDecodes(bcKind', m, q, b, bcBuf', good_', bcCalls', bcNext', bcBack')
    BY <1>1, <1>3, <1>6, <1>8, <2>1, <2>3, <2>4, Zenon DEF BcDecodes
  <2>6. BcState(bcKind, bcBuf, good_, bcMode, bcCalls, bcNext, bcBack, bcGot)'
    BY <1>1, <1>2, <1>3, <1>6, <1>10, <2>1, <2>5, Zenon DEF BcState
  <2>7. BcGotWell(bcCalls', bcGot')
    BY <1>1, <1>4, <2>1, BcNoneWell, Zenon
  <2> QED
    BY <1>1, <1>4, <1>6, <1>8, <2>1, <2>6, <2>7, Zenon DEF BcInv
<1> QED
  BY <1>2, <1>9, <1>10, Zenon

\* good_ is a truth value whatever is put.
LEMMA BcNativeTruth ==
  ASSUME NEW c, c.good \in BOOLEAN, NEW s
  PROVE  BcPutNative(c, s).good \in BOOLEAN
<1>1. PICK b, g : b = BuPut(BuAlign(c.buf, Len(s)), s) /\ g = BuFits(BuAlign(c.buf, Len(s)), Len(s))
  OBVIOUS
<1>2. BcPutNative(c, s) = IF c.good THEN [buf |-> b, good |-> g] ELSE c
  BY <1>1, Zenon DEF BcPutNative
<1>3. g \in BOOLEAN
  BY <1>1, IsTruth, Zenon DEF BuFits
<1>4. [buf |-> b, good |-> g].good = g
  OBVIOUS
<1> QED
  BY <1>2, <1>3, <1>4, Zenon

LEMMA BcStaysTruth ==
  ASSUME NEW b, NEW good \in BOOLEAN, NEW c, c = [buf |-> b, good |-> good], NEW t, NEW s
  PROVE  BcPut(c, t, s).good \in BOOLEAN
<1>1. c.good \in BOOLEAN
  OBVIOUS
<1>2. BcPutNative(c, s).good \in BOOLEAN
  BY <1>1, BcNativeTruth
<1>3. BcPutSwap(c, s).good \in BOOLEAN
  <2>1. PICK z : z = BuStored(c.buf, BcReversed(s))
    OBVIOUS
  <2>2. [c EXCEPT !.buf = z].good = good
    OBVIOUS
  <2> QED
    BY <1>1, <2>1, <2>2, Zenon DEF BcPutSwap
<1>4. BcPutArray(c, s).good \in BOOLEAN
  <2>1. PICK d : d = BcPutNative(c, BcCountOf(Len(s)))
    OBVIOUS
  <2>2. d.good \in BOOLEAN
    <3>1. PICK x : x = BcCountOf(Len(s))
      OBVIOUS
    <3>2. BcPutNative(c, x).good \in BOOLEAN
      BY <1>1, BcNativeTruth
    <3> QED
      BY <2>1, <3>1, <3>2, Zenon
  <2>3. PICK y, g : y = BuPut(d.buf, s) /\ g = BuFits(d.buf, Len(s))
    OBVIOUS
  <2>4. BcPutArray(c, s) = IF d.good THEN [buf |-> y, good |-> g] ELSE d
    BY <2>1, <2>3, Zenon DEF BcPutArray
  <2>5. g \in BOOLEAN
    BY <2>3, IsTruth, Zenon DEF BuFits
  <2>6. [buf |-> y, good |-> g].good = g
    OBVIOUS
  <2> QED
    BY <2>2, <2>4, <2>5, <2>6, Zenon
<1> QED
  BY <1>2, <1>3, <1>4, Zenon DEF BcPut

\* One more call of the encoder.
LEMMA BcEncodesOne ==
  ASSUME BcInv, NEW t \in BcTypes, BcEncode(t)
  PROVE  BcInv'
<1>1. PICK n, w, v, c, worked :
        /\ n = Len(bcCalls) /\ w = BcWidth(t) /\ v = BcValue(n + 1, t)
        /\ c = BcPut(BcCoder, t, v) /\ worked = BcSeen(c.buf.mem, c.buf.pos, w, v)
  OBVIOUS
<1>2. /\ bcMode = "encode" /\ bcBuf' = c.buf /\ good_' = c.good
      /\ bcCalls' = Append(bcCalls, [type |-> t, ok |-> worked])
      /\ bcKind' = bcKind /\ bcMode' = bcMode /\ bcNext' = bcNext
      /\ bcBack' = bcBack /\ bcGot' = bcGot
  BY <1>1 DEF BcEncode, BcSeen
<1>3. PICK l, m, q, b :
        /\ BcListed(bcKind, l, m, q, b, bcCalls, n)
        /\ bcBack \in Nat /\ bcBack <= n /\ bcBack < b
        /\ bcGot = BcNone /\ BcEncodes(l, m, q, b, bcBuf, good_, bcCalls, bcBack)
  <2>1. bcMode # "decode"
    BY <1>2
  <2> QED
    BY <1>1, <2>1, Zenon DEF BcInv, BcState
<1>4. /\ bcCalls \in Seq([type : BcTypes, ok : BOOLEAN]) /\ bcKind \in {"native", "swap"}
      /\ bcNext \in Nat /\ good_ \in BOOLEAN
  BY DEF BcInv
<1>5. /\ n \in Nat /\ b \in 1..(n + 1) /\ l \in Int /\ m = [x \in 1..BcCap |-> m[x]]
      /\ \A i \in 0..n : q[i] \in Nat
  BY <1>3, Zenon DEF BcListed, BcOrder
<1>6. n \in 0..n /\ bcBack \in 0..n
  BY <1>3, <1>5
<1>7. PICK p, mk : p = q[n] /\ mk = q[bcBack]
  OBVIOUS
<1>8. p \in Nat
  BY <1>5, <1>6, <1>7
<1>9. bcBuf = BfRec(m, BcCap, p, l, mk) /\ (good_ <=> n < b)
  BY <1>1, <1>3, <1>7, Zenon DEF BcEncodes
<1>10. PICK d : d = BcCoder
  OBVIOUS
<1>11. d = [buf |-> BfRec(m, BcCap, p, l, mk), good |-> good_]
  BY <1>9, <1>10, Zenon DEF BcCoder
<1>12. d.good <=> n < b
  <2>1. d.good = good_
    BY <1>11
  <2> QED
    BY <1>9, <2>1, Zenon
<1>13. BcPutDoes(bcKind, l, m, mk, n + 1, p, t, d, c)
  <2>1. c = BcPut(d, t, BcValue(n + 1, t))
    BY <1>1, <1>10, Zenon
  <2>2. BcPutDoes(bcKind, l, m, mk, n + 1, p, t, d, BcPut(d, t, BcValue(n + 1, t)))
    BY <1>5, <1>8, <1>11, BcPutsAny, Zenon
  <2> QED
    BY <2>1, <2>2, Zenon
<1>14. PICK calls : calls = bcCalls'
  OBVIOUS
<1>15. worked \in BOOLEAN
  BY <1>1, Zenon DEF BcSeen
<1>16. /\ calls \in Seq([type : BcTypes, ok : BOOLEAN]) /\ Len(calls) = n + 1
       /\ \A k \in 1..n : calls[k] = bcCalls[k]
       /\ calls[n + 1] = [type |-> t, ok |-> worked]
  <2>1. PICK x \in [type : BcTypes, ok : BOOLEAN] : x = [type |-> t, ok |-> worked]
    BY <1>15
  <2>2. calls = Append(bcCalls, x)
    BY <1>2, <1>14, <2>1, Zenon
  <2>3. /\ calls \in Seq([type : BcTypes, ok : BOOLEAN]) /\ Len(calls) = n + 1
        /\ \A k \in 1..n : calls[k] = bcCalls[k]
        /\ calls[n + 1] = x
    BY <1>1, <1>4, <2>2
  <2> QED
    BY <2>1, <2>3, Zenon
<1>17. BcListedOne(bcKind, l, mk, q, b, calls, n, bcBuf', good_')
  <2>1. PICK buf, good : buf = c.buf /\ good = c.good
    OBVIOUS
  <2>2. worked = BcSeen(buf.mem, buf.pos, w, v)
    BY <1>1, <2>1, Zenon
  <2>3. BcPutDoes(bcKind, l, m, mk, n + 1, q[n], t, d, c)
    BY <1>7, <1>13, Zenon
  <2>4. BcListedOne(bcKind, l, mk, q, b, calls, n, buf, good)
    <3>1. w = BcWidth(t) /\ v = BcValue(n + 1, t)
      BY <1>1
    <3>2. BcListed(bcKind, l, m, q, b, bcCalls, n)
      BY <1>3
    <3>3. (\A i \in 1..n : calls[i] = bcCalls[i]) /\ calls[n + 1] = [type |-> t, ok |-> worked]
      BY <1>16
    <3> QED
      BY <1>12, <2>1, <2>2, <2>3, <3>1, <3>2, <3>3, BcListsOne, Zenon
  <2> QED
    BY <1>2, <2>1, <2>4, Zenon
<1>18. PICK r, q2, b2 : /\ BcListed(bcKind, l, r, q2, b2, calls, n + 1)
                        /\ bcBuf' = BfRec(r, BcCap, q2[n + 1], l, mk)
                        /\ good_' <=> n + 1 < b2
                        /\ \A i \in 0..n : q2[i] = q[i]
                        /\ b <= b2
  BY <1>17, Zenon DEF BcListedOne
<1>19. bcBack < b2 /\ bcBack <= n + 1
  <2>1. b2 \in 1..(n + 1 + 1)
    BY <1>18, Zenon DEF BcListed, BcOrder
  <2>2. b <= b2
    BY <1>18
  <2> QED
    BY <1>3, <1>5, <2>1, <2>2
<1>20. bcBuf' = BfRec(r, BcCap, q2[n + 1], l, q2[bcBack])
  BY <1>6, <1>7, <1>18, Zenon
<1>21. BcEncodes(l, r, q2, b2, bcBuf', good_', calls, bcBack')
  BY <1>2, <1>16, <1>18, <1>20, Zenon DEF BcEncodes
<1>22. BcState(bcKind', bcBuf', good_', bcMode', calls, bcNext', bcBack', bcGot')
  BY <1>2, <1>3, <1>16, <1>18, <1>19, <1>21, Zenon DEF BcState
<1>23. BcGotWell(calls, bcGot')
  BY <1>2, <1>3, <1>16, BcNoneWell, Zenon
<1>24. good_' \in BOOLEAN
  <2>1. BcPut(d, t, v).good \in BOOLEAN
    BY <1>4, <1>11, BcStaysTruth, Zenon
  <2> QED
    BY <1>1, <1>2, <1>10, <2>1, Zenon
<1> QED
  BY <1>2, <1>4, <1>14, <1>16, <1>22, <1>23, <1>24, Zenon DEF BcInv

\* One more call of the decoder.
LEMMA BcDecodesOne ==
  ASSUME BcInv, NEW t \in BcTypes, BcDecode(t)
  PROVE  BcInv'
<1>1. PICK n, k, d, g : n = Len(bcCalls) /\ k = bcNext + 1 /\ d = BcCoder /\ g = BcGet(d, t)
  OBVIOUS
<1>2. /\ bcMode = "decode"
      /\ IF bcNext < n THEN t = bcCalls[k].type ELSE bcKind = "native"
      /\ bcBuf' = g.c.buf /\ good_' = g.c.good /\ bcNext' = k
      /\ bcGot' = [call |-> k, ok |-> g.ok, cells |-> g.cells]
      /\ bcKind' = bcKind /\ bcMode' = bcMode /\ bcCalls' = bcCalls /\ bcBack' = bcBack
  BY <1>1 DEF BcDecode
<1>3. PICK l, m, q, b :
        /\ BcListed(bcKind, l, m, q, b, bcCalls, n)
        /\ bcBack \in Nat /\ bcBack <= n /\ bcBack < b
        /\ BcDecodes(bcKind, m, q, b, bcBuf, good_, bcCalls, bcNext, bcBack)
  <2>1. bcMode # "encode"
    BY <1>2
  <2> QED
    BY <1>1, <2>1, Zenon DEF BcInv, BcState
<1>4. /\ bcCalls \in Seq([type : BcTypes, ok : BOOLEAN]) /\ bcKind \in {"native", "swap"}
      /\ bcNext \in Nat /\ good_ \in BOOLEAN
  BY DEF BcInv
<1>5. /\ n \in Nat /\ b \in 1..(n + 1) /\ l \in Int /\ m = [x \in 1..BcCap |-> m[x]]
      /\ \A i \in 0..n : q[i] \in Nat /\ q[i] <= BcCap
  BY <1>3, Zenon DEF BcListed, BcOrder
<1>6. PICK e, mk : e = q[n] /\ mk = q[bcBack]
  OBVIOUS
<1>7. e \in Nat /\ e <= BcCap
  <2>1. n \in 0..n
    BY <1>5
  <2> QED
    BY <1>5, <1>6, <2>1, Zenon
<1>8. PICK p \in Nat : /\ bcBuf = BfRec(m, BcCap, p, e, mk)
                       /\ bcNext <= n => p = q[bcNext] /\ (good_ <=> bcNext < b)
                       /\ bcNext > n => bcKind = "native" /\ ~good_
  BY <1>1, <1>3, <1>6, Zenon DEF BcDecodes
<1>9. d = [buf |-> BfRec(m, BcCap, p, e, mk), good |-> good_]
  BY <1>1, <1>8, Zenon DEF BcCoder
<1>10. k \in Nat /\ k - 1 = bcNext /\ DOMAIN bcCalls = 1..n
  BY <1>1, <1>4
<1>11. bcGot'.call = k /\ bcGot'.ok = g.ok /\ bcGot'.cells = g.cells
  BY <1>2
<1>12. CASE bcNext < n
  <2>1. k \in 1..n /\ bcNext <= n /\ k <= n /\ ~(k > n)
    BY <1>1, <1>4, <1>5, <1>12
  <2>2. t = bcCalls[k].type
    BY <1>2, <1>12
  <2>3. p = q[k - 1] /\ (good_ <=> k - 1 < b)
    BY <1>8, <1>10, <2>1
  <2>4. BcReadOne(m, q, b, bcCalls, e, mk, k, g)
    BY <1>1, <1>3, <1>4, <1>6, <1>9, <2>1, <2>2, <2>3, BcReadsOne, Zenon
  <2>5. /\ g.c.buf = BfRec(m, BcCap, q[k], e, mk)
        /\ g.c.good <=> k < b
        /\ g.ok <=> bcCalls[k].ok
        /\ g.ok => g.cells = BcValue(k, bcCalls[k].type)
        /\ g.c.good \in BOOLEAN /\ g.ok \in BOOLEAN /\ bcCalls[k].ok \in BOOLEAN
    BY <2>4, Zenon DEF BcReadOne
  <2>6. q[k] \in Nat
    BY <1>5, <2>1
  <2>7. BcDecodes(bcKind', m, q, b, bcBuf', good_', bcCalls', bcNext', bcBack')
    BY <1>1, <1>2, <1>6, <2>1, <2>5, <2>6, Zenon DEF BcDecodes
  <2>8. BcState(bcKind, bcBuf, good_, bcMode, bcCalls, bcNext, bcBack, bcGot)'
    BY <1>1, <1>2, <1>3, <2>7, Zenon DEF BcState
  <2>9. g.ok = bcCalls[k].ok
    BY <2>5, Zenon
  <2>10. BcGotWell(bcCalls', bcGot')
    BY <1>1, <1>2, <1>11, <2>1, <2>5, <2>9, Zenon DEF BcGotWell
  <2> QED
    BY <1>2, <1>4, <1>10, <2>5, <2>8, <2>10, Zenon DEF BcInv
<1>13. CASE ~(bcNext < n)
  <2>1. bcKind = "native"
    BY <1>2, <1>13
  <2>2. bcNext = n \/ bcNext > n
    BY <1>4, <1>5, <1>13
  <2>3. k > n /\ ~(k <= n) /\ ~(k \in 1..n) /\ (bcNext = n => bcNext <= n)
    BY <1>1, <1>4, <1>5, <1>13
  <2>4. good_ => p = e
    BY <1>6, <1>8, <2>2, <2>3, Zenon
  <2>5. BcReadNone(m, e, mk, g)
    BY <1>1, <1>4, <1>5, <1>7, <1>8, <1>9, <2>1, <2>4, BcReadsPast, Zenon
  <2>6. PICK p2 \in Nat : g.c.buf = BfRec(m, BcCap, p2, e, mk)
    BY <2>5, Zenon DEF BcReadNone
  <2>7. ~g.c.good /\ ~g.ok /\ g.c.good \in BOOLEAN
    BY <2>5, Zenon DEF BcReadNone
  <2>8. BcDecodes(bcKind', m, q, b, bcBuf', good_', bcCalls', bcNext', bcBack')
    BY <1>1, <1>2, <1>6, <2>1, <2>3, <2>6, <2>7, Zenon DEF BcDecodes
  <2>9. BcState(bcKind, bcBuf, good_, bcMode, bcCalls, bcNext, bcBack, bcGot)'
    BY <1>1, <1>2, <1>3, <2>8, Zenon DEF BcState
  <2>10. BcGotWell(bcCalls', bcGot')
    BY <1>1, <1>2, <1>10, <1>11, <2>3, <2>7, Zenon DEF BcGotWell
  <2> QED
    BY <1>2, <1>4, <1>10, <2>7, <2>9, <2>10, Zenon DEF BcInv
<1> QED
  BY <1>12, <1>13, Zenon

LEMMA BcKept ==
  ASSUME BcInv, [BcNext]_bcVars
  PROVE  BcInv'
<1>1. CASE \E t \in BcTypes : BcEncode(t) \/ BcDecode(t)
  BY <1>1, BcEncodesOne, BcDecodesOne, Zenon
<1>2. CASE BcMark
  BY <1>2, BcMarks, Zenon
<1>3. CASE BcReset
  BY <1>3, BcGoesBack, Zenon DEF BcReset
<1>4. CASE BcRewind
  BY <1>4, BcGoesBack, Zenon DEF BcRewind
<1>5. CASE BcFlip
  BY <1>5, BcFlipsOver, Zenon
<1>6. CASE \E sz \in {BcCap - 3, BcCap} : BcClear(sz)
  BY <1>6, BcClears, Zenon
<1>7. CASE UNCHANGED bcVars
  <2>1. /\ bcKind' = bcKind /\ bcBuf' = bcBuf /\ good_' = good_ /\ bcMode' = bcMode
        /\ bcCalls' = bcCalls /\ bcNext' = bcNext /\ bcBack' = bcBack /\ bcGot' = bcGot
    BY <1>7 DEF bcVars
  <2> QED
    BY <2>1, Zenon DEF BcInv
<1> QED
  BY <1>1, <1>2, <1>3, <1>4, <1>5, <1>6, <1>7, Zenon DEF BcNext

\* good_ of a native encoder is what BcGoodTells says.
LEMMA BcTellsGood ==
  ASSUME BcInv
  PROVE  BcGoodTells
<1> SUFFICES ASSUME bcKind = "native", bcMode = "encode"
             PROVE  good_ = (\A i \in 1..Len(bcCalls) : bcCalls[i].ok)
  BY Zenon DEF BcGoodTells
<1>1. PICK n : n = Len(bcCalls)
  OBVIOUS
<1>2. PICK l, m, q, b : /\ BcListed(bcKind, l, m, q, b, bcCalls, n)
                        /\ BcEncodes(l, m, q, b, bcBuf, good_, bcCalls, bcBack)
  <2>1. bcMode # "decode"
    OBVIOUS
  <2> QED
    BY <1>1, <2>1, Zenon DEF BcInv, BcState
<1>3. good_ \in BOOLEAN /\ (good_ <=> n < b)
  BY <1>1, <1>2, Zenon DEF BcInv, BcEncodes
<1>4. n \in Nat /\ b \in 1..(n + 1)
  BY <1>2, Zenon DEF BcListed, BcOrder
<1>5. ASSUME NEW k \in 1..n
      PROVE  bcCalls[k].ok <=> k < b
  <2>1. BcCallWell(bcKind, l, m, b, k, bcCalls[k], q[k - 1], q[k])
    BY <1>2, Zenon DEF BcListed
  <2>2. ~BcSwaps(bcKind, bcCalls[k].type)
    BY DEF BcSwaps
  <2>3. k < b => k <= b
    BY <1>4
  <2> QED
    BY <2>1, <2>2, <2>3, Zenon DEF BcCallWell
<1>6. good_ <=> \A i \in 1..n : bcCalls[i].ok
  <2>1. ASSUME good_, NEW k \in 1..n
        PROVE  k < b
    <3>1. n < b
      BY <1>3, <2>1
    <3> QED
      BY <1>4, <3>1
  <2>2. ASSUME \A i \in 1..n : i < b
        PROVE  n < b
    <3>1. n \in 1..n => n < b
      BY <2>2
    <3> QED
      BY <1>4, <3>1
  <2> QED
    BY <1>3, <1>5, <2>1, <2>2, Zenon
<1> QED
  BY <1>1, <1>3, <1>6, Zenon

\* The decoders of BufCodec.h get from a message what the encoders of the same
\* kind gave, call by call: a value is read whole and as it was put or, exactly
\* where the encoder refused it, not at all; nothing is read beyond the end of
\* the message; and good() of a native encoder tells whether all of it was put.
\* This holds through every mark, reset, rewind and clear, for a buffer of any
\* size, an array of any length but none, and any number of calls.
THEOREM CodecsAgree == MCSpec => []BcAgrees
<1>1. MCInit => BcInv
  BY BcStarts, Zenon DEF MCInit
<1>2. BcInv /\ [MCNext]_MCVars => BcInv'
  BY BcKept, StepOfPart, Zenon
<1>3. BcInv => BcAgrees
  <2> SUFFICES ASSUME BcInv PROVE BcAgrees
    OBVIOUS
  <2>1. BcRoundTrip /\ BcNothingMore
    BY Zenon DEF BcInv, BcGotWell, BcRoundTrip, BcNothingMore
  <2> QED
    BY <2>1, BcTellsGood, Zenon DEF BcAgrees
<1> QED
  BY <1>1, <1>2, <1>3, PTL DEF MCSpec, MCVars
=============================================================================
