------------------------------- MODULE Buffer -------------------------------
(***************************************************************************)
(* Buffer<T> of src/CtrlrFx/Buffer.h as a value: its memory and the        *)
(* pointers pos_, lim_ and mark_ as offsets from base_; end_ is the number *)
(* of cells.  Each operator is what one method does to the value, or what  *)
(* it returns.  Offsets may pass the limit: where the code does not check, *)
(* neither does the operator.  The specialisations for other element types *)
(* change how cells are copied, not which.                                 *)
(***************************************************************************)
EXTENDS Integers, Sequences

\* Constructor, alloc(), assign(): n cells in memory, sz of them filled.
BuNew(cells, sz) == [mem |-> cells, cap |-> Len(cells), pos |-> sz,
                     lim |-> Len(cells), mark |-> sz]

BuAvailable(b) == b.lim - b.pos

-----------------------------------------------------------------------------
(* Positions.                                                              *)

BuMark(b) == [b EXCEPT !.mark = b.pos]
BuReset(b) == [b EXCEPT !.pos = b.mark]
BuRewind(b) == [b EXCEPT !.pos = 0, !.mark = 0]
BuReserve(b, n) == [b EXCEPT !.lim = b.cap - n]
BuMoved(b, n) == [b EXCEPT !.pos = @ + n]

\* clear(sz), and clear() with the capacity.
BuClear(b, sz) == [b EXCEPT !.pos = 0, !.mark = 0,
                            !.lim = IF sz > b.cap THEN b.cap ELSE sz]

\* flip(): what was written is what can be read.
BuFlip(b) == [b EXCEPT !.lim = b.pos, !.pos = 0, !.mark = 0]

\* align(n): up to the next multiple, unless that is the end or past it. The
\* limit is not looked at.
BuAlign(b, n) ==
  LET up == b.pos + (n - (b.pos % n)) IN
  IF b.pos % n # 0 /\ up < b.cap THEN [b EXCEPT !.pos = up] ELSE b

-----------------------------------------------------------------------------
(* Cells. Memory is a sequence: offset i is element i + 1.                 *)

\* cells stored from the position on, with no check: put(v).
BuStored(b, cells) ==
  [b EXCEPT !.mem = [i \in 1..b.cap |->
                       IF i \in (b.pos + 1)..(b.pos + Len(cells))
                       THEN cells[i - b.pos] ELSE b.mem[i]],
            !.pos = b.pos + Len(cells)]

\* The next n cells: get() and the copies out.
BuCells(b, n) == SubSeq(b.mem, b.pos + 1, b.pos + n)

\* Bug seeded: the memory is looked at, not the limit.
BuFitsMemory(b, n) == b.pos + n <= b.cap

\* Whether put(arr, n) and get(arr, n) do anything: all n or nothing.
BuFits(b, n) == b.pos + n <= b.lim

\* Bug seeded: an array is put whether it fits or not.
BuPutUnchecked(b, cells) == BuStored(b, cells)

BuPut(b, cells) == IF BuFits(b, Len(cells)) THEN BuStored(b, cells) ELSE b
BuGet(b, n) == IF BuFits(b, n) THEN BuMoved(b, n) ELSE b

\* fill(v): from the position to the limit.
BuFill(b, v) == BuStored(b, [i \in 1..BuAvailable(b) |-> v])

\* Bug seeded: the limit stays where it was.
BuCompactKeepsLimit(b) ==
  [b EXCEPT !.mem = [i \in 1..b.cap |-> IF i <= BuAvailable(b) THEN b.mem[b.pos + i]
                                        ELSE b.mem[i]],
            !.pos = 0]

\* compact(): what is left moves to the front, the mark stays.
BuCompact(b) ==
  [b EXCEPT !.mem = [i \in 1..b.cap |-> IF i <= BuAvailable(b) THEN b.mem[b.pos + i]
                                        ELSE b.mem[i]],
            !.lim = BuAvailable(b), !.pos = 0]

\* deep_copy(): contents, position, mark and limit, or nothing when they do
\* not fit. Nothing beyond the limit is copied.
BuCopyOf(b, from) ==
  IF from.lim > b.cap THEN b
  ELSE [b EXCEPT !.mem = [i \in 1..b.cap |-> IF i <= from.lim THEN from.mem[i] ELSE b.mem[i]],
                 !.pos = from.pos, !.mark = from.mark, !.lim = from.lim]
=============================================================================
