------------------------------- MODULE CoreList -------------------------------
(***************************************************************************)
(* The list benchmark of CoreMark, core_list_join.c: finding, reversing    *)
(* and sorting, and the comparison that calls the two other benchmarks.    *)
(* m is what core_results points to: the heap h of the list, the block of  *)
(* the state machine, the matrices, the seeds and the CRCs.                *)
(***************************************************************************)
EXTENDS CoreCells, CoreState, CoreMatrix, FiniteSets

Data(h, c) == h.data16[h.info[c]]
Idx(h, c) == h.idx[h.info[c]]

(* Bound: no loop along a list takes more turns than there are cells.      *)
Turns(h) == Cardinality(DOMAIN h.next)

(* idx of the item looked for is negative when it is looked for by data.   *)
Matches(h, c, wanted) ==
  IF wanted.idx >= 0 THEN Idx(h, c) = wanted.idx ELSE LowByte(Data(h, c)) = wanted.data16

Finder(h, c, wanted) == IF c = NULL \/ Matches(h, c, wanted) THEN c ELSE h.next[c]

Finders(h, list, wanted) ==
  LET at[k \in Nat] == IF k = 0 THEN list ELSE Finder(h, at[k - 1], wanted) IN at

core_list_find(h, list, wanted) == Finders(h, list, wanted)[Turns(h)]

(* One cell is turned round: `behind` is the list reversed so far.         *)
Turned(s) ==
  IF s.list = NULL THEN s
  ELSE [next |-> [s.next EXCEPT ![s.list] = s.behind], list |-> s.next[s.list], behind |-> s.list]

Reversal(h, list) ==
  LET after[k \in Nat] ==
        IF k = 0 THEN [next |-> h.next, list |-> list, behind |-> NULL] ELSE Turned(after[k - 1])
  IN  after

core_list_reverse(h, list) ==
  LET r == Reversal(h, list)[Turns(h)] IN [h |-> [h EXCEPT !.next = r.next], list |-> r.behind]

(* The cells from c on; a list that runs in a circle is cut.               *)
Walked(h, s) == IF s.c = NULL THEN s ELSE [cells |-> Append(s.cells, s.c), c |-> h.next[s.c]]

Walk(h, c) ==
  LET after[k \in Nat] == IF k = 0 THEN [cells |-> << >>, c |-> c] ELSE Walked(h, after[k - 1])
  IN  after

CellsFrom(h, c) == Walk(h, c)[Turns(h)].cells

(***************************************************************************)
(* Comparing.                                                              *)
(***************************************************************************)

(* The result a datum has not cached yet: which benchmark bits 0-2 call,   *)
(* and with what.                                                          *)
StateResult(m, r) ==
  [m |-> [m EXCEPT !.block = r.block, !.crcstate = IF @ = 0 THEN r.crc ELSE @,
                   !.far = IF @ < r.far THEN r.far ELSE @],
   retval |-> r.crc]

MatrixResult(m, r) ==
  [m |-> [m EXCEPT !.mat.A = r.A, !.crcmatrix = IF @ = 0 THEN r.crc ELSE @], retval |-> r.crc]

Calculated(m, data) ==
  LET dtype == ((data \div 8) % 16) * 17
  IN  CASE data % 8 = 0 ->
             StateResult(m, core_bench_state(m.block, m.seed1, m.seed2,
                                             IF dtype < 34 THEN 34 ELSE dtype, m.crc))
        [] data % 8 = 1 -> MatrixResult(m, core_bench_matrix(m.mat, dtype, m.crc))
        [] OTHER -> [m |-> m, retval |-> data]

(* What is cached, and what was calculated and is cached from now on.      *)
Kept(d, data, c) ==
  [m |-> [c.m EXCEPT !.crc = crcu16(c.retval, @),
                     !.h.data16[d] = HighByte(data) * 256 + 128 + (c.retval % 128)],
   val |-> c.retval % 128]

calc_func(m, d) ==
  IF BitOf(m.h.data16[d], 7) = 1
  THEN [m |-> m, val |-> m.h.data16[d] % 128]
  ELSE Kept(d, m.h.data16[d], Calculated(m, m.h.data16[d]))

cmp_complex(m, a, b) ==
  LET Difference(va, vb) == [m |-> vb.m, diff |-> va.val - vb.val]
      Second(va) == Difference(va, calc_func(va.m, b))
  IN  Second(calc_func(m, a))

Regenerated_Kept(w) == w    \* slip: what was cached stays
Regenerated(w) == HighByte(w) * 257

(* res is NULL in every call: the comparison by idx gives the two their     *)
(* data back.                                                              *)
cmp_idx(m, a, b) ==
  [m    |-> [m EXCEPT !.h.data16 =
               [d \in DOMAIN @ |-> IF d \in {a, b} THEN Regenerated(@[d]) ELSE @[d]]],
   diff |-> S16(m.h.idx[a]) - S16(m.h.idx[b])]

Compared(cmp, m, a, b) == IF cmp = "cmp_complex" THEN cmp_complex(m, a, b) ELSE cmp_idx(m, a, b)

(***************************************************************************)
(* Sorting, bottom up.                                                     *)
(***************************************************************************)

(* `step insize places along from p`.                                      *)
Place(h, a) == IF a.q = NULL THEN a ELSE [q |-> h.next[a.q], psize |-> a.psize + 1]

Places(h, p) ==
  LET after[k \in Nat] == IF k = 0 THEN [q |-> p, psize |-> 0] ELSE Place(h, after[k - 1])
  IN  after

Along(h, p, insize) == Places(h, p)[insize]

PFirst_Strict(diff) == diff < 0    \* slip: of two alike the later comes first
PFirst(diff) == diff <= 0

(* Where the next element of the merge comes from.                         *)
FromP(s, cmp) ==
  LET Lower(c) == [m |-> c.m, fromP |-> PFirst(c.diff)]
  IN  IF s.psize = 0 THEN [m |-> s.m, fromP |-> FALSE]
      ELSE IF s.qsize = 0 \/ s.q = NULL THEN [m |-> s.m, fromP |-> TRUE]
      ELSE Lower(Compared(cmp, s.m, s.m.h.info[s.p], s.m.h.info[s.q]))

Appended(s, m, e) ==
  [s EXCEPT !.m = IF s.tail = NULL THEN m ELSE [m EXCEPT !.h.next[s.tail] = e],
            !.list = IF s.tail = NULL THEN e ELSE @,
            !.tail = e]

Step(s, f) ==
  IF f.fromP
  THEN [Appended(s, f.m, s.p) EXCEPT !.p = s.m.h.next[s.p], !.psize = @ - 1]
  ELSE [Appended(s, f.m, s.q) EXCEPT !.q = s.m.h.next[s.q], !.qsize = @ - 1]

MergeTurn(s, cmp) ==
  IF s.psize = 0 /\ (s.qsize = 0 \/ s.q = NULL) THEN s ELSE Step(s, FromP(s, cmp))

Merge(s, cmp) ==
  LET after[k \in Nat] == IF k = 0 THEN s ELSE MergeTurn(after[k - 1], cmp) IN after

Merged(s, cmp) == Merge(s, cmp)[s.psize + s.qsize]

(* One pass: runs of insize cells are merged two by two.                   *)
TwoRuns(s, insize) ==
  LET a == Along(s.m.h, s.p, insize)
  IN  [s EXCEPT !.q = a.q, !.psize = a.psize, !.qsize = insize, !.nmerges = @ + 1]

PassTurn(s, insize, cmp) ==
  LET Next(d) == [d EXCEPT !.p = d.q]
  IN  IF s.p = NULL THEN s ELSE Next(Merged(TwoRuns(s, insize), cmp))

Pass(s, insize, cmp) ==
  LET after[k \in Nat] == IF k = 0 THEN s ELSE PassTurn(after[k - 1], insize, cmp) IN after

SortPass(m, list, insize, cmp) ==
  LET Ended(s) == [m |-> [s.m EXCEPT !.h.next[s.tail] = NULL], list |-> s.list, nmerges |-> s.nmerges]
      Start == [m |-> m, p |-> list, q |-> NULL, psize |-> 0, qsize |-> 0,
                list |-> NULL, tail |-> NULL, nmerges |-> 0]
  IN  Ended(Pass(Start, insize, cmp)[Turns(m.h) \div (2 * insize) + 1])

(***************************************************************************)
(* Building the list.                                                      *)
(***************************************************************************)
ListSize(blksize) == blksize \div 20 - 2

Pattern16(seed, i) ==
  LET dat == Xor(seed % 16, i % 16) * 8 + (i % 8) IN dat * 257

InsertTurn(s, i, size, seed) ==
  core_list_insert_new(s.h, s.used, 1, [idx |-> 32767, data16 |-> Pattern16(seed, i)], size)

Inserts(tail, size, seed) ==
  LET after[n \in Nat] == IF n = 0 THEN tail ELSE InsertTurn(after[n - 1], n - 1, size, seed)
  IN  after

(* idx of the i-th item: the first fifth in order, the others mixed.       *)
IndexOf(i, size, seed) ==
  IF i < size \div 5 THEN i
  ELSE Or(((i + 1) % 8) * 256, Xor(seed, i)) % 16384

(* finder goes along the list; the last cell keeps its idx.                *)
IndexTurn(s, i, size, seed) ==
  IF s.h.next[s.finder] = NULL THEN s
  ELSE [h |-> [s.h EXCEPT !.idx[s.h.info[s.finder]] = IndexOf(i, size, seed)],
        finder |-> s.h.next[s.finder]]

Indexing(h, size, seed) ==
  LET after[i \in Nat] ==
        IF i = 0 THEN [h |-> h, finder |-> h.next[1]] ELSE IndexTurn(after[i - 1], i, size, seed)
  IN  after

(* The sort at the end is SortInit.                                         *)
core_list_init(blksize, seed) ==
  LET size == ListSize(blksize)
      Cells == 1 .. size
      h0 == [next |-> [c \in Cells |-> NULL], info |-> [c \in Cells |-> c],
             data16 |-> [[c \in Cells |-> 0] EXCEPT ![1] = 32896], idx |-> [c \in Cells |-> 0]]
      tail == core_list_insert_new(h0, 1, 1, [idx |-> 32767, data16 |-> 65535], size)
  IN  Indexing(Inserts(tail, size, seed)[size].h, size, seed)[size].h

===============================================================================
