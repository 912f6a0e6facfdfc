--------------------------- MODULE CoreMarkProofs ---------------------------
(***************************************************************************)
(* Theorems about the benchmark program, for every build that has room for *)
(* its data, every board, every seed and any number of iterations.         *)
(*                                                                         *)
(* ListInv says of each statement what the list, the matrices and the      *)
(* block are there: whole, sorted up to a pass, short of one item, or as   *)
(* they were.  TimeInv says how long the iterations take.  Both are        *)
(* inductive; the properties CoreMark states follow from them.             *)
(***************************************************************************)
EXTENDS CoreMark, CoreListProofs

-----------------------------------------------------------------------------
(* The program's list: all cells but the last of the heap, in the order e,  *)
(* from the cell list on.                                                   *)
Whole(n, r, BB, list, e) ==
  /\ Able(n, r, BB)
  /\ Chain(n, r.h.next, e, n - 1) /\ list = e[1] /\ CellsOf(e, n - 1) = 1 .. n - 1

(* The sort of the list has come to runs of w cells.                        *)
InSort(cmp, n, r, BB, pos, list, w, e) ==
  /\ Whole(n, r, BB, list, e) /\ w \in Nat \ {0} /\ pos \in [1 .. n -> Nat]
  /\ Runs(BeforeIn(cmp, n, r.h, pos), pos, e, n - 1, Multiples(w), 0, 0)

(* What was able to compare still is.                                       *)
LEMMA AbleNext ==
  ASSUME NEW n, NEW r, NEW BB, Able(n, r, BB), NEW m \in Machines(n, r, BB)
  PROVE  Able(n, m, BB)
<1>1. /\ r.h.info = [d \in 1 .. n |-> d] /\ r.size \in Nat /\ Scannable(r, BB) /\ Matrixed(r.mat)
  BY DEF Able
<1>2. /\ m.seed1 = r.seed1 /\ m.seed2 = r.seed2 /\ m.size = r.size /\ m.mat = r.mat
      /\ m.h \in Heaps(n, r.h)
  BY DEF Machines
<1>3. m.h.info = r.h.info /\ m.h \in Heaps(n, m.h)
  BY <1>2 DEF Heaps
<1>4. Scannable(m, BB)
  BY <1>1, <1>2 DEF Scannable
<1>5. m \in Machines(n, m, BB)
  BY <1>3 DEF Machines
<1>q. QED
  BY <1>1, <1>2, <1>3, <1>4, <1>5 DEF Able

(* A pass of the sort: the list is whole, and when it was the last, sorted. *)
Swept(cmp, n, r, BB, pos, w, s) ==
  /\ s.m \in Machines(n, r, BB)
  /\ \E d : /\ InSort(cmp, n, s.m, BB, pos, s.list, 2 * w, d)
            /\ s.nmerges <= 1 => Sorted(cmp, n, pos, n - 1, d, s.m.h)

\* A pass of a sort that is under way keeps the list whole, and the last one sorts it.
LEMMA SweptIs ==
  ASSUME NEW n \in Nat, n >= 2, NEW r, NEW BB, NEW cmp \in Cmps, NEW pos, NEW list, NEW w, NEW e,
         InSort(cmp, n, r, BB, pos, list, w, e)
  PROVE  Swept(cmp, n, r, BB, pos, w, SortPass(r, list, w, cmp))
<1> DEFINE s == SortPass(r, list, w, cmp)
           L == n - 1
<1>1. /\ Able(n, r, BB) /\ Chain(n, r.h.next, e, L) /\ list = e[1] /\ CellsOf(e, L) = 1 .. L
      /\ w \in Nat /\ w # 0 /\ pos \in [1 .. n -> Nat]
      /\ Runs(BeforeIn(cmp, n, r.h, pos), pos, e, L, Multiples(w), 0, 0)
  BY DEF InSort, Whole
<1>2. L \in Nat /\ L # 0
  OBVIOUS
<1>3. r \in Machines(n, r, BB)
  BY <1>1 DEF Able
<1> HIDE DEF L
<1>4. Sorting(cmp, n, r, BB, pos, L, w, e, r, list)
  BY <1>1, <1>3 DEF Sorting
<1>5. PassedOnce(cmp, n, r, BB, pos, L, w, e, s)
  BY <1>1, <1>2, <1>4, SortPassIs
<1> HIDE DEF s
<1>6. PICK d : /\ Sorting(cmp, n, r, BB, pos, L, 2 * w, d, s.m, s.list)
               /\ CellsOf(d, L) = CellsOf(e, L)
               /\ s.nmerges <= 1 => Sorted(cmp, n, pos, L, d, s.m.h)
  BY <1>5 DEF PassedOnce
<1>7. /\ s.m \in Machines(n, r, BB) /\ Chain(n, s.m.h.next, d, L) /\ s.list = d[1]
      /\ Runs(BeforeIn(cmp, n, s.m.h, pos), pos, d, L, Multiples(2 * w), 0, 0)
  BY <1>6 DEF Sorting
<1>8. Able(n, s.m, BB)
  BY <1>1, <1>7, AbleNext
<1>9. Whole(n, s.m, BB, s.list, d)
  BY <1>1, <1>6, <1>7, <1>8 DEF Whole, L
<1>10. 2 * w \in Nat \ {0}
  BY <1>1
<1>11. InSort(cmp, n, s.m, BB, pos, s.list, 2 * w, d)
  BY <1>1, <1>7, <1>9, <1>10 DEF InSort, L
<1>q. QED
  BY <1>6, <1>7, <1>11 DEF Swept, L, s

(* Any list is made of runs of one cell.                                    *)
LEMMA RunsAtStart ==
  ASSUME NEW bef, NEW pos, NEW e, NEW L \in Nat, \A i, j \in 1 .. L : i < j => pos[e[i]] < pos[e[j]]
  PROVE  Runs(bef, pos, e, L, Multiples(1), 0, 0)
<1>1. ASSUME NEW i \in 1 .. L, NEW j \in 1 .. L, i < j PROVE Parted(Multiples(1), 0, 0, i, j)
  <2>1. i = i * 1 /\ i \in Nat
    OBVIOUS
  <2>2. i \in Multiples(1)
    BY <2>1 DEF Multiples, Multiple
  <2>q. QED
    BY <1>1, <2>2 DEF Parted, Cut
<1>q. QED
  BY <1>1 DEF Runs

(* Where each cell stands in the list.                                      *)
PosOf(order, n) ==
  [x \in 1 .. n |-> IF \E i \in DOMAIN order : order[i] = x
                    THEN CHOOSE i \in DOMAIN order : order[i] = x ELSE 0]

\* The places of the cells when the sort began.
LEMMA PosIs ==
  ASSUME NEW n \in Nat, NEW next, NEW e, NEW L \in Nat, Chain(n, next, e, L), NEW order \in Seq(1 .. n),
         Len(order) = L, \A i \in 1 .. L : order[i] = e[i]
  PROVE  /\ PosOf(order, n) \in [1 .. n -> Nat]
         /\ \A i \in 1 .. L : PosOf(order, n)[e[i]] = i
         /\ \A x \in CellsOf(e, L) : PosOf(order, n)[x] = CHOOSE i \in DOMAIN order : order[i] = x
<1> DEFINE P(x) == \E i \in DOMAIN order : order[i] = x
           c(x) == CHOOSE i \in DOMAIN order : order[i] = x
<1>1. DOMAIN order = 1 .. L
  OBVIOUS
<1>2. /\ \A i \in 1 .. L : e[i] \in 1 .. n
      /\ \A i, j \in 1 .. L : e[i] = e[j] => i = j
  BY DEF Chain, NULL
<1>3. \A x : P(x) => c(x) \in 1 .. L /\ order[c(x)] = x
  BY <1>1
<1>4. ASSUME NEW i \in 1 .. L PROVE P(e[i]) /\ c(e[i]) = i
  <2>1. P(e[i])
    BY <1>1
  <2> HIDE DEF c
  <2>2. c(e[i]) \in 1 .. L /\ order[c(e[i])] = e[i]
    BY <1>3, <2>1
  <2>3. e[c(e[i])] = e[i]
    BY <2>2
  <2>q. QED
    BY <1>2, <2>1, <2>2, <2>3
<1> HIDE DEF P, c
<1>5. PosOf(order, n) = [x \in 1 .. n |-> IF P(x) THEN c(x) ELSE 0]
  BY DEF PosOf, P, c
<1>6. PosOf(order, n) \in [1 .. n -> Nat]
  <2>1. ASSUME NEW x \in 1 .. n PROVE (IF P(x) THEN c(x) ELSE 0) \in Nat
    BY <1>3
  <2>q. QED
    BY <1>5, <2>1
<1>7. \A i \in 1 .. L : PosOf(order, n)[e[i]] = i
  BY <1>2, <1>4, <1>5
<1>8. ASSUME NEW x \in CellsOf(e, L) PROVE PosOf(order, n)[x] = c(x)
  <2>1. PICK i \in 1 .. L : x = e[i]
    BY DEF CellsOf
  <2>q. QED
    BY <1>2, <1>4, <1>5, <2>1
<1>q. QED
  BY <1>6, <1>7, <1>8 DEF c

(* The head is the cell with the least index.                               *)
LEMMA HeadIsFirst ==
  ASSUME NEW n \in Nat, n >= 3, NEW h, HeadFirst(n, h.idx), NEW pos, NEW e, NEW next,
         Chain(n, next, e, n - 1), CellsOf(e, n - 1) = 1 .. n - 1,
         Sorted("cmp_idx", n, pos, n - 1, e, h)
  PROVE  e[1] = 1
<1>1. 1 \in CellsOf(e, n - 1)
  OBVIOUS
<1>2. PICK i \in 1 .. n - 1 : e[i] = 1
  BY <1>1 DEF CellsOf
<1>3. SUFFICES ASSUME i # 1 PROVE FALSE
  BY <1>2
<1>4. 1 \in 1 .. n - 1 /\ 1 < i
  BY <1>3
<1>5. <<e[1], e[i]>> \in BeforeIn("cmp_idx", n, h, pos)
  BY <1>4 DEF Sorted
<1>6. Key("cmp_idx", h, e[1]) <= Key("cmp_idx", h, 1)
  <2>1. Before("cmp_idx", h, pos, e[1], e[i])
    BY <1>5 DEF BeforeIn
  <2>2. Key("cmp_idx", h, e[1]) < Key("cmp_idx", h, 1) \/ Key("cmp_idx", h, e[1]) = Key("cmp_idx", h, 1)
    BY <1>2, <2>1 DEF Before
  <2>3. e[1] \in 1 .. n - 1
    <3>1. e[1] \in CellsOf(e, n - 1)
      BY <1>4 DEF CellsOf
    <3>q. QED
      BY <3>1
  <2>4. h.idx[e[1]] \in Nat /\ h.idx[1] = 0
    BY <2>3 DEF HeadFirst
  <2>5. Key("cmp_idx", h, e[1]) \in Int /\ Key("cmp_idx", h, 1) \in Int
    BY <2>4 DEF Key, S16, U16
  <2>q. QED
    BY <2>2, <2>5
<1>7. e[1] \in 2 .. n - 1
  <2>1. e[1] \in CellsOf(e, n - 1)
    BY <1>4 DEF CellsOf
  <2>2. e[1] # 1
    BY <1>2, <1>3, <1>4 DEF Chain
  <2>q. QED
    BY <2>1, <2>2
<1>8. h.idx[1] = 0 /\ h.idx[e[1]] \in Nat /\ 0 < h.idx[e[1]] /\ h.idx[e[1]] < 32768
  BY <1>7 DEF HeadFirst
<1>9. Key("cmp_idx", h, 1) = 0 /\ Key("cmp_idx", h, e[1]) = h.idx[e[1]]
  <2>1. \A w \in Nat : w < 32768 => S16(w) = w
    BY DEF S16, U16
  <2>2. 0 \in Nat /\ 0 < 32768
    OBVIOUS
  <2>3. Key("cmp_idx", h, 1) = S16(h.idx[1]) /\ Key("cmp_idx", h, e[1]) = S16(h.idx[e[1]])
    BY DEF Key
  <2>q. QED
    BY <1>8, <2>1, <2>2, <2>3
<1>q. QED
  BY <1>6, <1>8, <1>9

-----------------------------------------------------------------------------
(* A turn of the find loop.                                                *)

(* Other pointers in the machine's heap.                                   *)
LEMMA Repointed ==
  ASSUME NEW n \in Nat, NEW r, NEW BB, Able(n, r, BB), NEW next \in Pointers(n)
  PROVE  LET m == [r EXCEPT !.h = Linked(r.h, next)]
         IN  /\ m \in Machines(n, r, BB) /\ m.h = Linked(r.h, next) /\ m.h.next = next
             /\ Able(n, m, BB)
<1> DEFINE g == Linked(r.h, next)
           m == [r EXCEPT !.h = g]
<1>1. r \in Machines(n, r, BB)
  BY DEF Able
<1>2. r.h \in Heaps(n, r.h) /\ r.h \in Heap(n)
  BY <1>1 DEF Machines, Heaps
<1>3. g \in Heap(n) /\ g.next = next
  BY <1>2, LinkedIs
<1>4. g \in Heaps(n, r.h)
  BY <1>3 DEF Heaps, Linked
<1> HIDE DEF g
<1>5. m \in Machines(n, r, BB) /\ m.h = g
  BY <1>1, <1>4 DEF Machines
<1> HIDE DEF m
<1>6. Able(n, m, BB)
  BY <1>5, AbleNext
<1>q. QED
  BY <1>3, <1>5, <1>6 DEF g, m

(* What a cell's datum is.                                                 *)
LEMMA DataIs ==
  ASSUME NEW n \in Nat, NEW h \in Heap(n), NEW c \in 1 .. n
  PROVE  Data(h, c) \in Nat /\ Data(h, c) \in Word16
<1>1. h.info \in [1 .. n -> 1 .. n] /\ h.data16 \in [1 .. n -> Word16]
  BY HeapIs
<1>2. Data(h, c) \in Word16
  BY <1>1 DEF Data
<1>q. QED
  BY <1>2 DEF Word16

Relists(n, r, BB, list, h2) ==
  /\ [r EXCEPT !.h = h2] \in Machines(n, r, BB)
  /\ \E d : Whole(n, [r EXCEPT !.h = h2], BB, list, d)

Searched(n, r, BB, f, v) ==
  /\ Relists(n, r, BB, v.list, v.h)
  /\ f # NULL => Relists(n, r, BB, v.list, CacheNext(v.h, v.list, f)) /\ Data(v.h, f) \in Nat
  /\ Data(v.h, v.h.next[v.list]) \in Nat

\* A find and a reverse keep the list whole, and so does caching what was found.
LEMMA SearchedIs ==
  ASSUME NEW n \in Nat, n >= 4, NEW r, NEW BB, NEW list, NEW e, Whole(n, r, BB, list, e), NEW wanted
  PROVE  Searched(n, r, BB, core_list_find(r.h, list, wanted), core_list_reverse(r.h, list))
<1> DEFINE L == n - 1
           f == core_list_find(r.h, list, wanted)
           v == core_list_reverse(r.h, list)
           b == Backwards(e, L)
<1>1. /\ Able(n, r, BB) /\ Chain(n, r.h.next, e, L) /\ list = e[1] /\ CellsOf(e, L) = 1 .. L
  BY DEF Whole
<1>2. r.h \in Heap(n)
  BY <1>1 DEF Able, Machines, Heaps
<1>3. r.h.next \in Pointers(n)
  BY <1>2, HeapIs
<1>4. L \in Nat /\ L >= 3
  OBVIOUS
<1> HIDE DEF L
<1>5. \E i \in 1 .. L + 1 : f = e[i]
  <2>1. FoundIn(core_list_find(r.h, e[1], wanted), e, L)
    BY <1>1, <1>3, <1>4, FindIn
  <2>q. QED
    BY <1>1, <2>1 DEF FoundIn
<1>6. PICK next \in Pointers(n) :
        v = [h |-> [r.h EXCEPT !.next = next], list |-> b[1]] /\ Chain(n, next, b, L)
  BY <1>1, <1>3, <1>4, ReverseIs
<1>7. /\ [r.h EXCEPT !.next = next] = Linked(r.h, next) /\ Linked(r.h, next) \in Heap(n)
      /\ Linked(r.h, next).next = next
  BY <1>2, LinkedIs
<1> DEFINE g == Linked(r.h, next)
           m == [r EXCEPT !.h = g]
<1>8. v.h = g /\ v.list = b[1]
  BY <1>6, <1>7
<1>9. CellsOf(b, L) = CellsOf(e, L)
  BY <1>4, BackwardsIs
<1>10. m \in Machines(n, r, BB) /\ m.h = g /\ m.h.next = next /\ Able(n, m, BB)
  BY <1>1, Repointed
<1> HIDE DEF v, b, f, m, g
<1>11. Whole(n, m, BB, v.list, b)
  BY <1>1, <1>6, <1>8, <1>9, <1>10 DEF Whole, L
<1>12. Relists(n, r, BB, v.list, v.h)
  BY <1>8, <1>10, <1>11 DEF Relists, m
<1>13. b[1] \in 1 .. n /\ next[b[1]] = b[2] /\ b[2] \in 1 .. n
  BY <1>4, <1>6 DEF Chain, NULL
<1>14. Data(v.h, v.h.next[v.list]) \in Nat
  BY <1>7, <1>8, <1>13, DataIs DEF g
<1>15. ASSUME f # NULL
       PROVE  Relists(n, r, BB, v.list, CacheNext(v.h, v.list, f)) /\ Data(v.h, f) \in Nat
  <2>1. f \in CellsOf(e, L)
    <3>1. PICK i \in 1 .. L + 1 : f = e[i]
      BY <1>5
    <3>2. e[L + 1] = NULL
      BY <1>1 DEF Chain
    <3>3. i \in 1 .. L
      BY <1>4, <1>15, <3>1, <3>2
    <3>q. QED
      BY <3>1, <3>3 DEF CellsOf
  <2>2. PICK i \in 1 .. L : f = b[i]
    BY <1>9, <2>1 DEF CellsOf
  <2>3. f \in 1 .. n
    BY <1>1, <2>1 DEF L
  <2>4. g \in Heap(n) /\ Chain(n, g.next, b, L)
    BY <1>6, <1>7 DEF g
  <2>5. PICK next2, d :
          /\ next2 \in Pointers(n)
          /\ CacheNext(g, b[1], b[i]) = Linked(g, next2)
          /\ Chain(n, next2, d, L) /\ d[1] = b[1] /\ CellsOf(d, L) = CellsOf(b, L)
    <3>1. CachedIn(n, g, b, L, CacheNext(g, b[1], b[i]))
      BY <1>4, <2>4, CachedList
    <3>q. QED
      BY <3>1 DEF CachedIn
  <2>6. Linked(g, next2) = Linked(r.h, next2)
    BY DEF Linked, g
  <2> DEFINE m2 == [r EXCEPT !.h = Linked(r.h, next2)]
  <2>7. m2 \in Machines(n, r, BB) /\ m2.h.next = next2 /\ Able(n, m2, BB)
    BY <1>1, <2>5, Repointed
  <2>8. CacheNext(v.h, v.list, f) = Linked(r.h, next2)
    BY <1>8, <2>2, <2>5, <2>6
  <2> HIDE DEF m2
  <2>9. Whole(n, m2, BB, v.list, d)
    BY <1>1, <1>8, <1>9, <2>5, <2>7 DEF Whole, L
  <2>10. Relists(n, r, BB, v.list, CacheNext(v.h, v.list, f))
    BY <2>7, <2>8, <2>9 DEF Relists, m2
  <2>11. Data(v.h, f) \in Nat
    BY <1>8, <2>3, <2>4, DataIs
  <2>q. QED
    BY <2>10, <2>11
<1>16. Searched(n, r, BB, f, v)
  BY <1>12, <1>14, <1>15 DEF Searched
<1>q. QED
  BY <1>16 DEF f, v

-----------------------------------------------------------------------------
(* The removal in core_bench_list: the data of the second and third cell    *)
(* change places, and the third is out of the list until it is undone.      *)
Without(e, L) == [i \in 1 .. L |-> IF i < 3 THEN e[i] ELSE e[i + 1]]

Removed(n, h, e, q) ==
  /\ q.h \in Heap(n) /\ q.h.idx = h.idx /\ q.h.data16 = h.data16
  /\ q.h.next[e[1]] = e[2]
  /\ Chain(n, q.h.next, Without(e, n - 1), n - 2)
  /\ core_list_undo_remove(q.h, q.removed, e[2]) = h

\* core_list_remove leaves the list without its third cell, and can be undone.
LEMMA RemovedIs ==
  ASSUME NEW n \in Nat, n >= 4, NEW h \in Heap(n), NEW e, Chain(n, h.next, e, n - 1)
  PROVE  Removed(n, h, e, core_list_remove(h, h.next[e[1]]))
<1> DEFINE L == n - 1
           item == e[2]
           ret == e[3]
           info1 == [h.info EXCEPT ![item] = h.info[ret], ![ret] = h.info[item]]
           next1 == [h.next EXCEPT ![item] = h.next[ret], ![ret] = NULL]
           q == core_list_remove(h, item)
           d == Without(e, L)
<1>1. /\ e \in [1 .. L + 1 -> 0 .. n] /\ e[L + 1] = NULL
      /\ (\A i \in 1 .. L : e[i] # NULL /\ h.next[e[i]] = e[i + 1])
      /\ \A i, j \in 1 .. L : e[i] = e[j] => i = j
  BY DEF Chain
<1>2. L \in Nat /\ L >= 3 /\ 1 \in 1 .. L /\ 2 \in 1 .. L /\ 3 \in 1 .. L
  OBVIOUS
<1>3. \A i \in 1 .. L : e[i] \in 1 .. n
  BY <1>1 DEF NULL
<1>4. /\ h.next[e[1]] = item /\ h.next[item] = ret /\ h.next[ret] = e[4]
      /\ item \in 1 .. n /\ ret \in 1 .. n /\ item # ret
  BY <1>1, <1>2, <1>3
<1>5. /\ h.next \in Pointers(n) /\ h.info \in [1 .. n -> 1 .. n]
      /\ h.data16 \in [1 .. n -> Word16] /\ h.idx \in [1 .. n -> Word16]
  BY HeapIs
<1>6. h \in HeapOf(1 .. n, Word16) /\ NULL \notin 1 .. n /\ (1 .. n) \cup {NULL} = 0 .. n
  BY DEF Heap, NULL
<1>7. q = [h |-> [h EXCEPT !.info = info1, !.next = next1], removed |-> ret]
  BY <1>4 DEF core_list_remove
<1> HIDE DEF item, ret
<1>8. info1 \in [1 .. n -> 1 .. n] /\ next1 \in [1 .. n -> (1 .. n) \cup {NULL}]
  <2>1. h.next \in [1 .. n -> 0 .. n]
    BY <1>5 DEF Pointers
  <2>2. h.next[ret] \in 0 .. n /\ NULL \in 0 .. n
    BY <1>4, <2>1 DEF NULL
  <2>3. next1 \in [1 .. n -> 0 .. n]
    BY <1>4, <2>1, <2>2
  <2>4. h.info[ret] \in 1 .. n /\ h.info[item] \in 1 .. n
    BY <1>4, <1>5
  <2>5. info1 \in [1 .. n -> 1 .. n]
    BY <1>4, <1>5, <2>4
  <2>q. QED
    BY <1>6, <2>3, <2>5
<1>9. \A c \in 1 .. n : next1[c] = IF c = ret THEN NULL ELSE IF c = item THEN h.next[ret] ELSE h.next[c]
  <2>1. DOMAIN h.next = 1 .. n
    BY <1>5 DEF Pointers
  <2>q. QED
    BY <1>4, <2>1, TwoPut
<1> HIDE DEF info1, next1, q
<1>10. q.h = [next |-> next1, info |-> info1, data16 |-> h.data16, idx |-> h.idx] /\ q.removed = ret
  BY <1>6, <1>7, <1>8, Relinked
<1>11. q.h \in Heap(n)
  <2>1. [next |-> next1, info |-> info1, data16 |-> h.data16, idx |-> h.idx] \in HeapOf(1 .. n, Word16)
    BY <1>5, <1>8 DEF HeapOf
  <2>q. QED
    BY <1>10, <2>1 DEF Heap
<1>12. q.h.next = next1 /\ q.h.idx = h.idx /\ q.h.data16 = h.data16
  BY <1>10
<1>13. next1[e[1]] = item
  <2>1. e[1] # item /\ e[1] # ret
    BY <1>1, <1>2 DEF item, ret
  <2>q. QED
    BY <1>2, <1>3, <1>4, <1>9, <2>1
<1>14. Chain(n, next1, d, L - 1)
  <2>1. d = [i \in 1 .. L |-> IF i < 3 THEN e[i] ELSE e[i + 1]]
    BY DEF Without
  <2> HIDE DEF d
  <2>2. \A i \in 1 .. L : d[i] \in 0 .. n
    BY <1>1, <2>1
  <2>3. d \in [1 .. (L - 1) + 1 -> 0 .. n]
    <3>1. (L - 1) + 1 = L
      OBVIOUS
    <3> HIDE DEF L
    <3>q. QED
      BY <2>1, <2>2, <3>1
  <2>4. d[(L - 1) + 1] = NULL
    <3>1. (L - 1) + 1 = L /\ L \in 1 .. L /\ ~ (L < 3)
      BY <1>2
    <3>q. QED
      BY <1>1, <2>1, <3>1
  <2>5. ASSUME NEW i \in 1 .. L - 1 PROVE d[i] # NULL /\ next1[d[i]] = d[i + 1]
    <3>1. i \in 1 .. L /\ i + 1 \in 1 .. L
      OBVIOUS
    <3>2. CASE i = 1
      <4>1. d[1] = e[1] /\ d[2] = e[2]
        BY <1>2, <2>1
      <4>q. QED
        BY <1>1, <1>2, <1>13, <3>2, <4>1 DEF item
    <3>3. CASE i = 2
      <4>1. d[2] = item /\ d[3] = e[4]
        BY <1>2, <2>1 DEF item
      <4>2. next1[item] = h.next[ret]
        BY <1>4, <1>9
      <4>q. QED
        BY <1>1, <1>2, <1>4, <3>3, <4>1, <4>2
    <3>4. CASE i # 1 /\ i # 2
      <4>1. d[i] = e[i + 1] /\ d[i + 1] = e[(i + 1) + 1]
        BY <2>1, <3>1, <3>4
      <4>2. e[i + 1] # item /\ e[i + 1] # ret
        BY <1>1, <1>2, <3>1, <3>4 DEF item, ret
      <4>3. next1[e[i + 1]] = h.next[e[i + 1]]
        BY <1>3, <1>9, <3>1, <4>2
      <4>q. QED
        BY <1>1, <3>1, <4>1, <4>3
    <3>q. QED
      BY <3>2, <3>3, <3>4
  <2>6. ASSUME NEW i \in 1 .. L - 1, NEW j \in 1 .. L - 1, d[i] = d[j] PROVE i = j
    <3> DEFINE a == IF i < 3 THEN i ELSE i + 1
               b == IF j < 3 THEN j ELSE j + 1
    <3>1. a \in 1 .. L /\ b \in 1 .. L /\ (a = b => i = j)
      OBVIOUS
    <3>2. d[i] = e[a] /\ d[j] = e[b]
      BY <2>1
    <3> HIDE DEF a, b
    <3>q. QED
      BY <1>1, <2>6, <3>1, <3>2
  <2>q. QED
    BY <2>3, <2>4, <2>5, <2>6 DEF Chain
<1>15. core_list_undo_remove(q.h, q.removed, item) = h
  <2>1. h.next[item] # NULL
    BY <1>1, <1>2, <1>4 DEF ret
  <2>q. QED
    BY <1>4, <1>6, <2>1, UndoRestores, ZenonT(40) DEF q
<1>16. L - 1 = n - 2
  OBVIOUS
<1>17. Chain(n, next1, d, n - 2)
  BY <1>14, <1>16
<1>18. Removed(n, h, e, q)
  <2> HIDE DEF L, d
  <2>1. d = Without(e, n - 1)
    BY DEF d, L
  <2>q. QED
    BY <1>11, <1>12, <1>13, <1>15, <1>17, <2>1 DEF Removed, item
<1>q. QED
  BY <1>4, <1>18 DEF q

-----------------------------------------------------------------------------
(* The CRCs of a list.                                                      *)
Crcing(n, h, list, s0, at) ==
  /\ at[0] = s0
  /\ \A k \in Nat : at[k] \in [finder : 0 .. n, crc : Word16] /\ at[k + 1] = CrcTurn(h, list, at[k])

(* A turn of the loop over the cells.                                      *)
LEMMA CrcTurnIs ==
  ASSUME NEW n \in Nat, NEW h \in Heap(n), NEW list \in 1 .. n, NEW s \in [finder : 0 .. n, crc : Word16]
  PROVE  CrcTurn(h, list, s) \in [finder : 0 .. n, crc : Word16]
<1>1. s.finder \in 0 .. n /\ s.crc \in Word16
  OBVIOUS
<1>2. ASSUME s.finder # NULL PROVE h.next[s.finder] \in 0 .. n
  <2>1. s.finder \in 1 .. n
    BY <1>1, <1>2 DEF NULL
  <2>q. QED
    BY <2>1, HeapIs DEF Pointers
<1>3. Data(h, list) \in Int
  BY DataIs
<1>4. crc16(Data(h, list), s.crc) \in Word16
  BY ONLY <1>1, <1>3, CrcsAre
<1>5. CASE s.finder = NULL
  BY <1>5 DEF CrcTurn
<1>6. CASE s.finder # NULL
  <2>1. CrcTurn(h, list, s) = [finder |-> h.next[s.finder], crc |-> crc16(Data(h, list), s.crc)]
    BY ONLY <1>6 DEF CrcTurn
  <2>q. QED
    BY ONLY <2>1, <1>2, <1>4, <1>6
<1>q. QED
  BY <1>5, <1>6

\* The turns that take the CRC of the list are a function of their number.
LEMMA CrcTurnsAre ==
  ASSUME NEW n \in Nat, NEW h \in Heap(n), NEW list \in 1 .. n, NEW finder \in 0 .. n, NEW crc \in Word16
  PROVE  Crcing(n, h, list, [finder |-> finder, crc |-> crc], CrcTurns(h, list, finder, crc))
<1> DEFINE S == [finder : 0 .. n, crc : Word16]
           s0 == [finder |-> finder, crc |-> crc]
           turn == [k \in Nat |-> [s \in S |-> CrcTurn(h, list, s)]]
           at == CrcTurns(h, list, finder, crc)
<1>1. ASSUME NEW s \in S PROVE CrcTurn(h, list, s) \in S
  BY CrcTurnIs
<1>2. turn \in [Nat -> [S -> S]]
  <2> HIDE DEF S
  <2>q. QED
    BY <1>1
<1>3. s0 \in S
  OBVIOUS
<1>4. PICK f : Loops(S, s0, turn, f)
  <2> HIDE DEF S, turn, s0
  <2>q. QED
    BY <1>2, <1>3, LoopExists
<1>5. f = [k \in Nat |-> IF k = 0 THEN s0 ELSE CrcTurn(h, list, f[k - 1])]
  <2>1. f \in [Nat -> S] /\ f = [k \in Nat |-> IF k = 0 THEN s0 ELSE turn[k - 1][f[k - 1]]]
    BY <1>4 DEF Loops
  <2>2. ASSUME NEW k \in Nat, k # 0 PROVE turn[k - 1][f[k - 1]] = CrcTurn(h, list, f[k - 1])
    <3>1. k - 1 \in Nat
      BY <2>2
    <3>2. f[k - 1] \in S
      BY <2>1, <3>1
    <3> HIDE DEF S
    <3>q. QED
      BY <3>1, <3>2
  <2> HIDE DEF turn, S, s0
  <2>q. QED
    BY <2>1, <2>2
<1>6. at = [k \in Nat |-> IF k = 0 THEN s0 ELSE CrcTurn(h, list, at[k - 1])]
  BY <1>5 DEF CrcTurns
<1> HIDE DEF at, s0
<1>7. at[0] = s0 /\ \A k \in Nat : at[k + 1] = CrcTurn(h, list, at[k])
  <2>1. at[0] = s0
    BY <1>6
  <2>2. ASSUME NEW k \in Nat PROVE at[k + 1] = CrcTurn(h, list, at[k])
    <3>1. k + 1 \in Nat /\ k + 1 # 0 /\ (k + 1) - 1 = k
      OBVIOUS
    <3>q. QED
      BY <1>6, <3>1
  <2>q. QED
    BY <2>1, <2>2
<1>8. \A k \in Nat : at[k] \in S => at[k + 1] = turn[k][at[k]]
  <2> HIDE DEF S
  <2>q. QED
    BY <1>7
<1>9. \A k \in Nat : at[k] \in S
  <2>1. at[0] = s0
    BY <1>7
  <2> HIDE DEF S, turn
  <2>q. QED
    BY ONLY <1>2, <1>3, <2>1, <1>8, LoopIs
<1>q. QED
  BY <1>7, <1>9 DEF at, S, Crcing, s0

(* The CRC of a list is a word.                                            *)
LEMMA CrcOfListIs ==
  ASSUME NEW n \in Nat, NEW h \in Heap(n), NEW list \in 1 .. n, NEW finder \in 0 .. n, NEW crc \in Word16
  PROVE  CrcOfList(h, list, finder, crc) \in Word16
<1> DEFINE at == CrcTurns(h, list, finder, crc)
           s0 == [finder |-> finder, crc |-> crc]
<1>1. Crcing(n, h, list, s0, at)
  BY CrcTurnsAre
<1>2. Turns(h) \in Nat
  BY HeapIs, TurnsAre
<1> HIDE DEF at, s0
<1>3. at[Turns(h)] \in [finder : 0 .. n, crc : Word16]
  BY <1>1, <1>2 DEF Crcing
<1>4. at[Turns(h)].crc \in Word16
  BY <1>3
<1>q. QED
  BY <1>4 DEF at, CrcOfList

-----------------------------------------------------------------------------
(* The damage comes undone.                                                *)
(* The digits of a number are its only ones.                               *)
LEMMA NibbleSame ==
  ASSUME NEW a \in 0 .. 1, NEW b \in 0 .. 1, NEW c \in 0 .. 1, NEW d \in 0 .. 1,
         NEW p \in 0 .. 1, NEW q \in 0 .. 1, NEW s \in 0 .. 1, NEW t \in 0 .. 1,
         Nibble(a, b, c, d) = Nibble(p, q, s, t)
  PROVE  a = p /\ b = q /\ c = s /\ d = t
BY DEF Nibble

\* Sixteen bits are known by their weighed sum.
LEMMA WeightsSame ==
  ASSUME NEW b \in Bits16, NEW d \in Bits16, Weights(b) = Weights(d)
  PROVE  b = d
<1> DEFINE b1 == Nibble(b[0], b[1], b[2], b[3])
           b2 == Nibble(b[4], b[5], b[6], b[7])
           b3 == Nibble(b[8], b[9], b[10], b[11])
           b4 == Nibble(b[12], b[13], b[14], b[15])
           d1 == Nibble(d[0], d[1], d[2], d[3])
           d2 == Nibble(d[4], d[5], d[6], d[7])
           d3 == Nibble(d[8], d[9], d[10], d[11])
           d4 == Nibble(d[12], d[13], d[14], d[15])
<1>1. /\ b1 \in Nat /\ b1 <= 15 /\ b2 \in Nat /\ b2 <= 15
      /\ b3 \in Nat /\ b3 <= 15 /\ b4 \in Nat /\ b4 <= 15
  BY BitsAre, NibbleIs
<1>2. /\ d1 \in Nat /\ d1 <= 15 /\ d2 \in Nat /\ d2 <= 15
      /\ d3 \in Nat /\ d3 <= 15 /\ d4 \in Nat /\ d4 <= 15
  BY BitsAre, NibbleIs
<1>3. Weights(b) = b1 + 16 * b2 + 256 * b3 + 4096 * b4 /\ Weights(d) = d1 + 16 * d2 + 256 * d3 + 4096 * d4
  BY DEF Weights
<1>4. b1 = d1 /\ b2 = d2 /\ b3 = d3 /\ b4 = d4
  <2> HIDE DEF b1, b2, b3, b4, d1, d2, d3, d4
  <2>0. Weights(b) = Weights(d)
    OBVIOUS
  <2>1. b1 + 16 * b2 + 256 * b3 + 4096 * b4 = d1 + 16 * d2 + 256 * d3 + 4096 * d4
    BY ONLY <1>3, <2>0
  <2>q. QED
    BY ONLY <1>1, <1>2, <2>1
<1>5. /\ b[0] = d[0] /\ b[1] = d[1] /\ b[2] = d[2] /\ b[3] = d[3]
      /\ b[4] = d[4] /\ b[5] = d[5] /\ b[6] = d[6] /\ b[7] = d[7]
  <2>1. b1 = d1 /\ b2 = d2
    BY <1>4
  <2>q. QED
    BY <2>1, BitsAre, NibbleSame
<1>6. /\ b[8] = d[8] /\ b[9] = d[9] /\ b[10] = d[10] /\ b[11] = d[11]
      /\ b[12] = d[12] /\ b[13] = d[13] /\ b[14] = d[14] /\ b[15] = d[15]
  <2>1. b3 = d3 /\ b4 = d4
    BY <1>4
  <2>q. QED
    BY <2>1, BitsAre, NibbleSame
<1>7. \A p \in 0 .. 15 : b[p] = d[p]
  <2>1. \A p \in 0 .. 15 : p \in {0, 1, 2, 3, 4, 5, 6, 7} \/ p \in {8, 9, 10, 11, 12, 13, 14, 15}
    OBVIOUS
  <2>q. QED
    BY <1>5, <1>6, <2>1
<1>8. b \in [0 .. 15 -> 0 .. 1] /\ d \in [0 .. 15 -> 0 .. 1]
  BY DEF Bits16
<1>q. QED
  BY ONLY <1>7, <1>8

(* What is XORed in twice is gone.                                         *)
LEMMA XorTwice ==
  ASSUME NEW a \in Word16, NEW b \in Nat
  PROVE  Xor(Xor(a, b), b) = a
<1> DEFINE c == Xor(a, b)
           d == [p \in 0 .. 15 |-> (BitOf(a, p) + BitOf(b, p)) % 2]
           g == [p \in 0 .. 15 |-> (BitOf(c, p) + BitOf(b, p)) % 2]
<1>1. a \in Nat /\ a % 65536 = a
  BY DEF Word16
<1>2. c = Weights(d) /\ d \in Bits16 /\ c \in Word16
  BY <1>1, XorIs
<1>3. c \in Nat /\ c % 65536 = c
  BY <1>2 DEF Word16
<1> HIDE DEF c
<1>4. Xor(c, b) = Weights(g)
  BY <1>3, XorIs
<1>5. d = DigitsOf(c)
  <2>1. c = Weights(DigitsOf(c)) /\ DigitsOf(c) \in Bits16
    BY <1>3, WordIs, DigitsAre
  <2> HIDE DEF d
  <2>q. QED
    BY <1>2, <2>1, WeightsSame
<1>6. ASSUME NEW p \in 0 .. 15 PROVE g[p] = BitOf(a, p)
  <2>1. p \in Nat
    OBVIOUS
  <2>2. BitOf(a, p) \in 0 .. 1 /\ BitOf(b, p) \in 0 .. 1
    BY <1>1, <2>1, BitIs
  <2>3. BitOf(c, p) = (BitOf(a, p) + BitOf(b, p)) % 2
    <3>1. DigitsOf(c)[p] = BitOf(c, p)
      BY <1>3, DigitIs
    <3>2. d[p] = (BitOf(a, p) + BitOf(b, p)) % 2
      OBVIOUS
    <3> HIDE DEF d
    <3>q. QED
      BY <1>5, <3>1, <3>2
  <2>4. g[p] = (BitOf(c, p) + BitOf(b, p)) % 2
    OBVIOUS
  <2> HIDE DEF d, g
  <2>q. QED
    BY <2>2, <2>3, <2>4
<1>7. g = DigitsOf(a)
  BY <1>6 DEF DigitsOf
<1>8. a = Weights(DigitsOf(a))
  BY <1>1, WordIs
<1> HIDE DEF g, d
<1>q. QED
  BY <1>4, <1>7, <1>8 DEF c

(* The seeds damage and repair the same, and no byte becomes a comma.      *)
Fixable(r, b) ==
  /\ LowByte(r.seed1) = LowByte(r.seed2)
  /\ \A i \in DOMAIN b : b[i] # Comma => Xor(b[i], LowByte(r.seed1)) # Comma

\* A block damaged with one seed and again with the other is what it was.
LEMMA FixedIs ==
  ASSUME NEW r, r.seed1 \in Nat, r.seed2 \in Nat, NEW size, NEW b \in [0 .. size - 1 -> Word16],
         Fixable(r, b), NEW step \in Strides
  PROVE  Corrupted(Corrupted(b, step, r.seed1), step, r.seed2) = b
<1> DEFINE x == LowByte(r.seed1)
           d == Corrupted(b, step, r.seed1)
           c == Corrupted(d, step, r.seed2)
<1>1. x \in Nat /\ x = LowByte(r.seed2)
  BY DEF Fixable, LowByte
<1>2. d = [i \in 0 .. size - 1 |-> IF i % step = 0 /\ b[i] # Comma THEN Xor(b[i], x) ELSE b[i]]
  BY DEF Corrupted
<1>3. \A i \in 0 .. size - 1 : b[i] # Comma => Xor(b[i], x) # Comma
  BY DEF Fixable
<1> HIDE DEF x, d
<1>4. c = [i \in 0 .. size - 1 |-> IF i % step = 0 /\ d[i] # Comma THEN Xor(d[i], x) ELSE d[i]]
  <2>1. DOMAIN d = 0 .. size - 1
    BY <1>2
  <2>q. QED
    BY <1>1, <2>1 DEF Corrupted
<1> HIDE DEF c
<1>5. ASSUME NEW i \in 0 .. size - 1 PROVE c[i] = b[i]
  <2>1. b[i] \in Word16
    OBVIOUS
  <2>2. CASE i % step = 0 /\ b[i] # Comma
    <3>1. d[i] = Xor(b[i], x) /\ d[i] # Comma
      BY <1>2, <1>3, <2>2
    <3>2. c[i] = Xor(d[i], x)
      BY <1>4, <2>2, <3>1
    <3>q. QED
      BY <1>1, <2>1, <3>1, <3>2, XorTwice
  <2>3. CASE ~ (i % step = 0 /\ b[i] # Comma)
    <3>1. d[i] = b[i]
      BY <1>2, <2>3
    <3>q. QED
      BY <1>4, <2>3, <3>1
  <2>q. QED
    BY <2>2, <2>3
<1>6. c = [i \in 0 .. size - 1 |-> b[i]]
  BY <1>4, <1>5
<1>q. QED
  BY <1>6 DEF c, d

(* The blocks there may be before the list is ready, and from then on.     *)
Zeroed(size) == Blocks(size, ZeroPlace(size))
Repaired(r, b0) == {b \in Zeroed(r.size) : Fixable(r, b0) => b = b0}

\* Blocks that end with a zero can be scanned.
LEMMA ZeroedIs ==
  ASSUME NEW r, r.seed1 \in Nat, r.seed2 \in Nat, Undamaged(r.size, ZeroPlace(r.size))
  PROVE  Scannable(r, Zeroed(r.size))
<1>1. \A b \in Zeroed(r.size), step \in Strides :
        Corrupted(Corrupted(b, step, r.seed1), step, r.seed2) \in Zeroed(r.size)
  BY CorruptedIs DEF Zeroed
<1>q. QED
  BY <1>1 DEF Scannable, Zeroed

\* And so can the blocks that are to be what they were.
LEMMA RepairedIs ==
  ASSUME NEW r, r.seed1 \in Nat, r.seed2 \in Nat, Undamaged(r.size, ZeroPlace(r.size)), NEW b0
  PROVE  Scannable(r, Repaired(r, b0))
<1>1. Repaired(r, b0) \subseteq Blocks(r.size, ZeroPlace(r.size))
  BY DEF Repaired, Zeroed
<1>2. ASSUME NEW b \in Repaired(r, b0), NEW step \in Strides
      PROVE  Corrupted(Corrupted(b, step, r.seed1), step, r.seed2) \in Repaired(r, b0)
  <2> DEFINE c == Corrupted(Corrupted(b, step, r.seed1), step, r.seed2)
  <2>1. c \in Zeroed(r.size)
    BY <1>1, CorruptedIs DEF Zeroed
  <2>2. ASSUME Fixable(r, b0) PROVE c = b0
    <3>1. b = b0 /\ b \in [0 .. r.size - 1 -> Word16]
      BY <1>1, <2>2 DEF Repaired, Blocks
    <3>q. QED
      BY <2>2, <3>1, FixedIs
  <2> HIDE DEF c
  <2>q. QED
    BY <2>1, <2>2 DEF Repaired, c
<1>q. QED
  BY <1>1, <1>2 DEF Scannable

-----------------------------------------------------------------------------
(* What a list sorted by index holds.                                      *)
(* Different indices make a difference when the words are compared as      *)
(* numbers with a sign.                                                    *)
LEMMA SignedSame ==
  ASSUME NEW a \in Word16, NEW b \in Word16, S16(a) = S16(b)
  PROVE  a = b
BY DEF Word16, S16, U16

Distinct(n, h) == \A x, y \in 1 .. n - 1 : x # y => h.idx[x] # h.idx[y]

(* One cell before the other in a sorted list.                             *)
LEMMA SortedPair ==
  ASSUME NEW n \in Nat, NEW h \in Heap(n), Distinct(n, h), NEW pos, NEW e, NEW next,
         Chain(n, next, e, n - 1), CellsOf(e, n - 1) = 1 .. n - 1,
         Sorted("cmp_idx", n, pos, n - 1, e, h), NEW i \in 1 .. n - 1, NEW j \in 1 .. n - 1, i < j
  PROVE  S16(h.idx[e[i]]) < S16(h.idx[e[j]])
<1>1. <<e[i], e[j]>> \in BeforeIn("cmp_idx", n, h, pos)
  BY DEF Sorted
<1>2. e[i] \in 1 .. n - 1 /\ e[j] \in 1 .. n - 1
  <2>1. e[i] \in CellsOf(e, n - 1) /\ e[j] \in CellsOf(e, n - 1)
    BY DEF CellsOf
  <2>q. QED
    BY <2>1
<1>3. e[i] # e[j]
  BY DEF Chain
<1>4. h.idx[e[i]] # h.idx[e[j]]
  BY <1>2, <1>3 DEF Distinct
<1>5. h.idx[e[i]] \in Word16 /\ h.idx[e[j]] \in Word16
  <2>1. e[i] \in 1 .. n /\ e[j] \in 1 .. n
    BY <1>2
  <2>2. h.idx \in [1 .. n -> Word16]
    BY HeapIs
  <2>q. QED
    BY ONLY <2>1, <2>2
<1>6. S16(h.idx[e[i]]) # S16(h.idx[e[j]])
  BY ONLY <1>4, <1>5, SignedSame
<1>7. S16(h.idx[e[i]]) <= S16(h.idx[e[j]])
  <2>1. Before("cmp_idx", h, pos, e[i], e[j])
    BY <1>1 DEF BeforeIn
  <2>2. Key("cmp_idx", h, e[i]) < Key("cmp_idx", h, e[j]) \/ Key("cmp_idx", h, e[i]) = Key("cmp_idx", h, e[j])
    BY <2>1 DEF Before
  <2>3. S16(h.idx[e[i]]) \in Int /\ S16(h.idx[e[j]]) \in Int
    <3>1. h.idx[e[i]] \in Int /\ h.idx[e[j]] \in Int
      BY <1>5 DEF Word16
    <3>q. QED
      BY <3>1 DEF S16, U16
  <2>q. QED
    BY <2>2, <2>3 DEF Key
<1>8. S16(h.idx[e[i]]) \in Int /\ S16(h.idx[e[j]]) \in Int
  <2>1. h.idx[e[i]] \in Int /\ h.idx[e[j]] \in Int
    BY <1>5 DEF Word16
  <2>q. QED
    BY <2>1 DEF S16, U16
<1>q. QED
  BY ONLY <1>6, <1>7, <1>8

(* There is one order to sort cells of different indices in.               *)
LEMMA OneOrder ==
  ASSUME NEW n \in Nat, NEW h \in Heap(n), NEW g \in Heap(n), g.idx = h.idx, Distinct(n, h),
         NEW pos, NEW e, NEW next, Chain(n, next, e, n - 1), CellsOf(e, n - 1) = 1 .. n - 1,
         Sorted("cmp_idx", n, pos, n - 1, e, h),
         NEW pos2, NEW d, NEW next2, Chain(n, next2, d, n - 1), CellsOf(d, n - 1) = 1 .. n - 1,
         Sorted("cmp_idx", n, pos2, n - 1, d, g)
  PROVE  \A i \in 1 .. n - 1 : d[i] = e[i]
<1> DEFINE Same(i) == \A j \in 1 .. n - 1 : j <= i => d[j] = e[j]
           T == {i \in Nat : Same(i)}
<1>0. Distinct(n, g)
  BY DEF Distinct
<1>1. 0 \in T
  OBVIOUS
<1>2. ASSUME NEW i \in Nat, i \in T PROVE i + 1 \in T
  <2>0. Same(i)
    BY <1>2
  <2>1. SUFFICES ASSUME i + 1 \in 1 .. n - 1 PROVE d[i + 1] = e[i + 1]
    <3>1. (i + 1 \in 1 .. n - 1 => d[i + 1] = e[i + 1]) => Same(i + 1)
      BY <2>0
    <3> HIDE DEF Same
    <3>q. QED
      BY <3>1
  <2> DEFINE p == i + 1
  <2>2. p \in 1 .. n - 1 /\ p \in Nat
    BY <2>1
  <2>2a. \A j \in 1 .. n - 1 : j < p => d[j] = e[j]
    BY <2>0
  <2> HIDE DEF p, Same, T
  <2>3. SUFFICES ASSUME d[p] # e[p] PROVE FALSE
    BY DEF p
  <2>4. d[p] \in CellsOf(e, n - 1) /\ e[p] \in CellsOf(d, n - 1)
    <3>1. d[p] \in CellsOf(d, n - 1) /\ e[p] \in CellsOf(e, n - 1)
      BY <2>2 DEF CellsOf
    <3>q. QED
      BY <3>1
  <2>5. PICK k \in 1 .. n - 1 : d[p] = e[k]
    BY <2>4 DEF CellsOf
  <2>6. PICK m \in 1 .. n - 1 : e[p] = d[m]
    BY <2>4 DEF CellsOf
  <2>7. k > p
    <3>1. k # p
      BY <2>3, <2>5
    <3>2. ASSUME k < p PROVE FALSE
      <4>1. d[k] = d[p]
        BY <2>2a, <2>5, <3>2
      <4>2. k = p
        BY <2>2, <4>1 DEF Chain
      <4>q. QED
        BY <3>1, <4>2
    <3>q. QED
      BY <2>2, <3>1, <3>2
  <2>8. m > p
    <3>1. m # p
      BY <2>3, <2>6
    <3>2. ASSUME m < p PROVE FALSE
      <4>1. e[m] = e[p]
        BY <2>2a, <2>6, <3>2
      <4>2. m = p
        BY <2>2, <4>1 DEF Chain
      <4>q. QED
        BY <3>1, <4>2
    <3>q. QED
      BY <2>2, <3>1, <3>2
  <2>9. S16(h.idx[e[p]]) < S16(h.idx[e[k]])
    BY <2>2, <2>7, SortedPair
  <2>10. S16(g.idx[d[p]]) < S16(g.idx[d[m]])
    BY <1>0, <2>2, <2>8, SortedPair
  <2>11. S16(h.idx[d[p]]) < S16(h.idx[e[p]])
    BY <2>6, <2>10
  <2>12. S16(h.idx[e[p]]) < S16(h.idx[d[p]])
    BY <2>5, <2>9
  <2>13. S16(h.idx[e[p]]) \in Int /\ S16(h.idx[d[p]]) \in Int
    <3>1. e[p] \in 1 .. n - 1 /\ d[p] \in 1 .. n - 1
      BY <2>4
    <3>2. e[p] \in 1 .. n /\ d[p] \in 1 .. n
      BY <3>1
    <3>3. h.idx \in [1 .. n -> Word16]
      BY HeapIs
    <3>4. h.idx[e[p]] \in Word16 /\ h.idx[d[p]] \in Word16
      BY ONLY <3>2, <3>3
    <3>5. h.idx[e[p]] \in Int /\ h.idx[d[p]] \in Int
      BY <3>4 DEF Word16
    <3>q. QED
      BY <3>5 DEF S16, U16
  <2>q. QED
    BY ONLY <2>11, <2>12, <2>13
<1> HIDE DEF T
<1>3. \A i \in Nat : i \in T
  BY <1>1, <1>2, Induction
<1>4. ASSUME NEW i \in 1 .. n - 1 PROVE d[i] = e[i]
  <2>1. i \in Nat
    OBVIOUS
  <2>2. Same(i)
    BY <1>3, <2>1 DEF T
  <2>q. QED
    BY <2>2
<1>q. QED
  BY <1>4

(* All of a sorted list has its data back.                                 *)
LEMMA SortedSettled ==
  ASSUME NEW n \in Nat, n >= 3, NEW h, NEW pos, NEW e, CellsOf(e, n - 1) = 1 .. n - 1, NEW cmp,
         Sorted(cmp, n, pos, n - 1, e, h)
  PROVE  \A c \in 1 .. n - 1 : Settled(cmp, h, c)
<1> TAKE c \in 1 .. n - 1
<1>1. c \in CellsOf(e, n - 1)
  OBVIOUS
<1>2. PICK i \in 1 .. n - 1 : c = e[i]
  BY <1>1 DEF CellsOf
<1>3. CASE i < n - 1
  <2>1. n - 1 \in 1 .. n - 1 /\ i < n - 1
    BY <1>3
  <2>2. <<e[i], e[n - 1]>> \in BeforeIn(cmp, n, h, pos)
    BY <2>1 DEF Sorted
  <2>3. Before(cmp, h, pos, e[i], e[n - 1])
    BY <2>2 DEF BeforeIn
  <2>q. QED
    BY <1>2, <2>3 DEF Before
<1>4. CASE i = n - 1
  <2>1. 1 \in 1 .. n - 1 /\ 1 < i
    BY <1>4
  <2>2. <<e[1], e[i]>> \in BeforeIn(cmp, n, h, pos)
    BY <2>1 DEF Sorted
  <2>3. Before(cmp, h, pos, e[1], e[i])
    BY <2>2 DEF BeforeIn
  <2>q. QED
    BY <1>2, <2>3 DEF Before
<1>q. QED
  BY <1>3, <1>4

(* The heap g remembers and the heap h: the same numbers in other cells'   *)
(* order, and the same high bytes.                                         *)
Alike(n, h, g) ==
  /\ h \in Heap(n) /\ g \in Heap(n) /\ h.idx = g.idx
  /\ h.info = [x \in 1 .. n |-> x] /\ g.info = [x \in 1 .. n |-> x]
  /\ \A x \in 1 .. n : HighByte(h.data16[x]) = HighByte(g.data16[x])

(* A list sorted by index.                                                 *)
ByIndex(n, h, pos, e) ==
  /\ Chain(n, h.next, e, n - 1) /\ CellsOf(e, n - 1) = 1 .. n - 1
  /\ Sorted("cmp_idx", n, pos, n - 1, e, h)

(* Sorted by different indices, two such lists hold the same.              *)
LEMMA ContentsAre ==
  ASSUME NEW n \in Nat, n >= 3, NEW h, NEW g, Alike(n, h, g), Distinct(n, g),
         NEW pos, NEW e, ByIndex(n, h, pos, e), NEW pos2, NEW d, ByIndex(n, g, pos2, d)
  PROVE  Contents(h, e[1]) = Contents(g, d[1])
<1>0. /\ Chain(n, h.next, e, n - 1) /\ CellsOf(e, n - 1) = 1 .. n - 1
      /\ Sorted("cmp_idx", n, pos, n - 1, e, h)
      /\ Chain(n, g.next, d, n - 1) /\ CellsOf(d, n - 1) = 1 .. n - 1
      /\ Sorted("cmp_idx", n, pos2, n - 1, d, g)
  BY DEF ByIndex
<1>1. h \in Heap(n) /\ g \in Heap(n) /\ h.idx = g.idx
  BY DEF Alike
<1>2. \A i \in 1 .. n - 1 : e[i] = d[i]
  BY <1>0, <1>1, OneOrder
<1>3. \A x \in 1 .. n - 1 : Settled("cmp_idx", h, x) /\ Settled("cmp_idx", g, x)
  BY <1>0, SortedSettled
<1> DEFINE cs == CellsFrom(h, e[1])
           ds == CellsFrom(g, d[1])
<1>4. n - 1 \in Nat
  OBVIOUS
<1>5. h.next \in Pointers(n) /\ g.next \in Pointers(n)
  BY <1>1, HeapIs
<1>6. /\ cs \in Seq(1 .. n) /\ Len(cs) = n - 1 /\ \A i \in 1 .. n - 1 : cs[i] = e[i]
      /\ ds \in Seq(1 .. n) /\ Len(ds) = n - 1 /\ \A i \in 1 .. n - 1 : ds[i] = d[i]
  BY <1>0, <1>4, <1>5, CellsFromIs
<1> HIDE DEF cs, ds
<1>7. DOMAIN cs = 1 .. n - 1 /\ DOMAIN ds = 1 .. n - 1
  BY <1>6
<1>8. ASSUME NEW i \in 1 .. n - 1
      PROVE  <<Idx(h, cs[i]), Data(h, cs[i])>> = <<Idx(g, ds[i]), Data(g, ds[i])>>
  <2> DEFINE x == e[i]
  <2>1. x \in 1 .. n - 1
    <3>1. e[i] \in CellsOf(e, n - 1)
      BY DEF CellsOf
    <3>q. QED
      BY <1>0, <3>1
  <2>2. cs[i] = x /\ ds[i] = x
    BY <1>2, <1>6
  <2> HIDE DEF x
  <2>3. x \in 1 .. n
    BY <2>1
  <2>4. h.info[x] = x /\ g.info[x] = x /\ HighByte(h.data16[x]) = HighByte(g.data16[x])
    BY <2>3 DEF Alike
  <2>5. h.data16[x] = HighByte(h.data16[x]) * 257 /\ g.data16[x] = HighByte(g.data16[x]) * 257
    <3>1. Settled("cmp_idx", h, x) /\ Settled("cmp_idx", g, x)
      BY <1>3, <2>1
    <3>q. QED
      BY ONLY <3>1 DEF Settled
  <2>6. h.data16[x] = g.data16[x]
    BY ONLY <2>4, <2>5
  <2>7. h.idx[x] = g.idx[x]
    BY <1>1
  <2>q. QED
    BY ONLY <2>2, <2>4, <2>6, <2>7 DEF Idx, Data
<1>9. Contents(h, e[1]) = [i \in 1 .. n - 1 |-> <<Idx(h, cs[i]), Data(h, cs[i])>>]
  BY <1>7 DEF Contents, cs
<1>10. Contents(g, d[1]) = [i \in 1 .. n - 1 |-> <<Idx(g, ds[i]), Data(g, ds[i])>>]
  BY <1>7 DEF Contents, ds
<1>q. QED
  BY ONLY <1>8, <1>9, <1>10

-----------------------------------------------------------------------------
(* The program's variables from statement to statement.                    *)

(* The sizes and seeds of a build.                                         *)
Fit(in, r) ==
  /\ in \in ParamSets
  /\ r.size = in.total \div 3 /\ {r.seed1, r.seed2, r.seed3} \subseteq Word16
  /\ r.iterations \in Nat
Roomy(n, r) ==
  /\ n = ListSize(r.size) /\ n \in Nat /\ n >= 4 /\ n <= 16384
  /\ r.size \in Nat /\ r.size >= 120 /\ 12 * n <= r.size
  /\ Undamaged(r.size, ZeroPlace(r.size))
  /\ r.seed1 \in Nat /\ r.seed2 \in Nat

\* A build has room for its list, and for its matrices between the other two.
LEMMA FitIs ==
  ASSUME NEW in, NEW r, Fit(in, r)
  PROVE  Roomy(ListSize(r.size), r) /\ \A N \in 0 .. r.size : r.size - 8 * N * N \notin {1, 2}
<1>1. in \in ParamSets /\ r.size = in.total \div 3
  BY DEF Fit
<1>2. in.total \in Nat
  BY <1>1, SetsAssumption
<1>3. /\ in.total \div 3 >= 120 /\ ListSize(in.total \div 3) <= 16384
      /\ \A N \in 0 .. in.total \div 3 : in.total \div 3 - 8 * N * N \notin {1, 2}
  BY <1>1, RoomAssumption
<1>4. r.size \in Nat /\ r.size >= 120
  BY <1>1, <1>2, <1>3
<1> DEFINE s == r.size
<1> HIDE DEF s
<1>5. s \in Nat /\ s >= 120
  BY <1>4 DEF s
<1>6. ListSize(s) \in Nat /\ ListSize(s) >= 4 /\ 12 * ListSize(s) <= s
  BY <1>5 DEF ListSize
<1>7. Undamaged(s, ZeroPlace(s))
  BY <1>5 DEF Undamaged, ZeroPlace
<1>8. r.seed1 \in Nat /\ r.seed2 \in Nat
  BY DEF Fit, Word16
<1>q. QED
  BY <1>1, <1>3, <1>5, <1>6, <1>7, <1>8 DEF Roomy, s

(* The matrices are in the second block.                                   *)
Placed(in, r) == in.base + r.size <= r.mat.first /\ r.mat.end <= in.base + 2 * r.size

(* The locals of core_bench_list.                                          *)
Frames ==
  [finder_idx : Int, idx : Int, i : Nat, list : Nat, found : Nat, missed : Nat, retval : Word16,
   insize : Nat \ {0}, removed : Nat]

(* What hist keeps of the sorted list, and what of it is still so.         *)
Remembered(n, g) ==
  /\ g = [h |-> g.h, list |-> g.list, mat |-> g.mat, block |-> g.block, order |-> g.order]
  /\ g.list = 1 /\ HeadFirst(n, g.h.idx)
  /\ \E pos, d : /\ Chain(n, g.h.next, d, n - 1) /\ CellsOf(d, n - 1) = 1 .. n - 1
                 /\ Sorted("cmp_idx", n, pos, n - 1, d, g.h) /\ d[1] = 1
Remembers(n, r, g) ==
  /\ Remembered(n, g)
  /\ r.list = 1 /\ r.mat = g.mat /\ Alike(n, r.h, g.h) /\ g.block \in Zeroed(r.size)

(* Every cell of the list is in the order kept.                            *)
Ordered(n, order) == \A x \in 1 .. n - 1 : \E i \in DOMAIN order : order[i] = x

(* What is to be done with the list, at each statement.                    *)
WholeFrom(n, r, BB, list) == \E e : Whole(n, r, BB, list, e)
SortingOn(cmp, n, r, BB, list, w) == \E pos, e : InSort(cmp, n, r, BB, pos, list, w, e)
SortedWhole(cmp, n, r, BB, pos, list) ==
  \E e : Whole(n, r, BB, list, e) /\ Sorted(cmp, n, pos, n - 1, e, r.h)
TakenOut(n, r, BB, f, g) ==
  \E u, e : /\ Whole(n, u, BB, f.list, e) /\ Remembers(n, u, g)
            /\ r = [u EXCEPT !.h = core_list_remove(u.h, u.h.next[f.list]).h]
            /\ f.removed = core_list_remove(u.h, u.h.next[f.list]).removed

Benching == {"find", "sort", "remove", "undo", "sortidx", "crc"}
Resting == {"calibrate", "calibrated", "start", "stop", "list", "check", "done"}

Stage(pc, n, r, BB, f, g) ==
  /\ pc # "undo" => Remembers(n, r, g)
  /\ pc \in {"remove", "undo"} => f.insize = 1
  /\ pc \in Resting => WholeFrom(n, r, BB, 1)
  /\ pc = "find" => WholeFrom(n, r, BB, f.list)
  /\ pc = "sort" =>
       /\ \E e : InSort("cmp_complex", n, r, BB, PosOf(g.order, n), f.list, f.insize, e)
       /\ Ordered(n, g.order)
  /\ pc = "remove" =>
       /\ WholeFrom(n, r, BB, f.list)
       /\ f.finder_idx > 0 => /\ SortedWhole("cmp_complex", n, r, BB, PosOf(g.order, n), f.list)
                              /\ Ordered(n, g.order)
  /\ pc = "undo" => TakenOut(n, r, BB, f, g)
  /\ pc = "sortidx" => SortingOn("cmp_idx", n, r, BB, f.list, f.insize)
  /\ pc = "crc" => \E pos : SortedWhole("cmp_idx", n, r, BB, pos, f.list)

(* The record as GetSeeds leaves it, and as the initial data are put in.   *)
Starting(a, b, c, d, e, h, mat, block) ==
  [seed1 : {a}, seed2 : {b}, seed3 : {c}, iterations : {d}, size : {e}, crc : {0}, crclist : {0},
   crcmatrix : {0}, crcstate : {0}, far : {0}, list : {NULL}, h : {h}, mat : {mat}, block : {block}]

Seeded(in, r) ==
  /\ Fit(in, r)
  /\ r \in Starting(r.seed1, r.seed2, r.seed3, r.iterations, r.size, NoRes, NoRes, NoRes)
  /\ r.seed1 % 8 # 7 \/ r.seed1 % 16384 >= ListSize(r.size)

Arranging(in, r, f) ==
  /\ Fit(in, r) /\ Placed(in, r) /\ HeadFirst(ListSize(r.size), r.h.idx)
  /\ SortingOn("cmp_idx", ListSize(r.size), r, Zeroed(r.size), f.list, f.insize)

Arranged(pc, in, r, f, g) ==
  /\ Fit(in, r) /\ Placed(in, r)
  /\ Stage(pc, ListSize(r.size), r, Repaired(r, g.block), f, g)

Clocks == [i : Nat, back : {"", "calibrated", "stop"}, rate : Nat, start : Nat, stop : Nat]

(* The inductive invariant of the list, the matrices and the blocks.       *)
Sound(pc, in, r, f, g) ==
  /\ in \in ParamSets /\ f \in Frames
  /\ pc \in {"main", "init", "sortinit"} \cup Resting \cup Benching
  /\ pc = "init" => Seeded(in, r)
  /\ pc = "sortinit" => Arranging(in, r, f)
  /\ pc \in Resting \cup Benching => Arranged(pc, in, r, f, g)

ListInv ==
  /\ Sound(cmPc, cmIn, res, fr, hist) /\ clk \in Clocks
  /\ cmPc \in Benching \cup {"list"} => clk.back \in {"calibrated", "stop"}

-----------------------------------------------------------------------------
(* The record results.                                                     *)
(* The same list, matrices, blocks and seeds, with other counts.           *)
Kin(r) ==
  [seed1 : {r.seed1}, seed2 : {r.seed2}, seed3 : {r.seed3}, iterations : Nat,
   size : {r.size}, crc : Word16, crclist : {r.crclist} \cup Word16, crcmatrix : Word16,
   crcstate : Word16, far : {r.far}, list : Nat, h : {r.h}, mat : {r.mat}, block : {r.block}]

\* Other counts leave a machine able to go on.
LEMMA KinIs ==
  ASSUME NEW n, NEW r, NEW BB, Able(n, r, BB), NEW m \in Kin(r)
  PROVE  /\ Able(n, m, BB)
         /\ m.h = r.h /\ m.mat = r.mat /\ m.block = r.block /\ m.far = r.far /\ m.size = r.size
         /\ m.seed1 = r.seed1 /\ m.seed2 = r.seed2 /\ m.seed3 = r.seed3
<1>1. /\ r.h.info = [d \in 1 .. n |-> d] /\ r.size \in Nat /\ Scannable(r, BB) /\ Matrixed(r.mat)
      /\ r \in Machines(n, r, BB)
  BY DEF Able
<1>2. /\ m.h = r.h /\ m.mat = r.mat /\ m.block = r.block /\ m.far = r.far /\ m.size = r.size
      /\ m.seed1 = r.seed1 /\ m.seed2 = r.seed2 /\ m.seed3 = r.seed3
  BY DEF Kin
<1>3. r.h \in Heaps(n, r.h) /\ r.block \in BB /\ r.far \in 0 .. r.size - 1
  BY <1>1 DEF Machines
<1>4. Scannable(m, BB)
  BY <1>1, <1>2 DEF Scannable
<1>5. m \in Machines(n, m, BB)
  BY <1>2, <1>3 DEF Machines, Kin
<1>q. QED
  BY <1>1, <1>2, <1>4, <1>5 DEF Able

(* Other blocks the state machine may leave.                               *)
LEMMA AbleWith ==
  ASSUME NEW n, NEW r, NEW BB, Able(n, r, BB), NEW BB2, r.block \in BB2, Scannable(r, BB2)
  PROVE  Able(n, r, BB2)
<1>1. r \in Machines(n, r, BB)
  BY DEF Able
<1>2. r \in Machines(n, r, BB2)
  BY <1>1 DEF Machines
<1>q. QED
  BY <1>2 DEF Able

-----------------------------------------------------------------------------
(* The seeds, the memory and the initial data.                             *)
LEMMA U16Is ==
  ASSUME NEW w \in Int
  PROVE  U16(w) \in Word16
BY DEF U16, Word16

\* The locals core_bench_list starts with.
LEMMA FrameStart ==
  /\ NoFrame \in Frames
  /\ \A x \in Int, l \in Nat :
       [finder_idx |-> x, idx |-> x, i |-> 0, list |-> l, found |-> 0, missed |-> 0, retval |-> 0,
        insize |-> 1, removed |-> NULL] \in Frames
BY DEF NoFrame, Frames, NULL, Word16

\* The program starts sound.
LEMMA InitSound == CoreMarkInit => ListInv
<1> SUFFICES ASSUME CoreMarkInit PROVE ListInv
  OBVIOUS
<1>1. cmPc = "main" /\ fr = NoFrame /\ cmIn \in ParamSets
  BY DEF CoreMarkInit
<1>2. fr \in Frames
  BY <1>1, FrameStart
<1>3. clk \in Clocks
  BY DEF CoreMarkInit, NoClock, Clocks
<1>q. QED
  BY <1>1, <1>2, <1>3 DEF ListInv, Sound, Resting, Benching

\* Reading the seeds keeps the invariant.
LEMMA GetSeedsSound == ListInv /\ GetSeeds => ListInv'
<1> SUFFICES ASSUME ListInv, GetSeeds PROVE ListInv'
  OBVIOUS
<1> DEFINE s0 == <<get_seed(1), get_seed(2), get_seed(3)>>
           s == DefaultSeeds(s0)
<1>1. cmIn \in ParamSets /\ fr \in Frames /\ clk \in Clocks /\ clk' = clk
  BY DEF ListInv, Sound, GetSeeds
<1>2. /\ res' = [seed1 |-> s[1], seed2 |-> s[2], seed3 |-> s[3],
                 iterations |-> get_seed_32(4, cmIn.seeds),
                 size |-> cmIn.total \div ALL_ALGORITHMS,
                 crc |-> 0, crclist |-> 0, crcmatrix |-> 0, crcstate |-> 0, far |-> 0,
                 list |-> NULL, h |-> NoRes, mat |-> NoRes, block |-> NoRes]
      /\ cmPc' = "init" /\ cmIn' = cmIn /\ fr' = fr
  BY DEF GetSeeds, Goto
<1>3. cmIn.seeds \in [1 .. 5 -> Nat]
  BY <1>1, SetsAssumption
<1>4. get_seed_32(4, cmIn.seeds) \in Nat
  BY <1>3 DEF get_seed_32
<1>5. get_seed(1) \in Word16 /\ get_seed(2) \in Word16 /\ get_seed(3) \in Word16
      /\ get_seed(1) = U16(cmIn.seeds[1])
  <2>1. \A i \in 1 .. 3 : get_seed_32(i, cmIn.seeds) = cmIn.seeds[i] /\ cmIn.seeds[i] \in Int
    BY <1>3 DEF get_seed_32
  <2>q. QED
    BY <2>1, U16Is DEF get_seed
<1>6. /\ s[1] \in Word16 /\ s[2] \in Word16 /\ s[3] \in Word16
      /\ s[1] = get_seed(1) \/ s[1] = 0 \/ s[1] = 13333
  <2>1. s = s0 \/ s = <<0, 0, 102>> \/ s = <<13333, 13333, 102>>
    BY DEF DefaultSeeds
  <2>2. CASE s = s0
    BY <1>5, <2>2
  <2>3. CASE s = <<0, 0, 102>>
    <3>1. s[1] = 0 /\ s[2] = 0 /\ s[3] = 102
      BY <2>3
    <3>q. QED
      BY <3>1 DEF Word16
  <2>4. CASE s = <<13333, 13333, 102>>
    <3>1. s[1] = 13333 /\ s[2] = 13333 /\ s[3] = 102
      BY <2>4
    <3>q. QED
      BY <3>1 DEF Word16
  <2>q. QED
    BY <2>1, <2>2, <2>3, <2>4
<1> HIDE DEF s
<1>7. s[1] % 8 # 7 \/ s[1] % 16384 >= ListSize(cmIn.total \div 3)
  <2>1. CASE s[1] = get_seed(1)
    BY <1>1, <1>5, <2>1, HeadAssumption
  <2>2. CASE s[1] = 0
    BY <2>2
  <2>3. CASE s[1] = 13333
    BY <2>3
  <2>q. QED
    BY <1>6, <2>1, <2>2, <2>3
<1>8. res'.size = cmIn.total \div 3 /\ res'.seed1 = s[1] /\ res'.seed2 = s[2] /\ res'.seed3 = s[3]
      /\ res'.iterations = get_seed_32(4, cmIn.seeds)
  BY <1>2 DEF ALL_ALGORITHMS
<1>9. Fit(cmIn, res')
  BY <1>1, <1>4, <1>6, <1>8 DEF Fit
<1>10. Seeded(cmIn, res')
  <2>1. res' \in Starting(s[1], s[2], s[3], get_seed_32(4, cmIn.seeds), cmIn.total \div 3,
                         NoRes, NoRes, NoRes)
    BY <1>2 DEF Starting, ALL_ALGORITHMS
  <2>2. res'.seed1 % 8 # 7 \/ res'.seed1 % 16384 >= ListSize(res'.size)
    BY <1>7, <1>8
  <2>q. QED
    BY <1>8, <1>9, <2>1, <2>2 DEF Seeded
<1>q. QED
  BY <1>1, <1>2, <1>10 DEF ListInv, Sound, Resting, Benching

(* A list as it is: runs of one cell.                                      *)
LEMMA SortStarts ==
  ASSUME NEW n \in Nat, n >= 2, NEW r, NEW BB, NEW list, NEW e, Whole(n, r, BB, list, e), NEW cmp,
         r.h \in Heap(n)
  PROVE  LET order == CellsFrom(r.h, list)
         IN  InSort(cmp, n, r, BB, PosOf(order, n), list, 1, e) /\ Ordered(n, order)
<1> DEFINE order == CellsFrom(r.h, list)
           pos == PosOf(order, n)
<1>1. Chain(n, r.h.next, e, n - 1) /\ list = e[1] /\ CellsOf(e, n - 1) = 1 .. n - 1
  BY DEF Whole
<1>2. n - 1 \in Nat
  OBVIOUS
<1>3. r.h.next \in Pointers(n)
  BY HeapIs
<1>4. order \in Seq(1 .. n) /\ Len(order) = n - 1 /\ \A i \in 1 .. n - 1 : order[i] = e[i]
  <2> DEFINE L == n - 1
             h == r.h
  <2>1. L \in Nat /\ h.next \in Pointers(n) /\ Chain(n, h.next, e, L)
    BY <1>1, <1>2, <1>3
  <2>2. order = CellsFrom(h, e[1])
    BY <1>1
  <2> HIDE DEF L, h, order
  <2>3. order \in Seq(1 .. n) /\ Len(order) = L /\ \A i \in 1 .. L : order[i] = e[i]
    <3>1. n \in Nat
      OBVIOUS
    <3>q. QED
      BY ONLY <2>1, <2>2, <3>1, CellsFromIs
  <2>q. QED
    BY <2>3 DEF L
<1> HIDE DEF order
<1>5. pos \in [1 .. n -> Nat] /\ \A i \in 1 .. n - 1 : pos[e[i]] = i
  BY <1>1, <1>2, <1>4, PosIs
<1> HIDE DEF pos
<1>6. Runs(BeforeIn(cmp, n, r.h, pos), pos, e, n - 1, Multiples(1), 0, 0)
  <2>1. \A i, j \in 1 .. n - 1 : i < j => pos[e[i]] < pos[e[j]]
    BY <1>5
  <2>q. QED
    BY <1>2, <2>1, RunsAtStart
<1>7. Ordered(n, order)
  <2>1. ASSUME NEW x \in 1 .. n - 1 PROVE \E i \in DOMAIN order : order[i] = x
    <3>1. x \in CellsOf(e, n - 1)
      BY <1>1
    <3>2. PICK i \in 1 .. n - 1 : x = e[i]
      BY <3>1 DEF CellsOf
    <3>3. i \in DOMAIN order /\ order[i] = x
      BY <1>4, <3>2
    <3>q. QED
      BY <3>3
  <2>q. QED
    BY <2>1 DEF Ordered
<1>8. 1 \in Nat \ {0}
  OBVIOUS
<1>q. QED
  BY <1>5, <1>6, <1>7, <1>8 DEF InSort, order, pos

(* What core_list_init, core_init_matrix and core_init_state fill in.      *)
LEMMA Filling ==
  ASSUME NEW a, NEW b, NEW c, NEW d, NEW e, NEW r \in Starting(a, b, c, d, e, NoRes, NoRes, NoRes),
         NEW h, NEW mat, NEW block
  PROVE  [r EXCEPT !.h = h, !.mat = mat, !.block = block] \in Starting(a, b, c, d, e, h, mat, block)
<1> DEFINE r1 == [r EXCEPT !.h = h]
           r2 == [r1 EXCEPT !.mat = mat]
           r3 == [r2 EXCEPT !.block = block]
<1>1. [r EXCEPT !.h = h, !.mat = mat, !.block = block] = r3
  OBVIOUS
<1>2. r1 \in Starting(a, b, c, d, e, h, NoRes, NoRes)
  BY DEF Starting
<1> HIDE DEF r1
<1>3. r2 \in Starting(a, b, c, d, e, h, mat, NoRes)
  BY <1>2 DEF Starting
<1> HIDE DEF r2
<1>4. r3 \in Starting(a, b, c, d, e, h, mat, block)
  BY <1>3 DEF Starting
<1> HIDE DEF r3
<1>q. QED
  BY <1>1, <1>4

\* Setting up list, matrices and block establishes what the sort needs.
LEMMA InitDataSound == ListInv /\ InitData => ListInv'
<1> SUFFICES ASSUME ListInv, InitData PROVE ListInv'
  OBVIOUS
<1> DEFINE n == ListSize(res.size)
           h == core_list_init(res.size, res.seed1)
           mat == core_init_matrix(res.size, Block(2), MatrixSeed(res.seed1, res.seed2))
           block == core_init_state(res.size, res.seed1)
           BB == Zeroed(res.size)
<1>1. /\ cmPc = "init" /\ cmPc' = "sortinit" /\ cmIn' = cmIn /\ fr' = [NoFrame EXCEPT !.list = 1]
      /\ res' = [res EXCEPT !.h = h, !.mat = mat, !.block = block]
  BY DEF InitData, Goto
<1>c. clk \in Clocks /\ clk' = clk
  BY DEF InitData, ListInv
<1>2. cmIn \in ParamSets /\ Seeded(cmIn, res)
  BY <1>1 DEF ListInv, Sound
<1>3. Fit(cmIn, res) /\ Roomy(n, res) /\ \A N \in 0 .. res.size : res.size - 8 * N * N \notin {1, 2}
  BY <1>2, FitIs DEF Seeded
<1>4. /\ res.seed1 \in Word16 /\ res.seed2 \in Word16 /\ res.iterations \in Nat
      /\ res.size \in Nat /\ res.size >= 120
  BY <1>3 DEF Fit, Roomy
<1>5. ListReady(n, h, Fresh(n - 1))
  <2>1. n \in Nat /\ n >= 4 /\ n <= 16384 /\ n = ListSize(res.size)
    BY <1>3 DEF Roomy
  <2>2. res.seed1 % 8 # 7 \/ res.seed1 % 16384 >= n
    BY <1>2 DEF Seeded
  <2> HIDE DEF n
  <2>q. QED
    BY <1>4, <2>1, <2>2, ListInitIs
<1>6. Block(2) \in Nat /\ Block(2) = cmIn.base + res.size
  <2>1. cmIn.base \in Nat
    BY <1>2, SetsAssumption
  <2>q. QED
    BY <1>4, <2>1 DEF Block
<1>7. MatrixSeed(res.seed1, res.seed2) \in Int
  <2>1. S16(res.seed1) \in Int /\ res.seed2 \in Int
    <3>1. res.seed1 \in Int /\ res.seed2 \in Int
      BY <1>4 DEF Word16
    <3>q. QED
      BY <3>1 DEF S16, U16
  <2>q. QED
    BY <2>1 DEF MatrixSeed
<1>8. Matrixed(mat) /\ Block(2) <= mat.first /\ mat.end <= Block(2) + res.size
  <2>1. res.size # 0
    BY <1>4
  <2>q. QED
    BY <1>3, <1>4, <1>6, <1>7, <2>1, InitMatrixIs
<1>9. block \in BB
  <2>1. res.size >= 3
    BY <1>4
  <2>q. QED
    BY <1>4, <2>1, InitStateIs DEF Zeroed
<1> HIDE DEF h, mat, block, BB
<1>10. res' \in Starting(res.seed1, res.seed2, res.seed3, res.iterations, res.size, h, mat, block)
  <2>2. res \in Starting(res.seed1, res.seed2, res.seed3, res.iterations, res.size, NoRes, NoRes, NoRes)
    BY <1>2 DEF Seeded
  <2>q. QED
    BY <1>1, <2>2, Filling
<1>11. /\ res'.seed1 = res.seed1 /\ res'.seed2 = res.seed2 /\ res'.seed3 = res.seed3
       /\ res'.iterations = res.iterations /\ res'.size = res.size /\ res'.far = 0
       /\ res'.h = h /\ res'.mat = mat /\ res'.block = block
  BY <1>10 DEF Starting
<1>12. h \in Heap(n) /\ h.info = [d \in 1 .. n |-> d] /\ HeadFirst(n, h.idx)
       /\ Chain(n, h.next, Fresh(n - 1), n - 1) /\ Fresh(n - 1)[1] = 1
       /\ CellsOf(Fresh(n - 1), n - 1) = 1 .. n - 1
  BY <1>5 DEF ListReady
<1>13. Able(n, res', BB)
  <2>1. h \in Heaps(n, h)
    BY <1>12 DEF Heaps
  <2>2. 0 \in Word16 /\ 0 \in 0 .. res.size - 1
    BY <1>4 DEF Word16
  <2>3. res' \in Machines(n, res', BB)
    BY <1>9, <1>10, <1>11, <2>1, <2>2 DEF Machines, Starting
  <2>4. Scannable(res', BB)
    <3>1. res'.seed1 \in Nat /\ res'.seed2 \in Nat /\ Undamaged(res'.size, ZeroPlace(res'.size))
      BY <1>3, <1>11 DEF Roomy
    <3>2. Zeroed(res'.size) = BB
      BY <1>11 DEF BB
    <3>q. QED
      BY <3>1, <3>2, ZeroedIs
  <2>5. res'.h.info = [d \in 1 .. n |-> d] /\ res'.size \in Nat /\ Matrixed(res'.mat)
    BY <1>4, <1>8, <1>11, <1>12
  <2>q. QED
    BY <2>3, <2>4, <2>5 DEF Able
<1>14. Whole(n, res', BB, 1, Fresh(n - 1))
  BY <1>11, <1>12, <1>13 DEF Whole
<1>15. n \in Nat /\ n >= 2
  BY <1>3 DEF Roomy
<1>16. SortingOn("cmp_idx", n, res', BB, 1, 1)
  <2>1. res'.h \in Heap(n)
    BY <1>11, <1>12
  <2> HIDE DEF n
  <2>q. QED
    BY <1>14, <1>15, <2>1, SortStarts DEF SortingOn
<1>17. fr' \in Frames /\ fr'.list = 1 /\ fr'.insize = 1
  BY <1>1 DEF NoFrame, Frames, NULL, Word16
<1>18. Fit(cmIn, res')
  BY <1>3, <1>11 DEF Fit
<1>19. Placed(cmIn, res')
  <2>1. cmIn.base \in Nat
    BY <1>2, SetsAssumption
  <2>2. (cmIn.base + res.size) + res.size = cmIn.base + 2 * res.size
    BY <1>4, <2>1
  <2>q. QED
    BY <1>6, <1>8, <1>11, <2>2 DEF Placed
<1>20. ListSize(res'.size) = n /\ Zeroed(res'.size) = BB
  BY <1>11 DEF BB
<1>21. Arranging(cmIn, res', fr')
  <2>1. HeadFirst(n, res'.h.idx)
    BY <1>11, <1>12
  <2>2. SortingOn("cmp_idx", n, res', BB, fr'.list, fr'.insize)
    BY <1>16, <1>17
  <2> HIDE DEF n
  <2>q. QED
    BY <1>18, <1>19, <1>20, <2>1, <2>2 DEF Arranging
<1>q. QED
  BY <1>1, <1>c, <1>2, <1>17, <1>21 DEF ListInv, Sound, Resting, Benching

-----------------------------------------------------------------------------
(* What does not change.                                                   *)
(* The same seeds, size and matrices.                                      *)
Akin(r, m) ==
  /\ m.seed1 = r.seed1 /\ m.seed2 = r.seed2 /\ m.seed3 = r.seed3 /\ m.size = r.size /\ m.mat = r.mat

MachineOf(n, r, BB, m) ==
  /\ Akin(r, m) /\ m.iterations = r.iterations /\ m.list = r.list
  /\ m.h \in Heaps(n, r.h) /\ m.h \in Heap(n) /\ m.h.idx = r.h.idx /\ m.h.info = r.h.info
  /\ m.block \in BB /\ m.far \in 0 .. r.size - 1

\* What the machines of one run have in common.
LEMMA MachineParts ==
  ASSUME NEW n, NEW r, NEW BB, NEW m \in Machines(n, r, BB)
  PROVE  MachineOf(n, r, BB, m)
<1>1. Akin(r, m) /\ m.iterations = r.iterations /\ m.list = r.list
  BY DEF Machines, Akin
<1>2. m.h \in Heaps(n, r.h) /\ m.block \in BB /\ m.far \in 0 .. r.size - 1
  BY DEF Machines
<1>3. m.h \in Heap(n) /\ m.h.idx = r.h.idx /\ m.h.info = r.h.info
  BY <1>2 DEF Heaps
<1>q. QED
  BY <1>1, <1>2, <1>3 DEF MachineOf

\* A record of the same sizes and seeds fits and is placed as the other.
LEMMA AkinIs ==
  ASSUME NEW in, NEW r, Fit(in, r), Placed(in, r), NEW m, Akin(r, m), m.iterations \in Nat
  PROVE  /\ Fit(in, m) /\ Placed(in, m) /\ ListSize(m.size) = ListSize(r.size)
         /\ Zeroed(m.size) = Zeroed(r.size)
         /\ \A b : Repaired(m, b) = Repaired(r, b)
<1>1. /\ m.seed1 = r.seed1 /\ m.seed2 = r.seed2 /\ m.seed3 = r.seed3 /\ m.size = r.size /\ m.mat = r.mat
  BY DEF Akin
<1>2. Fit(in, m) /\ Placed(in, m)
  BY <1>1 DEF Fit, Placed
<1>3. ASSUME NEW b PROVE Repaired(m, b) = Repaired(r, b)
  <2>1. Fixable(m, b) <=> Fixable(r, b)
    BY <1>1 DEF Fixable
  <2>q. QED
    BY <1>1, <2>1 DEF Repaired
<1>q. QED
  BY <1>1, <1>2, <1>3

(* What hist keeps is still so in another machine of the same start.       *)
LEMMA RemembersNext ==
  ASSUME NEW n, NEW r, NEW BB, NEW g, Remembers(n, r, g), NEW m \in Machines(n, r, BB)
  PROVE  Remembers(n, m, g)
<1>1. /\ Remembered(n, g) /\ r.list = 1 /\ r.mat = g.mat /\ Alike(n, r.h, g.h)
      /\ g.block \in Zeroed(r.size)
  BY DEF Remembers
<1>2. /\ m.list = r.list /\ m.mat = r.mat /\ m.size = r.size /\ m.h \in Heap(n)
      /\ m.h.idx = r.h.idx /\ m.h.info = r.h.info /\ m.h \in Heaps(n, r.h)
  <2>1. MachineOf(n, r, BB, m)
    BY MachineParts
  <2>q. QED
    BY <2>1 DEF MachineOf, Akin
<1>3. \A x \in 1 .. n : HighByte(m.h.data16[x]) = HighByte(r.h.data16[x])
  BY <1>2 DEF Heaps
<1>4. Alike(n, m.h, g.h)
  BY <1>1, <1>2, <1>3 DEF Alike
<1>q. QED
  BY <1>1, <1>2, <1>4 DEF Remembers

(* The head of a whole list.                                               *)
LEMMA WholeIs ==
  ASSUME NEW n \in Nat, n >= 4, NEW r, NEW BB, NEW list, NEW e, Whole(n, r, BB, list, e)
  PROVE  /\ list \in 1 .. n /\ list \in Nat /\ list = e[1]
         /\ Able(n, r, BB) /\ r \in Machines(n, r, BB) /\ r.h \in Heap(n) /\ r.h.next \in Pointers(n)
         /\ Chain(n, r.h.next, e, n - 1) /\ CellsOf(e, n - 1) = 1 .. n - 1
<1>1. Able(n, r, BB) /\ Chain(n, r.h.next, e, n - 1) /\ list = e[1] /\ CellsOf(e, n - 1) = 1 .. n - 1
  BY DEF Whole
<1>2. r \in Machines(n, r, BB)
  BY <1>1 DEF Able
<1>3. r.h \in Heap(n)
  BY <1>2, MachineParts DEF MachineOf
<1>4. r.h.next \in Pointers(n)
  BY <1>3, HeapIs
<1>5. e[1] \in CellsOf(e, n - 1)
  <2>1. 1 \in 1 .. n - 1
    OBVIOUS
  <2>q. QED
    BY <2>1 DEF CellsOf
<1>6. list \in 1 .. n - 1
  BY <1>1, <1>5
<1>7. list \in 1 .. n /\ list \in Nat
  BY <1>6
<1>q. QED
  BY <1>1, <1>2, <1>3, <1>4, <1>7

(* A pass of a sort: the frame.                                            *)
LEMMA SortStepIs ==
  ASSUME fr \in Frames, NEW s, SortStep(s), s.list \in Nat
  PROVE  /\ fr' \in Frames /\ fr'.list = s.list /\ fr'.finder_idx = fr.finder_idx
         /\ s.nmerges <= 1 => fr'.insize = 1
         /\ ~ (s.nmerges <= 1) => fr'.insize = 2 * fr.insize
<1> DEFINE w == IF s.nmerges <= 1 THEN 1 ELSE 2 * fr.insize
           f1 == [fr EXCEPT !.list = s.list]
<1>1. fr' = [f1 EXCEPT !.insize = w]
  BY DEF SortStep
<1>2. fr.insize \in Nat \ {0}
  BY DEF Frames
<1>3. w \in Nat \ {0} /\ (s.nmerges <= 1 => w = 1) /\ (~ (s.nmerges <= 1) => w = 2 * fr.insize)
  BY <1>2
<1> HIDE DEF w
<1>4. f1 \in Frames /\ f1.list = s.list /\ f1.finder_idx = fr.finder_idx
  BY DEF Frames
<1> HIDE DEF f1
<1>5. fr' \in Frames /\ fr'.list = f1.list /\ fr'.finder_idx = f1.finder_idx /\ fr'.insize = w
  BY <1>1, <1>3, <1>4 DEF Frames
<1>q. QED
  BY <1>3, <1>4, <1>5

(* What a pass leaves, of a list that is in the course of being sorted.    *)
LEMMA SweptOn ==
  ASSUME NEW n \in Nat, n >= 4, NEW r, NEW BB, NEW cmp, NEW pos, NEW w, NEW s,
         Swept(cmp, n, r, BB, pos, w, s), Able(n, r, BB)
  PROVE  /\ s.m \in Machines(n, r, BB) /\ s.list \in Nat
         /\ \E d : InSort(cmp, n, s.m, BB, pos, s.list, 2 * w, d)
         /\ s.nmerges <= 1 => SortedWhole(cmp, n, s.m, BB, pos, s.list)
<1>1. PICK d : /\ InSort(cmp, n, s.m, BB, pos, s.list, 2 * w, d)
               /\ s.nmerges <= 1 => Sorted(cmp, n, pos, n - 1, d, s.m.h)
  BY DEF Swept
<1>2. Whole(n, s.m, BB, s.list, d)
  BY <1>1 DEF InSort
<1>3. s.list \in Nat
  BY <1>2, WholeIs
<1>4. s.nmerges <= 1 => SortedWhole(cmp, n, s.m, BB, pos, s.list)
  BY <1>1, <1>2 DEF SortedWhole
<1>q. QED
  BY <1>1, <1>3, <1>4 DEF Swept

-----------------------------------------------------------------------------
(* The sort core_list_init ends with.                                      *)
LEMMA SortInitSound == ListInv /\ SortInit => ListInv'
<1> SUFFICES ASSUME ListInv, SortInit PROVE ListInv'
  OBVIOUS
<1> DEFINE n == ListSize(res.size)
           BB == Zeroed(res.size)
<1>1. cmPc = "sortinit" /\ cmIn' = cmIn /\ clk' = clk /\ clk \in Clocks
  BY DEF SortInit, ListInv
<1>2. cmIn \in ParamSets /\ fr \in Frames /\ Arranging(cmIn, res, fr)
  BY <1>1 DEF ListInv, Sound
<1>3. /\ Fit(cmIn, res) /\ Placed(cmIn, res) /\ HeadFirst(n, res.h.idx)
      /\ SortingOn("cmp_idx", n, res, BB, fr.list, fr.insize)
  BY <1>2 DEF Arranging
<1>4. Roomy(n, res)
  BY <1>3, FitIs
<1>5. n \in Nat /\ n >= 4 /\ res.iterations \in Nat
  BY <1>3, <1>4 DEF Roomy, Fit
<1>6. PICK s \in {SortPass(res, fr.list, fr.insize, "cmp_idx")} :
        /\ SortStep(s)
        /\ IF s.nmerges <= 1
           THEN /\ res' = [s.m EXCEPT !.list = s.list]
                /\ hist' = [h |-> s.m.h, list |-> s.list, mat |-> s.m.mat, block |-> s.m.block,
                            order |-> << >>]
                /\ Goto(IF res.iterations = 0 THEN "calibrate" ELSE "start")
           ELSE res' = s.m /\ UNCHANGED <<cmPc, hist>>
  BY DEF SortInit
<1>7. PICK pos, e : InSort("cmp_idx", n, res, BB, pos, fr.list, fr.insize, e)
  BY <1>3 DEF SortingOn
<1> HIDE DEF n, BB
<1>8. Swept("cmp_idx", n, res, BB, pos, fr.insize, s)
  <2>1. n >= 2 /\ "cmp_idx" \in Cmps
    BY <1>5 DEF Cmps
  <2>2. s = SortPass(res, fr.list, fr.insize, "cmp_idx")
    BY <1>6
  <2>q. QED
    BY <1>5, <1>7, <2>1, <2>2, SweptIs
<1>9. Able(n, res, BB)
  BY <1>7 DEF InSort, Whole
<1>10. /\ s.m \in Machines(n, res, BB) /\ s.list \in Nat
       /\ \E d : InSort("cmp_idx", n, s.m, BB, pos, s.list, 2 * fr.insize, d)
       /\ s.nmerges <= 1 => SortedWhole("cmp_idx", n, s.m, BB, pos, s.list)
  BY <1>5, <1>8, <1>9, SweptOn
<1>11. /\ fr' \in Frames /\ fr'.list = s.list
       /\ s.nmerges <= 1 => fr'.insize = 1
       /\ ~ (s.nmerges <= 1) => fr'.insize = 2 * fr.insize
  BY <1>2, <1>6, <1>10, SortStepIs
<1>12. /\ Akin(res, s.m) /\ s.m.iterations = res.iterations /\ s.m.h \in Heap(n)
       /\ s.m.h.idx = res.h.idx /\ s.m.h.info = res.h.info /\ s.m.block \in BB
  <2>1. MachineOf(n, res, BB, s.m)
    BY <1>10, MachineParts
  <2>q. QED
    BY <2>1 DEF MachineOf
<1>13. HeadFirst(n, s.m.h.idx)
  BY <1>3, <1>12 DEF n
<1>14. CASE ~ (s.nmerges <= 1)
  <2>1. res' = s.m /\ cmPc' = "sortinit"
    BY <1>1, <1>6, <1>14
  <2>2. Akin(res, res') /\ res'.iterations \in Nat
    BY <1>5, <1>12, <2>1
  <2>3. Fit(cmIn, res') /\ Placed(cmIn, res') /\ ListSize(res'.size) = n /\ Zeroed(res'.size) = BB
    BY <1>3, <2>2, AkinIs DEF n, BB
  <2>4. SortingOn("cmp_idx", n, res', BB, fr'.list, fr'.insize)
    BY <1>10, <1>11, <1>14, <2>1 DEF SortingOn
  <2>5. HeadFirst(n, res'.h.idx)
    BY <1>13, <2>1
  <2>6. Arranging(cmIn, res', fr')
    BY <2>3, <2>4, <2>5 DEF Arranging
  <2>q. QED
    BY <1>1, <1>2, <1>11, <2>1, <2>6 DEF ListInv, Sound, Resting, Benching
<1>15. CASE s.nmerges <= 1
  <2> DEFINE r2 == [s.m EXCEPT !.list = s.list]
             B2 == Repaired(r2, s.m.block)
  <2>1. /\ res' = r2
        /\ hist' = [h |-> s.m.h, list |-> s.list, mat |-> s.m.mat, block |-> s.m.block, order |-> << >>]
        /\ cmPc' \in {"calibrate", "start"}
    BY <1>6, <1>15 DEF Goto
  <2>2. PICK d : Whole(n, s.m, BB, s.list, d) /\ Sorted("cmp_idx", n, pos, n - 1, d, s.m.h)
    BY <1>10, <1>15 DEF SortedWhole
  <2>3. /\ s.list = d[1] /\ Able(n, s.m, BB) /\ s.m \in Machines(n, s.m, BB)
        /\ Chain(n, s.m.h.next, d, n - 1) /\ CellsOf(d, n - 1) = 1 .. n - 1
    BY <1>5, <2>2, WholeIs
  <2>4. d[1] = 1 /\ s.list = 1
    <3>1. n >= 3
      BY <1>5
    <3>q. QED
      BY <1>5, <1>13, <2>2, <2>3, <3>1, HeadIsFirst
  <2>5. r2 \in Kin(s.m) /\ r2.list = 1 /\ r2.iterations = s.m.iterations
    <3>1. s.list \in Nat /\ s.m.iterations \in Nat
      BY <1>5, <1>10, <1>12
    <3>q. QED
      BY <2>3, <2>4, <3>1 DEF Machines, Kin
  <2> HIDE DEF r2
  <2>6. /\ Able(n, r2, BB) /\ r2.h = s.m.h /\ r2.mat = s.m.mat /\ r2.block = s.m.block
        /\ Akin(s.m, r2)
    BY <2>3, <2>5, KinIs DEF Akin
  <2>7. Akin(res, r2) /\ r2.iterations \in Nat
    BY <1>5, <1>12, <2>5, <2>6 DEF Akin
  <2>8. Fit(cmIn, r2) /\ Placed(cmIn, r2) /\ ListSize(r2.size) = n /\ Zeroed(r2.size) = BB
    BY <1>3, <2>7, AkinIs DEF n, BB
  <2>9. Able(n, r2, B2)
    <3>1. r2.block \in B2
      BY <1>12, <2>6, <2>8 DEF Repaired
    <3>2. Roomy(n, r2)
      BY <2>8, FitIs
    <3>3. Scannable(r2, B2)
      BY <3>2, RepairedIs DEF Roomy
    <3> HIDE DEF B2
    <3>q. QED
      BY <2>6, <3>1, <3>3, AbleWith
  <2>10. hist'.h = s.m.h /\ hist'.list = 1 /\ hist'.mat = s.m.mat /\ hist'.block = s.m.block
         /\ hist' = [h |-> hist'.h, list |-> hist'.list, mat |-> hist'.mat, block |-> hist'.block,
                     order |-> hist'.order]
    BY <2>1, <2>4
  <2>11. WholeFrom(n, r2, B2, 1)
    <3>1. Whole(n, r2, B2, 1, d)
      BY <2>3, <2>4, <2>6, <2>9 DEF Whole
    <3>q. QED
      BY <3>1 DEF WholeFrom
  <2>12. Remembers(n, r2, hist')
    <3>1. Remembered(n, hist')
      BY <1>13, <2>2, <2>3, <2>4, <2>10 DEF Remembered
    <3>2. s.m.h.info = [x \in 1 .. n |-> x]
      BY <2>3 DEF Able
    <3>3. Alike(n, r2.h, hist'.h)
      BY <1>12, <2>6, <2>10, <3>2 DEF Alike
    <3>q. QED
      BY <1>12, <2>5, <2>6, <2>8, <2>10, <3>1, <3>3 DEF Remembers
  <2>13. cmPc' \in Resting /\ cmPc' \notin {"undo", "remove", "find", "sort", "sortidx", "crc", "list"}
    BY <2>1 DEF Resting
  <2>14. Stage(cmPc', n, r2, B2, fr', hist')
    BY <2>11, <2>12, <2>13 DEF Stage
  <2>15. Arranged(cmPc', cmIn', res', fr', hist')
    BY <1>1, <2>1, <2>8, <2>10, <2>14 DEF Arranged
  <2>16. cmPc' \notin {"init", "sortinit"} /\ cmPc' \notin Benching \cup {"list"}
    BY <2>1 DEF Benching
  <2>q. QED
    BY <1>1, <1>2, <1>11, <2>13, <2>15, <2>16 DEF ListInv, Sound
<1>q. QED
  BY <1>14, <1>15

-----------------------------------------------------------------------------
(* Between the iterations.                                                 *)
(* The counts and CRCs the program sets.                                   *)
Recounted(r, i, c, d) ==
  LET m == [ClearCrcs(r) EXCEPT !.iterations = i]
      s == [r EXCEPT !.iterations = i]
      t == [r EXCEPT !.crc = c, !.crclist = d]
  IN  /\ ClearCrcs(r) \in Kin(r) /\ ClearCrcs(r).list = r.list /\ ClearCrcs(r).iterations = r.iterations
      /\ m \in Kin(r) /\ m.list = r.list /\ m.iterations = i
      /\ s \in Kin(r) /\ s.list = r.list /\ s.iterations = i
      /\ t \in Kin(r) /\ t.list = r.list /\ t.iterations = r.iterations

\* Clearing the CRCs or setting the iterations touches nothing else.
LEMMA CountsKept ==
  ASSUME NEW n, NEW r, NEW BB, r \in Machines(n, r, BB), r.iterations \in Nat, r.list \in Nat,
         NEW i \in Nat, NEW c \in Word16, NEW d \in Word16 \cup {r.crclist}
  PROVE  Recounted(r, i, c, d)
<1>1. r \in Kin(r)
  BY DEF Machines, Kin
<1>2. 0 \in Word16
  BY DEF Word16
<1> DEFINE r1 == [r EXCEPT !.crc = 0]
           r2 == [r1 EXCEPT !.crclist = 0]
           r3 == [r2 EXCEPT !.crcmatrix = 0]
           r4 == [r3 EXCEPT !.crcstate = 0]
           r5 == [r4 EXCEPT !.iterations = i]
           s1 == [r EXCEPT !.iterations = i]
           t1 == [r EXCEPT !.crc = c]
           t2 == [t1 EXCEPT !.crclist = d]
<1>3. ClearCrcs(r) = r4 /\ [r EXCEPT !.crc = c, !.crclist = d] = t2
  BY DEF ClearCrcs
<1>4. r1 \in Kin(r) /\ r1.list = r.list /\ r1.iterations = r.iterations
  BY <1>1, <1>2 DEF Kin
<1> HIDE DEF r1
<1>5. r2 \in Kin(r) /\ r2.list = r.list /\ r2.iterations = r.iterations
  BY <1>2, <1>4 DEF Kin
<1> HIDE DEF r2
<1>6. r3 \in Kin(r) /\ r3.list = r.list /\ r3.iterations = r.iterations
  BY <1>2, <1>5 DEF Kin
<1> HIDE DEF r3
<1>7. r4 \in Kin(r) /\ r4.list = r.list /\ r4.iterations = r.iterations
  BY <1>2, <1>6 DEF Kin
<1> HIDE DEF r4
<1>8. r5 \in Kin(r) /\ r5.list = r.list /\ r5.iterations = i
  BY <1>7 DEF Kin
<1>9. s1 \in Kin(r) /\ s1.list = r.list /\ s1.iterations = i
  BY <1>1 DEF Kin
<1>10. t1 \in Kin(r) /\ t1.list = r.list /\ t1.iterations = r.iterations
  BY <1>1 DEF Kin
<1> HIDE DEF t1
<1>11. t2 \in Kin(r) /\ t2.list = r.list /\ t2.iterations = r.iterations
  BY <1>10 DEF Kin
<1> HIDE DEF r5, s1, t2
<1>q. QED
  BY <1>3, <1>7, <1>8, <1>9, <1>11 DEF r5, s1, Recounted

(* A list that rests is what it was.                                       *)
LEMMA KinOf ==
  ASSUME NEW in, NEW r, Fit(in, r), Placed(in, r), NEW n, NEW BB, Able(n, r, BB), NEW m \in Kin(r),
         m.list = r.list
  PROVE  /\ Akin(r, m) /\ Fit(in, m) /\ Placed(in, m) /\ ListSize(m.size) = ListSize(r.size)
         /\ \A b : Repaired(m, b) = Repaired(r, b)
         /\ \A list, e : Whole(n, r, BB, list, e) => Whole(n, m, BB, list, e)
         /\ \A g : Remembers(n, r, g) => Remembers(n, m, g)
<1>1. /\ Able(n, m, BB) /\ m.h = r.h /\ m.mat = r.mat /\ m.size = r.size
      /\ Akin(r, m) /\ m.iterations \in Nat
  BY KinIs DEF Kin, Akin
<1>2. \A list, e : Whole(n, r, BB, list, e) => Whole(n, m, BB, list, e)
  BY <1>1 DEF Whole
<1>3. \A g : Remembers(n, r, g) => Remembers(n, m, g)
  BY <1>1 DEF Remembers
<1>q. QED
  BY <1>1, <1>2, <1>3, AkinIs

(* What is known between the iterations.                                   *)
Rested(in, r, g) ==
  LET n == ListSize(r.size)
      BB == Repaired(r, g.block)
  IN  /\ Fit(in, r) /\ Placed(in, r) /\ n \in Nat /\ n >= 4
      /\ Remembers(n, r, g) /\ WholeFrom(n, r, BB, 1) /\ Able(n, r, BB)
      /\ r \in Machines(n, r, BB) /\ r.iterations \in Nat /\ r.list = 1

\* The list is whole wherever the program is between two iterations.
LEMMA RestedIs ==
  ASSUME NEW pc \in Resting, NEW in, NEW r, NEW f, NEW g, Arranged(pc, in, r, f, g)
  PROVE  Rested(in, r, g)
<1> DEFINE n == ListSize(r.size)
           BB == Repaired(r, g.block)
<1>1. Fit(in, r) /\ Placed(in, r) /\ Stage(pc, n, r, BB, f, g)
  BY DEF Arranged
<1>2. n \in Nat /\ n >= 4 /\ r.iterations \in Nat
  BY <1>1, FitIs DEF Roomy, Fit
<1>3. Remembers(n, r, g) /\ WholeFrom(n, r, BB, 1)
  BY <1>1 DEF Stage, Resting
<1> HIDE DEF n, BB
<1>4. PICK e : Whole(n, r, BB, 1, e)
  BY <1>3 DEF WholeFrom
<1>5. Able(n, r, BB) /\ r \in Machines(n, r, BB)
  BY <1>2, <1>4, WholeIs
<1>6. r.list = 1
  BY <1>3 DEF Remembers
<1>q. QED
  BY <1>1, <1>2, <1>3, <1>5, <1>6 DEF Rested, n, BB

\* Other counts do not disturb a list that rests.
LEMMA RestsOn ==
  ASSUME NEW in, NEW r, NEW g, Rested(in, r, g), NEW m \in Kin(r), m.list = r.list,
         NEW pc \in Resting, NEW f
  PROVE  Arranged(pc, in, m, f, g)
<1> DEFINE n == ListSize(r.size)
           BB == Repaired(r, g.block)
<1>1. /\ Fit(in, r) /\ Placed(in, r) /\ Remembers(n, r, g) /\ WholeFrom(n, r, BB, 1) /\ Able(n, r, BB)
  BY DEF Rested
<1> HIDE DEF n, BB
<1>2. /\ Fit(in, m) /\ Placed(in, m) /\ ListSize(m.size) = n /\ Repaired(m, g.block) = BB
      /\ Remembers(n, m, g) /\ WholeFrom(n, m, BB, 1)
  BY <1>1, KinOf DEF WholeFrom, n, BB
<1>3. Stage(pc, n, m, BB, f, g)
  BY <1>2 DEF Stage, Resting
<1>q. QED
  BY <1>2, <1>3 DEF Arranged

-----------------------------------------------------------------------------
(* The timing.                                                             *)
LEMMA ProductIs ==
  ASSUME NEW a \in Nat, NEW b \in Nat
  PROVE  a * b \in Nat
OBVIOUS

(* What get_time gives.                                                    *)
LEMMA TimeIs ==
  ASSUME NEW c \in Clocks
  PROVE  get_time(c) \in Nat
<1>1. c.stop - c.start \in Int
  <2>1. c.stop \in Nat /\ c.start \in Nat
    BY DEF Clocks
  <2>q. QED
    BY <2>1
<1>2. \A x \in Int, w \in Nat \ {0} : x % w \in Nat
  OBVIOUS
<1>q. QED
  BY <1>1, <1>2, ClockAssumption DEF get_time

(* start_time and the run to the statement `back`.                         *)
LEMMA IterateIs ==
  ASSUME clk \in Clocks, cmIn.start \in Nat, NEW back \in {"calibrated", "stop"}, iterate(back)
  PROVE  /\ clk' \in Clocks /\ clk'.back = back /\ clk'.start = cmIn.start
         /\ clk'.rate = clk.rate /\ clk'.stop = clk.stop /\ cmPc' = "list"
<1> DEFINE c1 == [clk EXCEPT !.i = 0]
           c2 == [c1 EXCEPT !.back = back]
           c3 == [c2 EXCEPT !.start = cmIn.start]
<1>1. clk' = c3 /\ cmPc' = "list"
  BY DEF iterate, Goto
<1>2. c1 \in Clocks /\ c1.rate = clk.rate /\ c1.stop = clk.stop
  BY DEF Clocks
<1> HIDE DEF c1
<1>3. c2 \in Clocks /\ c2.rate = clk.rate /\ c2.stop = clk.stop /\ c2.back = back
  BY <1>2 DEF Clocks
<1> HIDE DEF c2
<1>4. c3 \in Clocks /\ c3.rate = clk.rate /\ c3.stop = clk.stop /\ c3.back = back /\ c3.start = cmIn.start
  BY <1>3 DEF Clocks
<1> HIDE DEF c3
<1>q. QED
  BY <1>1, <1>4

(* stop_time.                                                              *)
LEMMA StopTimeIs ==
  ASSUME clk \in Clocks, res.iterations \in Nat, StopTime
  PROVE  /\ clk' \in Clocks /\ clk'.back = clk.back /\ clk'.start = clk.start /\ clk'.rate \in Nat
         /\ clk'.stop = (clk.start + res.iterations * clk'.rate) % ClockWrap
         /\ IF clk.rate = 0 THEN clk'.rate \in Rates ELSE clk'.rate = clk.rate
<1>1. PICK rate \in IF clk.rate = 0 THEN Rates ELSE {clk.rate} :
        clk' = [clk EXCEPT !.rate = rate, !.stop = barebones_clock(res.iterations * rate)]
  BY DEF StopTime
<1>2. rate \in Nat /\ (IF clk.rate = 0 THEN rate \in Rates ELSE rate = clk.rate)
  BY <1>1, ClockAssumption DEF Clocks
<1> DEFINE v == (clk.start + res.iterations * rate) % ClockWrap
           c1 == [clk EXCEPT !.rate = rate]
           c2 == [c1 EXCEPT !.stop = v]
<1>3. clk' = c2
  BY <1>1 DEF barebones_clock
<1>4. v \in Nat
  <2>1. res.iterations * rate \in Nat
    BY <1>2, ProductIs
  <2>2. clk.start \in Nat
    BY DEF Clocks
  <2>3. ClockWrap \in Nat \ {0}
    BY ClockAssumption
  <2>4. \A x \in Nat, w \in Nat \ {0} : x % w \in Nat
    OBVIOUS
  <2>q. QED
    BY <2>1, <2>2, <2>3, <2>4
<1> HIDE DEF v
<1>5. c1 \in Clocks /\ c1.rate = rate /\ c1.back = clk.back /\ c1.start = clk.start
  BY <1>2 DEF Clocks
<1> HIDE DEF c1
<1>6. c2 \in Clocks /\ c2.rate = rate /\ c2.back = clk.back /\ c2.start = clk.start /\ c2.stop = v
  BY <1>4, <1>5 DEF Clocks
<1> HIDE DEF c2
<1>q. QED
  BY <1>2, <1>3, <1>6 DEF v

(* A step between two statements where the list rests.                     *)
LEMMA RestSound ==
  ASSUME ListInv, cmPc \in Resting, cmPc' \in Resting, cmIn' = cmIn, fr' = fr, hist' = hist,
         res' \in Kin(res), res'.list = res.list,
         clk' \in Clocks, cmPc' = "list" => clk'.back \in {"calibrated", "stop"}
  PROVE  ListInv'
<1>1. cmIn \in ParamSets /\ fr \in Frames /\ Arranged(cmPc, cmIn, res, fr, hist)
  BY DEF ListInv, Sound
<1>2. Rested(cmIn, res, hist)
  BY <1>1, RestedIs
<1>3. Arranged(cmPc', cmIn, res', fr', hist)
  BY <1>2, RestsOn
<1>4. cmPc' \notin {"init", "sortinit"} \cup Benching
  BY DEF Resting, Benching
<1>q. QED
  BY <1>1, <1>3, <1>4 DEF ListInv, Sound

\* What is known of the variables between two iterations.
LEMMA RestFacts ==
  ASSUME ListInv, cmPc \in Resting
  PROVE  /\ clk \in Clocks /\ cmIn.start \in Nat /\ res.iterations \in Nat /\ cmIn \in ParamSets
         /\ Rested(cmIn, res, hist) /\ fr \in Frames
         /\ res \in Kin(res)
         /\ ClearCrcs(res) \in Kin(res) /\ ClearCrcs(res).list = res.list
         /\ ClearCrcs(res).iterations = res.iterations
         /\ \A i \in Nat :
              /\ [ClearCrcs(res) EXCEPT !.iterations = i] \in Kin(res)
              /\ [ClearCrcs(res) EXCEPT !.iterations = i].list = res.list
              /\ [ClearCrcs(res) EXCEPT !.iterations = i].iterations = i
              /\ [res EXCEPT !.iterations = i] \in Kin(res)
              /\ [res EXCEPT !.iterations = i].list = res.list
              /\ [res EXCEPT !.iterations = i].iterations = i
<1> DEFINE n == ListSize(res.size)
           BB == Repaired(res, hist.block)
<1>1. clk \in Clocks /\ cmIn \in ParamSets /\ fr \in Frames /\ Arranged(cmPc, cmIn, res, fr, hist)
  BY DEF ListInv, Sound
<1>2. cmIn.start \in Nat
  BY <1>1, SetsAssumption
<1>3. Rested(cmIn, res, hist)
  BY <1>1, RestedIs
<1>4. res \in Machines(n, res, BB) /\ res.iterations \in Nat /\ res.list \in Nat
  BY <1>3 DEF Rested
<1> HIDE DEF n, BB
<1>5. res \in Kin(res)
  BY <1>4 DEF Machines, Kin
<1>6. 0 \in Word16 /\ 0 \in Word16 \cup {res.crclist}
  BY DEF Word16
<1>7. ASSUME NEW i \in Nat PROVE Recounted(res, i, 0, 0)
  BY <1>4, <1>6, CountsKept
<1>8. 0 \in Nat
  OBVIOUS
<1>q. QED
  BY <1>1, <1>2, <1>3, <1>4, <1>5, <1>7, <1>8 DEF Recounted

\* The start of a calibration run keeps the invariant.
LEMMA CalibrateSound == ListInv /\ Calibrate => ListInv'
<1> SUFFICES ASSUME ListInv, Calibrate PROVE ListInv'
  OBVIOUS
<1> DEFINE i == IF res.iterations = 0 THEN 10 ELSE 10 * res.iterations
<1>1. cmPc = "calibrate" /\ cmPc \in Resting /\ cmIn' = cmIn /\ fr' = fr /\ hist' = hist /\ iterate("calibrated")
  BY DEF Calibrate, Resting
<1>2. /\ clk \in Clocks /\ cmIn.start \in Nat /\ res.iterations \in Nat
      /\ ClearCrcs(res).iterations = res.iterations
  BY <1>1, RestFacts
<1>3. res' = [ClearCrcs(res) EXCEPT !.iterations = i]
  <2>1. res' = [ClearCrcs(res) EXCEPT !.iterations = IF ClearCrcs(res).iterations = 0 THEN 10
                                                     ELSE 10 * ClearCrcs(res).iterations]
    BY DEF Calibrate
  <2>q. QED
    BY <1>2, <2>1
<1>4. i \in Nat
  BY <1>2
<1> HIDE DEF i
<1>5. res' \in Kin(res) /\ res'.list = res.list
  BY <1>1, <1>3, <1>4, RestFacts
<1>6. clk' \in Clocks /\ clk'.back = "calibrated" /\ cmPc' = "list"
  BY <1>1, <1>2, IterateIs
<1>q. QED
  BY <1>1, <1>5, <1>6, RestSound DEF Resting

\* The end of a calibration run keeps the invariant.
LEMMA CalibratedSound == ListInv /\ Calibrated => ListInv'
<1> SUFFICES ASSUME ListInv, Calibrated PROVE ListInv'
  OBVIOUS
<1> DEFINE secs == time_in_secs(get_time(clk'))
           t == TenSeconds(res.iterations, secs)
<1>1. /\ cmPc = "calibrated" /\ cmPc \in Resting /\ cmIn' = cmIn /\ fr' = fr /\ hist' = hist /\ StopTime
      /\ IF secs < 1 THEN Goto("calibrate") /\ UNCHANGED res
         ELSE Goto("start") /\ res' = [res EXCEPT !.iterations = TenSeconds(@, secs)]
  BY DEF Calibrated, Resting
<1>2. clk \in Clocks /\ res.iterations \in Nat /\ res \in Kin(res)
  BY <1>1, RestFacts
<1>3. clk' \in Clocks
  BY <1>1, <1>2, StopTimeIs
<1>4. secs \in Nat
  <2>2. get_time(clk') \in Nat
    BY <1>3, TimeIs
  <2>3. \A x \in Nat, w \in Nat \ {0} : x \div w \in Nat
    OBVIOUS
  <2>q. QED
    BY <2>2, <2>3, ClockAssumption DEF time_in_secs
<1> HIDE DEF secs
<1>5. t \in Nat
  <2> DEFINE q == 10 \div (IF secs = 0 THEN 1 ELSE secs)
  <2>1. q \in Nat
    <3>1. (IF secs = 0 THEN 1 ELSE secs) \in Nat \ {0}
      BY <1>4
    <3>2. \A w \in Nat \ {0} : 10 \div w \in Nat
      OBVIOUS
    <3>q. QED
      BY <3>1, <3>2
  <2>2. t = res.iterations * (1 + q)
    BY DEF TenSeconds
  <2> HIDE DEF q, t
  <2>3. 1 + q \in Nat
    BY <2>1
  <2>q. QED
    BY <1>2, <2>2, <2>3, ProductIs
<1> HIDE DEF t
<1>6. CASE secs < 1
  <2>1. cmPc' = "calibrate" /\ res' = res
    BY <1>1, <1>6 DEF Goto
  <2>q. QED
    BY <1>1, <1>2, <1>3, <2>1, RestSound DEF Resting
<1>7. CASE ~ (secs < 1)
  <2>1. cmPc' = "start" /\ res' = [res EXCEPT !.iterations = t]
    BY <1>1, <1>7 DEF Goto, t
  <2>2. res' \in Kin(res) /\ res'.list = res.list
    BY <1>1, <1>5, <2>1, RestFacts
  <2>q. QED
    BY <1>1, <1>3, <2>1, <2>2, RestSound DEF Resting
<1>q. QED
  BY <1>6, <1>7

\* The start of the timed run keeps the invariant.
LEMMA StartTimeSound == ListInv /\ StartTime => ListInv'
<1> SUFFICES ASSUME ListInv, StartTime PROVE ListInv'
  OBVIOUS
<1>1. /\ cmPc \in Resting /\ cmIn' = cmIn /\ fr' = fr /\ hist' = hist /\ iterate("stop")
      /\ res' = ClearCrcs(res)
  BY DEF StartTime, Resting
<1>2. clk \in Clocks /\ cmIn.start \in Nat /\ res' \in Kin(res) /\ res'.list = res.list
  BY <1>1, RestFacts
<1>3. clk' \in Clocks /\ clk'.back = "stop" /\ cmPc' = "list"
  BY <1>1, <1>2, IterateIs
<1>q. QED
  BY <1>1, <1>2, <1>3, RestSound DEF Resting

\* The end of the timed run keeps the invariant.
LEMMA StopSound == ListInv /\ Stop => ListInv'
<1> SUFFICES ASSUME ListInv, Stop PROVE ListInv'
  OBVIOUS
<1>1. /\ cmPc \in Resting /\ cmIn' = cmIn /\ fr' = fr /\ hist' = hist /\ StopTime
      /\ res' = res /\ cmPc' = "check"
  BY DEF Stop, Resting, Goto
<1>2. clk \in Clocks /\ res.iterations \in Nat /\ res \in Kin(res)
  BY <1>1, RestFacts
<1>3. clk' \in Clocks
  BY <1>1, <1>2, StopTimeIs
<1>q. QED
  BY <1>1, <1>2, <1>3, RestSound DEF Resting

\* The report keeps the invariant.
LEMMA CheckSound == ListInv /\ Check => ListInv'
<1> SUFFICES ASSUME ListInv, Check PROVE ListInv'
  OBVIOUS
<1>1. /\ cmPc \in Resting /\ cmIn' = cmIn /\ fr' = fr /\ hist' = hist /\ clk' = clk
      /\ res' = res /\ cmPc' = "done"
  BY DEF Check, Resting, Goto
<1>2. clk \in Clocks /\ res \in Kin(res)
  BY <1>1, RestFacts
<1>q. QED
  BY <1>1, <1>2, RestSound DEF Resting

-----------------------------------------------------------------------------
(* Inside core_bench_list.                                                 *)
(* What the statements of core_bench_list start from.                      *)
Benched(in, r, g, n, BB) ==
  /\ Fit(in, r) /\ Placed(in, r) /\ n = ListSize(r.size) /\ BB = Repaired(r, g.block)
  /\ n \in Nat /\ n >= 4

\* What is known of the variables inside core_bench_list.
LEMMA BenchFacts ==
  ASSUME ListInv, cmPc \in Benching
  PROVE  /\ cmIn \in ParamSets /\ fr \in Frames /\ clk \in Clocks /\ clk.back \in {"calibrated", "stop"}
         /\ Benched(cmIn, res, hist, ListSize(res.size), Repaired(res, hist.block))
         /\ Stage(cmPc, ListSize(res.size), res, Repaired(res, hist.block), fr, hist)
<1>1. /\ cmIn \in ParamSets /\ fr \in Frames /\ clk \in Clocks /\ clk.back \in {"calibrated", "stop"}
      /\ Arranged(cmPc, cmIn, res, fr, hist)
  BY DEF ListInv, Sound
<1>2. Fit(cmIn, res)
  BY <1>1 DEF Arranged
<1>3. Roomy(ListSize(res.size), res)
  BY <1>2, FitIs
<1>q. QED
  BY <1>1, <1>3 DEF Arranged, Roomy, Benched

(* And what is to be shown of them.                                        *)
LEMMA BenchSound ==
  ASSUME cmIn \in ParamSets, cmIn' = cmIn, fr' \in Frames, clk' \in Clocks,
         clk'.back \in {"calibrated", "stop"}, cmPc' \in Benching,
         Arranged(cmPc', cmIn, res', fr', hist')
  PROVE  ListInv'
<1>1. cmPc' \notin {"init", "sortinit"} \cup Resting
  BY DEF Resting, Benching
<1>q. QED
  BY <1>1 DEF ListInv, Sound

(* A machine that went on from another.                                    *)
LEMMA WentOn ==
  ASSUME NEW in, NEW r, NEW g, NEW n, NEW BB, Benched(in, r, g, n, BB), NEW m \in Machines(n, r, BB)
  PROVE  /\ Benched(in, m, g, n, BB) /\ (Remembers(n, r, g) => Remembers(n, m, g))
<1>1. Akin(r, m) /\ m.iterations = r.iterations
  BY MachineParts DEF MachineOf
<1>2. Fit(in, r) /\ Placed(in, r) /\ n = ListSize(r.size) /\ BB = Repaired(r, g.block)
      /\ n \in Nat /\ n >= 4
  BY DEF Benched
<1>3. m.iterations \in Nat
  BY <1>1, <1>2 DEF Fit
<1>4. Fit(in, m) /\ Placed(in, m) /\ ListSize(m.size) = n /\ Repaired(m, g.block) = BB
  BY <1>1, <1>2, <1>3, AkinIs
<1>q. QED
  BY <1>2, <1>4, RemembersNext DEF Benched

\* A stage of core_bench_list is what the invariant asks for there.
LEMMA BenchArranged ==
  ASSUME NEW in, NEW r, NEW g, NEW n, NEW BB, Benched(in, r, g, n, BB), NEW pc, NEW f,
         Stage(pc, n, r, BB, f, g)
  PROVE  Arranged(pc, in, r, f, g)
BY DEF Benched, Arranged

\* Entering core_bench_list keeps the invariant.
LEMMA ListByIdxSound == ListInv /\ ListByIdx => ListInv'
<1> SUFFICES ASSUME ListInv, ListByIdx PROVE ListInv'
  OBVIOUS
<1> DEFINE n == ListSize(res.size)
           BB == Repaired(res, hist.block)
<1>1. /\ cmPc = "list" /\ cmPc' = "find" /\ cmIn' = cmIn /\ res' = res /\ clk' = clk /\ hist' = hist
      /\ fr' = [finder_idx |-> 1, idx |-> 1, i |-> 0, list |-> res.list, found |-> 0,
                missed |-> 0, retval |-> 0, insize |-> 1, removed |-> NULL]
  BY DEF ListByIdx, BenchList, Goto
<1>2. cmPc \in Resting
  BY <1>1 DEF Resting
<1>3. clk \in Clocks /\ cmIn \in ParamSets /\ Rested(cmIn, res, hist)
  BY <1>2, RestFacts
<1>4. clk.back \in {"calibrated", "stop"}
  BY <1>1 DEF ListInv
<1>5. /\ Fit(cmIn, res) /\ Placed(cmIn, res) /\ n \in Nat /\ n >= 4
      /\ Remembers(n, res, hist) /\ WholeFrom(n, res, BB, 1) /\ res.list = 1
  BY <1>3 DEF Rested
<1>6. fr' \in Frames /\ fr'.list = 1
  <2>1. 1 \in Int /\ res.list \in Nat
    BY <1>5
  <2>q. QED
    BY <1>1, <1>5, <2>1, FrameStart
<1>7. Benched(cmIn, res, hist, n, BB)
  BY <1>5 DEF Benched
<1> HIDE DEF n, BB
<1>8. Stage("find", n, res, BB, fr', hist)
  BY <1>5, <1>6 DEF Stage, Resting
<1>9. Arranged(cmPc', cmIn, res', fr', hist')
  BY <1>1, <1>7, <1>8, BenchArranged
<1>q. QED
  BY <1>1, <1>3, <1>4, <1>6, <1>9, BenchSound DEF Benching

(* The number a turn of the find loop adds.                                *)
LEMMA AddedIs ==
  ASSUME NEW x \in Nat, NEW w \in Word16
  PROVE  U16(w + BitOf(x, 8)) \in Word16 /\ U16(w + (x % 2) * BitOf(x, 9)) \in Word16
<1>2. BitOf(x, 8) \in {0, 1} /\ BitOf(x, 9) \in {0, 1}
  <2>1. BitOf(x, 8) \in 0 .. 1 /\ BitOf(x, 9) \in 0 .. 1
    BY BitIs
  <2>q. QED
    BY <2>1
<1>3. x % 2 \in {0, 1}
  OBVIOUS
<1>4. w \in Nat
  BY DEF Word16
<1>5. w + BitOf(x, 8) \in Int /\ w + (x % 2) * BitOf(x, 9) \in Int
  BY <1>2, <1>3, <1>4
<1>q. QED
  BY <1>5, U16Is

(* The frame after a turn of the find loop.                                *)
FrameTurned(f, list, idx, found, missed, w) ==
  LET next == [f EXCEPT !.i = @ + 1, !.list = list, !.idx = idx]
      m == [next EXCEPT !.missed = missed, !.retval = w]
      t == [next EXCEPT !.found = found, !.retval = w]
  IN  m \in Frames /\ m.list = list /\ t \in Frames /\ t.list = list

\* A turn of the find loop leaves the locals what they are.
LEMMA FrameTurn ==
  ASSUME NEW f \in Frames, NEW list \in Nat, NEW idx \in Int, NEW found \in Nat, NEW missed \in Nat,
         NEW w \in Word16
  PROVE  FrameTurned(f, list, idx, found, missed, w)
<1> DEFINE f1 == [f EXCEPT !.i = f.i + 1]
           f2 == [f1 EXCEPT !.list = list]
           f3 == [f2 EXCEPT !.idx = idx]
           m1 == [f3 EXCEPT !.missed = missed]
           m2 == [m1 EXCEPT !.retval = w]
           t1 == [f3 EXCEPT !.found = found]
           t2 == [t1 EXCEPT !.retval = w]
<1>1. /\ [[f EXCEPT !.i = @ + 1, !.list = list, !.idx = idx] EXCEPT !.missed = missed, !.retval = w] = m2
      /\ [[f EXCEPT !.i = @ + 1, !.list = list, !.idx = idx] EXCEPT !.found = found, !.retval = w] = t2
  OBVIOUS
<1>2. f1 \in Frames
  BY DEF Frames
<1> HIDE DEF f1
<1>3. f2 \in Frames /\ f2.list = list
  BY <1>2 DEF Frames
<1> HIDE DEF f2
<1>4. f3 \in Frames /\ f3.list = list
  BY <1>3 DEF Frames
<1> HIDE DEF f3
<1>5. m1 \in Frames /\ m1.list = list /\ t1 \in Frames /\ t1.list = list
  BY <1>4 DEF Frames
<1> HIDE DEF m1, t1
<1>6. m2 \in Frames /\ m2.list = list /\ t2 \in Frames /\ t2.list = list
  BY <1>5 DEF Frames
<1> HIDE DEF m2, t2
<1>q. QED
  BY <1>1, <1>6 DEF FrameTurned

-----------------------------------------------------------------------------
(* The find loop.                                                          *)
(* A turn leaves the list whole, from its new head on.                     *)
LEMMA RelistsIs ==
  ASSUME NEW in, NEW r, NEW g, NEW n, NEW BB, Benched(in, r, g, n, BB), Remembers(n, r, g),
         NEW list, NEW h, Relists(n, r, BB, list, h), NEW f, f.list = list
  PROVE  Arranged("find", in, [r EXCEPT !.h = h], f, g) /\ list \in Nat
<1> DEFINE m == [r EXCEPT !.h = h]
<1>1. m \in Machines(n, r, BB) /\ WholeFrom(n, m, BB, list)
  BY DEF Relists, WholeFrom
<1> HIDE DEF m
<1>2. Benched(in, m, g, n, BB) /\ Remembers(n, m, g)
  BY <1>1, WentOn
<1>3. Stage("find", n, m, BB, f, g)
  BY <1>1, <1>2 DEF Stage, Resting
<1>4. Arranged("find", in, m, f, g)
  BY <1>2, <1>3, BenchArranged
<1>5. list \in Nat
  <2>1. PICK d : Whole(n, m, BB, list, d)
    BY <1>1 DEF WholeFrom
  <2>2. n \in Nat /\ n >= 4
    BY DEF Benched
  <2>q. QED
    BY <2>1, <2>2, WholeIs
<1>q. QED
  BY <1>4, <1>5 DEF m

\* A turn of the find loop keeps the invariant.
LEMMA FindSound == ListInv /\ Find => ListInv'
<1> SUFFICES ASSUME ListInv, Find PROVE ListInv'
  OBVIOUS
<1> DEFINE n == ListSize(res.size)
           BB == Repaired(res, hist.block)
           this_find == core_list_find(res.h, fr.list, [idx |-> fr.idx, data16 |-> LowByte(fr.i)])
           r == core_list_reverse(res.h, fr.list)
           idx == IF fr.idx >= 0 THEN fr.idx + 1 ELSE fr.idx
           next == [fr EXCEPT !.i = @ + 1, !.list = r.list, !.idx = idx]
           used == IF this_find = NULL THEN 0 ELSE Data(r.h, this_find)
           x == Data(r.h, r.h.next[r.list])
<1>1. /\ cmPc = "find" /\ cmPc' = "find" /\ cmIn' = cmIn /\ clk' = clk /\ hist' = hist
      /\ cmPc \in Benching
  BY DEF Find, Finding, Benching
<1>2. next = [fr EXCEPT !.i = @ + 1, !.list = r.list, !.idx = IF @ >= 0 THEN @ + 1 ELSE @]
  OBVIOUS
<1>3. IF this_find = NULL
      THEN /\ fr' = [next EXCEPT !.missed = @ + 1, !.retval = U16(@ + BitOf(x, 8))]
           /\ res' = [res EXCEPT !.h = r.h]
      ELSE /\ fr' = [next EXCEPT !.found = @ + 1, !.retval = U16(@ + (used % 2) * BitOf(used, 9))]
           /\ res' = [res EXCEPT !.h = CacheNext(r.h, r.list, this_find)]
  BY <1>2 DEF Find
<1>4. /\ cmIn \in ParamSets /\ fr \in Frames /\ clk \in Clocks /\ clk.back \in {"calibrated", "stop"}
      /\ Benched(cmIn, res, hist, n, BB) /\ Stage("find", n, res, BB, fr, hist)
  BY <1>1, BenchFacts
<1>5. n \in Nat /\ n >= 4
  BY <1>4 DEF Benched
<1> HIDE DEF n, BB
<1>6. Remembers(n, res, hist) /\ WholeFrom(n, res, BB, fr.list)
  BY <1>4 DEF Stage
<1>7. PICK e : Whole(n, res, BB, fr.list, e)
  BY <1>6 DEF WholeFrom
<1>8. Searched(n, res, BB, this_find, r)
  BY <1>5, <1>7, SearchedIs
<1> HIDE DEF this_find, r
<1>9. /\ fr.idx \in Int /\ fr.found \in Nat /\ fr.missed \in Nat /\ fr.retval \in Word16
      /\ idx \in Int
  BY <1>4 DEF Frames
<1>10. next.missed = fr.missed /\ next.found = fr.found /\ next.retval = fr.retval
  BY <1>4 DEF Frames
<1>11. Relists(n, res, BB, r.list, r.h) /\ x \in Nat
  BY <1>8 DEF Searched
<1>12. r.list \in Nat
  BY <1>4, <1>6, <1>11, RelistsIs
<1>13. CASE this_find = NULL
  <2> DEFINE w == U16(fr.retval + BitOf(x, 8))
             k == fr.missed + 1
  <2>1. w \in Word16 /\ k \in Nat
    BY <1>9, <1>11, AddedIs
  <2>2. fr' = [next EXCEPT !.missed = k, !.retval = w] /\ res' = [res EXCEPT !.h = r.h]
    BY <1>3, <1>10, <1>13
  <2> HIDE DEF w, k, x, idx
  <2>3. fr' \in Frames /\ fr'.list = r.list
    <3>1. FrameTurned(fr, r.list, idx, fr.found, k, w)
      BY <1>4, <1>9, <1>12, <2>1, FrameTurn
    <3>q. QED
      BY <2>2, <3>1 DEF FrameTurned
  <2>4. Arranged("find", cmIn, res', fr', hist)
    BY <1>4, <1>6, <1>11, <2>2, <2>3, RelistsIs
  <2>q. QED
    BY <1>1, <1>4, <2>3, <2>4, BenchSound
<1>14. CASE this_find # NULL
  <2> DEFINE w == U16(fr.retval + (used % 2) * BitOf(used, 9))
             k == fr.found + 1
             h2 == CacheNext(r.h, r.list, this_find)
  <2>1. used \in Nat /\ Relists(n, res, BB, r.list, h2)
    BY <1>8, <1>14 DEF Searched
  <2>2. w \in Word16 /\ k \in Nat
    <3> HIDE DEF used, x, idx, next, h2
    <3>1. U16(fr.retval + (used % 2) * BitOf(used, 9)) \in Word16
      BY ONLY <1>9, <2>1, AddedIs
    <3>q. QED
      BY <1>9, <3>1
  <2>3. fr' = [next EXCEPT !.found = k, !.retval = w] /\ res' = [res EXCEPT !.h = h2]
    BY <1>3, <1>10, <1>14
  <2> HIDE DEF w, k, x, idx, used, h2
  <2>4. fr' \in Frames /\ fr'.list = r.list
    <3>1. FrameTurned(fr, r.list, idx, k, fr.missed, w)
      BY <1>4, <1>9, <1>12, <2>2, FrameTurn
    <3>q. QED
      BY <2>3, <3>1 DEF FrameTurned
  <2>5. Arranged("find", cmIn, res', fr', hist)
    BY <1>4, <1>6, <2>1, <2>3, <2>4, RelistsIs
  <2>q. QED
    BY <1>1, <1>4, <2>4, <2>5, BenchSound
<1>q. QED
  BY <1>13, <1>14

(* The order of the cells is kept before the sort.                         *)
LEMMA Reordered ==
  ASSUME NEW n, NEW r, NEW g, Remembers(n, r, g), NEW order
  PROVE  LET k == [g EXCEPT !.order = order]
         IN  Remembers(n, r, k) /\ k.order = order /\ k.block = g.block
<1> DEFINE k == [g EXCEPT !.order = order]
<1>1. Remembered(n, g)
  BY DEF Remembers
<1>2. g = [h |-> g.h, list |-> g.list, mat |-> g.mat, block |-> g.block, order |-> g.order]
  BY <1>1 DEF Remembered
<1>3. /\ k.h = g.h /\ k.list = g.list /\ k.mat = g.mat /\ k.block = g.block /\ k.order = order
      /\ k = [h |-> k.h, list |-> k.list, mat |-> k.mat, block |-> k.block, order |-> k.order]
  BY <1>2
<1> HIDE DEF k
<1>4. Remembered(n, k)
  BY <1>1, <1>3 DEF Remembered
<1>5. Remembers(n, r, k)
  BY <1>3, <1>4 DEF Remembers
<1>q. QED
  BY <1>3, <1>5 DEF k

\* The end of the find loop keeps the invariant, and the order is remembered.
LEMMA FindsDoneSound == ListInv /\ FindsDone => ListInv'
<1> SUFFICES ASSUME ListInv, FindsDone PROVE ListInv'
  OBVIOUS
<1> DEFINE n == ListSize(res.size)
           BB == Repaired(res, hist.block)
           order == CellsFrom(res.h, fr.list)
           w == U16(fr.retval + fr.found * 4 - fr.missed)
           f1 == [fr EXCEPT !.retval = w]
           f2 == [f1 EXCEPT !.insize = 1]
<1>1. /\ cmPc = "find" /\ cmPc \in Benching /\ cmIn' = cmIn /\ clk' = clk /\ res' = res
      /\ hist' = [hist EXCEPT !.order = order] /\ fr' = f2
      /\ cmPc' = IF fr.finder_idx > 0 THEN "sort" ELSE "remove"
  BY DEF FindsDone, Benching, Goto
<1>2. /\ cmIn \in ParamSets /\ fr \in Frames /\ clk \in Clocks /\ clk.back \in {"calibrated", "stop"}
      /\ Benched(cmIn, res, hist, n, BB) /\ Stage("find", n, res, BB, fr, hist)
  BY <1>1, BenchFacts
<1>3. n \in Nat /\ n >= 4
  BY <1>2 DEF Benched
<1> HIDE DEF n, BB
<1>4. Remembers(n, res, hist) /\ WholeFrom(n, res, BB, fr.list)
  BY <1>2 DEF Stage
<1>5. Remembers(n, res, hist') /\ hist'.order = order /\ hist'.block = hist.block
  BY <1>1, <1>4, Reordered
<1>6. PICK e : Whole(n, res, BB, fr.list, e)
  BY <1>4 DEF WholeFrom
<1>7. InSort("cmp_complex", n, res, BB, PosOf(order, n), fr.list, 1, e) /\ Ordered(n, order)
  <2>1. res.h \in Heap(n)
    BY <1>3, <1>6, WholeIs
  <2>2. n >= 2
    BY <1>3
  <2>q. QED
    BY <1>3, <1>6, <2>1, <2>2, SortStarts
<1> HIDE DEF order
<1>8. fr' \in Frames /\ fr'.list = fr.list /\ fr'.finder_idx = fr.finder_idx /\ fr'.insize = 1
  <2>1. fr.retval \in Nat /\ fr.found \in Nat /\ fr.missed \in Nat
    BY <1>2 DEF Frames, Word16
  <2>2. w \in Word16
    <3>1. fr.retval + fr.found * 4 - fr.missed \in Int
      BY <2>1
    <3>q. QED
      BY <3>1, U16Is
  <2> HIDE DEF w
  <2>3. f1 \in Frames /\ f1.list = fr.list /\ f1.finder_idx = fr.finder_idx
    BY <1>2, <2>2 DEF Frames
  <2> HIDE DEF f1
  <2>4. f2 \in Frames /\ f2.list = fr.list /\ f2.finder_idx = fr.finder_idx /\ f2.insize = 1
    BY <2>3 DEF Frames
  <2> HIDE DEF f2
  <2>q. QED
    BY <1>1, <2>4
<1>9. fr.finder_idx \in Int
  BY <1>2 DEF Frames
<1>10. Stage(cmPc', n, res, BB, fr', hist')
  <2>1. CASE fr.finder_idx > 0
    <3>1. cmPc' = "sort"
      BY <1>1, <2>1
    <3>q. QED
      BY <1>5, <1>7, <1>8, <3>1 DEF Stage, Resting
  <2>2. CASE ~ (fr.finder_idx > 0)
    <3>1. cmPc' = "remove"
      BY <1>1, <2>2
    <3>q. QED
      BY <1>4, <1>5, <1>8, <2>2, <3>1 DEF Stage, Resting
  <2>q. QED
    BY <2>1, <2>2
<1>11. Benched(cmIn, res, hist', n, BB)
  BY <1>2, <1>5 DEF Benched
<1>12. Arranged(cmPc', cmIn, res', fr', hist')
  BY <1>1, <1>10, <1>11, BenchArranged
<1>13. cmPc' \in Benching
  BY <1>1 DEF Benching
<1>q. QED
  BY <1>1, <1>2, <1>8, <1>12, <1>13, BenchSound

-----------------------------------------------------------------------------
(* The sorts in core_bench_list.                                           *)
(* A pass of one of them.                                                  *)
Passed(cmp, n, r, BB, pos, w, f, f2, g, m, last) ==
  /\ m \in Machines(n, r, BB) /\ Benched(cmIn, m, g, n, BB) /\ Remembers(n, m, g)
  /\ f2 \in Frames /\ f2.finder_idx = f.finder_idx
  /\ ~ last => \E e : InSort(cmp, n, m, BB, pos, f2.list, f2.insize, e)
  /\ last => SortedWhole(cmp, n, m, BB, pos, f2.list) /\ f2.insize = 1

\* A pass of either sort goes on with it or ends it.
LEMMA BenchSortIs ==
  ASSUME NEW cmp \in Cmps, NEW after, BenchSort(cmp, after), fr \in Frames,
         NEW n, NEW BB, Benched(cmIn, res, hist, n, BB), Remembers(n, res, hist),
         NEW pos, NEW e, InSort(cmp, n, res, BB, pos, fr.list, fr.insize, e)
  PROVE  \E last \in BOOLEAN :
           /\ Passed(cmp, n, res, BB, pos, fr.insize, fr, fr', hist, res', last)
           /\ cmPc' = (IF last THEN after ELSE cmPc)
<1>1. PICK s \in {SortPass(res, fr.list, fr.insize, cmp)} :
        res' = s.m /\ SortStep(s) /\ (IF s.nmerges <= 1 THEN Goto(after) ELSE UNCHANGED cmPc)
  BY DEF BenchSort
<1>2. n \in Nat /\ n >= 4 /\ n >= 2
  BY DEF Benched
<1>3. Swept(cmp, n, res, BB, pos, fr.insize, s)
  <2>1. s = SortPass(res, fr.list, fr.insize, cmp)
    BY <1>1
  <2>q. QED
    BY <1>2, <2>1, SweptIs
<1>4. Able(n, res, BB)
  BY DEF InSort, Whole
<1>5. /\ s.m \in Machines(n, res, BB) /\ s.list \in Nat
      /\ \E d : InSort(cmp, n, s.m, BB, pos, s.list, 2 * fr.insize, d)
      /\ s.nmerges <= 1 => SortedWhole(cmp, n, s.m, BB, pos, s.list)
  BY <1>2, <1>3, <1>4, SweptOn
<1>6. /\ fr' \in Frames /\ fr'.list = s.list /\ fr'.finder_idx = fr.finder_idx
      /\ s.nmerges <= 1 => fr'.insize = 1
      /\ ~ (s.nmerges <= 1) => fr'.insize = 2 * fr.insize
  BY <1>1, <1>5, SortStepIs
<1>7. Benched(cmIn, s.m, hist, n, BB) /\ Remembers(n, s.m, hist)
  BY <1>5, WentOn
<1>8. CASE s.nmerges <= 1
  <2>1. Passed(cmp, n, res, BB, pos, fr.insize, fr, fr', hist, res', TRUE) /\ cmPc' = after
    BY <1>1, <1>5, <1>6, <1>7, <1>8 DEF Passed, Goto
  <2>q. QED
    BY <2>1
<1>9. CASE ~ (s.nmerges <= 1)
  <2>1. Passed(cmp, n, res, BB, pos, fr.insize, fr, fr', hist, res', FALSE) /\ cmPc' = cmPc
    BY <1>1, <1>5, <1>6, <1>7, <1>9 DEF Passed
  <2>q. QED
    BY <2>1
<1>q. QED
  BY <1>8, <1>9

\* A sorted list is whole.
LEMMA SortedIsWhole ==
  ASSUME NEW cmp, NEW n, NEW r, NEW BB, NEW pos, NEW list, SortedWhole(cmp, n, r, BB, pos, list)
  PROVE  WholeFrom(n, r, BB, list)
BY DEF SortedWhole, WholeFrom

\* A pass of the sort by data keeps the invariant.
LEMMA SortByDataSound == ListInv /\ SortByData => ListInv'
<1> SUFFICES ASSUME ListInv, SortByData PROVE ListInv'
  OBVIOUS
<1> DEFINE n == ListSize(res.size)
           BB == Repaired(res, hist.block)
           pos == PosOf(hist.order, n)
<1>1. /\ cmPc = "sort" /\ cmPc \in Benching /\ cmIn' = cmIn /\ clk' = clk /\ hist' = hist
      /\ BenchSort("cmp_complex", "remove")
  BY DEF SortByData, BenchSort, Benching
<1>2. /\ cmIn \in ParamSets /\ fr \in Frames /\ clk \in Clocks /\ clk.back \in {"calibrated", "stop"}
      /\ Benched(cmIn, res, hist, n, BB) /\ Stage("sort", n, res, BB, fr, hist)
  BY <1>1, BenchFacts
<1>3. /\ Remembers(n, res, hist) /\ Ordered(n, hist.order)
      /\ \E e : InSort("cmp_complex", n, res, BB, pos, fr.list, fr.insize, e)
  BY <1>2 DEF Stage
<1> HIDE DEF n, BB, pos
<1>4. PICK e : InSort("cmp_complex", n, res, BB, pos, fr.list, fr.insize, e)
  BY <1>3
<1>5. PICK last \in BOOLEAN :
        /\ Passed("cmp_complex", n, res, BB, pos, fr.insize, fr, fr', hist, res', last)
        /\ cmPc' = (IF last THEN "remove" ELSE cmPc)
  <2>1. "cmp_complex" \in Cmps
    BY DEF Cmps
  <2>q. QED
    BY <1>1, <1>2, <1>3, <1>4, <2>1, BenchSortIs
<1>6. /\ fr' \in Frames /\ Benched(cmIn, res', hist, n, BB) /\ Remembers(n, res', hist)
  BY <1>5 DEF Passed
<1>7. cmPc' \in Benching /\ Stage(cmPc', n, res', BB, fr', hist)
  <2>1. CASE last
    <3>1. cmPc' = "remove"
      BY <1>5, <2>1
    <3>2. SortedWhole("cmp_complex", n, res', BB, PosOf(hist.order, n), fr'.list) /\ fr'.insize = 1
      BY <1>5, <2>1 DEF Passed, pos
    <3>3. WholeFrom(n, res', BB, fr'.list)
      BY <3>2, SortedIsWhole
    <3>q. QED
      BY <1>3, <1>6, <3>1, <3>2, <3>3 DEF Stage, Resting, Benching
  <2>2. CASE ~ last
    <3>1. cmPc' = "sort"
      BY <1>1, <1>5, <2>2
    <3>2. \E d : InSort("cmp_complex", n, res', BB, PosOf(hist.order, n), fr'.list, fr'.insize, d)
      BY <1>5, <2>2 DEF Passed, pos
    <3>q. QED
      BY <1>3, <1>6, <3>1, <3>2 DEF Stage, Resting, Benching
  <2>q. QED
    BY <2>1, <2>2
<1>8. Arranged(cmPc', cmIn, res', fr', hist)
  BY <1>6, <1>7, BenchArranged
<1>q. QED
  BY <1>1, <1>2, <1>6, <1>7, <1>8, BenchSound

\* A pass of the sort by idx keeps the invariant.
LEMMA SortByIdxSound == ListInv /\ SortByIdx => ListInv'
<1> SUFFICES ASSUME ListInv, SortByIdx PROVE ListInv'
  OBVIOUS
<1> DEFINE n == ListSize(res.size)
           BB == Repaired(res, hist.block)
<1>1. /\ cmPc = "sortidx" /\ cmPc \in Benching /\ cmIn' = cmIn /\ clk' = clk /\ hist' = hist
      /\ BenchSort("cmp_idx", "crc")
  BY DEF SortByIdx, BenchSort, Benching
<1>2. /\ cmIn \in ParamSets /\ fr \in Frames /\ clk \in Clocks /\ clk.back \in {"calibrated", "stop"}
      /\ Benched(cmIn, res, hist, n, BB) /\ Stage("sortidx", n, res, BB, fr, hist)
  BY <1>1, BenchFacts
<1>3. Remembers(n, res, hist) /\ SortingOn("cmp_idx", n, res, BB, fr.list, fr.insize)
  BY <1>2 DEF Stage
<1> HIDE DEF n, BB
<1>4. PICK pos, e : InSort("cmp_idx", n, res, BB, pos, fr.list, fr.insize, e)
  BY <1>3 DEF SortingOn
<1>5. PICK last \in BOOLEAN :
        /\ Passed("cmp_idx", n, res, BB, pos, fr.insize, fr, fr', hist, res', last)
        /\ cmPc' = (IF last THEN "crc" ELSE cmPc)
  <2>1. "cmp_idx" \in Cmps
    BY DEF Cmps
  <2>q. QED
    BY <1>1, <1>2, <1>3, <1>4, <2>1, BenchSortIs
<1>6. /\ fr' \in Frames /\ Benched(cmIn, res', hist, n, BB) /\ Remembers(n, res', hist)
  BY <1>5 DEF Passed
<1>7. cmPc' \in Benching /\ Stage(cmPc', n, res', BB, fr', hist)
  <2>1. CASE last
    <3>1. cmPc' = "crc" /\ SortedWhole("cmp_idx", n, res', BB, pos, fr'.list)
      BY <1>5, <2>1 DEF Passed
    <3>q. QED
      BY <1>6, <3>1 DEF Stage, Resting, Benching
  <2>2. CASE ~ last
    <3>1. cmPc' = "sortidx"
      BY <1>1, <1>5, <2>2
    <3>2. SortingOn("cmp_idx", n, res', BB, fr'.list, fr'.insize)
      BY <1>5, <2>2 DEF Passed, SortingOn
    <3>q. QED
      BY <1>6, <3>1, <3>2 DEF Stage, Resting, Benching
  <2>q. QED
    BY <2>1, <2>2
<1>8. Arranged(cmPc', cmIn, res', fr', hist)
  BY <1>6, <1>7, BenchArranged
<1>q. QED
  BY <1>1, <1>2, <1>6, <1>7, <1>8, BenchSound

-----------------------------------------------------------------------------
(* The removal, its undoing and the CRC.                                   *)
LEMMA AkinOn ==
  ASSUME NEW in, NEW r, NEW g, NEW n, NEW BB, Benched(in, r, g, n, BB), NEW m, Akin(r, m),
         m.iterations = r.iterations
  PROVE  Benched(in, m, g, n, BB)
<1>1. Fit(in, r) /\ Placed(in, r) /\ n = ListSize(r.size) /\ BB = Repaired(r, g.block)
      /\ n \in Nat /\ n >= 4
  BY DEF Benched
<1>2. m.iterations \in Nat
  BY <1>1 DEF Fit
<1>3. Fit(in, m) /\ Placed(in, m) /\ ListSize(m.size) = n /\ Repaired(m, g.block) = BB
  BY <1>1, <1>2, AkinIs
<1>q. QED
  BY <1>1, <1>3 DEF Benched

(* Another heap, and the first one again.                                  *)
Reheaped(r, h, m) == m = [r EXCEPT !.h = h]
\* Another heap, and the old one again, give the record as it was.
LEMMA HeapChanged ==
  ASSUME NEW n, NEW r, NEW BB, r \in Machines(n, r, BB), NEW h, NEW m, Reheaped(r, h, m)
  PROVE  /\ Akin(r, m) /\ Akin(m, r) /\ m.iterations = r.iterations /\ m.h = h
         /\ Reheaped(m, r.h, r)
<1> DEFINE k == [m EXCEPT !.h = r.h]
           F == {"seed1", "seed2", "seed3", "iterations", "size", "crc", "crclist", "crcmatrix",
                 "crcstate", "far", "list", "h", "mat", "block"}
<1>1. r = [f \in F |-> r[f]]
  BY DEF Machines
<1>2. m = [f \in F |-> IF f = "h" THEN h ELSE r[f]]
  BY <1>1 DEF Reheaped
<1>3. k = [f \in F |-> IF f = "h" THEN r.h ELSE m[f]]
  BY <1>2
<1>4. k = r
  BY <1>1, <1>2, <1>3
<1>5. /\ m.seed1 = r.seed1 /\ m.seed2 = r.seed2 /\ m.seed3 = r.seed3 /\ m.size = r.size /\ m.mat = r.mat
      /\ m.iterations = r.iterations /\ m.h = h
  BY <1>2
<1>q. QED
  BY <1>4, <1>5 DEF Akin, Reheaped

\* Removing an item keeps the invariant.
LEMMA RemoveItemSound == ListInv /\ RemoveItem => ListInv'
<1> SUFFICES ASSUME ListInv, RemoveItem PROVE ListInv'
  OBVIOUS
<1> DEFINE n == ListSize(res.size)
           BB == Repaired(res, hist.block)
           r == core_list_remove(res.h, res.h.next[fr.list])
<1>1. /\ cmPc = "remove" /\ cmPc \in Benching /\ cmIn' = cmIn /\ clk' = clk /\ hist' = hist
      /\ cmPc' = "undo" /\ res' = [res EXCEPT !.h = r.h] /\ fr' = [fr EXCEPT !.removed = r.removed]
  BY DEF RemoveItem, Benching, Goto
<1>2. /\ cmIn \in ParamSets /\ fr \in Frames /\ clk \in Clocks /\ clk.back \in {"calibrated", "stop"}
      /\ Benched(cmIn, res, hist, n, BB) /\ Stage("remove", n, res, BB, fr, hist)
  BY <1>1, BenchFacts
<1>3. n \in Nat /\ n >= 4
  BY <1>2 DEF Benched
<1> HIDE DEF n, BB
<1>4. Remembers(n, res, hist) /\ WholeFrom(n, res, BB, fr.list) /\ fr.insize = 1
  BY <1>2 DEF Stage
<1>5. PICK e : Whole(n, res, BB, fr.list, e)
  BY <1>4 DEF WholeFrom
<1>6. /\ fr.list = e[1] /\ res \in Machines(n, res, BB) /\ Chain(n, res.h.next, e, n - 1)
  BY <1>3, <1>5, WholeIs
<1>7. r.removed \in Nat
  <2>1. r.removed = res.h.next[res.h.next[fr.list]]
    BY DEF core_list_remove
  <2>2. 1 \in 1 .. n - 1 /\ 2 \in 1 .. n - 1 /\ 3 \in 1 .. (n - 1) + 1 /\ 1 + 1 = 2 /\ 2 + 1 = 3
    BY <1>3
  <2>3. res.h.next[e[1]] = e[2] /\ res.h.next[e[2]] = e[3] /\ e[3] \in 0 .. n
    BY <1>6, <2>2 DEF Chain
  <2>q. QED
    BY <1>3, <1>6, <2>1, <2>3
<1> HIDE DEF r
<1>8. fr' \in Frames /\ fr'.list = fr.list /\ fr'.insize = 1 /\ fr'.removed = r.removed
  BY <1>1, <1>2, <1>4, <1>7 DEF Frames
<1>9. Akin(res, res') /\ res'.iterations = res.iterations
  BY <1>1, <1>6, HeapChanged DEF Reheaped
<1>10. Benched(cmIn, res', hist, n, BB)
  BY <1>2, <1>9, AkinOn
<1>11. TakenOut(n, res', BB, fr', hist)
  BY <1>1, <1>4, <1>5, <1>8 DEF TakenOut, r
<1>12. Stage("undo", n, res', BB, fr', hist)
  BY <1>8, <1>11 DEF Stage, Resting
<1>13. Arranged("undo", cmIn, res', fr', hist)
  BY <1>10, <1>12, BenchArranged
<1>q. QED
  BY <1>1, <1>2, <1>8, <1>13, BenchSound DEF Benching

(* What the undoing finds: a heap with one cell out of the list.           *)
Undoing(n, r, BB, f, g, u, e) ==
  /\ Whole(n, u, BB, f.list, e) /\ Remembers(n, u, g)
  /\ Akin(r, u) /\ u.iterations = r.iterations
  /\ f.list = e[1] /\ e[1] \in 1 .. n
  /\ r.h \in Heap(n) /\ Chain(n, r.h.next, Without(e, n - 1), n - 2)
  /\ [r EXCEPT !.h = core_list_undo_remove(@, f.removed, @.next[f.list])] = u

\* With an item removed there is the list it was removed from.
LEMMA UndoingIs ==
  ASSUME NEW n \in Nat, n >= 4, NEW r, NEW BB, NEW f, NEW g, TakenOut(n, r, BB, f, g)
  PROVE  \E u, e : Undoing(n, r, BB, f, g, u, e)
<1>1. PICK u, e : /\ Whole(n, u, BB, f.list, e) /\ Remembers(n, u, g)
                  /\ r = [u EXCEPT !.h = core_list_remove(u.h, u.h.next[f.list]).h]
                  /\ f.removed = core_list_remove(u.h, u.h.next[f.list]).removed
  BY DEF TakenOut
<1> DEFINE q == core_list_remove(u.h, u.h.next[f.list])
<1>2. /\ f.list = e[1] /\ f.list \in 1 .. n /\ u.h \in Heap(n) /\ u \in Machines(n, u, BB)
      /\ Chain(n, u.h.next, e, n - 1)
  BY <1>1, WholeIs
<1>3. Removed(n, u.h, e, q)
  BY <1>2, RemovedIs
<1> HIDE DEF q
<1>4. /\ q.h \in Heap(n) /\ q.h.next[e[1]] = e[2] /\ Chain(n, q.h.next, Without(e, n - 1), n - 2)
      /\ core_list_undo_remove(q.h, q.removed, e[2]) = u.h
  BY <1>3 DEF Removed
<1>5. Akin(r, u) /\ u.iterations = r.iterations /\ r.h = q.h /\ [r EXCEPT !.h = u.h] = u
  <2>1. r = [u EXCEPT !.h = q.h]
    BY <1>1 DEF q
  <2> DEFINE z == q.h
  <2>2. r = [u EXCEPT !.h = z]
    BY <2>1
  <2> HIDE DEF z
  <2>3. Reheaped(u, z, r)
    BY <2>2 DEF Reheaped
  <2>4. Akin(r, u) /\ u.iterations = r.iterations /\ r.h = z /\ Reheaped(r, u.h, u)
    BY <1>2, <2>3, HeapChanged
  <2>q. QED
    BY <2>4 DEF z, Reheaped
<1>6. f.removed = q.removed
  BY <1>1 DEF q
<1>7. core_list_undo_remove(r.h, f.removed, r.h.next[f.list]) = u.h
  BY <1>2, <1>4, <1>5, <1>6
<1>8. [r EXCEPT !.h = core_list_undo_remove(@, f.removed, @.next[f.list])] = u
  <2> DEFINE z == core_list_undo_remove(r.h, f.removed, r.h.next[f.list])
  <2>1. [r EXCEPT !.h = core_list_undo_remove(@, f.removed, @.next[f.list])] = [r EXCEPT !.h = z]
    OBVIOUS
  <2>2. z = u.h
    BY <1>7
  <2> HIDE DEF z
  <2>q. QED
    BY <1>5, <2>1, <2>2
<1>9. Undoing(n, r, BB, f, g, u, e)
  BY <1>1, <1>2, <1>4, <1>5, <1>8 DEF Undoing
<1>q. QED
  BY <1>9

\* Putting the item back keeps the invariant.
LEMMA UndoRemoveSound == ListInv /\ UndoRemove => ListInv'
<1> SUFFICES ASSUME ListInv, UndoRemove PROVE ListInv'
  OBVIOUS
<1> DEFINE n == ListSize(res.size)
           BB == Repaired(res, hist.block)
           wanted == [idx |-> fr.idx, data16 |-> IF fr.i = 0 THEN 0 ELSE LowByte(fr.i - 1)]
           f == core_list_find(res.h, fr.list, wanted)
           finder == IF f = NULL THEN res.h.next[fr.list] ELSE f
           w == CrcOfList(res.h, fr.list, finder, fr.retval)
<1>1. /\ cmPc = "undo" /\ cmPc \in Benching /\ cmIn' = cmIn /\ clk' = clk /\ hist' = hist
      /\ cmPc' = "sortidx" /\ fr' = [fr EXCEPT !.retval = w]
      /\ res' = [res EXCEPT !.h = core_list_undo_remove(@, fr.removed, @.next[fr.list])]
  BY DEF UndoRemove, Benching, Goto
<1>2. /\ cmIn \in ParamSets /\ fr \in Frames /\ clk \in Clocks /\ clk.back \in {"calibrated", "stop"}
      /\ Benched(cmIn, res, hist, n, BB) /\ Stage("undo", n, res, BB, fr, hist)
  BY <1>1, BenchFacts
<1>3. n \in Nat /\ n >= 4 /\ n - 2 \in Nat /\ 1 \in 1 .. n - 2
  BY <1>2 DEF Benched
<1> HIDE DEF n, BB
<1>4. TakenOut(n, res, BB, fr, hist) /\ fr.insize = 1
  BY <1>2 DEF Stage
<1>5. PICK u, e : Undoing(n, res, BB, fr, hist, u, e)
  BY <1>3, <1>4, UndoingIs
<1>6. /\ Whole(n, u, BB, fr.list, e) /\ Remembers(n, u, hist)
      /\ Akin(res, u) /\ u.iterations = res.iterations
      /\ fr.list = e[1] /\ fr.list \in 1 .. n
      /\ res.h \in Heap(n) /\ Chain(n, res.h.next, Without(e, n - 1), n - 2)
      /\ res' = u
  BY <1>1, <1>5 DEF Undoing
<1>7. res.h.next \in Pointers(n)
  BY <1>3, <1>6, HeapIs
<1>8. finder \in 0 .. n
  <2>1. Without(e, n - 1)[1] = e[1]
    <3>1. 1 \in 1 .. n - 1
      BY <1>3
    <3>q. QED
      BY <3>1 DEF Without
  <2>2. FoundIn(f, Without(e, n - 1), n - 2)
    BY <1>3, <1>6, <1>7, <2>1, FindIn
  <2> HIDE DEF f
  <2>3. f \in 0 .. n
    <3>1. PICK i \in 1 .. (n - 2) + 1 : f = Without(e, n - 1)[i]
      BY <2>2 DEF FoundIn
    <3>2. Without(e, n - 1) \in [1 .. (n - 2) + 1 -> 0 .. n]
      BY <1>6 DEF Chain
    <3>q. QED
      BY <3>1, <3>2
  <2>4. res.h.next[fr.list] \in 0 .. n
    BY <1>6, <1>7 DEF Pointers
  <2>q. QED
    BY <2>3, <2>4
<1> HIDE DEF finder
<1>9. w \in Word16
  <2>1. fr.retval \in Word16
    BY <1>2 DEF Frames
  <2>q. QED
    BY <1>3, <1>6, <1>8, <2>1, CrcOfListIs
<1> HIDE DEF w
<1>10. fr' \in Frames /\ fr'.list = fr.list /\ fr'.insize = 1
  BY <1>1, <1>2, <1>4, <1>9 DEF Frames
<1>11. Benched(cmIn, res', hist, n, BB)
  BY <1>2, <1>6, AkinOn
<1>12. SortingOn("cmp_idx", n, u, BB, fr.list, 1)
  <2>1. n >= 2 /\ u.h \in Heap(n)
    BY <1>3, <1>6, WholeIs
  <2>q. QED
    BY <1>3, <1>6, <2>1, SortStarts DEF SortingOn
<1>13. Stage("sortidx", n, res', BB, fr', hist)
  BY <1>6, <1>10, <1>12 DEF Stage, Resting
<1>14. Arranged("sortidx", cmIn, res', fr', hist)
  BY <1>11, <1>13, BenchArranged
<1>q. QED
  BY <1>1, <1>2, <1>10, <1>14, BenchSound DEF Benching

-----------------------------------------------------------------------------
(* The end of core_bench_list, and the invariant.                          *)
(* Sorted by index the list starts with its head again.                    *)
LEMMA EndsWhole ==
  ASSUME NEW n \in Nat, n >= 4, NEW r, NEW BB, NEW g, Remembers(n, r, g), NEW pos, NEW list,
         SortedWhole("cmp_idx", n, r, BB, pos, list)
  PROVE  list = 1 /\ WholeFrom(n, r, BB, 1) /\ Able(n, r, BB) /\ r \in Machines(n, r, BB)
<1>1. PICK e : Whole(n, r, BB, list, e) /\ Sorted("cmp_idx", n, pos, n - 1, e, r.h)
  BY DEF SortedWhole
<1>2. /\ list = e[1] /\ Able(n, r, BB) /\ r \in Machines(n, r, BB)
      /\ Chain(n, r.h.next, e, n - 1) /\ CellsOf(e, n - 1) = 1 .. n - 1
  BY <1>1, WholeIs
<1>3. HeadFirst(n, r.h.idx)
  <2>1. HeadFirst(n, g.h.idx) /\ r.h.idx = g.h.idx
    BY DEF Remembers, Remembered, Alike
  <2>q. QED
    BY <2>1
<1>4. e[1] = 1
  <2>1. n >= 3
    OBVIOUS
  <2>q. QED
    BY <1>1, <1>2, <1>3, <2>1, HeadIsFirst
<1>q. QED
  BY <1>1, <1>2, <1>4 DEF WholeFrom

\* The end of core_bench_list keeps the invariant.
LEMMA BenchEndSound == ListInv /\ BenchEnd => ListInv'
<1> SUFFICES ASSUME ListInv, BenchEnd PROVE ListInv'
  OBVIOUS
<1> DEFINE n == ListSize(res.size)
           BB == Repaired(res, hist.block)
           retval == CrcOfList(res.h, fr.list, res.h.next[fr.list], fr.retval)
           crc == crcu16(retval, res.crc)
           d == IF fr.finder_idx < 0 /\ clk.i = 0 THEN crc ELSE res.crclist
<1>1. /\ cmPc = "crc" /\ cmPc \in Benching /\ cmIn' = cmIn /\ hist' = hist
      /\ IF fr.finder_idx > 0
         THEN BenchList(-1) /\ Goto("find") /\ UNCHANGED clk
         ELSE /\ clk' = [clk EXCEPT !.i = @ + 1]
              /\ Goto(IF clk.i + 1 < Iterations THEN "list" ELSE clk.back)
              /\ UNCHANGED fr
  BY DEF BenchEnd, Benching
<1>2. res' = [res EXCEPT !.crc = crc, !.crclist = d]
  BY DEF BenchEnd
<1>3. /\ cmIn \in ParamSets /\ fr \in Frames /\ clk \in Clocks /\ clk.back \in {"calibrated", "stop"}
      /\ Benched(cmIn, res, hist, n, BB) /\ Stage("crc", n, res, BB, fr, hist)
  BY <1>1, BenchFacts
<1>4. n \in Nat /\ n >= 4 /\ Fit(cmIn, res) /\ Placed(cmIn, res)
  BY <1>3 DEF Benched
<1>5. Remembers(n, res, hist) /\ \E pos : SortedWhole("cmp_idx", n, res, BB, pos, fr.list)
  BY <1>3 DEF Stage
<1>6. /\ fr.list = 1 /\ WholeFrom(n, res, BB, 1) /\ Able(n, res, BB) /\ res \in Machines(n, res, BB)
  <2> HIDE DEF n, BB
  <2>q. QED
    BY <1>4, <1>5, EndsWhole
<1>7. res.list = 1 /\ res.h \in Heap(n)
  BY <1>5 DEF Remembers, Alike
<1>8. Rested(cmIn, res, hist)
  <2>1. res.iterations \in Nat
    BY <1>4 DEF Fit
  <2>q. QED
    BY <1>4, <1>5, <1>6, <1>7, <2>1 DEF Rested
<1> HIDE DEF n, BB
<1>9. crc \in Word16
  <2>1. res.h.next \in Pointers(n)
    BY <1>4, <1>7, HeapIs
  <2>2. 1 \in 1 .. n /\ fr.list \in 1 .. n /\ res.h.next[fr.list] \in 0 .. n
    BY <1>4, <1>6, <2>1 DEF Pointers
  <2>3. fr.retval \in Word16
    BY <1>3 DEF Frames
  <2>4. retval \in Word16
    BY <1>4, <1>7, <2>2, <2>3, CrcOfListIs
  <2> HIDE DEF retval
  <2>5. retval \in Nat
    BY <2>4 DEF Word16
  <2>6. res.crc \in Word16
    BY <1>6 DEF Machines
  <2>q. QED
    BY <2>5, <2>6, CrcsAre
<1> HIDE DEF crc
<1>10. d \in Word16 \cup {res.crclist}
  BY <1>9
<1> HIDE DEF d
<1>11. Recounted(res, 0, crc, d)
  <2>1. res.iterations \in Nat /\ res.list \in Nat /\ 0 \in Nat
    BY <1>4, <1>7 DEF Fit
  <2>q. QED
    BY <1>6, <1>9, <1>10, <2>1, CountsKept
<1>12. res' \in Kin(res) /\ res'.list = res.list
  BY <1>2, <1>11 DEF Recounted
<1>13. CASE fr.finder_idx > 0
  <2>1. /\ fr' = [finder_idx |-> -1, idx |-> -1, i |-> 0, list |-> res.list, found |-> 0,
                  missed |-> 0, retval |-> 0, insize |-> 1, removed |-> NULL]
        /\ cmPc' = "find" /\ clk' = clk
    BY <1>1, <1>13 DEF BenchList, Goto
  <2>2. fr' \in Frames /\ fr'.list = 1
    <3>1. -1 \in Int /\ res.list \in Nat
      BY <1>7
    <3>q. QED
      BY <1>7, <2>1, <3>1, FrameStart
  <2>3. /\ Fit(cmIn, res') /\ Placed(cmIn, res') /\ ListSize(res'.size) = n
        /\ Repaired(res', hist.block) = BB
        /\ Remembers(n, res', hist) /\ WholeFrom(n, res', BB, 1)
    BY <1>4, <1>5, <1>6, <1>12, KinOf DEF WholeFrom, n, BB
  <2>4. Benched(cmIn, res', hist, n, BB)
    BY <1>4, <2>3 DEF Benched
  <2>5. Stage("find", n, res', BB, fr', hist)
    BY <2>2, <2>3 DEF Stage, Resting
  <2>6. Arranged("find", cmIn, res', fr', hist)
    BY <2>4, <2>5, BenchArranged
  <2>q. QED
    BY <1>1, <1>3, <2>1, <2>2, <2>6, BenchSound DEF Benching
<1>14. CASE ~ (fr.finder_idx > 0)
  <2>1. /\ clk' = [clk EXCEPT !.i = clk.i + 1] /\ fr' = fr
        /\ cmPc' \in {"list", clk.back}
    BY <1>1, <1>14 DEF Goto
  <2>2. clk' \in Clocks /\ clk'.back = clk.back
    <3> DEFINE k == clk.i + 1
               c1 == [clk EXCEPT !.i = k]
    <3>a. clk \in Clocks
      BY <1>3
    <3>b. clk.i \in Nat
      BY <3>a DEF Clocks
    <3>c. k \in Nat
      BY <3>b
    <3> HIDE DEF k
    <3>1. c1 \in Clocks /\ c1.back = clk.back
      BY ONLY <3>a, <3>c DEF Clocks
    <3> HIDE DEF c1
    <3>2. clk' = c1
      BY <2>1 DEF c1, k
    <3>q. QED
      BY <3>1, <3>2
  <2>3. cmPc' \in Resting /\ cmPc' \notin {"init", "sortinit"} \cup Benching
    BY <1>3, <2>1 DEF Resting, Benching
  <2>4. Arranged(cmPc', cmIn, res', fr', hist)
    BY <1>8, <1>12, <2>3, RestsOn
  <2>q. QED
    BY <1>1, <1>3, <2>1, <2>2, <2>3, <2>4 DEF ListInv, Sound
<1>q. QED
  BY <1>13, <1>14

\* A step that changes nothing keeps the invariant.
LEMMA StutterSound == ListInv /\ UNCHANGED cmVars => ListInv'
BY DEF ListInv, Sound, cmVars

CoreMarkSpec == CoreMarkInit /\ [][CoreMarkNext]_cmVars

(* Every step of the benchmark keeps the invariant of its list, its blocks *)
(* and its matrices.                                                       *)
THEOREM ListInductive == CoreMarkSpec => []ListInv
<1>1. CoreMarkInit => ListInv
  BY InitSound
<1>2. ListInv /\ [CoreMarkNext]_cmVars => ListInv'
  <2> SUFFICES ASSUME ListInv, [CoreMarkNext]_cmVars PROVE ListInv'
    OBVIOUS
  <2>1. CASE GetSeeds BY <2>1, GetSeedsSound
  <2>2. CASE InitData BY <2>2, InitDataSound
  <2>3. CASE SortInit BY <2>3, SortInitSound
  <2>4. CASE Calibrate BY <2>4, CalibrateSound
  <2>5. CASE Calibrated BY <2>5, CalibratedSound
  <2>6. CASE StartTime BY <2>6, StartTimeSound
  <2>7. CASE Stop BY <2>7, StopSound
  <2>8. CASE ListByIdx BY <2>8, ListByIdxSound
  <2>9. CASE Find BY <2>9, FindSound
  <2>10. CASE FindsDone BY <2>10, FindsDoneSound
  <2>11. CASE SortByData BY <2>11, SortByDataSound
  <2>12. CASE RemoveItem BY <2>12, RemoveItemSound
  <2>13. CASE UndoRemove BY <2>13, UndoRemoveSound
  <2>14. CASE SortByIdx BY <2>14, SortByIdxSound
  <2>15. CASE BenchEnd BY <2>15, BenchEndSound
  <2>16. CASE Check BY <2>16, CheckSound
  <2>17. CASE UNCHANGED cmVars BY <2>17, StutterSound
  <2>q. QED
    BY <2>1, <2>2, <2>3, <2>4, <2>5, <2>6, <2>7, <2>8, <2>9, <2>10, <2>11, <2>12, <2>13, <2>14,
       <2>15, <2>16, <2>17 DEF CoreMarkNext
<1>q. QED
  BY <1>1, <1>2, PTL DEF CoreMarkSpec

-----------------------------------------------------------------------------
(* The blocks.                                                             *)
(* The list is somewhere in the machine at every statement.                *)
LEMMA WholeAble ==
  ASSUME NEW n \in Nat, n >= 4, NEW r, NEW BB, NEW list, WholeFrom(n, r, BB, list)
  PROVE  r.far \in 0 .. r.size - 1 /\ r.size \in Nat
<1>1. PICK e : Whole(n, r, BB, list, e)
  BY DEF WholeFrom
<1>2. Able(n, r, BB) /\ r \in Machines(n, r, BB)
  BY <1>1, WholeIs
<1>q. QED
  BY <1>2 DEF Able, Machines

\* A list that is being sorted is whole between two passes.
LEMMA InSortWhole ==
  ASSUME NEW cmp, NEW n, NEW r, NEW BB, NEW pos, NEW list, NEW w, NEW e,
         InSort(cmp, n, r, BB, pos, list, w, e)
  PROVE  WholeFrom(n, r, BB, list)
BY DEF InSort, WholeFrom

\* At every statement but one the list is whole.
LEMMA StageWhole ==
  ASSUME NEW pc \in Resting \cup Benching, pc # "undo", NEW n, NEW r, NEW BB, NEW f, NEW g,
         Stage(pc, n, r, BB, f, g)
  PROVE  \E list : /\ WholeFrom(n, r, BB, list)
                   /\ pc \in Benching => list = f.list
<1>1. CASE pc \in Resting
  <2>1. WholeFrom(n, r, BB, 1) /\ pc \notin Benching
    BY <1>1 DEF Stage, Resting, Benching
  <2>q. QED
    BY <2>1
<1>2. CASE pc = "find"
  BY <1>2 DEF Stage
<1>3. CASE pc = "sort"
  <2>1. PICK e : InSort("cmp_complex", n, r, BB, PosOf(g.order, n), f.list, f.insize, e)
    BY <1>3 DEF Stage
  <2>2. WholeFrom(n, r, BB, f.list)
    BY <2>1, InSortWhole
  <2>q. QED
    BY <2>2
<1>4. CASE pc = "remove"
  BY <1>4 DEF Stage
<1>5. CASE pc = "sortidx"
  <2>1. PICK pos, e : InSort("cmp_idx", n, r, BB, pos, f.list, f.insize, e)
    BY <1>5 DEF Stage, SortingOn
  <2>2. WholeFrom(n, r, BB, f.list)
    BY <2>1, InSortWhole
  <2>q. QED
    BY <2>2
<1>6. CASE pc = "crc"
  <2>1. PICK pos : SortedWhole("cmp_idx", n, r, BB, pos, f.list)
    BY <1>6 DEF Stage
  <2>2. WholeFrom(n, r, BB, f.list)
    BY <2>1, SortedIsWhole
  <2>q. QED
    BY <2>2
<1>q. QED
  BY <1>1, <1>2, <1>3, <1>4, <1>5, <1>6 DEF Benching

\* With an item removed no scan ran past the end.
LEMMA TakenAble ==
  ASSUME NEW n \in Nat, n >= 4, NEW r, NEW BB, NEW f, NEW g, TakenOut(n, r, BB, f, g)
  PROVE  r.far \in 0 .. r.size - 1 /\ r.size \in Nat
<1>1. PICK u, e : /\ Whole(n, u, BB, f.list, e) /\ Remembers(n, u, g)
                  /\ r = [u EXCEPT !.h = core_list_remove(u.h, u.h.next[f.list]).h]
  BY DEF TakenOut
<1>2. u.far \in 0 .. u.size - 1 /\ u.size \in Nat
  BY <1>1, WholeAble DEF WholeFrom
<1>3. u \in Machines(n, u, BB)
  BY <1>1, WholeIs
<1>4. r.far = u.far /\ r.size = u.size
  BY <1>1, <1>3 DEF Machines
<1>q. QED
  BY <1>2, <1>4

\* No scan ever ran past the end.
LEMMA FarIs ==
  ASSUME ListInv, cmPc \notin {"idle", "main", "init"}
  PROVE  /\ Fit(cmIn, res) /\ Placed(cmIn, res)
         /\ res.far \in 0 .. res.size - 1 /\ res.size \in Nat
<1> DEFINE n == ListSize(res.size)
<1>1. cmPc \in {"sortinit"} \cup Resting \cup Benching
  BY DEF ListInv, Sound
<1>2. CASE cmPc = "sortinit"
  <2>1. Arranging(cmIn, res, fr)
    BY <1>2 DEF ListInv, Sound
  <2>2. Fit(cmIn, res) /\ Placed(cmIn, res) /\ SortingOn("cmp_idx", n, res, Zeroed(res.size), fr.list, fr.insize)
    BY <2>1 DEF Arranging
  <2>3. n \in Nat /\ n >= 4
    BY <2>2, FitIs DEF Roomy
  <2> HIDE DEF n
  <2>4. PICK pos, e : InSort("cmp_idx", n, res, Zeroed(res.size), pos, fr.list, fr.insize, e)
    BY <2>2 DEF SortingOn
  <2>5. WholeFrom(n, res, Zeroed(res.size), fr.list)
    BY <2>4, InSortWhole
  <2>q. QED
    BY <2>2, <2>3, <2>5, WholeAble
<1>3. CASE cmPc \in Resting \cup Benching
  <2> DEFINE BB == Repaired(res, hist.block)
  <2>1. Arranged(cmPc, cmIn, res, fr, hist)
    BY <1>3 DEF ListInv, Sound
  <2>2. Fit(cmIn, res) /\ Placed(cmIn, res) /\ Stage(cmPc, n, res, BB, fr, hist)
    BY <2>1 DEF Arranged
  <2>3. n \in Nat /\ n >= 4
    BY <2>2, FitIs DEF Roomy
  <2> HIDE DEF n, BB
  <2>4. CASE cmPc = "undo"
    BY <2>2, <2>3, <2>4, TakenAble DEF Stage
  <2>5. CASE cmPc # "undo"
    <3>1. PICK list : WholeFrom(n, res, BB, list)
      BY <1>3, <2>2, <2>5, StageWhole
    <3>q. QED
      BY <2>2, <2>3, <3>1, WholeAble
  <2>q. QED
    BY <2>4, <2>5
<1>q. QED
  BY <1>1, <1>2, <1>3

(* The three algorithms share one array: the list, and the matrices with   *)
(* their alignment, stay inside their thirds of it, and a scan of the      *)
(* damaged input never runs past its own.                                  *)
THEOREM BlocksKept == CoreMarkSpec => []StaysInBlock
<1>1. ListInv => StaysInBlock
  <2> SUFFICES ASSUME ListInv, cmPc \notin {"idle", "main", "init"}
               PROVE  /\ 12 * ListSize(res.size) <= res.size
                      /\ Block(2) <= res.mat.first /\ res.mat.end <= Block(3)
                      /\ res.far < res.size
    BY DEF StaysInBlock
  <2>1. /\ Fit(cmIn, res) /\ Placed(cmIn, res)
        /\ res.far \in 0 .. res.size - 1 /\ res.size \in Nat
    BY FarIs
  <2>2. 12 * ListSize(res.size) <= res.size
    BY <2>1, FitIs DEF Roomy
  <2>3. cmIn.base \in Nat
    BY <2>1, SetsAssumption DEF Fit
  <2>4. Block(2) = cmIn.base + res.size /\ Block(3) = cmIn.base + 2 * res.size
    BY <2>1, <2>3 DEF Block
  <2>5. Block(2) <= res.mat.first /\ res.mat.end <= Block(3)
    BY <2>1, <2>4 DEF Placed
  <2>6. res.far < res.size
    BY <2>1
  <2>q. QED
    BY <2>2, <2>5, <2>6
<1>q. QED
  BY <1>1, ListInductive, PTL

-----------------------------------------------------------------------------
(* Every iteration the same.                                               *)
(* What hist keeps is a list sorted by index, from its head on.            *)
LEMMA FirstList ==
  ASSUME NEW n, NEW g, Remembered(n, g)
  PROVE  \E pos, d : /\ Chain(n, g.h.next, d, n - 1) /\ CellsOf(d, n - 1) = 1 .. n - 1
                     /\ Sorted("cmp_idx", n, pos, n - 1, d, g.h) /\ d[1] = g.list
BY DEF Remembered

(* When core_bench_list is done the list holds what it held before the     *)
(* first iteration, in the same order; A is as it was, and so is the state *)
(* machine's input if the damage can be undone.                            *)
THEOREM IterationsAlike == CoreMarkSpec => []Restored
<1>1. ListInv => Restored
  <2> SUFFICES ASSUME ListInv, cmPc = "crc"
               PROVE  /\ DistinctIdx => Contents(res.h, res.list) = Contents(hist.h, hist.list)
                      /\ res.mat = hist.mat
                      /\ Repairable => res.block = hist.block
    BY DEF Restored
  <2> DEFINE n == ListSize(res.size)
             BB == Repaired(res, hist.block)
  <2>1. Benched(cmIn, res, hist, n, BB) /\ Stage("crc", n, res, BB, fr, hist)
    BY BenchFacts DEF Benching
  <2>2. n \in Nat /\ n >= 4 /\ n >= 3
    BY <2>1 DEF Benched
  <2>3. Remembers(n, res, hist) /\ \E pos : SortedWhole("cmp_idx", n, res, BB, pos, fr.list)
    BY <2>1 DEF Stage
  <2>4. Remembered(n, hist) /\ res.list = 1 /\ res.mat = hist.mat /\ Alike(n, res.h, hist.h) /\ hist.list = 1
    BY <2>3 DEF Remembers, Remembered
  <2>5. ASSUME DistinctIdx PROVE Contents(res.h, res.list) = Contents(hist.h, hist.list)
    <3>1. Distinct(n, hist.h)
      BY <2>5 DEF DistinctIdx, Distinct
    <3> HIDE DEF n, BB
    <3>2. PICK pos : SortedWhole("cmp_idx", n, res, BB, pos, fr.list)
      BY <2>3
    <3>3. PICK e : Whole(n, res, BB, fr.list, e) /\ Sorted("cmp_idx", n, pos, n - 1, e, res.h)
      BY <3>2 DEF SortedWhole
    <3>4. fr.list = e[1] /\ Chain(n, res.h.next, e, n - 1) /\ CellsOf(e, n - 1) = 1 .. n - 1
      BY <2>2, <3>3, WholeIs
    <3>5. fr.list = 1
      <4>1. Remembers(n, res, hist)
        BY <2>3
      <4>2. fr.list = 1 /\ WholeFrom(n, res, BB, 1) /\ Able(n, res, BB) /\ res \in Machines(n, res, BB)
        BY ONLY <2>2, <3>2, <4>1, EndsWhole
      <4>q. QED
        BY <4>2
    <3>6. PICK pos2, d : /\ Chain(n, hist.h.next, d, n - 1) /\ CellsOf(d, n - 1) = 1 .. n - 1
                         /\ Sorted("cmp_idx", n, pos2, n - 1, d, hist.h) /\ d[1] = hist.list
      BY <2>4, FirstList
    <3>7. Contents(res.h, e[1]) = Contents(hist.h, d[1])
      <4>1. ByIndex(n, res.h, pos, e) /\ ByIndex(n, hist.h, pos2, d)
        BY <3>3, <3>4, <3>6 DEF ByIndex
      <4>q. QED
        BY <2>2, <2>4, <3>1, <4>1, ContentsAre
    <3>8. res.list = e[1] /\ hist.list = d[1]
      BY <2>4, <3>4, <3>5, <3>6
    <3>q. QED
      BY <3>7, <3>8
  <2>6. ASSUME Repairable PROVE res.block = hist.block
    <3>1. Fixable(res, hist.block)
      BY <2>6 DEF Repairable, Fixable
    <3>2. res.block \in BB
      <4> HIDE DEF n, BB
      <4>1. PICK pos : SortedWhole("cmp_idx", n, res, BB, pos, fr.list)
        BY <2>3
      <4>2. res \in Machines(n, res, BB)
        BY <2>2, <2>3, <4>1, EndsWhole
      <4>q. QED
        BY <4>2 DEF Machines
    <3>q. QED
      BY <3>1, <3>2 DEF Repaired
  <2>q. QED
    BY <2>4, <2>5, <2>6
<1>q. QED
  BY <1>1, ListInductive, PTL

-----------------------------------------------------------------------------
(* No cell is lost.                                                        *)
(* CellsFrom of a chain: as many cells as it has, all different.           *)
Listed(n, h, e, L) ==
  LET c == CellsFrom(h, e[1])
  IN  /\ c \in Seq(1 .. n) /\ Len(c) = L /\ \A i \in 1 .. L : c[i] = e[i]
      /\ Cardinality({c[i] : i \in DOMAIN c}) = L

\* CellsFrom gives the cells of a list that ends, in order and each once.
LEMMA ListedIs ==
  ASSUME NEW n \in Nat, NEW h \in Heap(n), NEW e, NEW L \in Nat, Chain(n, h.next, e, L)
  PROVE  Listed(n, h, e, L)
<1> DEFINE c == CellsFrom(h, e[1])
<1>1. h.next \in Pointers(n)
  BY HeapIs
<1>2. c \in Seq(1 .. n) /\ Len(c) = L /\ \A i \in 1 .. L : c[i] = e[i]
  BY <1>1, CellsFromIs
<1> HIDE DEF c
<1>3. \A i, j \in 1 .. L : e[i] = e[j] => i = j
  BY DEF Chain
<1>4. Cardinality({e[i] : i \in 1 .. L}) = L
  BY <1>3, DifferentCells
<1>5. DOMAIN c = 1 .. L
  BY <1>2
<1>6. {c[i] : i \in DOMAIN c} = {e[i] : i \in 1 .. L}
  BY <1>2, <1>5
<1>7. Cardinality({c[i] : i \in DOMAIN c}) = L
  BY <1>4, <1>6
<1>q. QED
  BY <1>2, <1>7 DEF c, Listed

\* The invariant says that the list has its cells, each once.
LEMMA LinkedCells == ListInv => CellsLinked
<1> SUFFICES ASSUME ListInv, Running
             PROVE  LET c == Cells(fr.list)
                    IN  /\ Len(c) = ListSize(res.size) - 1 - (IF cmPc = "undo" THEN 1 ELSE 0)
                        /\ Cardinality({c[i] : i \in DOMAIN c}) = Len(c)
  BY DEF CellsLinked
<1> DEFINE n == ListSize(res.size)
           BB == Repaired(res, hist.block)
<1>1. cmPc \in Benching
  BY DEF Running, Benching
<1>2. Benched(cmIn, res, hist, n, BB) /\ Stage(cmPc, n, res, BB, fr, hist)
  BY <1>1, BenchFacts
<1>3. n \in Nat /\ n >= 4 /\ n - 1 \in Nat /\ n - 2 \in Nat /\ n - 2 = n - 1 - 1 /\ n - 1 = n - 1 - 0
  BY <1>2 DEF Benched
<1> HIDE DEF n, BB
<1>4. CASE cmPc # "undo"
  <2>1. WholeFrom(n, res, BB, fr.list)
    BY <1>1, <1>2, <1>4, StageWhole
  <2>2. PICK e : Whole(n, res, BB, fr.list, e)
    BY <2>1 DEF WholeFrom
  <2>3. fr.list = e[1] /\ res.h \in Heap(n) /\ Chain(n, res.h.next, e, n - 1)
    BY <1>3, <2>2, WholeIs
  <2>4. Listed(n, res.h, e, n - 1)
    BY <1>3, <2>3, ListedIs
  <2>q. QED
    BY <1>3, <1>4, <2>3, <2>4 DEF Listed, Cells, n
<1>5. CASE cmPc = "undo"
  <2>1. TakenOut(n, res, BB, fr, hist)
    BY <1>2, <1>5 DEF Stage
  <2>2. PICK u, e : Undoing(n, res, BB, fr, hist, u, e)
    BY <1>3, <2>1, UndoingIs
  <2> DEFINE d == Without(e, n - 1)
  <2>3. fr.list = e[1] /\ res.h \in Heap(n) /\ Chain(n, res.h.next, d, n - 2)
    BY <2>2 DEF Undoing
  <2>4. d[1] = e[1]
    <3>1. 1 \in 1 .. n - 1
      BY <1>3
    <3>q. QED
      BY <3>1 DEF Without
  <2> HIDE DEF d
  <2>5. Listed(n, res.h, d, n - 2)
    BY <1>3, <2>3, ListedIs
  <2>q. QED
    BY <1>3, <1>5, <2>3, <2>4, <2>5 DEF Listed, Cells, n
<1>q. QED
  BY <1>4, <1>5

\* The invariant says that the sort by data is one, and stable.
LEMMA StableSort == ListInv => SortedStable
<1> SUFFICES ASSUME ListInv, cmPc = "remove", fr.finder_idx > 0 PROVE SortedStable
  BY DEF SortedStable
<1> DEFINE n == ListSize(res.size)
           BB == Repaired(res, hist.block)
           c == Cells(fr.list)
           pos == PosOf(hist.order, n)
<1>1. Benched(cmIn, res, hist, n, BB) /\ Stage("remove", n, res, BB, fr, hist)
  BY BenchFacts DEF Benching
<1>2. n \in Nat /\ n >= 4 /\ n - 1 \in Nat
  BY <1>1 DEF Benched
<1>3. /\ SortedWhole("cmp_complex", n, res, BB, pos, fr.list) /\ Ordered(n, hist.order)
      /\ Remembers(n, res, hist)
  BY <1>1 DEF Stage
<1> HIDE DEF n, BB
<1>4. PICK e : Whole(n, res, BB, fr.list, e) /\ Sorted("cmp_complex", n, pos, n - 1, e, res.h)
  BY <1>3 DEF SortedWhole
<1>5. /\ fr.list = e[1] /\ res.h \in Heap(n) /\ Chain(n, res.h.next, e, n - 1)
      /\ CellsOf(e, n - 1) = 1 .. n - 1
  BY <1>2, <1>4, WholeIs
<1>6. Listed(n, res.h, e, n - 1)
  BY <1>2, <1>5, ListedIs
<1>7. Len(c) = n - 1 /\ \A i \in 1 .. n - 1 : c[i] = e[i]
  BY <1>5, <1>6 DEF Listed, Cells
<1> HIDE DEF c
<1>8. ASSUME NEW i \in 1 .. Len(c) - 1
      PROVE  \/ Cached(c[i]) < Cached(c[i + 1])
             \/ /\ Cached(c[i]) = Cached(c[i + 1])
                /\ (CHOOSE k \in DOMAIN hist.order : hist.order[k] = c[i])
                     < (CHOOSE k \in DOMAIN hist.order : hist.order[k] = c[i + 1])
  <2>1. i \in 1 .. n - 1 /\ i + 1 \in 1 .. n - 1 /\ i < i + 1
    BY <1>2, <1>7
  <2>2. <<e[i], e[i + 1]>> \in BeforeIn("cmp_complex", n, res.h, pos)
    BY <1>4, <2>1 DEF Sorted
  <2> DEFINE x == e[i]
             y == e[i + 1]
  <2>3. x \in 1 .. n - 1 /\ y \in 1 .. n - 1
    <3>1. x \in CellsOf(e, n - 1) /\ y \in CellsOf(e, n - 1)
      BY <2>1 DEF CellsOf
    <3>q. QED
      BY <1>5, <3>1
  <2>4. c[i] = x /\ c[i + 1] = y
    BY <1>7, <2>1
  <2> HIDE DEF x, y
  <2>5. Before("cmp_complex", res.h, pos, x, y)
    BY <2>2 DEF BeforeIn, x, y
  <2>6. \/ res.h.data16[x] % 128 < res.h.data16[y] % 128
        \/ res.h.data16[x] % 128 = res.h.data16[y] % 128 /\ pos[x] < pos[y]
    BY <2>5 DEF Before, Key
  <2>7. Cached(x) = res.h.data16[x] % 128 /\ Cached(y) = res.h.data16[y] % 128
    <3>1. res.h.info = [k \in 1 .. n |-> k]
      BY <1>3 DEF Remembers, Alike
    <3>2. res.h.info[x] = x /\ res.h.info[y] = y
      BY <1>2, <2>3, <3>1
    <3>q. QED
      BY <3>2 DEF Cached, Data
  <2>8. ASSUME NEW v \in 1 .. n - 1
        PROVE  pos[v] = CHOOSE k \in DOMAIN hist.order : hist.order[k] = v
    <3>1. \E k \in DOMAIN hist.order : hist.order[k] = v
      BY <1>3 DEF Ordered
    <3>2. v \in 1 .. n
      BY <1>2
    <3>q. QED
      BY <3>1, <3>2 DEF PosOf
  <2>q. QED
    BY <2>3, <2>4, <2>6, <2>7, <2>8
<1>q. QED
  BY <1>8 DEF SortedStable, c

(* Whatever find, reverse, cache, sort and remove do to the pointers, the  *)
(* list runs through each of its cells once and ends, and the sort by data *)
(* is in order and leaves alone the order of equal results.                *)
THEOREM ListKept == CoreMarkSpec => []ListSound
<1>1. ListInv => ListSound
  BY LinkedCells, StableSort DEF ListSound
<1>q. QED
  BY <1>1, ListInductive, PTL

-----------------------------------------------------------------------------
(* The time.                                                               *)
(* Quotients and remainders.                                               *)
LEMMA Divided ==
  ASSUME NEW x \in Int, NEW w \in Nat, w # 0
  PROVE  /\ x \div w \in Int /\ x % w \in Nat /\ x % w < w
         /\ x = (x \div w) * w + (x % w)
OBVIOUS

\* A number has one remainder.
LEMMA OneRemainder ==
  ASSUME NEW w \in Nat, w # 0, NEW q \in Int, NEW r \in Nat, r < w, NEW p \in Int, NEW s \in Nat, s < w,
         q * w + r = p * w + s
  PROVE  r = s
<1>1. CASE q = p
  BY <1>1
<1>2. CASE q < p
  <2>1. (p - q) * w >= w
    BY <1>2
  <2>2. (p - q) * w = r - s
    OBVIOUS
  <2>q. QED
    BY <2>1, <2>2
<1>3. CASE q > p
  <2>1. (q - p) * w >= w
    BY <1>3
  <2>2. (q - p) * w = s - r
    OBVIOUS
  <2>q. QED
    BY <2>1, <2>2
<1>q. QED
  BY <1>1, <1>2, <1>3

(* The cycle counter may wrap once: what has passed since it was read.     *)
LEMMA Elapsed ==
  ASSUME NEW start \in Nat, NEW t \in Nat, NEW w \in Nat, w # 0
  PROVE  (((start + t) % w) - start) % w = t % w
<1> DEFINE a == (start + t) % w
           k == (start + t) \div w
           b == (a - start) % w
           l == (a - start) \div w
           c == t % w
           m == t \div w
<1>1. k \in Int /\ a \in Nat /\ start + t = k * w + a
  BY Divided
<1> HIDE DEF a, k
<1>2. a - start \in Int
  BY <1>1
<1>3. l \in Int /\ b \in Nat /\ b < w /\ a - start = l * w + b
  BY <1>2, Divided
<1>4. m \in Int /\ c \in Nat /\ c < w /\ t = m * w + c
  BY Divided
<1> HIDE DEF b, l, c, m
<1>5. (l + k) * w + b = m * w + c
  <2>1. l * w \in Int /\ k * w \in Int /\ m * w \in Int /\ (l + k) * w = l * w + k * w
    BY <1>1, <1>3, <1>4
  <2>q. QED
    BY <1>1, <1>3, <1>4, <2>1
<1>6. l + k \in Int
  BY <1>1, <1>3
<1>7. b = c
  BY <1>3, <1>4, <1>5, <1>6, OneRemainder
<1>q. QED
  BY <1>7 DEF a, b, c

\* A remainder is no more than the number, and is the number if it is less than the divisor.
LEMMA Smaller ==
  ASSUME NEW t \in Nat, NEW w \in Nat, w # 0
  PROVE  t % w <= t /\ (t < w => t % w = t)
<1>1. t \div w \in Int /\ t % w \in Nat /\ t % w < w /\ t = (t \div w) * w + (t % w)
  BY Divided
<1>2. t \div w \in Nat
  OBVIOUS
<1>3. (t \div w) * w \in Nat
  BY <1>2, ProductIs
<1>4. ASSUME t < w PROVE t % w = t
  <2>1. t = 0 * w + t /\ 0 \in Int
    OBVIOUS
  <2>q. QED
    BY <1>1, <1>4, <2>1, OneRemainder
<1>q. QED
  BY <1>1, <1>3, <1>4

(* The seconds of so many ticks.                                           *)
LEMMA SecondsAre ==
  ASSUME NEW t \in Nat, NEW w \in Nat, w # 0
  PROVE  LET s == t \div w IN s \in Nat /\ s * w <= t /\ t < s * w + w
<1>1. t \div w \in Nat /\ t % w \in Nat /\ t % w < w /\ t = (t \div w) * w + (t % w)
  BY Divided
<1>2. (t \div w) * w \in Nat
  BY <1>1, ProductIs
<1>q. QED
  BY <1>1, <1>2

(* Ten seconds: as the calibration multiplies the iterations, by one more  *)
(* than ten over the seconds they took.                                    *)
LEMMA TenSecondsTake ==
  ASSUME NEW t \in Nat, NEW w \in Nat, w # 0, NEW s \in Nat, s * w <= t, t < s * w + w, s >= 1,
         t < 10 * w \/ t <= 100 * w
  PROVE  LET k == 1 + 10 \div s
         IN  k \in Nat /\ k * t >= 10 * w /\ k * t <= 100 * w /\ (k * t < 22 * w \/ k = 1)
<1>1. CASE s = 1
  BY <1>1
<1>2. CASE s = 2
  BY <1>2
<1>3. CASE s = 3
  BY <1>3
<1>4. CASE s = 4
  BY <1>4
<1>5. CASE s = 5
  BY <1>5
<1>6. CASE s = 6
  BY <1>6
<1>7. CASE s = 7
  BY <1>7
<1>8. CASE s = 8
  BY <1>8
<1>9. CASE s = 9
  BY <1>9
<1>10. CASE s = 10
  BY <1>10
<1>11. CASE s > 10
  <2>1. 10 \div s = 0
    BY <1>11
  <2>2. s * w >= 11 * w
    BY <1>11
  <2>3. t >= 11 * w
    <3>1. s * w \in Int /\ 11 * w \in Int
      OBVIOUS
    <3>q. QED
      BY <2>2, <3>1
  <2>q. QED
    BY <2>1, <2>3
<1>q. QED
  BY <1>1, <1>2, <1>3, <1>4, <1>5, <1>6, <1>7, <1>8, <1>9, <1>10, <1>11

-----------------------------------------------------------------------------
(* The iterations and what they take.                                      *)
Given(in) == get_seed_32(4, in.seeds)

(* Before a run of the calibration, in it and after it.                    *)
Trying(it, rate) ==
  \/ it = 0 /\ rate = 0
  \/ it \in Nat \ {0} /\ rate \in Rates /\ it * rate < TicksPerSec
Tried(it, rate) ==
  /\ it \in Nat \ {0}
  /\ (rate = 0 /\ it = 10) \/ (rate \in Rates /\ it * rate < 10 * TicksPerSec)
Aimed(in, it, rate) ==
  /\ it \in Nat /\ rate \in Rates \cup {0}
  /\ Given(in) = 0 => /\ rate \in Rates /\ it * rate >= 10 * TicksPerSec
                      /\ it * rate <= 100 * TicksPerSec /\ it * rate < ClockWrap

Iterating == Benching \cup {"list"}

Timed(pc, in, it, c) ==
  /\ pc = "main" => c.rate = 0
  /\ pc \in {"init", "sortinit"} => c.rate = 0 /\ it = Given(in) /\ it \in Nat
  /\ pc = "calibrate" => Trying(it, c.rate)
  /\ pc = "calibrated" \/ (pc \in Iterating /\ c.back = "calibrated") => Tried(it, c.rate)
  /\ pc \in {"start", "stop"} \/ (pc \in Iterating /\ c.back = "stop") => Aimed(in, it, c.rate)
  /\ pc \in {"check", "done"} => /\ Aimed(in, it, c.rate) /\ c.rate \in Rates
                                 /\ c.start \in Nat /\ c.stop = (c.start + it * c.rate) % ClockWrap

Reported ==
  cmPc = "done" =>
    /\ out.short <=> TooShort
    /\ out.validated <=> SeedErrors + check_data_types + (IF TooShort THEN 1 ELSE 0) = 0

TimeInv == Timed(cmPc, cmIn, res.iterations, clk) /\ Reported

(* While the iterations run neither their number nor the rate changes.     *)
LEMMA IterationsTimed ==
  ASSUME NEW pc \in Iterating, NEW pc2, NEW in, NEW it, NEW c, NEW c2, Timed(pc, in, it, c),
         pc2 \in Iterating \cup {c.back}, c.back \in {"calibrated", "stop"},
         c2.rate = c.rate, c2.back = c.back
  PROVE  Timed(pc2, in, it, c2)
<1>1. pc2 \in Benching \cup {"list", "calibrated", "stop"}
  BY DEF Iterating
<1>2. pc2 \notin {"main", "init", "sortinit", "calibrate", "start", "check", "done"}
  BY <1>1 DEF Benching
<1>3. CASE c.back = "calibrated"
  <2>1. Tried(it, c2.rate)
    BY <1>3 DEF Timed
  <2>2. pc2 # "stop"
    BY <1>3 DEF Iterating, Benching
  <2>q. QED
    BY <1>2, <1>3, <2>1, <2>2 DEF Timed
<1>4. CASE c.back = "stop"
  <2>1. Aimed(in, it, c2.rate)
    BY <1>4 DEF Timed
  <2>2. pc2 # "calibrated"
    BY <1>4 DEF Iterating, Benching
  <2>q. QED
    BY <1>2, <1>4, <2>1, <2>2 DEF Timed
<1>q. QED
  BY <1>3, <1>4

(* The record results always has its iterations.                           *)
LEMMA HasIterations ==
  ASSUME ListInv, cmPc \in Benching
  PROVE  "iterations" \in DOMAIN res
<1> DEFINE n == ListSize(res.size)
           BB == Repaired(res, hist.block)
<1>1. Benched(cmIn, res, hist, n, BB) /\ Stage(cmPc, n, res, BB, fr, hist)
  BY BenchFacts
<1>2. n \in Nat /\ n >= 4
  BY <1>1 DEF Benched
<1> HIDE DEF n, BB
<1>3. CASE cmPc # "undo"
  <2>1. PICK list : WholeFrom(n, res, BB, list)
    BY <1>1, <1>3, StageWhole
  <2>2. PICK e : Whole(n, res, BB, list, e)
    BY <2>1 DEF WholeFrom
  <2>3. res \in Machines(n, res, BB)
    BY <1>2, <2>2, WholeIs
  <2>q. QED
    BY <2>3 DEF Machines
<1>4. CASE cmPc = "undo"
  <2>1. PICK u, e : /\ Whole(n, u, BB, fr.list, e)
                    /\ res = [u EXCEPT !.h = core_list_remove(u.h, u.h.next[fr.list]).h]
    BY <1>1, <1>4 DEF Stage, TakenOut
  <2>2. u \in Machines(n, u, BB)
    BY <1>2, <2>1, WholeIs
  <2>q. QED
    BY <2>1, <2>2 DEF Machines
<1>q. QED
  BY <1>3, <1>4

\* core_bench_list leaves the number of iterations alone.
LEMMA IterationsKept ==
  ASSUME ListInv,
         ListByIdx \/ Find \/ FindsDone \/ SortByData \/ RemoveItem \/ UndoRemove \/ SortByIdx \/ BenchEnd
  PROVE  res'.iterations = res.iterations
<1> DEFINE n == ListSize(res.size)
           BB == Repaired(res, hist.block)
<1>1. CASE ListByIdx \/ FindsDone
  BY <1>1 DEF ListByIdx, FindsDone
<1>2. CASE Find \/ RemoveItem \/ UndoRemove
  <2>1. PICK h : res' = [res EXCEPT !.h = h]
    BY <1>2 DEF Find, RemoveItem, UndoRemove
  <2>2. "iterations" \in DOMAIN res
    BY <1>2, HasIterations DEF Find, Finding, RemoveItem, UndoRemove, Benching
  <2>q. QED
    BY <2>1, <2>2
<1>3. CASE BenchEnd
  <2>1. PICK c, d : res' = [res EXCEPT !.crc = c, !.crclist = d]
    BY <1>3 DEF BenchEnd
  <2>2. "iterations" \in DOMAIN res
    BY <1>3, HasIterations DEF BenchEnd, Benching
  <2>q. QED
    BY <2>1, <2>2
<1>4. CASE SortByData \/ SortByIdx
  <2>1. cmPc \in {"sort", "sortidx"} /\ cmPc \in Benching
    BY <1>4 DEF SortByData, SortByIdx, Benching
  <2>2. fr \in Frames /\ Benched(cmIn, res, hist, n, BB) /\ Stage(cmPc, n, res, BB, fr, hist)
    BY <2>1, BenchFacts
  <2> HIDE DEF n, BB
  <2>3. Remembers(n, res, hist)
    BY <2>1, <2>2 DEF Stage
  <2>4. PICK cmp, after, pos, e :
          cmp \in Cmps /\ BenchSort(cmp, after) /\ InSort(cmp, n, res, BB, pos, fr.list, fr.insize, e)
    BY <1>4, <2>1, <2>2 DEF Stage, SortingOn, SortByData, SortByIdx, Cmps
  <2>5. PICK last \in BOOLEAN : Passed(cmp, n, res, BB, pos, fr.insize, fr, fr', hist, res', last)
    BY <2>2, <2>3, <2>4, BenchSortIs
  <2>6. res' \in Machines(n, res, BB)
    BY <2>5 DEF Passed
  <2>q. QED
    BY <2>6 DEF Machines
<1>q. QED
  BY <1>1, <1>2, <1>3, <1>4

-----------------------------------------------------------------------------
(* The initial data are of the run that was asked for.                     *)
LEMMA InitDataKeeps ==
  ASSUME ListInv, InitData
  PROVE  res'.iterations = res.iterations
<1> DEFINE h == core_list_init(res.size, res.seed1)
           mat == core_init_matrix(res.size, Block(2), MatrixSeed(res.seed1, res.seed2))
           block == core_init_state(res.size, res.seed1)
<1>1. Seeded(cmIn, res) /\ res' = [res EXCEPT !.h = h, !.mat = mat, !.block = block]
  BY DEF InitData, ListInv, Sound
<1> HIDE DEF h, mat, block
<1>2. res \in Starting(res.seed1, res.seed2, res.seed3, res.iterations, res.size, NoRes, NoRes, NoRes)
  BY <1>1 DEF Seeded
<1>3. res' \in Starting(res.seed1, res.seed2, res.seed3, res.iterations, res.size, h, mat, block)
  BY <1>1, <1>2, Filling
<1>q. QED
  BY <1>3 DEF Starting

\* The first sort keeps the iterations, and ends in the calibration if there are none.
LEMMA SortInitKeeps ==
  ASSUME ListInv, SortInit
  PROVE  /\ res'.iterations = res.iterations
         /\ cmPc' \in {"sortinit", IF res.iterations = 0 THEN "calibrate" ELSE "start"}
<1> DEFINE n == ListSize(res.size)
           BB == Zeroed(res.size)
<1>1. fr \in Frames /\ Arranging(cmIn, res, fr) /\ cmPc = "sortinit"
  BY DEF ListInv, Sound, SortInit
<1>2. Fit(cmIn, res) /\ SortingOn("cmp_idx", n, res, BB, fr.list, fr.insize)
  BY <1>1 DEF Arranging
<1>3. n \in Nat /\ n >= 4 /\ n >= 2 /\ "cmp_idx" \in Cmps
  BY <1>2, FitIs DEF Roomy, Cmps
<1>4. PICK pos, e : InSort("cmp_idx", n, res, BB, pos, fr.list, fr.insize, e)
  BY <1>2 DEF SortingOn
<1> HIDE DEF n, BB
<1>5. PICK s \in {SortPass(res, fr.list, fr.insize, "cmp_idx")} :
        IF s.nmerges <= 1
        THEN /\ res' = [s.m EXCEPT !.list = s.list]
             /\ Goto(IF res.iterations = 0 THEN "calibrate" ELSE "start")
        ELSE res' = s.m /\ UNCHANGED cmPc
  BY DEF SortInit
<1>6. Swept("cmp_idx", n, res, BB, pos, fr.insize, s)
  <2>1. s = SortPass(res, fr.list, fr.insize, "cmp_idx")
    BY <1>5
  <2>q. QED
    BY <1>3, <1>4, <2>1, SweptIs
<1>7. s.m \in Machines(n, res, BB)
  BY <1>6 DEF Swept
<1>8. s.m.iterations = res.iterations /\ [s.m EXCEPT !.list = s.list].iterations = s.m.iterations
  BY <1>7 DEF Machines
<1>q. QED
  BY <1>1, <1>5, <1>8 DEF Goto

(* The calibration, and the run that is timed.                             *)
LEMMA TimesTen ==
  ASSUME NEW a \in Nat, NEW r \in Nat
  PROVE  (10 * a) * r = 10 * (a * r) /\ 10 * r = r * 10
OBVIOUS

\* The start of a calibration run: ten times the iterations take no ten seconds.
LEMMA CalibrateTimed ==
  ASSUME ListInv, TimeInv, Calibrate
  PROVE  TimeInv'
<1>1. cmPc = "calibrate" /\ cmPc \in Resting /\ cmIn' = cmIn /\ iterate("calibrated")
  BY DEF Calibrate, Resting
<1>2. /\ clk \in Clocks /\ cmIn.start \in Nat /\ res.iterations \in Nat
      /\ ClearCrcs(res).iterations = res.iterations
      /\ \A i \in Nat : [ClearCrcs(res) EXCEPT !.iterations = i].iterations = i
  BY <1>1, RestFacts
<1> DEFINE i == IF res.iterations = 0 THEN 10 ELSE 10 * res.iterations
<1>3. res' = [ClearCrcs(res) EXCEPT !.iterations = i]
  <2>1. res' = [ClearCrcs(res) EXCEPT !.iterations = IF ClearCrcs(res).iterations = 0 THEN 10
                                                     ELSE 10 * ClearCrcs(res).iterations]
    BY DEF Calibrate
  <2>q. QED
    BY <1>2, <2>1
<1>4. res'.iterations = i
  BY <1>2, <1>3
<1>5. Trying(res.iterations, clk.rate)
  BY <1>1 DEF TimeInv, Timed
<1>6. clk'.back = "calibrated" /\ clk'.rate = clk.rate /\ cmPc' = "list"
  BY <1>1, <1>2, IterateIs
<1>7. Tried(i, clk.rate)
  <2>1. CASE res.iterations = 0 /\ clk.rate = 0
    BY <2>1 DEF Tried
  <2>2. CASE res.iterations \in Nat \ {0} /\ clk.rate \in Rates /\ res.iterations * clk.rate < TicksPerSec
    <3>1. clk.rate \in Nat /\ TicksPerSec \in Nat
      BY <2>2, ClockAssumption
    <3>2. i = 10 * res.iterations /\ i \in Nat \ {0}
      BY <2>2
    <3>3. i * clk.rate = 10 * (res.iterations * clk.rate)
      BY <1>2, <3>1, <3>2, TimesTen
    <3>4. res.iterations * clk.rate \in Nat
      BY <1>2, <3>1, ProductIs
    <3>5. i * clk.rate < 10 * TicksPerSec
      BY <2>2, <3>1, <3>3, <3>4
    <3>q. QED
      BY <2>2, <3>2, <3>5 DEF Tried
  <2>q. QED
    BY <1>5, <2>1, <2>2 DEF Trying
<1> HIDE DEF i
<1>8. Timed("list", cmIn, i, clk')
  BY <1>6, <1>7 DEF Timed, Iterating, Benching
<1>q. QED
  BY <1>1, <1>4, <1>6, <1>8 DEF TimeInv, Reported

\* The end of a calibration run: too short, or the iterations for ten seconds are known.
LEMMA CalibratedTimed ==
  ASSUME ListInv, TimeInv, Calibrated
  PROVE  TimeInv'
<1> DEFINE secs == time_in_secs(get_time(clk'))
           it == res.iterations
           rate == clk'.rate
           t == it * rate
<1>1. /\ cmPc = "calibrated" /\ cmPc \in Resting /\ cmIn' = cmIn /\ StopTime
      /\ IF secs < 1 THEN Goto("calibrate") /\ UNCHANGED res
         ELSE Goto("start") /\ res' = [res EXCEPT !.iterations = TenSeconds(@, secs)]
  BY DEF Calibrated, Resting
<1>2. /\ clk \in Clocks /\ it \in Nat
      /\ \A i \in Nat : [res EXCEPT !.iterations = i].iterations = i
  BY <1>1, RestFacts
<1>3. /\ clk' \in Clocks /\ clk'.start = clk.start
      /\ clk'.stop = (clk.start + it * rate) % ClockWrap
      /\ IF clk.rate = 0 THEN rate \in Rates ELSE rate = clk.rate
  BY <1>1, <1>2, StopTimeIs
<1>4. Tried(it, clk.rate)
  BY <1>1 DEF TimeInv, Timed
<1>5. TicksPerSec \in Nat /\ TicksPerSec # 0 /\ ClockWrap \in Nat /\ ClockWrap # 0
      /\ 22 * TicksPerSec <= ClockWrap
  BY ClockAssumption, RateAssumption
<1>6. rate \in Rates /\ it \in Nat \ {0}
  BY <1>3, <1>4, ClockAssumption DEF Tried
<1>7. rate \in Nat /\ rate <= 10 * TicksPerSec /\ 10 * rate < ClockWrap
  BY <1>6, ClockAssumption, RateAssumption
<1>8. t \in Nat
  BY <1>2, <1>7, ProductIs
<1>9. t < 10 * TicksPerSec \/ (t <= 100 * TicksPerSec /\ t < ClockWrap)
  <2>1. CASE clk.rate = 0 /\ it = 10
    <3>1. t = 10 * rate
      BY <2>1
    <3> HIDE DEF t
    <3>q. QED
      BY <1>5, <1>7, <3>1
  <2>2. CASE clk.rate \in Rates /\ it * clk.rate < 10 * TicksPerSec
    <3>1. rate = clk.rate
      BY <1>3, <2>2, ClockAssumption
    <3>q. QED
      BY <2>2, <3>1
  <2>q. QED
    BY <1>4, <2>1, <2>2 DEF Tried
<1> HIDE DEF t
<1>10. t < ClockWrap
  BY <1>5, <1>8, <1>9
<1>11. get_time(clk') = t
  <2>1. clk.start \in Nat
    BY <1>2 DEF Clocks
  <2>2. get_time(clk') = (((clk.start + t) % ClockWrap) - clk.start) % ClockWrap
    BY <1>3 DEF get_time, t
  <2>3. get_time(clk') = t % ClockWrap
    BY <1>5, <1>8, <2>1, <2>2, Elapsed
  <2>q. QED
    BY <1>5, <1>8, <1>10, <2>3, Smaller
<1>12. secs \in Nat /\ secs * TicksPerSec <= t /\ t < secs * TicksPerSec + TicksPerSec
  BY <1>5, <1>8, <1>11, SecondsAre DEF time_in_secs
<1> HIDE DEF secs
<1>13. CASE secs < 1
  <2>1. secs = 0
    BY <1>12, <1>13
  <2>2. t < TicksPerSec
    BY <1>5, <1>12, <2>1
  <2>3. cmPc' = "calibrate" /\ res' = res
    BY <1>1, <1>13 DEF Goto
  <2>4. Trying(it, rate)
    BY <1>6, <2>2 DEF Trying, t
  <2>5. Timed("calibrate", cmIn, it, clk')
    BY <2>4 DEF Timed, Iterating, Benching
  <2>q. QED
    BY <1>1, <2>3, <2>5 DEF TimeInv, Reported
<1>14. CASE ~ (secs < 1)
  <2> DEFINE k == 1 + 10 \div secs
             i2 == it * k
  <2>1. secs >= 1 /\ secs # 0
    BY <1>12, <1>14
  <2>2. k \in Nat /\ k * t >= 10 * TicksPerSec /\ k * t <= 100 * TicksPerSec /\ (k * t < 22 * TicksPerSec \/ k = 1)
    BY <1>5, <1>8, <1>9, <1>12, <2>1, TenSecondsTake
  <2>3. TenSeconds(it, secs) = i2
    BY <2>1 DEF TenSeconds
  <2> HIDE DEF k
  <2>4. i2 \in Nat /\ i2 * rate = k * t
    <3>1. i2 \in Nat
      BY <1>2, <2>2, ProductIs
    <3>2. \A a, b, c \in Nat : (a * b) * c = b * (a * c)
      OBVIOUS
    <3>q. QED
      BY <1>2, <1>7, <2>2, <3>1, <3>2 DEF t
  <2>5. k * t < ClockWrap
    <3>1. CASE k = 1
      BY <1>8, <1>10, <3>1
    <3>2. CASE k * t < 22 * TicksPerSec
      <4>1. k * t \in Nat
        BY <1>8, <2>2, ProductIs
      <4>q. QED
        BY <1>5, <3>2, <4>1
    <3>q. QED
      BY <2>2, <3>1, <3>2
  <2> HIDE DEF i2
  <2>6. Aimed(cmIn, i2, rate)
    BY <1>6, <2>2, <2>4, <2>5 DEF Aimed
  <2>7. cmPc' = "start" /\ res'.iterations = i2
    BY <1>1, <1>2, <1>14, <2>3, <2>4 DEF Goto
  <2>8. Timed("start", cmIn, i2, clk')
    BY <2>6 DEF Timed, Iterating, Benching
  <2>q. QED
    BY <1>1, <2>7, <2>8 DEF TimeInv, Reported
<1>q. QED
  BY <1>13, <1>14

-----------------------------------------------------------------------------
(* The run that is timed: start_time, and stop_time after it.              *)
LEMMA StartTimeTimed ==
  ASSUME ListInv, TimeInv, StartTime
  PROVE  TimeInv'
<1>1. cmPc = "start" /\ cmPc \in Resting /\ cmIn' = cmIn /\ iterate("stop") /\ res' = ClearCrcs(res)
  BY DEF StartTime, Resting
<1>2. clk \in Clocks /\ cmIn.start \in Nat /\ ClearCrcs(res).iterations = res.iterations
  BY <1>1, RestFacts
<1>3. clk'.back = "stop" /\ clk'.rate = clk.rate /\ cmPc' = "list"
  BY <1>1, <1>2, IterateIs
<1>4. Aimed(cmIn, res.iterations, clk.rate)
  BY <1>1 DEF TimeInv, Timed
<1>5. Timed("list", cmIn, res.iterations, clk')
  BY <1>3, <1>4 DEF Timed, Iterating, Benching
<1>q. QED
  BY <1>1, <1>2, <1>3, <1>5 DEF TimeInv, Reported

(* The rate is that of the calibration, or shows now.                      *)
LEMMA StopTimed ==
  ASSUME ListInv, TimeInv, Stop
  PROVE  TimeInv'
<1>1. cmPc = "stop" /\ cmPc \in Resting /\ cmIn' = cmIn /\ res' = res /\ StopTime /\ cmPc' = "check"
  BY DEF Stop, Resting, Goto
<1>2. clk \in Clocks /\ res.iterations \in Nat
  BY <1>1, RestFacts
<1>3. /\ clk' \in Clocks /\ clk'.start = clk.start
      /\ clk'.stop = (clk.start + res.iterations * clk'.rate) % ClockWrap
      /\ IF clk.rate = 0 THEN clk'.rate \in Rates ELSE clk'.rate = clk.rate
  BY <1>1, <1>2, StopTimeIs
<1>4. Aimed(cmIn, res.iterations, clk.rate)
  BY <1>1 DEF TimeInv, Timed
<1>5. 0 \notin Rates
  BY ClockAssumption
<1>6. clk'.rate \in Rates /\ Aimed(cmIn, res.iterations, clk'.rate)
  BY <1>3, <1>4, <1>5 DEF Aimed
<1>7. clk'.start \in Nat
  BY <1>3 DEF Clocks
<1>8. Timed("check", cmIn, res.iterations, clk')
  BY <1>3, <1>6, <1>7 DEF Timed, Iterating, Benching
<1>q. QED
  BY <1>1, <1>8 DEF TimeInv, Reported

(* The statements of core_bench_list, and the end of an iteration.         *)
LEMMA BenchTimed ==
  ASSUME ListInv, TimeInv,
         ListByIdx \/ Find \/ FindsDone \/ SortByData \/ RemoveItem \/ UndoRemove \/ SortByIdx \/ BenchEnd
  PROVE  TimeInv'
<1>1. cmPc \in Iterating /\ cmIn' = cmIn
  BY DEF Iterating, Benching, ListByIdx, Find, Finding, FindsDone, SortByData, BenchSort, RemoveItem,
         UndoRemove, SortByIdx, BenchEnd
<1>2. cmPc' \in Iterating \cup {clk.back} /\ (clk' = clk \/ clk' = [clk EXCEPT !.i = @ + 1])
  <2>1. CASE BenchEnd
    BY <2>1 DEF BenchEnd, Goto, Iterating, Benching
  <2>2. CASE ListByIdx \/ Find \/ FindsDone \/ RemoveItem \/ UndoRemove
    BY <2>2 DEF ListByIdx, Find, Finding, FindsDone, RemoveItem, UndoRemove, Goto, Iterating, Benching
  <2>3. CASE SortByData
    <3>1. PICK s : /\ IF s.nmerges <= 1 THEN Goto("remove") ELSE UNCHANGED cmPc
                   /\ clk' = clk /\ cmPc = "sort"
      BY <2>3 DEF SortByData, BenchSort
    <3>q. QED
      BY <3>1 DEF Goto, Iterating, Benching
  <2>4. CASE SortByIdx
    <3>1. PICK s : /\ IF s.nmerges <= 1 THEN Goto("crc") ELSE UNCHANGED cmPc
                   /\ clk' = clk /\ cmPc = "sortidx"
      BY <2>4 DEF SortByIdx, BenchSort
    <3>q. QED
      BY <3>1 DEF Goto, Iterating, Benching
  <2>q. QED
    BY <2>1, <2>2, <2>3, <2>4
<1>3. clk \in Clocks /\ clk.back \in {"calibrated", "stop"}
  BY <1>1 DEF ListInv, Iterating
<1>4. clk'.rate = clk.rate /\ clk'.back = clk.back
  <2>1. [clk EXCEPT !.i = @ + 1].rate = clk.rate /\ [clk EXCEPT !.i = @ + 1].back = clk.back
    BY <1>3 DEF Clocks
  <2>q. QED
    BY <1>2, <2>1
<1>5. res'.iterations = res.iterations
  BY IterationsKept
<1>6. Timed(cmPc', cmIn, res.iterations, clk')
  <2>1. Timed(cmPc, cmIn, res.iterations, clk)
    BY DEF TimeInv
  <2>q. QED
    BY <1>1, <1>2, <1>3, <1>4, <2>1, IterationsTimed
<1>7. cmPc' # "done"
  BY <1>2, <1>3 DEF Iterating, Benching
<1>q. QED
  BY <1>1, <1>5, <1>6, <1>7 DEF TimeInv, Reported

(* The report.                                                             *)
LEMMA CheckTimed ==
  ASSUME TimeInv, Check
  PROVE  TimeInv'
<1>1. /\ cmPc = "check" /\ cmPc' = "done" /\ cmIn' = cmIn /\ res' = res /\ clk' = clk
      /\ LET total_errors == SeedErrors + check_data_types + (IF TooShort THEN 1 ELSE 0)
         IN  out' = [validated |-> total_errors = 0, errors |-> total_errors > 0,
                     cannot |-> total_errors < 0, short |-> TooShort]
  BY DEF Check, Goto
<1>2. Timed("done", cmIn, res.iterations, clk)
  <2>1. Timed("check", cmIn, res.iterations, clk)
    BY <1>1 DEF TimeInv
  <2>q. QED
    BY <2>1 DEF Timed, Iterating, Benching
<1>3. /\ out'.short <=> TooShort
      /\ out'.validated <=> SeedErrors + check_data_types + (IF TooShort THEN 1 ELSE 0) = 0
  BY <1>1
<1>4. TooShort' <=> TooShort
  BY <1>1 DEF TooShort
<1>5. SeedErrors' = SeedErrors
  BY <1>1 DEF SeedErrors, Errors, seedcrc
<1>6. Reported'
  BY <1>3, <1>4, <1>5 DEF Reported
<1>q. QED
  BY <1>1, <1>2, <1>6 DEF TimeInv

(* Before the first iteration.                                             *)
LEMMA InitTimed ==
  ASSUME CoreMarkInit
  PROVE  TimeInv
<1>1. cmPc = "main" /\ clk.rate = 0
  BY DEF CoreMarkInit, NoClock
<1>2. Timed("main", cmIn, res.iterations, clk)
  BY <1>1 DEF Timed, Iterating, Benching
<1>q. QED
  BY <1>1, <1>2 DEF TimeInv, Reported

\* Reading the seeds gives the iterations that are asked for.
LEMMA GetSeedsTimed ==
  ASSUME ListInv, TimeInv, GetSeeds
  PROVE  TimeInv'
<1>1. /\ cmPc = "main" /\ cmPc' = "init" /\ cmIn' = cmIn /\ clk' = clk
      /\ res'.iterations = get_seed_32(4, cmIn.seeds)
  BY DEF GetSeeds, Goto
<1>2. clk.rate = 0
  BY <1>1 DEF TimeInv, Timed
<1>3. cmIn \in ParamSets
  BY DEF ListInv, Sound
<1>4. get_seed_32(4, cmIn.seeds) \in Nat
  BY <1>3, SetsAssumption DEF get_seed_32
<1>5. Timed("init", cmIn, Given(cmIn), clk)
  BY <1>2, <1>4 DEF Timed, Given, Iterating, Benching
<1>q. QED
  BY <1>1, <1>5 DEF TimeInv, Reported, Given

\* Setting up the data leaves them.
LEMMA InitDataTimed ==
  ASSUME ListInv, TimeInv, InitData
  PROVE  TimeInv'
<1>1. cmPc = "init" /\ cmPc' = "sortinit" /\ cmIn' = cmIn /\ clk' = clk
  BY DEF InitData, Goto
<1>2. res'.iterations = res.iterations
  BY InitDataKeeps
<1>3. Timed("sortinit", cmIn, res.iterations, clk)
  BY <1>1 DEF TimeInv, Timed, Iterating, Benching
<1>q. QED
  BY <1>1, <1>2, <1>3 DEF TimeInv, Reported

\* The first sort leads to the calibration or to the timed run.
LEMMA SortInitTimed ==
  ASSUME ListInv, TimeInv, SortInit
  PROVE  TimeInv'
<1>1. cmPc = "sortinit" /\ cmIn' = cmIn /\ clk' = clk
  BY DEF SortInit
<1>2. /\ res'.iterations = res.iterations
      /\ cmPc' \in {"sortinit", IF res.iterations = 0 THEN "calibrate" ELSE "start"}
  BY SortInitKeeps
<1>3. clk.rate = 0 /\ res.iterations = Given(cmIn) /\ res.iterations \in Nat
      /\ Timed("sortinit", cmIn, res.iterations, clk)
  BY <1>1 DEF TimeInv, Timed
<1>4. CASE cmPc' = "sortinit"
  BY <1>1, <1>2, <1>3, <1>4 DEF TimeInv, Reported
<1>5. CASE res.iterations = 0 /\ cmPc' = "calibrate"
  <2>1. Trying(res.iterations, clk.rate)
    BY <1>3, <1>5 DEF Trying
  <2>2. Timed("calibrate", cmIn, res.iterations, clk)
    BY <2>1 DEF Timed, Iterating, Benching
  <2>q. QED
    BY <1>1, <1>2, <1>5, <2>2 DEF TimeInv, Reported
<1>6. CASE res.iterations # 0 /\ cmPc' = "start"
  <2>1. Aimed(cmIn, res.iterations, clk.rate)
    BY <1>3, <1>6 DEF Aimed
  <2>2. Timed("start", cmIn, res.iterations, clk)
    BY <2>1 DEF Timed, Iterating, Benching
  <2>q. QED
    BY <1>1, <1>2, <1>6, <2>2 DEF TimeInv, Reported
<1>q. QED
  BY <1>2, <1>4, <1>5, <1>6

(* Every step of the benchmark keeps what is known of its iterations and   *)
(* of the time they take.                                                  *)
THEOREM TimeInductive == CoreMarkSpec => []TimeInv
<1>1. CoreMarkInit => TimeInv
  BY InitTimed
<1>2. ListInv /\ TimeInv /\ [CoreMarkNext]_cmVars => TimeInv'
  <2> SUFFICES ASSUME ListInv, TimeInv, [CoreMarkNext]_cmVars PROVE TimeInv'
    OBVIOUS
  <2>1. CASE GetSeeds BY <2>1, GetSeedsTimed
  <2>2. CASE InitData BY <2>2, InitDataTimed
  <2>3. CASE SortInit BY <2>3, SortInitTimed
  <2>4. CASE Calibrate BY <2>4, CalibrateTimed
  <2>5. CASE Calibrated BY <2>5, CalibratedTimed
  <2>6. CASE StartTime BY <2>6, StartTimeTimed
  <2>7. CASE Stop BY <2>7, StopTimed
  <2>8. CASE ListByIdx \/ Find \/ FindsDone \/ SortByData \/ RemoveItem \/ UndoRemove \/ SortByIdx \/ BenchEnd
    BY <2>8, BenchTimed
  <2>9. CASE Check BY <2>9, CheckTimed
  <2>10. CASE UNCHANGED cmVars
    <3>1. cmPc' = cmPc /\ cmIn' = cmIn /\ res' = res /\ clk' = clk /\ out' = out
      BY <2>10 DEF cmVars
    <3>2. (TooShort' <=> TooShort) /\ SeedErrors' = SeedErrors
      BY <3>1 DEF TooShort, SeedErrors, Errors, seedcrc
    <3>q. QED
      BY <3>1, <3>2 DEF TimeInv, Reported
  <2>q. QED
    BY <2>1, <2>2, <2>3, <2>4, <2>5, <2>6, <2>7, <2>8, <2>9, <2>10 DEF CoreMarkNext
<1>q. QED
  BY <1>1, <1>2, ListInductive, PTL DEF CoreMarkSpec

-----------------------------------------------------------------------------
(* The CRC of the seeds and the size of a known set is the one main knows. *)
LEMMA SetKnown ==
  ASSUME Known
  PROVE  seedcrc \in {KnownSeeds[k] : k \in 1 .. 5}
<1>1. PICK k \in 1 .. 5 : IsSet(k)
  BY DEF Known
<1>2. <<res.seed1, res.seed2, res.seed3, res.size>> \in
        {<<0, 0, 102, 2000>>, <<13333, 13333, 102, 2000>>, <<8, 8, 8, 400>>,
         <<0, 0, 102, 666>>, <<13333, 13333, 102, 666>>}
  BY <1>1 DEF IsSet, KnownSets
<1>3. seedcrc \in {35330, 31493, 20143, 59893, 6386}
  <2> DEFINE a == res.seed1
             b == res.seed2
             c == res.seed3
             d == res.size
  <2>1. \/ a = 0 /\ b = 0 /\ c = 102 /\ (d = 2000 \/ d = 666)
        \/ a = 13333 /\ b = 13333 /\ c = 102 /\ (d = 2000 \/ d = 666)
        \/ a = 8 /\ b = 8 /\ c = 8 /\ d = 400
    BY <1>2
  <2>2. seedcrc = crc16(d, crc16(c, crc16(b, crc16(a, 0))))
    BY DEF seedcrc
  <2> HIDE DEF a, b, c, d
  <2>3. CASE a = 0 /\ b = 0 /\ c = 102 /\ (d = 2000 \/ d = 666)
    <3>1. crc16(c, crc16(b, crc16(a, 0))) = 41003
      BY <2>3, SeedCrcs
    <3>2. crc16(d, 41003) \in {35330, 59893}
      BY <2>3, SeedCrcs
    <3>q. QED
      BY <2>2, <3>1, <3>2
  <2>4. CASE a = 13333 /\ b = 13333 /\ c = 102 /\ (d = 2000 \/ d = 666)
    <3>1. crc16(c, crc16(b, crc16(a, 0))) = 25565
      BY <2>4, SeedCrcs
    <3>2. crc16(d, 25565) \in {31493, 6386}
      BY <2>4, SeedCrcs
    <3>q. QED
      BY <2>2, <3>1, <3>2
  <2>5. CASE a = 8 /\ b = 8 /\ c = 8 /\ d = 400
    BY <2>2, <2>5, SeedCrcs
  <2>q. QED
    BY <2>1, <2>3, <2>4, <2>5
<1>4. /\ KnownSeeds[1] = 35330 /\ KnownSeeds[2] = 31493 /\ KnownSeeds[3] = 20143
      /\ KnownSeeds[4] = 59893 /\ KnownSeeds[5] = 6386
  BY DEF KnownSeeds
<1>q. QED
  BY <1>3, <1>4

(* The errors main counts are never negative.                              *)
LEMMA ErrorsCounted ==
  /\ \A k : Errors(k) \in Nat
  /\ check_data_types \in Nat
<1>a. ASSUME NEW a, NEW b, NEW c PROVE IsFiniteSet({a, b, c})
  <2>1. IsFiniteSet({a}) /\ IsFiniteSet({b}) /\ IsFiniteSet({c})
    BY FS_Singleton
  <2>2. IsFiniteSet({a} \cup {b})
    BY <2>1, FS_Union
  <2>3. IsFiniteSet(({a} \cup {b}) \cup {c})
    BY <2>1, <2>2, FS_Union
  <2>4. {a, b, c} = ({a} \cup {b}) \cup {c}
    OBVIOUS
  <2>q. QED
    BY <2>3, <2>4
<1>1. IsFiniteSet({"list", "matrix", "state"})
  BY <1>a
<1>2. ASSUME NEW k PROVE Errors(k) \in Nat
  <2> DEFINE E == {n \in {"list", "matrix", "state"} :
                     CASE n = "list" -> res.crclist # list_known_crc[k]
                       [] n = "matrix" -> res.crcmatrix # matrix_known_crc[k]
                       [] n = "state" -> res.crcstate # state_known_crc[k]}
  <2>1. E \subseteq {"list", "matrix", "state"}
    OBVIOUS
  <2>2. Errors(k) = Cardinality(E)
    BY DEF Errors
  <2> HIDE DEF E
  <2>3. IsFiniteSet(E)
    BY <1>1, <2>1, FS_Subset
  <2>q. QED
    BY <2>2, <2>3, FS_CardinalityType
<1>3. check_data_types \in Nat
  <2> DEFINE E == {t \in DOMAIN SizeOf :
                     SizeOf[t] # CASE t = "ee_u8" -> 1 [] t \in {"ee_u16", "ee_s16"} -> 2 [] OTHER -> 4}
             D == {"ee_u8", "ee_u16", "ee_s16", "ee_s32", "ee_u32", "ee_ptr_int"}
  <2>1. E \subseteq D
    BY DEF SizeOf
  <2>2. IsFiniteSet(D)
    <3>1. D = {"ee_u8", "ee_u16", "ee_s16"} \cup {"ee_s32", "ee_u32", "ee_ptr_int"}
      OBVIOUS
    <3>2. IsFiniteSet({"ee_u8", "ee_u16", "ee_s16"}) /\ IsFiniteSet({"ee_s32", "ee_u32", "ee_ptr_int"})
      BY <1>a
    <3> HIDE DEF D
    <3>q. QED
      BY <3>1, <3>2, FS_Union
  <2>3. check_data_types = Cardinality(E)
    BY DEF check_data_types
  <2> HIDE DEF E, D
  <2>4. IsFiniteSet(E)
    BY <2>1, <2>2, FS_Subset
  <2>q. QED
    BY <2>3, <2>4, FS_CardinalityType
<1>q. QED
  BY <1>2, <1>3

(* What the clock showed is what the iterations took, less the times it    *)
(* came round.                                                             *)
LEMMA TimeTaken ==
  ASSUME NEW pc \in {"check", "done"}, NEW in, NEW it, NEW c, Timed(pc, in, it, c)
  PROVE  /\ it \in Nat /\ c.rate \in Nat /\ it * c.rate \in Nat
         /\ get_time(c) \in Nat /\ get_time(c) <= it * c.rate
         /\ it * c.rate < ClockWrap => get_time(c) = it * c.rate
<1> DEFINE t == it * c.rate
<1>1. Aimed(in, it, c.rate) /\ c.rate \in Rates /\ c.start \in Nat /\ c.stop = (c.start + t) % ClockWrap
  BY DEF Timed
<1>2. ClockWrap \in Nat /\ ClockWrap # 0 /\ c.rate \in Nat /\ it \in Nat
  BY <1>1, ClockAssumption DEF Aimed
<1>3. t \in Nat
  BY <1>2, ProductIs
<1> HIDE DEF t
<1>4. get_time(c) = t % ClockWrap
  <2>1. get_time(c) = (((c.start + t) % ClockWrap) - c.start) % ClockWrap
    BY <1>1 DEF get_time
  <2>q. QED
    BY <1>1, <1>2, <1>3, <2>1, Elapsed
<1>5. t % ClockWrap <= t /\ (t < ClockWrap => t % ClockWrap = t) /\ t % ClockWrap \in Nat
  BY <1>2, <1>3, Smaller, Divided
<1>q. QED
  BY <1>2, <1>3, <1>4, <1>5 DEF t

(* A validated run of known seeds gave the right results and took its ten  *)
(* seconds, wherever the cycle counter stood; one that calibrated itself   *)
(* took ten seconds to a hundred.  Nothing is said of seeds that are not   *)
(* in the tables, which core_main.c:377 may call validated (see            *)
(* UnknownNotValidated).                                                    *)
THEOREM ReportKept == CoreMarkSpec => []ReportTrue
<1>1. TimeInv => ReportTrue
  <2> SUFFICES ASSUME TimeInv, cmPc = "done"
               PROVE  /\ out.validated /\ Known => SeedErrors = 0 /\ RealTicks >= 10 * TicksPerSec
                      /\ get_seed_32(4, cmIn.seeds) = 0 =>
                           RealTicks \in 10 * TicksPerSec .. 100 * TicksPerSec /\ ~out.short
    BY DEF ReportTrue
  <2> DEFINE t == RealTicks
             secs == get_time(clk) \div TicksPerSec
  <2>1. Timed("done", cmIn, res.iterations, clk)
    BY DEF TimeInv
  <2>2. t \in Nat /\ get_time(clk) \in Nat /\ get_time(clk) <= t /\ (t < ClockWrap => get_time(clk) = t)
    BY <2>1, TimeTaken DEF RealTicks
  <2>3. TicksPerSec \in Nat /\ TicksPerSec # 0
    BY ClockAssumption
  <2>4. secs \in Nat /\ secs * TicksPerSec <= get_time(clk) /\ get_time(clk) < secs * TicksPerSec + TicksPerSec
    BY <2>2, <2>3, SecondsAre
  <2>5. TooShort <=> secs < 10
    BY DEF TooShort, time_in_secs
  <2>6. /\ out.short <=> TooShort
        /\ out.validated <=> SeedErrors + check_data_types + (IF TooShort THEN 1 ELSE 0) = 0
    BY DEF TimeInv, Reported
  <2>7. Aimed(cmIn, res.iterations, clk.rate)
    BY <2>1 DEF Timed
  <2> HIDE DEF secs
  <2>8. ASSUME out.validated, Known PROVE SeedErrors = 0 /\ t >= 10 * TicksPerSec
    <3>1. SeedErrors \in Nat
      BY <2>8, SetKnown, ErrorsCounted DEF SeedErrors
    <3>2. check_data_types \in Nat
      BY ErrorsCounted
    <3>3. SeedErrors + check_data_types + (IF TooShort THEN 1 ELSE 0) = 0
      BY <2>6, <2>8
    <3>4. SeedErrors = 0 /\ ~TooShort
      BY <3>1, <3>2, <3>3
    <3>5. secs >= 10
      BY <2>4, <2>5, <3>4
    <3>6. secs * TicksPerSec >= 10 * TicksPerSec
      BY <2>3, <2>4, <3>5
    <3> HIDE DEF t
    <3>q. QED
      BY <2>2, <2>3, <2>4, <3>4, <3>6
  <2>9. ASSUME get_seed_32(4, cmIn.seeds) = 0
        PROVE  t \in 10 * TicksPerSec .. 100 * TicksPerSec /\ ~out.short
    <3>1. t >= 10 * TicksPerSec /\ t <= 100 * TicksPerSec /\ t < ClockWrap
      BY <2>7, <2>9 DEF Aimed, Given, RealTicks
    <3> HIDE DEF t
    <3>2. get_time(clk) = t
      BY <2>2, <3>1
    <3>3. ASSUME secs < 10 PROVE FALSE
      <4>1. secs + 1 <= 10
        BY <2>4, <3>3
      <4>2. (secs + 1) * TicksPerSec <= 10 * TicksPerSec
        BY <2>3, <2>4, <4>1
      <4>3. (secs + 1) * TicksPerSec = secs * TicksPerSec + TicksPerSec
        BY <2>3, <2>4
      <4>q. QED
        BY <2>2, <2>3, <2>4, <3>1, <3>2, <4>2, <4>3
    <3>4. 10 * TicksPerSec \in Int /\ 100 * TicksPerSec \in Int /\ t \in Int
      BY <2>2, <2>3
    <3>q. QED
      BY <2>5, <2>6, <3>1, <3>3, <3>4
  <2>q. QED
    BY <2>8, <2>9
<1>q. QED
  BY <1>1, TimeInductive, PTL
=============================================================================
