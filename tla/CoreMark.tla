------------------------------- MODULE CoreMark -------------------------------
(***************************************************************************)
(* The benchmark program, core_main.c on the ports of the two boards: the  *)
(* seeds, the memory, the calibration, the timed run and the report.  One  *)
(* iteration is stepped through item by item and pass by pass.             *)
(*                                                                         *)
(* The clock is the cycle counter the port reads, a 32 bit register that   *)
(* wraps, here in ticks of 2^16 cycles.                                    *)
(***************************************************************************)
EXTENDS CoreList

CONSTANTS
  ParamSets,     \* builds: [seeds, total, base, start]: total is TOTAL_DATA_SIZE, base
                 \* the address of its memory, start what the clock shows when a run starts
  Rates,         \* ticks one iteration may take on a board
  TicksPerSec,   \* EE_TICKS_PER_SEC
  ClockWrap,     \* 2^32 cycles
  MaxIterated    \* bound: of more iterations than this, only so many are run

ASSUME ClockAssumption ==
  /\ {TicksPerSec, ClockWrap, MaxIterated} \subseteq Nat \ {0}
  /\ \A r \in Rates : r \in Nat \ {0}

(* The counter shows 22 seconds before it wraps; an iteration takes no more *)
(* than ten, and the first ten of them end before the counter comes round.  *)
ASSUME RateAssumption ==
  /\ 22 * TicksPerSec <= ClockWrap
  /\ \A r \in Rates : r <= 10 * TicksPerSec /\ 10 * r < ClockWrap

ASSUME SetsAssumption ==
  \A p \in ParamSets : p.seeds \in [1 .. 5 -> Nat] /\ {p.total, p.base, p.start} \subseteq Nat

(* The list has the three cells a removal takes, and idx counts its cells;  *)
(* what the matrices leave of their third is enough to align them.          *)
ASSUME RoomAssumption ==
  \A p \in ParamSets :
    /\ p.total \div 3 >= 120 /\ ListSize(p.total \div 3) <= 16384
    /\ \A N \in 0 .. p.total \div 3 : p.total \div 3 - 8 * N * N \notin {1, 2}

(* No item is given the idx of the head, 0: results keeps pointing at the   *)
(* head, which would not be the first any more when sorted by idx.          *)
ASSUME HeadAssumption ==
  \A p \in ParamSets : \/ U16(p.seeds[1]) % 8 # 7
                      \/ U16(p.seeds[1]) % 16384 >= ListSize(p.total \div 3)

VARIABLES
  cmPc,    \* the next statement
  cmIn,    \* the build that runs
  res,     \* results[0], and the memory it points to
  fr,      \* locals of core_bench_list
  clk,     \* locals of iterate and of the timing, and the port's clock
  out,     \* what the report said
  hist     \* not of the program: the memory and the list as they were
cmVars == <<cmPc, cmIn, res, fr, clk, out, hist>>

NoRes == [iterations |-> 0]
NoFrame == [finder_idx |-> 0, idx |-> 0, i |-> 0, list |-> NULL, found |-> 0, missed |-> 0,
            retval |-> 0, insize |-> 1, removed |-> NULL]
NoOut == [validated |-> FALSE, errors |-> FALSE, cannot |-> FALSE, short |-> FALSE]
NoClock == [i |-> 0, back |-> "", rate |-> 0, start |-> 0, stop |-> 0]

CoreMarkIdle ==
  /\ cmPc = "idle" /\ res = NoRes /\ fr = NoFrame /\ clk = NoClock
  /\ out = NoOut /\ hist = NoRes /\ cmIn = NoRes

CoreMarkInit ==
  /\ cmPc = "main" /\ res = NoRes /\ fr = NoFrame /\ clk = NoClock
  /\ out = NoOut /\ hist = NoRes
  /\ cmIn \in ParamSets

Goto(label) == cmPc' = label

(***************************************************************************)
(* Seeds, memory and the initial data.                                     *)
(***************************************************************************)

(* All zero asks for the performance run, a lone 1 for the validation run. *)
DefaultSeeds(s) ==
  CASE s = <<0, 0, 0>> -> <<0, 0, 102>>
    [] s = <<1, 0, 0>> -> <<13333, 13333, 102>>
    [] OTHER -> s

get_seed(i) == U16(get_seed_32(i, cmIn.seeds))
ALL_ALGORITHMS == 3

GetSeeds ==
  /\ cmPc = "main"
  /\ LET s == DefaultSeeds(<<get_seed(1), get_seed(2), get_seed(3)>>)
     IN  res' = [seed1 |-> s[1], seed2 |-> s[2], seed3 |-> s[3],
                 iterations |-> get_seed_32(4, cmIn.seeds),
                 size |-> cmIn.total \div ALL_ALGORITHMS,
                 crc |-> 0, crclist |-> 0, crcmatrix |-> 0, crcstate |-> 0, far |-> 0,
                 list |-> NULL, h |-> NoRes, mat |-> NoRes, block |-> NoRes]
  /\ Goto("init")
  /\ UNCHANGED <<cmIn, fr, clk, out, hist>>

Block(k) == cmIn.base + res.size * (k - 1)

(* seed1 | seed2 << 16: a negative seed1 covers seed2.  The sum of a        *)
(* negative seed2 is brought to what `%` makes of it.                        *)
MatrixSeed(seed1, seed2) ==
  LET s1 == S16(seed1) IN
  IF s1 < 0 THEN s1
  ELSE IF seed2 < 32768 THEN seed2 * 65536 + s1
  ELSE (seed2 - 65536) * 65536 + s1

InitData ==
  /\ cmPc = "init"
  /\ res' = [res EXCEPT !.h = core_list_init(res.size, res.seed1),
                        !.mat = core_init_matrix(res.size, Block(2), MatrixSeed(res.seed1, res.seed2)),
                        !.block = core_init_state(res.size, res.seed1)]
  /\ fr' = [NoFrame EXCEPT !.list = 1]
  /\ Goto("sortinit")
  /\ UNCHANGED <<cmIn, clk, out, hist>>

(* One pass of core_list_mergesort, whose last one ends the sort; the next *)
(* merges runs twice as long.                                              *)
SortStep(s) ==
  fr' = [fr EXCEPT !.list = s.list, !.insize = IF s.nmerges <= 1 THEN 1 ELSE 2 * @]

(* The sort core_list_init ends with.                                      *)
SortInit ==
  /\ cmPc = "sortinit"
  /\ \E s \in {SortPass(res, fr.list, fr.insize, "cmp_idx")} :
       /\ SortStep(s)
       /\ IF s.nmerges <= 1
          THEN /\ res' = [s.m EXCEPT !.list = s.list]
               /\ hist' = [h |-> s.m.h, list |-> s.list, mat |-> s.m.mat, block |-> s.m.block,
                           order |-> << >>]
               /\ Goto(IF res.iterations = 0 THEN "calibrate" ELSE "start")
          ELSE res' = s.m /\ UNCHANGED <<cmPc, hist>>
  /\ UNCHANGED <<cmIn, clk, out>>

(***************************************************************************)
(* Timing.                                                                 *)
(***************************************************************************)
barebones_clock(elapsed) == (clk.start + elapsed) % ClockWrap
get_time(c) == (c.stop - c.start) % ClockWrap
time_in_secs(ticks) == ticks \div TicksPerSec

iterate(back) == /\ clk' = [clk EXCEPT !.i = 0, !.back = back, !.start = cmIn.start]
                 /\ Goto("list")

ClearCrcs(r) == [r EXCEPT !.crc = 0, !.crclist = 0, !.crcmatrix = 0, !.crcstate = 0]

Calibrate_Flat ==    \* slip: the iterations are not multiplied
  /\ cmPc = "calibrate"
  /\ res' = [ClearCrcs(res) EXCEPT !.iterations = IF @ = 0 THEN 10 ELSE @]
  /\ iterate("calibrated")
  /\ UNCHANGED <<cmIn, fr, out, hist>>

(* Iterations are multiplied by ten until one run takes a second.          *)
Calibrate ==
  /\ cmPc = "calibrate"
  /\ res' = [ClearCrcs(res) EXCEPT !.iterations = IF @ = 0 THEN 10 ELSE 10 * @]
  /\ iterate("calibrated")
  /\ UNCHANGED <<cmIn, fr, out, hist>>

(* stop_time; how fast the board is shows when the first run ends.         *)
StopTime ==
  \E rate \in IF clk.rate = 0 THEN Rates ELSE {clk.rate} :
    clk' = [clk EXCEPT !.rate = rate, !.stop = barebones_clock(res.iterations * rate)]

TenSeconds_RoundedDown(iterations, secs) ==    \* slip: `1 +` is left out
  iterations * (10 \div (IF secs = 0 THEN 1 ELSE secs))
TenSeconds(iterations, secs) ==
  iterations * (1 + 10 \div (IF secs = 0 THEN 1 ELSE secs))

Calibrated ==
  /\ cmPc = "calibrated"
  /\ StopTime
  /\ LET secs_passed == time_in_secs(get_time(clk'))
     IN  IF secs_passed < 1
         THEN Goto("calibrate") /\ UNCHANGED res
         ELSE Goto("start") /\ res' = [res EXCEPT !.iterations = TenSeconds(@, secs_passed)]
  /\ UNCHANGED <<cmIn, fr, out, hist>>

StartTime ==
  /\ cmPc = "start"
  /\ res' = ClearCrcs(res)
  /\ iterate("stop")
  /\ UNCHANGED <<cmIn, fr, out, hist>>

Stop == cmPc = "stop" /\ StopTime /\ Goto("check") /\ UNCHANGED <<cmIn, res, fr, out, hist>>

(***************************************************************************)
(* One iteration: core_bench_list by index and by data.                    *)
(***************************************************************************)
BenchList(finder_idx) ==
  fr' = [finder_idx |-> finder_idx, idx |-> finder_idx, i |-> 0, list |-> res.list, found |-> 0,
         missed |-> 0, retval |-> 0, insize |-> 1, removed |-> NULL]

ListByIdx ==
  /\ cmPc = "list"
  /\ BenchList(1) /\ Goto("find")
  /\ UNCHANGED <<cmIn, res, clk, out, hist>>

Finding == cmPc = "find" /\ fr.i < S16(res.seed3)

(* One turn of the find loop.  The list is reversed whether or not the     *)
(* item was there.                                                         *)
Find ==
  /\ Finding
  /\ LET this_find == core_list_find(res.h, fr.list, [idx |-> fr.idx, data16 |-> LowByte(fr.i)])
         r == core_list_reverse(res.h, fr.list)
         next == [fr EXCEPT !.i = @ + 1, !.list = r.list, !.idx = IF @ >= 0 THEN @ + 1 ELSE @]
         used == IF this_find = NULL THEN 0 ELSE Data(r.h, this_find)
     IN  IF this_find = NULL
         THEN /\ fr' = [next EXCEPT !.missed = @ + 1,
                                    !.retval = U16(@ + BitOf(Data(r.h, r.h.next[r.list]), 8))]
              /\ res' = [res EXCEPT !.h = r.h]
         ELSE /\ fr' = [next EXCEPT !.found = @ + 1,
                                    !.retval = U16(@ + (used % 2) * BitOf(used, 9))]
              /\ res' = [res EXCEPT !.h = CacheNext(r.h, r.list, this_find)]
  /\ UNCHANGED <<cmPc, cmIn, clk, out, hist>>

FindsDone ==
  /\ cmPc = "find" /\ ~Finding
  /\ fr' = [fr EXCEPT !.retval = U16(@ + fr.found * 4 - fr.missed), !.insize = 1]
  /\ hist' = [hist EXCEPT !.order = CellsFrom(res.h, fr.list)]
  /\ Goto(IF fr.finder_idx > 0 THEN "sort" ELSE "remove")
  /\ UNCHANGED <<cmIn, res, clk, out>>

BenchSort(cmp, after) ==
  /\ \E s \in {SortPass(res, fr.list, fr.insize, cmp)} :
       /\ res' = s.m
       /\ SortStep(s)
       /\ IF s.nmerges <= 1 THEN Goto(after) ELSE UNCHANGED cmPc
  /\ UNCHANGED <<cmIn, clk, out, hist>>

SortByData == cmPc = "sort" /\ BenchSort("cmp_complex", "remove")
SortByIdx == cmPc = "sortidx" /\ BenchSort("cmp_idx", "crc")

RemoveItem ==
  /\ cmPc = "remove"
  /\ LET r == core_list_remove(res.h, res.h.next[fr.list])
     IN  res' = [res EXCEPT !.h = r.h] /\ fr' = [fr EXCEPT !.removed = r.removed]
  /\ Goto("undo")
  /\ UNCHANGED <<cmIn, clk, out, hist>>

(* Once for each cell from the cell on, the CRC of the datum of the head.  *)
CrcTurn(h, list, s) ==
  IF s.finder = NULL THEN s
  ELSE [finder |-> h.next[s.finder], crc |-> crc16(Data(h, list), s.crc)]

CrcTurns(h, list, finder, crc) ==
  LET after[k \in Nat] ==
        IF k = 0 THEN [finder |-> finder, crc |-> crc] ELSE CrcTurn(h, list, after[k - 1])
  IN  after

CrcOfList(h, list, finder, crc) == CrcTurns(h, list, finder, crc)[Turns(h)].crc

UndoRemove ==
  /\ cmPc = "undo"
  /\ LET f == core_list_find(res.h, fr.list, [idx |-> fr.idx, data16 |-> IF fr.i = 0 THEN 0 ELSE LowByte(fr.i - 1)])
         finder == IF f = NULL THEN res.h.next[fr.list] ELSE f
     IN  fr' = [fr EXCEPT !.retval = CrcOfList(res.h, fr.list, finder, @)]
  /\ res' = [res EXCEPT !.h = core_list_undo_remove(@, fr.removed, @.next[fr.list])]
  /\ Goto("sortidx")
  /\ UNCHANGED <<cmIn, clk, out, hist>>

Iterations == IF res.iterations < MaxIterated THEN res.iterations ELSE MaxIterated

(* The end of core_bench_list, and what iterate does with its CRC.         *)
BenchEnd ==
  /\ cmPc = "crc"
  /\ LET retval == CrcOfList(res.h, fr.list, res.h.next[fr.list], fr.retval)
         crc == crcu16(retval, res.crc)
     IN  res' = [res EXCEPT !.crc = crc,
                            !.crclist = IF fr.finder_idx < 0 /\ clk.i = 0 THEN crc ELSE @]
  /\ IF fr.finder_idx > 0
     THEN BenchList(-1) /\ Goto("find") /\ UNCHANGED clk
     ELSE /\ clk' = [clk EXCEPT !.i = @ + 1]
          /\ Goto(IF clk.i + 1 < Iterations THEN "list" ELSE clk.back)
          /\ UNCHANGED fr
  /\ UNCHANGED <<cmIn, out, hist>>

(***************************************************************************)
(* The report.                                                             *)
(***************************************************************************)
seedcrc == crc16(res.size, crc16(res.seed3, crc16(res.seed2, crc16(res.seed1, 0))))

(* The seed CRCs of main's switch, in the order of known_id, and the tables *)
(* of the results.                                                         *)
KnownSeeds == <<35330, 31493, 20143, 59893, 6386>>
list_known_crc == <<54448, 13120, 27257, 59156, 58305>>
matrix_known_crc == <<48722, 4505, 22024, 8151, 1863>>
state_known_crc == <<24135, 14783, 58788, 36410, 36228>>

SizeOf == [ee_u8 |-> 1, ee_u16 |-> 2, ee_s16 |-> 2, ee_s32 |-> 4, ee_u32 |-> 4, ee_ptr_int |-> 4]
check_data_types ==
  Cardinality({t \in DOMAIN SizeOf :
     SizeOf[t] # CASE t = "ee_u8" -> 1 [] t \in {"ee_u16", "ee_s16"} -> 2 [] OTHER -> 4})

Errors(k) ==
  Cardinality({n \in {"list", "matrix", "state"} :
     CASE n = "list" -> res.crclist # list_known_crc[k]
       [] n = "matrix" -> res.crcmatrix # matrix_known_crc[k]
       [] n = "state" -> res.crcstate # state_known_crc[k]})

(* -1 stands for seeds that are not in the table.                          *)
SeedErrors == IF seedcrc \in {KnownSeeds[k] : k \in 1 .. 5}
              THEN Errors(CHOOSE k \in 1 .. 5 : KnownSeeds[k] = seedcrc)
              ELSE -1

TooShort == time_in_secs(get_time(clk)) < 10

Check ==
  /\ cmPc = "check"
  /\ LET total_errors == SeedErrors + check_data_types + (IF TooShort THEN 1 ELSE 0)
     IN  out' = [validated |-> total_errors = 0, errors |-> total_errors > 0,
                 cannot |-> total_errors < 0, short |-> TooShort]
  /\ Goto("done")
  /\ UNCHANGED <<cmIn, res, fr, clk, hist>>

CoreMarkNext ==
  \/ GetSeeds \/ InitData \/ SortInit \/ Calibrate \/ Calibrated \/ StartTime \/ Stop
  \/ ListByIdx \/ Find \/ FindsDone \/ SortByData \/ RemoveItem \/ UndoRemove \/ SortByIdx \/ BenchEnd
  \/ Check

(***************************************************************************)
(* Properties.                                                             *)
(***************************************************************************)
(* seed1, seed2, seed3 and size of the sets, as main's comments name them. *)
KnownSets == <<<<0, 0, 102, 2000>>, <<13333, 13333, 102, 2000>>, <<8, 8, 8, 400>>,
               <<0, 0, 102, 666>>, <<13333, 13333, 102, 666>>>>
IsSet(k) == <<res.seed1, res.seed2, res.seed3, res.size>> = KnownSets[k]
Known == \E k \in 1 .. 5 : IsSet(k)

(* The benchmark recognises each of EEMBC's parameter sets and computes    *)
(* for it the list, matrix and state CRCs core_main.c says are right.       *)
KnownResults ==
  cmPc = "check" => \A k \in 1 .. 5 : IsSet(k) => seedcrc = KnownSeeds[k] /\ Errors(k) = 0

Running == cmPc \in {"find", "sort", "remove", "undo", "sortidx", "crc"}
Cells(list) == CellsFrom(res.h, list)
Cached(c) == Data(res.h, c) % 128

(* Whatever find, reverse, cache, sort and remove do to the pointers, the  *)
(* list runs through each of its cells once and ends: no cell is lost, and *)
(* but for the one removed none is left out.                                *)
CellsLinked ==
  Running =>
    LET c == Cells(fr.list)
    IN  /\ Len(c) = ListSize(res.size) - 1 - (IF cmPc = "undo" THEN 1 ELSE 0)
        /\ Cardinality({c[i] : i \in DOMAIN c}) = Len(c)

(* The sort by data puts the cells in the order of the results they        *)
(* cached, and leaves alone the order of those with the same.               *)
SortedStable ==
  cmPc = "remove" /\ fr.finder_idx > 0 =>
    LET c == Cells(fr.list)
        Before(x) == CHOOSE i \in DOMAIN hist.order : hist.order[i] = x
    IN  \A i \in 1 .. Len(c) - 1 :
          \/ Cached(c[i]) < Cached(c[i + 1])
          \/ Cached(c[i]) = Cached(c[i + 1]) /\ Before(c[i]) < Before(c[i + 1])

(* Find, reverse, sort and remove keep the list a list.                     *)
ListSound == CellsLinked /\ SortedStable

Contents(h, list) ==
  LET c == CellsFrom(h, list) IN [i \in DOMAIN c |-> <<Idx(h, c[i]), Data(h, c[i])>>]

DistinctIdx == \A i, j \in 1 .. ListSize(res.size) - 1 : i # j => hist.h.idx[i] # hist.h.idx[j]

(* The corruption comes undone: what was XORed in is XORed out, and no     *)
(* byte was taken for a comma in between.                                   *)
Repairable ==
  /\ LowByte(res.seed1) = LowByte(res.seed2)
  /\ \A i \in DOMAIN hist.block : hist.block[i] # Comma => Xor(hist.block[i], LowByte(res.seed1)) # Comma

(* "we want each iteration of the benchmark to be exactly the same": when  *)
(* core_bench_list is done the list has its order and its data again, A is *)
(* as it was, and so is the state machine's input.                          *)
Restored ==
  cmPc = "crc" =>
    /\ DistinctIdx => Contents(res.h, res.list) = Contents(hist.h, hist.list)
    /\ res.mat = hist.mat
    /\ Repairable => res.block = hist.block

(* The three algorithms share one array: the matrices and their results,   *)
(* aligned, stay inside their third, and a scan of the damaged input does  *)
(* not run past its end.                                                    *)
StaysInBlock ==
  cmPc \notin {"idle", "main", "init"} =>
    /\ 12 * ListSize(res.size) <= res.size
    /\ Block(2) <= res.mat.first /\ res.mat.end <= Block(3)
    /\ res.far < res.size

RealTicks == res.iterations * clk.rate

(* A validated run of known seeds gave the right results and really took   *)
(* ten seconds, wherever the cycle counter stood and whether or not it     *)
(* wrapped; a run that calibrated itself takes ten to a hundred.  Of seeds *)
(* that are not in the tables a run may be called validated as well: see   *)
(* UnknownNotValidated.                                                     *)
ReportTrue ==
  cmPc = "done" =>
    /\ out.validated /\ Known => SeedErrors = 0 /\ RealTicks >= 10 * TicksPerSec
    /\ get_seed_32(4, cmIn.seeds) = 0 =>
         RealTicks \in 10 * TicksPerSec .. 100 * TicksPerSec /\ ~out.short

(* "Make sure at least 1 second execution": the calibration finds a number *)
(* of iterations, and the benchmark reports, whatever the clock shows when *)
(* it starts.                                                              *)
BenchmarkEnds == cmPc = "main" ~> cmPc = "done"

(* core_main.c:429: for seeds it does not know the program says that it    *)
(* cannot validate, and does not say that it has.                           *)
UnknownNotValidated == cmPc = "done" /\ ~Known => out.cannot /\ ~out.validated

===============================================================================
