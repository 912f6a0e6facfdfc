------------------------------ MODULE CoreMatrix ------------------------------
(***************************************************************************)
(* The matrix benchmark of CoreMark, core_matrix.c.  A MATDAT is an ee_s16 *)
(* and a MATRES an ee_s32; an N by N matrix is a function on its N * N     *)
(* offsets.                                                                *)
(***************************************************************************)
EXTENDS CoreUtil, Integers, Sequences

Offsets(N) == 0 .. N * N - 1
Row(N, i) == i \div N
Col(N, i) == i % N

MinS32 == -2147483647 - 1

(* The sum of two ee_s32; of two negative ones it may wrap.                *)
Add32(a, b) ==
  IF a < 0 /\ b < MinS32 - a THEN (a - MinS32) + (b - MinS32) ELSE a + b

Total(f, n) ==
  LET sum[k \in 0 .. n] == IF k = 0 THEN 0 ELSE Add32(sum[k - 1], f[k - 1]) IN sum[n]

matrix_big(val) == S16(61440 + (val % 4096))
bit_extract(x, from, to) == (x \div 2^from) % 2^to

matrix_add_const(N, A, val) == [i \in Offsets(N) |-> S16(A[i] + val)]
matrix_mul_const(N, A, val) == [i \in Offsets(N) |-> A[i] * val]

(* Only the first N results are new: the others are still there for the    *)
(* sum.                                                                    *)
matrix_mul_vect(N, C, A, B) ==
  [i \in Offsets(N) |->
     IF i < N THEN Total([j \in 0 .. N - 1 |-> A[i * N + j] * B[j]], N) ELSE C[i]]

matrix_mul_matrix(N, A, B) ==
  [i \in Offsets(N) |->
     Total([k \in 0 .. N - 1 |-> A[Row(N, i) * N + k] * B[k * N + Col(N, i)]], N)]

matrix_mul_matrix_bitextract(N, A, B) ==
  LET Part(tmp) == bit_extract(tmp, 2, 4) * bit_extract(tmp, 5, 7)
  IN  [i \in Offsets(N) |->
         Total([k \in 0 .. N - 1 |-> Part(A[Row(N, i) * N + k] * B[k * N + Col(N, i)])], N)]

(* matrix_sum and one turn of its loops, with the element cur.             *)
Sums == [k : Nat, tmp : Int, prev : Int, ret : Int]

SumWith(s, cur, clipval) ==
  LET tmp == Add32(s.tmp, cur)
  IN  IF tmp > clipval
      THEN [k |-> s.k + 1, tmp |-> 0, prev |-> cur, ret |-> s.ret + 10]
      ELSE [k |-> s.k + 1, tmp |-> tmp, prev |-> cur, ret |-> s.ret + IF cur > s.prev THEN 1 ELSE 0]

matrix_sum(C, clipval) ==
  LET sum[s \in Sums] == IF s.k \notin DOMAIN C THEN s.ret ELSE sum[SumWith(s, C[s.k], clipval)]
  IN  sum[[k |-> 0, tmp |-> 0, prev |-> 0, ret |-> 0]]

(* The CRC of the four results, and A as it is left.                       *)
matrix_test(N, A0, B, val) ==
  LET clipval == matrix_big(val)
      A  == matrix_add_const(N, A0, val)
      C1 == matrix_mul_const(N, A, val)
      C2 == matrix_mul_vect(N, C1, A, B)
      C3 == matrix_mul_matrix(N, A, B)
      C4 == matrix_mul_matrix_bitextract(N, A, B)
  IN  [A   |-> matrix_add_const(N, A, -val),
       crc |-> crc16(matrix_sum(C4, clipval), crc16(matrix_sum(C3, clipval),
                 crc16(matrix_sum(C2, clipval), crc16(matrix_sum(C1, clipval), 0))))]

core_bench_matrix(mat, seed, crc) ==
  LET t == matrix_test(mat.N, mat.A, mat.B, seed)
  IN  [A |-> t.A, crc |-> crc16(t.crc, crc)]

(* The largest N whose three matrices stay below blksize.                  *)
Dimension(blksize) ==
  (CHOOSE i \in 1 .. blksize : 8 * i * i >= blksize /\ 8 * (i - 1) * (i - 1) < blksize) - 1

(* `%` of C keeps the sign of the dividend.                                *)
CRem(a, n) == IF a < 0 THEN -((-a) % n) ELSE a % n

(* The loops that fill B: seed is the one of the element last filled in.   *)
Fills == [seed : Int, B : Seq(Int)]

Filled(m) ==
  LET order == Len(m.B) + 1
      s == CRem(order * m.seed, 65536)
  IN  [seed |-> s, B |-> Append(m.B, S16(s + order))]

Fill(n, seed) ==
  LET fill[m \in Fills] == IF Len(m.B) >= n THEN m.B ELSE fill[Filled(m)]
  IN  fill[[seed |-> seed, B |-> << >>]]

align_mem(x) == 4 + ((x - 1) \div 4) * 4

core_init_matrix(blksize, memblk, seed0) ==
  LET N == Dimension(blksize)
      B == Fill(N * N, IF seed0 = 0 THEN 1 ELSE seed0)
      atA == align_mem(memblk)
      atB == atA + 2 * N * N
      atC == align_mem(atB + 2 * N * N)
  IN  [N |-> N, A |-> [i \in Offsets(N) |-> LowByte(B[i + 1] + i + 1)], B |-> [i \in Offsets(N) |-> B[i + 1]],
       first |-> atA, end |-> atC + 4 * N * N]

===============================================================================
