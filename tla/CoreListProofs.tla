--------------------------- MODULE CoreListProofs ---------------------------
(***************************************************************************)
(* What the operators of the benchmark compute, for lists of any length,   *)
(* matrices and blocks of any size, and all data: the CRC, the find, the   *)
(* reversal and the merge sort of core_list_join.c, core_state.c,          *)
(* core_matrix.c and the three inits.                                      *)
(*                                                                         *)
(* The loops are recursive functions, one value for each turn.  A lemma    *)
(* "...Are" gives the recursion of such a function; what the turns come to *)
(* is then an induction, stated of sets (lemma Induction).  What a turn    *)
(* keeps is an operator with a name, so that the next lemma can use it     *)
(* without looking inside.                                                 *)
(***************************************************************************)
EXTENDS CoreList, SequenceTheorems, FiniteSetTheorems, TLAPS

-----------------------------------------------------------------------------
(* Induction and recursion, stated of sets and functions.                  *)

(* Of the members of a set some are the least in a well-founded order.     *)
LEMMA LeastIn ==
  ASSUME NEW R, NEW S, IsWellFoundedOn(R, S)
  PROVE  \A T : T \subseteq S /\ T # {} => \E x \in T : \A y \in T : ~ (<<y, x>> \in R)
BY WFMin

(* Induction: a set that has 0, and with each number the next, has all.    *)
LEMMA Induction ==
  ASSUME NEW T, 0 \in T, \A n \in Nat : n \in T => n + 1 \in T
  PROVE  \A n \in Nat : n \in T
<1> DEFINE R == OpToRel(<, Nat)
           Out == {n \in Nat : n \notin T}
<1>1. \A x, y \in Nat : x < y => <<x, y>> \in R
  BY DEF OpToRel
<1>2. IsWellFoundedOn(R, Nat)
  BY NatLessThanWellFounded
<1> HIDE DEF R
<1> SUFFICES ASSUME Out # {} PROVE FALSE
  OBVIOUS
<1>3. PICK x \in Out : \A y \in Out : ~ (<<y, x>> \in R)
  BY <1>2, LeastIn
<1>4. x \in Nat /\ x # 0 /\ x \notin T
  BY <1>3
<1>5. x - 1 \in Nat /\ x - 1 < x /\ (x - 1) + 1 = x
  BY <1>4
<1>6. x - 1 \notin Out
  BY <1>1, <1>3, <1>4, <1>5
<1>q. QED
  BY <1>4, <1>5, <1>6

(* f is what h makes of d, again and again.                                *)
Run(S, d, h, f) == /\ f \in [Nat -> S] /\ f[0] = d
                   /\ \A n \in Nat : f[n + 1] = h[f[n]]

(* There is such a function.                                               *)
LEMMA Iterates ==
  ASSUME NEW S, NEW d \in S, NEW h \in [S -> S]
  PROVE  \E f : Run(S, d, h, f)
<1> DEFINE Up(n) == {g \in [0 .. n -> S] : g[0] = d /\ \A k \in 0 .. n - 1 : g[k + 1] = h[g[k]]}
           Some == {n \in Nat : Up(n) # {}}
           Same(n) == \A m \in Nat : n <= m => \A g \in Up(n), j \in Up(m) : g[n] = j[n]
<1>1. \A n \in Nat : n \in Some
  <2>1. 0 \in Some
    <3>1. [k \in 0 .. 0 |-> d] \in Up(0)
      OBVIOUS
    <3>q. QED
      BY <3>1
  <2>2. ASSUME NEW n \in Nat, n \in Some PROVE n + 1 \in Some
    <3>1. PICK g : g \in Up(n)
      BY <2>2
    <3> DEFINE j == [k \in 0 .. n + 1 |-> IF k = n + 1 THEN h[g[n]] ELSE g[k]]
    <3>2. g \in [0 .. n -> S] /\ g[0] = d /\ \A k \in 0 .. n - 1 : g[k + 1] = h[g[k]]
      BY <3>1
    <3>3. h[g[n]] \in S
      BY <3>2
    <3>4. j \in [0 .. n + 1 -> S] /\ j[0] = d
      BY <3>2, <3>3
    <3>5. ASSUME NEW k \in 0 .. n PROVE j[k + 1] = h[j[k]]
      <4>1. CASE k = n
        BY <4>1
      <4>2. CASE k # n
        <5>1. k \in 0 .. n - 1 /\ k + 1 \in 0 .. n /\ k + 1 # n + 1 /\ k # n + 1
          BY <4>2
        <5>q. QED
          BY <3>2, <5>1
      <4>q. QED
        BY <4>1, <4>2
    <3>6. (n + 1) - 1 = n /\ n + 1 \in Nat
      OBVIOUS
    <3> HIDE DEF j
    <3>7. j \in Up(n + 1)
      BY <3>4, <3>5, <3>6
    <3>q. QED
      BY <3>6, <3>7
  <2> HIDE DEF Some
  <2>q. QED
    BY <2>1, <2>2, Induction
<1>2. \A n \in Nat : Same(n)
  <2> DEFINE T == {n \in Nat : Same(n)}
  <2>1. 0 \in T
    OBVIOUS
  <2>2. ASSUME NEW n \in Nat, n \in T PROVE n + 1 \in T
    <3> SUFFICES ASSUME NEW m \in Nat, n + 1 <= m, NEW g \in Up(n + 1), NEW j \in Up(m)
                 PROVE  g[n + 1] = j[n + 1]
      OBVIOUS
    <3> DEFINE low == [k \in 0 .. n |-> g[k]]
    <3>1. /\ g \in [0 .. n + 1 -> S] /\ g[0] = d /\ \A k \in 0 .. n : g[k + 1] = h[g[k]]
      OBVIOUS
    <3>2. low \in Up(n)
      BY <3>1
    <3>3. low[n] = g[n] /\ n <= m
      OBVIOUS
    <3>4. g[n] = j[n]
      <4>1. Same(n)
        BY <2>2
      <4> HIDE DEF low
      <4>q. QED
        BY <4>1, <3>2, <3>3
    <3>5. g[n + 1] = h[g[n]]
      BY <3>1
    <3>6. j[n + 1] = h[j[n]]
      <4>1. n \in 0 .. m - 1
        OBVIOUS
      <4>q. QED
        BY <4>1
    <3>q. QED
      BY <3>4, <3>5, <3>6
  <2>3. \A n \in Nat : n \in T
    <3> HIDE DEF T
    <3>q. QED
      BY <2>1, <2>2, Induction
  <2>q. QED
    BY <2>3
<1> DEFINE pick == [n \in Nat |-> CHOOSE g : g \in Up(n)]
           f == [n \in Nat |-> pick[n][n]]
<1>3. \A n \in Nat : pick[n] \in Up(n)
  BY <1>1
<1>4. ASSUME NEW n \in Nat PROVE f[n] \in S /\ f[n] = pick[n][n]
  <2> HIDE DEF pick
  <2>1. pick[n] \in [0 .. n -> S]
    BY <1>3
  <2>2. n \in 0 .. n
    OBVIOUS
  <2>q. QED
    BY <2>1, <2>2
<1>5. f[0] = d
  <2>1. pick[0][0] = d
    BY <1>3
  <2>q. QED
    BY <2>1
<1>6. ASSUME NEW n \in Nat PROVE f[n + 1] = h[f[n]]
  <2> DEFINE g == pick[n]
             j == pick[n + 1]
  <2>0. n + 1 \in Nat /\ n <= n + 1 /\ n \in 0 .. (n + 1) - 1
    OBVIOUS
  <2>1. g \in Up(n) /\ j \in Up(n + 1)
    BY <1>3, <2>0
  <2>2. f[n] = g[n] /\ f[n + 1] = j[n + 1]
    BY <2>0
  <2> HIDE DEF g, j, pick, f
  <2>3. g[n] = j[n]
    <3>1. Same(n)
      BY <1>2
    <3>q. QED
      BY <3>1, <2>0, <2>1
  <2>4. j[n + 1] = h[j[n]]
    BY <2>0, <2>1
  <2>q. QED
    BY <2>2, <2>3, <2>4
<1>7. f \in [Nat -> S]
  <2> HIDE DEF pick
  <2>q. QED
    BY <1>4
<1> HIDE DEF f
<1>q. QED
  BY <1>5, <1>6, <1>7 DEF Run

(* f is g where the loop ends, and there is one more turn where it does not. *)
Calls(S, R, D, g, h, f) ==
  f \in [S -> R] /\ \A s \in S : f[s] = IF s \in D THEN g[s] ELSE f[h[s]]

(* A loop as a function that calls itself last: there is one, whatever the *)
(* loop does, also if it does not end.                                     *)
LEMMA TailCalls ==
  ASSUME NEW S, NEW R, NEW D, NEW g \in [S -> R], NEW h \in [S -> S]
  PROVE  \E f : Calls(S, R, D, g, h, f)
<1> DEFINE M == [S -> S]
           H == [m \in M |-> [s \in S |-> m[h[s]]]]
           id == [s \in S |-> s]
<1>0. id \in M
  OBVIOUS
<1>1. H \in [M -> M]
  OBVIOUS
<1>2. PICK it \in [Nat -> M] : it[0] = id /\ \A n \in Nat : it[n + 1] = H[it[n]]
  <2> HIDE DEF M, H, id
  <2>1. \E it : Run(M, id, H, it)
    BY <1>0, <1>1, Iterates
  <2>q. QED
    BY <2>1 DEF Run
<1>3. ASSUME NEW n \in Nat, NEW s \in S
      PROVE  it[n][s] \in S /\ it[n + 1][s] = it[n][h[s]]
  <2>1. it[n] \in M /\ h[s] \in S
    BY <1>2
  <2>2. H[it[n]] = [t \in S |-> it[n][h[t]]]
    BY <2>1
  <2>3. it[n + 1] = H[it[n]]
    BY <1>2
  <2>q. QED
    BY <2>1, <2>2, <2>3
<1>4. \A s \in S : it[0][s] = s
  BY <1>2
<1> HIDE DEF M, H, id
<1> DEFINE N(s) == {n \in Nat : it[n][s] \in D}
           Least(T) == CHOOSE x \in T : \A y \in T : x <= y
           none == CHOOSE r \in R : TRUE
           f == [s \in S |-> IF N(s) = {} THEN none ELSE g[it[Least(N(s))][s]]]
<1>5. ASSUME NEW T, T \subseteq Nat, T # {}
      PROVE  Least(T) \in T /\ \A y \in T : Least(T) <= y
  <2> DEFINE L == OpToRel(<, Nat)
  <2>1. \A x, y \in Nat : x < y => <<x, y>> \in L
    BY DEF OpToRel
  <2>2. IsWellFoundedOn(L, Nat)
    BY NatLessThanWellFounded
  <2> HIDE DEF L
  <2>3. PICK x \in T : \A y \in T : ~ (<<y, x>> \in L)
    BY <1>5, <2>2, LeastIn
  <2>4. \A y \in T : x \in Nat /\ y \in Nat /\ ~ (y < x)
    BY <1>5, <2>1, <2>3
  <2>5. \E z \in T : \A y \in T : z <= y
    BY <2>4
  <2>q. QED
    BY <2>5
<1>6. ASSUME NEW T, T \subseteq Nat, NEW x \in T, \A y \in T : x <= y
      PROVE  Least(T) = x
  <2>1. Least(T) \in T /\ \A y \in T : Least(T) <= y
    BY <1>5, <1>6
  <2> HIDE DEF Least
  <2>2. Least(T) \in Nat /\ x \in Nat /\ Least(T) <= x /\ x <= Least(T)
    BY <1>6, <2>1
  <2>q. QED
    BY <2>2
<1> HIDE DEF Least
<1>7. ASSUME NEW s \in S PROVE f[s] \in R
  <2>1. CASE N(s) = {}
    <3>1. g[s] \in R
      OBVIOUS
    <3>q. QED
      BY <2>1, <3>1
  <2>2. CASE N(s) # {}
    <3>1. Least(N(s)) \in Nat
      BY <2>2, <1>5
    <3>2. it[Least(N(s))][s] \in S
      BY <1>3, <3>1
    <3>q. QED
      BY <2>2, <3>2
  <2>q. QED
    BY <2>1, <2>2
<1>8. ASSUME NEW s \in S, s \in D PROVE f[s] = g[s]
  <2>1. 0 \in N(s) /\ \A n \in N(s) : 0 <= n
    BY <1>4, <1>8
  <2>2. Least(N(s)) = 0
    <3>1. N(s) \subseteq Nat
      OBVIOUS
    <3> HIDE DEF N
    <3>q. QED
      BY <1>6, <2>1, <3>1
  <2>q. QED
    BY <1>4, <2>1, <2>2
<1>9. ASSUME NEW s \in S, s \notin D PROVE f[s] = f[h[s]]
  <2>0. h[s] \in S
    OBVIOUS
  <2>1. \A n \in Nat : n + 1 \in N(s) <=> n \in N(h[s])
    BY <1>3
  <2>2. 0 \notin N(s)
    BY <1>4, <1>9
  <2>3. CASE N(h[s]) = {}
    <3>1. ASSUME NEW n \in N(s) PROVE FALSE
      <4>1. n \in Nat /\ n # 0
        BY <2>2
      <4>2. n - 1 \in Nat /\ (n - 1) + 1 = n
        BY <4>1
      <4>3. n - 1 \in N(h[s])
        BY <4>2, <2>1
      <4>q. QED
        BY <4>3, <2>3
    <3>2. N(s) = {}
      BY <3>1, SMTT(40)
    <3>q. QED
      BY <2>0, <2>3, <3>2
  <2>4. CASE N(h[s]) # {}
    <3> DEFINE x == Least(N(h[s]))
    <3>1. x \in N(h[s]) /\ \A y \in N(h[s]) : x <= y
      BY <2>4, <1>5
    <3>2. x \in Nat /\ x + 1 \in N(s)
      BY <3>1, <2>1
    <3>3. ASSUME NEW n \in N(s) PROVE x + 1 <= n
      <4>1. n \in Nat /\ n # 0
        BY <2>2
      <4>2. n - 1 \in Nat /\ (n - 1) + 1 = n
        BY <4>1
      <4>3. n - 1 \in N(h[s])
        BY <4>2, <2>1
      <4>4. x <= n - 1
        BY <4>3, <3>1
      <4> HIDE DEF x
      <4>q. QED
        BY <4>1, <4>4, <3>2
    <3>4. N(s) \subseteq Nat
      OBVIOUS
    <3>5. Least(N(s)) = x + 1
      <4> HIDE DEF N, x
      <4>q. QED
        BY <3>2, <3>3, <3>4, <1>6
    <3>6. it[x + 1][s] = it[x][h[s]]
      BY <3>2, <1>3
    <3>7. f[s] = g[it[x + 1][s]]
      BY <3>2, <3>5
    <3>8. f[h[s]] = g[it[x][h[s]]]
      BY <2>0, <2>4
    <3>q. QED
      BY <3>6, <3>7, <3>8
  <2>q. QED
    BY <2>3, <2>4
<1>10. f \in [S -> R]
  <2> HIDE DEF N, none
  <2>q. QED
    BY <1>7
<1> HIDE DEF f
<1>q. QED
  BY <1>8, <1>9, <1>10 DEF Calls

-----------------------------------------------------------------------------
(* Words and CRCs.                                                         *)

(* A word of 15 bits with a bit inverted.                                  *)
LEMMA FlipIs ==
  \A w \in Nat : w < 32768 =>
    /\ Flip(w, 8192) \in Nat /\ Flip(w, 8192) < 32768
    /\ Flip(w, 1) \in Nat /\ Flip(w, 1) < 32768
<1> SUFFICES ASSUME NEW w \in Nat, w < 32768
             PROVE  /\ Flip(w, 8192) \in Nat /\ Flip(w, 8192) < 32768
                    /\ Flip(w, 1) \in Nat /\ Flip(w, 1) < 32768
  OBVIOUS
<1>1. (w \div 8192) % 2 = 1 => w >= 8192
  OBVIOUS
<1>2. (w \div 8192) % 2 # 1 => w < 24576
  OBVIOUS
<1>3. w \div 1 = w /\ (w % 2 = 1 => w >= 1) /\ (w % 2 # 1 => w < 32767)
  OBVIOUS
<1>4. Flip(w, 8192) \in Nat /\ Flip(w, 8192) < 32768
  BY <1>1, <1>2 DEF Flip
<1>5. Flip(w, 1) \in Nat /\ Flip(w, 1) < 32768
  BY <1>3 DEF Flip
<1>q. QED
  BY <1>4, <1>5

(* One turn of the LFSR gives a word.                                      *)
LEMMA LfsrIs ==
  ASSUME NEW s \in Shifts, s.n # 0
  PROVE  Lfsr(s) \in Shifts
<1>1. s.n \in Nat /\ s.data \in Nat /\ s.crc \in Nat /\ s.crc < 65536
  BY DEF Shifts, Word16
<1>2. s.n - 1 \in Nat
  BY <1>1
<1>3. s.data \div 2 \in Nat
  BY <1>1
<1>4. s.crc \div 2 \in Nat /\ s.crc \div 2 < 32768
  BY <1>1
<1>5. Flip(s.crc \div 2, 8192) \in Nat /\ Flip(s.crc \div 2, 8192) < 32768
  BY <1>4, FlipIs
<1>6. Flip(Flip(s.crc \div 2, 8192), 1) \in Nat /\ Flip(Flip(s.crc \div 2, 8192), 1) < 32768
  BY <1>5, FlipIs
<1>7. Flip(Flip(s.crc \div 2, 8192), 1) + 32768 \in Word16
  BY <1>6 DEF Word16
<1>8. s.crc \div 2 \in Word16
  BY <1>4 DEF Word16
<1>9. (IF (s.data + s.crc) % 2 = 0 THEN s.crc \div 2
       ELSE Flip(Flip(s.crc \div 2, 8192), 1) + 32768) \in Word16
  BY <1>7, <1>8
<1>q. QED
  BY <1>2, <1>3, <1>9 DEF Lfsr, Shifts

(* The recursion of the CRC.                                               *)
LEMMA ShiftedIs ==
  \A s \in Shifts : Shifted[s] = IF s.n = 0 THEN s.crc ELSE Shifted[Lfsr(s)]
<1> DEFINE D == {s \in Shifts : s.n = 0}
           g == [s \in Shifts |-> s.crc]
           h == [s \in Shifts |-> IF s \in D THEN s ELSE Lfsr(s)]
<1>1. g \in [Shifts -> Word16]
  BY DEF Shifts
<1>2. h \in [Shifts -> Shifts]
  BY LfsrIs
<1>3. \E f : Calls(Shifts, Word16, D, g, h, f)
  <2> HIDE DEF D, g, h
  <2>q. QED
    BY <1>1, <1>2, TailCalls
<1>4. PICK f : Calls(Shifts, Word16, D, g, h, f)
  BY <1>3
<1>5. f = [s \in Shifts |-> IF s.n = 0 THEN s.crc ELSE f[Lfsr(s)]]
  <2>1. \A s \in Shifts : f[s] = IF s.n = 0 THEN s.crc ELSE f[Lfsr(s)]
    BY <1>4 DEF Calls
  <2>2. f = [s \in Shifts |-> f[s]]
    BY <1>4 DEF Calls
  <2>q. QED
    BY <2>1, <2>2
<1>6. Shifted = [s \in Shifts |-> IF s.n = 0 THEN s.crc ELSE Shifted[Lfsr(s)]]
  BY <1>5 DEF Shifted
<1>q. QED
  BY <1>6

(* A CRC is a word of 16 bits.                                             *)
LEMMA CrcBitsIs ==
  \A n, data \in Nat, crc \in Word16 : CrcBits(n, data, crc) \in Word16
<1> DEFINE T == {n \in Nat : \A s \in Shifts : s.n = n => Shifted[s] \in Word16}
<1>1. 0 \in T
  <2>1. \A s \in Shifts : s.n = 0 => Shifted[s] \in Word16
    BY ShiftedIs DEF Shifts
  <2>q. QED
    BY <2>1
<1>2. ASSUME NEW n \in Nat, n \in T PROVE n + 1 \in T
  <2> SUFFICES ASSUME NEW s \in Shifts, s.n = n + 1 PROVE Shifted[s] \in Word16
    OBVIOUS
  <2>1. s.n # 0
    OBVIOUS
  <2>2. Lfsr(s) \in Shifts /\ Lfsr(s).n = n
    BY <2>1, LfsrIs DEF Lfsr
  <2>q. QED
    BY <1>2, <2>1, <2>2, ShiftedIs
<1>3. \A n \in Nat : n \in T
  <2> HIDE DEF T
  <2>q. QED
    BY <1>1, <1>2, Induction
<1> SUFFICES ASSUME NEW n \in Nat, NEW data \in Nat, NEW crc \in Word16
             PROVE  CrcBits(n, data, crc) \in Word16
  OBVIOUS
<1>4. [n |-> n, data |-> data, crc |-> crc] \in Shifts
  BY DEF Shifts
<1>q. QED
  BY <1>3, <1>4 DEF CrcBits

(* What the code computes the CRC of: a word, and a number of 32 bits.     *)
LEMMA CrcsAre ==
  /\ \A w \in Int, crc \in Word16 : crc16(w, crc) \in Word16 /\ crc16(w, crc) = crcu16(w % 65536, crc)
  /\ \A w \in Nat, crc \in Word16 : crcu16(w, crc) \in Word16 /\ crcu32(w, crc) \in Word16
<1>1. \A w \in Nat, crc \in Word16 : crcu16(w, crc) \in Word16 /\ crcu32(w, crc) \in Word16
  BY CrcBitsIs DEF crcu16, crcu32
<1>2. \A w \in Int : U16(w) \in Nat /\ U16(w) = w % 65536
  BY DEF U16
<1>q. QED
  BY <1>1, <1>2 DEF crc16

(* What a turn of the shift register makes of it.                          *)
Rotated(data, crc) == IF (data + crc) % 2 = 0 THEN crc \div 2
                      ELSE Flip(Flip(crc \div 2, 8192), 1) + 32768

(* It is again a word of 16 bits.                                          *)
LEMMA RotatedIs ==
  \A data, crc \in Nat : crc < 65536 => Rotated(data, crc) \in Nat /\ Rotated(data, crc) < 65536
<1> SUFFICES ASSUME NEW data \in Nat, NEW crc \in Nat, crc < 65536
             PROVE  Rotated(data, crc) \in Nat /\ Rotated(data, crc) < 65536
  OBVIOUS
<1>1. crc \div 2 \in Nat /\ crc \div 2 < 32768
  OBVIOUS
<1>2. Flip(crc \div 2, 8192) \in Nat /\ Flip(crc \div 2, 8192) < 32768
  BY <1>1, FlipIs
<1>3. Flip(Flip(crc \div 2, 8192), 1) \in Nat /\ Flip(Flip(crc \div 2, 8192), 1) < 32768
  BY <1>2, FlipIs
<1>q. QED
  BY <1>1, <1>3 DEF Rotated

(* One turn of the CRC.                                                    *)
Turning(n, data, crc) ==
  /\ CrcBits(n, data, crc) = CrcBits(n - 1, data \div 2, Rotated(data, crc))
  /\ Rotated(data, crc) \in Nat /\ Rotated(data, crc) < 65536

\* A turn of crcu8 takes a bit of the byte and leaves a word in the register.
LEMMA Bit ==
  \A n, data, crc \in Nat : n # 0 /\ crc < 65536 => Turning(n, data, crc)
<1> SUFFICES ASSUME NEW n \in Nat, NEW data \in Nat, NEW crc \in Nat, n # 0, crc < 65536
             PROVE  Turning(n, data, crc)
  OBVIOUS
<1> DEFINE s == [n |-> n, data |-> data, crc |-> crc]
<1>1. s \in Shifts /\ s.n # 0
  BY DEF Shifts, Word16
<1>2. Shifted[s] = Shifted[Lfsr(s)]
  BY <1>1, ShiftedIs
<1>3. CrcBits(n, data, crc) = CrcBits(n - 1, data \div 2, Rotated(data, crc))
  BY <1>2 DEF CrcBits, Lfsr, Rotated
<1>4. Rotated(data, crc) \in Nat /\ Rotated(data, crc) < 65536
  BY RotatedIs
<1>q. QED
  BY <1>3, <1>4 DEF Turning

(* Eight turns, crcu8.                                                     *)
Byte(data, crc) ==
  Rotated(data \div 128, Rotated(data \div 64, Rotated(data \div 32, Rotated(data \div 16,
    Rotated(data \div 8, Rotated(data \div 4, Rotated(data \div 2, Rotated(data, crc))))))))

(* What eight turns come to.                                               *)
Bytewise(n, data, crc) ==
  /\ CrcBits(n, data, crc) = CrcBits(n - 8, data \div 256, Byte(data, crc))
  /\ Byte(data, crc) \in Nat /\ Byte(data, crc) < 65536

\* Eight turns of crcu8 are one byte of it, and leave a word in the register.
LEMMA ByteIs ==
  ASSUME NEW n \in Nat, n >= 8, NEW data \in Nat, NEW crc \in Nat, crc < 65536
  PROVE  Bytewise(n, data, crc)
<1> DEFINE d(k) == data \div k
           c1 == Rotated(data, crc)
           c2 == Rotated(d(2), c1)
           c3 == Rotated(d(4), c2)
           c4 == Rotated(d(8), c3)
           c5 == Rotated(d(16), c4)
           c6 == Rotated(d(32), c5)
           c7 == Rotated(d(64), c6)
           c8 == Rotated(d(128), c7)
<1>1. Byte(data, crc) = c8
  BY DEF Byte
<1>2. {d(2), d(4), d(8), d(16), d(32), d(64), d(128), d(256)} \subseteq Nat
  OBVIOUS
<1>3. /\ d(2) = data \div 2 /\ d(4) = d(2) \div 2 /\ d(8) = d(4) \div 2 /\ d(16) = d(8) \div 2
      /\ d(32) = d(16) \div 2 /\ d(64) = d(32) \div 2 /\ d(128) = d(64) \div 2
      /\ d(256) = d(128) \div 2 /\ d(256) = data \div 256
  OBVIOUS
<1> HIDE DEF d
<1> DEFINE m(k) == n - k
<1>4. /\ {m(1), m(2), m(3), m(4), m(5), m(6), m(7)} \subseteq Nat \ {0}
      /\ n # 0 /\ m(1) = n - 1 /\ m(2) = m(1) - 1 /\ m(3) = m(2) - 1 /\ m(4) = m(3) - 1
      /\ m(5) = m(4) - 1 /\ m(6) = m(5) - 1 /\ m(7) = m(6) - 1 /\ m(8) = m(7) - 1 /\ m(8) = n - 8
  OBVIOUS
<1> HIDE DEF m
<1>5. Turning(n, data, crc)
  BY <1>2, <1>4, Bit
<1>6. CrcBits(n, data, crc) = CrcBits(m(1), d(2), c1) /\ c1 \in Nat /\ c1 < 65536
  BY <1>3, <1>4, <1>5 DEF Turning
<1> HIDE DEF c1
<1>7. Turning(m(1), d(2), c1)
  BY <1>2, <1>4, <1>6, Bit
<1>8. CrcBits(m(1), d(2), c1) = CrcBits(m(2), d(4), c2) /\ c2 \in Nat /\ c2 < 65536
  BY <1>3, <1>4, <1>7 DEF Turning
<1> HIDE DEF c2
<1>9. Turning(m(2), d(4), c2)
  BY <1>2, <1>4, <1>8, Bit
<1>10. CrcBits(m(2), d(4), c2) = CrcBits(m(3), d(8), c3) /\ c3 \in Nat /\ c3 < 65536
  BY <1>3, <1>4, <1>9 DEF Turning
<1> HIDE DEF c3
<1>11. Turning(m(3), d(8), c3)
  BY <1>2, <1>4, <1>10, Bit
<1>12. CrcBits(m(3), d(8), c3) = CrcBits(m(4), d(16), c4) /\ c4 \in Nat /\ c4 < 65536
  BY <1>3, <1>4, <1>11 DEF Turning
<1> HIDE DEF c4
<1>13. Turning(m(4), d(16), c4)
  BY <1>2, <1>4, <1>12, Bit
<1>14. CrcBits(m(4), d(16), c4) = CrcBits(m(5), d(32), c5) /\ c5 \in Nat /\ c5 < 65536
  BY <1>3, <1>4, <1>13 DEF Turning
<1> HIDE DEF c5
<1>15. Turning(m(5), d(32), c5)
  BY <1>2, <1>4, <1>14, Bit
<1>16. CrcBits(m(5), d(32), c5) = CrcBits(m(6), d(64), c6) /\ c6 \in Nat /\ c6 < 65536
  BY <1>3, <1>4, <1>15 DEF Turning
<1> HIDE DEF c6
<1>17. Turning(m(6), d(64), c6)
  BY <1>2, <1>4, <1>16, Bit
<1>18. CrcBits(m(6), d(64), c6) = CrcBits(m(7), d(128), c7) /\ c7 \in Nat /\ c7 < 65536
  BY <1>3, <1>4, <1>17 DEF Turning
<1> HIDE DEF c7
<1>19. Turning(m(7), d(128), c7)
  BY <1>2, <1>4, <1>18, Bit
<1>20. CrcBits(m(7), d(128), c7) = CrcBits(m(8), d(256), c8) /\ c8 \in Nat /\ c8 < 65536
  BY <1>3, <1>4, <1>19 DEF Turning
<1> HIDE DEF c8
<1>q. QED
  BY <1>1, <1>3, <1>4, <1>6, <1>8, <1>10, <1>12, <1>14, <1>16, <1>18, <1>20 DEF Bytewise

(* The CRC of a word, byte by byte.                                        *)
LEMMA CrcByBytes ==
  \A w, crc \in Nat : w < 65536 /\ crc < 65536 => crc16(w, crc) = Byte(w \div 256, Byte(w, crc))
<1> SUFFICES ASSUME NEW w \in Nat, NEW crc \in Nat, w < 65536, crc < 65536
             PROVE  crc16(w, crc) = Byte(w \div 256, Byte(w, crc))
  OBVIOUS
<1>1. w \div 256 \in Nat
  OBVIOUS
<1>2. Bytewise(16, w, crc)
  BY ByteIs
<1>3. Bytewise(8, w \div 256, Byte(w, crc))
  <2>1. Byte(w, crc) \in Nat /\ Byte(w, crc) < 65536
    BY <1>2 DEF Bytewise
  <2>q. QED
    BY <1>1, <2>1, ByteIs
<1>4. ASSUME NEW d \in Nat, NEW c \in Word16 PROVE CrcBits(0, d, c) = c
  <2>1. [n |-> 0, data |-> d, crc |-> c] \in Shifts
    BY DEF Shifts
  <2>q. QED
    BY <2>1, ShiftedIs DEF CrcBits
<1>5. (w \div 256) \div 256 \in Nat /\ Byte(w \div 256, Byte(w, crc)) \in Word16
  BY <1>1, <1>3 DEF Word16, Bytewise
<1>6. crc16(w, crc) = CrcBits(16, w, crc)
  BY DEF crc16, crcu16, U16
<1>q. QED
  BY <1>2, <1>3, <1>4, <1>5, <1>6 DEF Bytewise

(* What inverting a bit comes to.                                          *)
LEMMA FlipOf ==
  \A w \in Nat : /\ Flip(w, 8192) = IF (w \div 8192) % 2 = 1 THEN w - 8192 ELSE w + 8192
                 /\ Flip(w, 1) = IF w % 2 = 1 THEN w - 1 ELSE w + 1
BY DEF Flip

(* The CRCs main takes of the seeds and sizes it knows: the words it passes *)
(* through, for each the states of the shift register after each turn.      *)
LEMMA SeedCrcs ==
  /\ crc16(0, 0) = 0 /\ crc16(102, 0) = 41003 /\ crc16(2000, 41003) = 35330
  /\ crc16(13333, 0) = 18191 /\ crc16(13333, 18191) = 34122 /\ crc16(102, 34122) = 25565
  /\ crc16(2000, 25565) = 31493 /\ crc16(8, 0) = 49159 /\ crc16(8, 49159) = 40965
  /\ crc16(8, 40965) = 59396 /\ crc16(400, 59396) = 20143 /\ crc16(666, 41003) = 59893
  /\ crc16(666, 25565) = 6386
<1>1. crc16(0, 0) = 0
  <2>1. /\ Rotated(0, 0) = 0
    BY FlipOf, SMTT(60) DEF Rotated
  <2>2. Byte(0, 0) = 0
    BY <2>1, SMTT(60) DEF Byte
  <2>3. Byte(0, 0) = 0
    BY <2>1, SMTT(60) DEF Byte
  <2>q. QED
    BY <2>2, <2>3, CrcByBytes, SMTT(60)
<1>2. crc16(102, 0) = 41003
  <2>1. /\ Rotated(102, 0) = 0 /\ Rotated(51, 0) = 40961 /\ Rotated(25, 40961) = 20480
        /\ Rotated(12, 20480) = 10240 /\ Rotated(6, 10240) = 5120 /\ Rotated(3, 5120) = 43521
        /\ Rotated(1, 43521) = 21760 /\ Rotated(0, 21760) = 10880 /\ Rotated(0, 10880) = 5440
        /\ Rotated(0, 5440) = 2720 /\ Rotated(0, 2720) = 1360 /\ Rotated(0, 1360) = 680
        /\ Rotated(0, 680) = 340 /\ Rotated(0, 340) = 170 /\ Rotated(0, 170) = 85
        /\ Rotated(0, 85) = 41003
    BY FlipOf, SMTT(60) DEF Rotated
  <2>2. Byte(102, 0) = 10880
    BY <2>1, SMTT(60) DEF Byte
  <2>3. Byte(0, 10880) = 41003
    BY <2>1, SMTT(60) DEF Byte
  <2>q. QED
    BY <2>2, <2>3, CrcByBytes, SMTT(60)
<1>3. crc16(2000, 41003) = 35330
  <2>1. /\ Rotated(2000, 41003) = 61460 /\ Rotated(1000, 61460) = 30730
        /\ Rotated(500, 30730) = 15365 /\ Rotated(250, 15365) = 48643
        /\ Rotated(125, 48643) = 24321 /\ Rotated(62, 24321) = 36737 /\ Rotated(31, 36737) = 18368
        /\ Rotated(15, 18368) = 33761 /\ Rotated(7, 33761) = 16880 /\ Rotated(3, 16880) = 33017
        /\ Rotated(1, 33017) = 16508 /\ Rotated(0, 16508) = 8254 /\ Rotated(0, 8254) = 4127
        /\ Rotated(0, 4127) = 43022 /\ Rotated(0, 43022) = 21511 /\ Rotated(0, 21511) = 35330
    BY FlipOf, SMTT(60) DEF Rotated
  <2>2. Byte(2000, 41003) = 33761
    BY <2>1, SMTT(60) DEF Byte
  <2>3. Byte(7, 33761) = 35330
    BY <2>1, SMTT(60) DEF Byte
  <2>q. QED
    BY <2>2, <2>3, CrcByBytes, SMTT(60)
<1>4. crc16(13333, 0) = 18191
  <2>1. /\ Rotated(13333, 0) = 40961 /\ Rotated(6666, 40961) = 61441
        /\ Rotated(3333, 61441) = 30720 /\ Rotated(1666, 30720) = 15360
        /\ Rotated(833, 15360) = 48641 /\ Rotated(416, 48641) = 65281
        /\ Rotated(208, 65281) = 57217 /\ Rotated(104, 57217) = 53185
        /\ Rotated(52, 53185) = 51169 /\ Rotated(26, 51169) = 50161 /\ Rotated(13, 50161) = 25080
        /\ Rotated(6, 25080) = 12540 /\ Rotated(3, 12540) = 47231 /\ Rotated(1, 47231) = 23615
        /\ Rotated(0, 23615) = 36382 /\ Rotated(0, 36382) = 18191
    BY FlipOf, SMTT(60) DEF Rotated
  <2>2. Byte(13333, 0) = 53185
    BY <2>1, SMTT(60) DEF Byte
  <2>3. Byte(52, 53185) = 18191
    BY <2>1, SMTT(60) DEF Byte
  <2>q. QED
    BY <2>2, <2>3, CrcByBytes, SMTT(60)
<1>5. crc16(13333, 18191) = 34122
  <2>1. /\ Rotated(13333, 18191) = 9095 /\ Rotated(6666, 9095) = 45506
        /\ Rotated(3333, 45506) = 63712 /\ Rotated(1666, 63712) = 31856
        /\ Rotated(833, 31856) = 40505 /\ Rotated(416, 40505) = 61213
        /\ Rotated(208, 61213) = 55183 /\ Rotated(104, 55183) = 52166
        /\ Rotated(52, 52166) = 26083 /\ Rotated(26, 26083) = 37616 /\ Rotated(13, 37616) = 59769
        /\ Rotated(6, 59769) = 54461 /\ Rotated(3, 54461) = 27230 /\ Rotated(1, 27230) = 38190
        /\ Rotated(0, 38190) = 19095 /\ Rotated(0, 19095) = 34122
    BY FlipOf, SMTT(60) DEF Rotated
  <2>2. Byte(13333, 18191) = 52166
    BY <2>1, SMTT(60) DEF Byte
  <2>3. Byte(52, 52166) = 34122
    BY <2>1, SMTT(60) DEF Byte
  <2>q. QED
    BY <2>2, <2>3, CrcByBytes, SMTT(60)
<1>6. crc16(102, 34122) = 25565
  <2>1. /\ Rotated(102, 34122) = 17061 /\ Rotated(51, 17061) = 8530 /\ Rotated(25, 8530) = 45224
        /\ Rotated(12, 45224) = 22612 /\ Rotated(6, 22612) = 11306 /\ Rotated(3, 11306) = 46612
        /\ Rotated(1, 46612) = 64267 /\ Rotated(0, 64267) = 56708 /\ Rotated(0, 56708) = 28354
        /\ Rotated(0, 28354) = 14177 /\ Rotated(0, 14177) = 48049 /\ Rotated(0, 48049) = 64985
        /\ Rotated(0, 64985) = 57069 /\ Rotated(0, 57069) = 53111 /\ Rotated(0, 53111) = 51130
        /\ Rotated(0, 51130) = 25565
    BY FlipOf, SMTT(60) DEF Rotated
  <2>2. Byte(102, 34122) = 56708
    BY <2>1, SMTT(60) DEF Byte
  <2>3. Byte(0, 56708) = 25565
    BY <2>1, SMTT(60) DEF Byte
  <2>q. QED
    BY <2>2, <2>3, CrcByBytes, SMTT(60)
<1>7. crc16(2000, 25565) = 31493
  <2>1. /\ Rotated(2000, 25565) = 37359 /\ Rotated(1000, 37359) = 59638
        /\ Rotated(500, 59638) = 29819 /\ Rotated(250, 29819) = 39484
        /\ Rotated(125, 39484) = 60703 /\ Rotated(62, 60703) = 54926 /\ Rotated(31, 54926) = 52038
        /\ Rotated(15, 52038) = 50594 /\ Rotated(7, 50594) = 49872 /\ Rotated(3, 49872) = 49513
        /\ Rotated(1, 49513) = 24756 /\ Rotated(0, 24756) = 12378 /\ Rotated(0, 12378) = 6189
        /\ Rotated(0, 6189) = 44055 /\ Rotated(0, 44055) = 62986 /\ Rotated(0, 62986) = 31493
    BY FlipOf, SMTT(60) DEF Rotated
  <2>2. Byte(2000, 25565) = 50594
    BY <2>1, SMTT(60) DEF Byte
  <2>3. Byte(7, 50594) = 31493
    BY <2>1, SMTT(60) DEF Byte
  <2>q. QED
    BY <2>2, <2>3, CrcByBytes, SMTT(60)
<1>8. crc16(8, 0) = 49159
  <2>1. /\ Rotated(8, 0) = 0 /\ Rotated(4, 0) = 0 /\ Rotated(2, 0) = 0 /\ Rotated(1, 0) = 40961
        /\ Rotated(0, 40961) = 61441 /\ Rotated(0, 61441) = 55297 /\ Rotated(0, 55297) = 52225
        /\ Rotated(0, 52225) = 50689 /\ Rotated(0, 50689) = 49921 /\ Rotated(0, 49921) = 49537
        /\ Rotated(0, 49537) = 49345 /\ Rotated(0, 49345) = 49249 /\ Rotated(0, 49249) = 49201
        /\ Rotated(0, 49201) = 49177 /\ Rotated(0, 49177) = 49165 /\ Rotated(0, 49165) = 49159
    BY FlipOf, SMTT(60) DEF Rotated
  <2>2. Byte(8, 0) = 50689
    BY <2>1, SMTT(60) DEF Byte
  <2>3. Byte(0, 50689) = 49159
    BY <2>1, SMTT(60) DEF Byte
  <2>q. QED
    BY <2>2, <2>3, CrcByBytes, SMTT(60)
<1>9. crc16(8, 49159) = 40965
  <2>1. /\ Rotated(8, 49159) = 49154 /\ Rotated(4, 49154) = 24577 /\ Rotated(2, 24577) = 36865
        /\ Rotated(1, 36865) = 18432 /\ Rotated(0, 18432) = 9216 /\ Rotated(0, 9216) = 4608
        /\ Rotated(0, 4608) = 2304 /\ Rotated(0, 2304) = 1152 /\ Rotated(0, 1152) = 576
        /\ Rotated(0, 576) = 288 /\ Rotated(0, 288) = 144 /\ Rotated(0, 144) = 72
        /\ Rotated(0, 72) = 36 /\ Rotated(0, 36) = 18 /\ Rotated(0, 18) = 9
        /\ Rotated(0, 9) = 40965
    BY FlipOf, SMTT(60) DEF Rotated
  <2>2. Byte(8, 49159) = 1152
    BY <2>1, SMTT(60) DEF Byte
  <2>3. Byte(0, 1152) = 40965
    BY <2>1, SMTT(60) DEF Byte
  <2>q. QED
    BY <2>2, <2>3, CrcByBytes, SMTT(60)
<1>10. crc16(8, 40965) = 59396
  <2>1. /\ Rotated(8, 40965) = 61443 /\ Rotated(4, 61443) = 55296 /\ Rotated(2, 55296) = 27648
        /\ Rotated(1, 27648) = 38401 /\ Rotated(0, 38401) = 60161 /\ Rotated(0, 60161) = 54657
        /\ Rotated(0, 54657) = 51905 /\ Rotated(0, 51905) = 50529 /\ Rotated(0, 50529) = 49841
        /\ Rotated(0, 49841) = 49497 /\ Rotated(0, 49497) = 49325 /\ Rotated(0, 49325) = 49239
        /\ Rotated(0, 49239) = 49194 /\ Rotated(0, 49194) = 24597 /\ Rotated(0, 24597) = 36875
        /\ Rotated(0, 36875) = 59396
    BY FlipOf, SMTT(60) DEF Rotated
  <2>2. Byte(8, 40965) = 50529
    BY <2>1, SMTT(60) DEF Byte
  <2>3. Byte(0, 50529) = 59396
    BY <2>1, SMTT(60) DEF Byte
  <2>q. QED
    BY <2>2, <2>3, CrcByBytes, SMTT(60)
<1>11. crc16(400, 59396) = 20143
  <2>1. /\ Rotated(400, 59396) = 29698 /\ Rotated(200, 29698) = 14849
        /\ Rotated(100, 14849) = 48385 /\ Rotated(50, 48385) = 65153 /\ Rotated(25, 65153) = 32576
        /\ Rotated(12, 32576) = 16288 /\ Rotated(6, 16288) = 8144 /\ Rotated(3, 8144) = 45033
        /\ Rotated(1, 45033) = 22516 /\ Rotated(0, 22516) = 11258 /\ Rotated(0, 11258) = 5629
        /\ Rotated(0, 5629) = 43775 /\ Rotated(0, 43775) = 62846 /\ Rotated(0, 62846) = 31423
        /\ Rotated(0, 31423) = 40286 /\ Rotated(0, 40286) = 20143
    BY FlipOf, SMTT(60) DEF Rotated
  <2>2. Byte(400, 59396) = 45033
    BY <2>1, SMTT(60) DEF Byte
  <2>3. Byte(1, 45033) = 20143
    BY <2>1, SMTT(60) DEF Byte
  <2>q. QED
    BY <2>2, <2>3, CrcByBytes, SMTT(60)
<1>12. crc16(666, 41003) = 59893
  <2>1. /\ Rotated(666, 41003) = 61460 /\ Rotated(333, 61460) = 55307
        /\ Rotated(166, 55307) = 52228 /\ Rotated(83, 52228) = 50691 /\ Rotated(41, 50691) = 25345
        /\ Rotated(20, 25345) = 37249 /\ Rotated(10, 37249) = 59585 /\ Rotated(5, 59585) = 29792
        /\ Rotated(2, 29792) = 14896 /\ Rotated(1, 14896) = 48409 /\ Rotated(0, 48409) = 65165
        /\ Rotated(0, 65165) = 57159 /\ Rotated(0, 57159) = 53154 /\ Rotated(0, 53154) = 26577
        /\ Rotated(0, 26577) = 37865 /\ Rotated(0, 37865) = 59893
    BY FlipOf, SMTT(60) DEF Rotated
  <2>2. Byte(666, 41003) = 29792
    BY <2>1, SMTT(60) DEF Byte
  <2>3. Byte(2, 29792) = 59893
    BY <2>1, SMTT(60) DEF Byte
  <2>q. QED
    BY <2>2, <2>3, CrcByBytes, SMTT(60)
<1>13. crc16(666, 25565) = 6386
  <2>1. /\ Rotated(666, 25565) = 37359 /\ Rotated(333, 37359) = 18679
        /\ Rotated(166, 18679) = 33914 /\ Rotated(83, 33914) = 57916 /\ Rotated(41, 57916) = 53535
        /\ Rotated(20, 53535) = 51342 /\ Rotated(10, 51342) = 25671 /\ Rotated(5, 25671) = 12835
        /\ Rotated(2, 12835) = 47376 /\ Rotated(1, 47376) = 64649 /\ Rotated(0, 64649) = 56901
        /\ Rotated(0, 56901) = 53027 /\ Rotated(0, 53027) = 51088 /\ Rotated(0, 51088) = 25544
        /\ Rotated(0, 25544) = 12772 /\ Rotated(0, 12772) = 6386
    BY FlipOf, SMTT(60) DEF Rotated
  <2>2. Byte(666, 25565) = 12835
    BY <2>1, SMTT(60) DEF Byte
  <2>3. Byte(2, 12835) = 6386
    BY <2>1, SMTT(60) DEF Byte
  <2>q. QED
    BY <2>2, <2>3, CrcByBytes, SMTT(60)
<1>q. QED
  BY <1>1, <1>2, <1>3, <1>4, <1>5, <1>6, <1>7, <1>8, <1>9, <1>10, <1>11, <1>12, <1>13

-----------------------------------------------------------------------------
(* Loops: a function of the number of turns, from what one turn does.      *)

(* d, and then what h makes of it turn by turn; h[k] is the turn after k.  *)
Loops(S, d, h, f) ==
  /\ f \in [Nat -> S]
  /\ f = [k \in Nat |-> IF k = 0 THEN d ELSE h[k - 1][f[k - 1]]]

(* There is such a function.                                               *)
LEMMA LoopExists ==
  ASSUME NEW S, NEW d \in S, NEW h \in [Nat -> [S -> S]]
  PROVE  \E f : Loops(S, d, h, f)
<1> DEFINE M == [i : Nat, x : S]
           e == [i |-> 0, x |-> d]
           H == [m \in M |-> [i |-> m.i + 1, x |-> h[m.i][m.x]]]
<1>1. e \in M
  OBVIOUS
<1>2. H \in [M -> M]
  <2>1. ASSUME NEW m \in M PROVE [i |-> m.i + 1, x |-> h[m.i][m.x]] \in M
    <3>1. m.i \in Nat /\ m.x \in S
      OBVIOUS
    <3>2. h[m.i] \in [S -> S]
      BY <3>1
    <3>3. h[m.i][m.x] \in S
      BY <3>1, <3>2
    <3>q. QED
      BY <3>1, <3>3
  <2> HIDE DEF M
  <2>q. QED
    BY <2>1
<1>3. PICK g : Run(M, e, H, g)
  <2> HIDE DEF M, e, H
  <2>q. QED
    BY <1>1, <1>2, Iterates
<1>4. g \in [Nat -> M] /\ g[0] = e /\ \A n \in Nat : g[n + 1] = H[g[n]]
  BY <1>3 DEF Run
<1>5. \A n \in Nat : g[n].i = n
  <2> DEFINE T == {n \in Nat : g[n].i = n}
  <2>1. 0 \in T
    BY <1>4
  <2>2. ASSUME NEW n \in Nat, n \in T PROVE n + 1 \in T
    <3>1. g[n] \in M /\ g[n + 1] = H[g[n]]
      BY <1>4
    <3>0. g[n].i = n /\ n + 1 \in Nat
      BY <2>2
    <3>2. H[g[n]].i = g[n].i + 1
      BY <3>1
    <3>q. QED
      BY <3>0, <3>1, <3>2
  <2>3. \A n \in Nat : n \in T
    <3> HIDE DEF T
    <3>q. QED
      BY <2>1, <2>2, Induction
  <2>q. QED
    BY <2>3
<1> DEFINE f == [k \in Nat |-> g[k].x]
<1>6. f \in [Nat -> S]
  <2>1. ASSUME NEW k \in Nat PROVE g[k].x \in S
    <3>1. g[k] \in M
      BY <1>4
    <3>q. QED
      BY <3>1
  <2>q. QED
    BY <2>1
<1>7. ASSUME NEW k \in Nat PROVE f[k] = IF k = 0 THEN d ELSE h[k - 1][f[k - 1]]
  <2>1. CASE k = 0
    BY <2>1, <1>4
  <2>2. CASE k # 0
    <3>1. k - 1 \in Nat /\ (k - 1) + 1 = k
      BY <2>2
    <3>2. g[k - 1] \in M /\ g[k - 1].i = k - 1 /\ g[k] = H[g[k - 1]]
      BY <3>1, <1>4, <1>5
    <3>3. g[k].x = h[k - 1][g[k - 1].x]
      BY <3>2
    <3>q. QED
      BY <2>2, <3>1, <3>3
  <2>q. QED
    BY <2>1, <2>2
<1>8. f = [k \in Nat |-> IF k = 0 THEN d ELSE h[k - 1][f[k - 1]]]
  <2>1. f = [k \in Nat |-> f[k]]
    OBVIOUS
  <2> HIDE DEF f
  <2>q. QED
    BY <2>1, <1>7
<1> HIDE DEF f
<1>q. QED
  BY <1>6, <1>8 DEF Loops

(* A function that starts as the loop, and goes on like it, is the loop.   *)
LEMMA LoopIs ==
  ASSUME NEW S, NEW d \in S, NEW h \in [Nat -> [S -> S]], NEW f,
         f[0] = d, \A k \in Nat : f[k] \in S => f[k + 1] = h[k][f[k]]
  PROVE  \A k \in Nat : f[k] \in S
<1> DEFINE T == {k \in Nat : f[k] \in S}
<1>1. 0 \in T
  OBVIOUS
<1>2. ASSUME NEW k \in Nat, k \in T PROVE k + 1 \in T
  <2>1. f[k] \in S
    BY <1>2
  <2>2. h[k][f[k]] \in S
    BY <2>1
  <2>3. k + 1 \in Nat
    OBVIOUS
  <2>q. QED
    BY <2>1, <2>2, <2>3
<1>3. \A k \in Nat : k \in T
  <2> HIDE DEF T
  <2>q. QED
    BY <1>1, <1>2, Induction
<1>q. QED
  BY <1>3

-----------------------------------------------------------------------------
(* Lists: a heap of n cells, and the cells c[1], ..., c[L] that a list runs *)
(* through, with NULL behind them.                                         *)

Chain(n, next, c, L) ==
  /\ c \in [1 .. L + 1 -> 0 .. n]
  /\ c[L + 1] = NULL
  /\ \A i \in 1 .. L : c[i] # NULL /\ next[c[i]] = c[i + 1]
  /\ \A i, j \in 1 .. L : c[i] = c[j] => i = j

Pointers(n) == [1 .. n -> 0 .. n]

(* core_list_find: the cell it stands on after k turns.                     *)
Searching(n, h, list, wanted, at) ==
  /\ at[0] = list
  /\ \A k \in Nat : at[k] \in 0 .. n /\ at[k + 1] = Finder(h, at[k], wanted)

\* The turns of core_list_find are a function of their number.
LEMMA FindersAre ==
  ASSUME NEW n \in Nat, NEW h, h.next \in Pointers(n), NEW list \in 0 .. n, NEW wanted
  PROVE  Searching(n, h, list, wanted, Finders(h, list, wanted))
<1> DEFINE S == 0 .. n
           turn == [k \in Nat |-> [x \in S |-> Finder(h, x, wanted)]]
           at == Finders(h, list, wanted)
<1>1. ASSUME NEW k \in Nat, NEW x \in S PROVE Finder(h, x, wanted) \in S
  BY <1>1 DEF Finder, Pointers, NULL
<1>2. turn \in [Nat -> [S -> S]]
  <2> HIDE DEF S
  <2>q. QED
    BY <1>1
<1>3. list \in S
  OBVIOUS
<1>4. PICK f : Loops(S, list, turn, f)
  <2> HIDE DEF S, turn
  <2>q. QED
    BY <1>2, <1>3, LoopExists
<1>5. f = [k \in Nat |-> IF k = 0 THEN list ELSE Finder(h, f[k - 1], wanted)]
  <2>1. f \in [Nat -> S] /\ f = [k \in Nat |-> IF k = 0 THEN list ELSE turn[k - 1][f[k - 1]]]
    BY <1>4 DEF Loops
  <2>2. ASSUME NEW k \in Nat, k # 0 PROVE turn[k - 1][f[k - 1]] = Finder(h, f[k - 1], wanted)
    <3>1. k - 1 \in Nat
      BY <2>2
    <3>2. f[k - 1] \in S
      BY <2>1, <3>1
    <3> HIDE DEF S
    <3>q. QED
      BY <3>1, <3>2
  <2> HIDE DEF turn, S
  <2>q. QED
    BY <2>1, <2>2
<1>6. at = [k \in Nat |-> IF k = 0 THEN list ELSE Finder(h, at[k - 1], wanted)]
  BY <1>5 DEF Finders
<1> HIDE DEF at
<1>7. at[0] = list /\ \A k \in Nat : at[k + 1] = Finder(h, at[k], wanted)
  <2>1. at[0] = list
    BY <1>6
  <2>2. ASSUME NEW k \in Nat PROVE at[k + 1] = Finder(h, at[k], wanted)
    <3>1. k + 1 \in Nat /\ k + 1 # 0 /\ (k + 1) - 1 = k
      OBVIOUS
    <3>q. QED
      BY <1>6, <3>1
  <2>q. QED
    BY <2>1, <2>2
<1>8. \A k \in Nat : at[k] \in S => at[k + 1] = turn[k][at[k]]
  <2> HIDE DEF S
  <2>q. QED
    BY <1>7
<1>9. \A k \in Nat : at[k] \in S
  <2> HIDE DEF S, turn
  <2>q. QED
    BY <1>2, <1>3, <1>7, <1>8, LoopIs
<1>q. QED
  BY <1>7, <1>9 DEF at, S, Searching

(* core_list_reverse after k turns.                                         *)
Reversing(n, h, list, at) ==
  /\ at[0] = [next |-> h.next, list |-> list, behind |-> NULL]
  /\ \A k \in Nat : at[k] \in [next : Pointers(n), list : 0 .. n, behind : 0 .. n] /\ at[k + 1] = Turned(at[k])

\* The turns of core_list_reverse are a function of their number.
LEMMA ReversalIs ==
  ASSUME NEW n \in Nat, NEW h, h.next \in Pointers(n), NEW list \in 0 .. n
  PROVE  Reversing(n, h, list, Reversal(h, list))
<1> DEFINE S == [next : Pointers(n), list : 0 .. n, behind : 0 .. n]
           turn == [k \in Nat |-> [x \in S |-> Turned(x)]]
           at == Reversal(h, list)
<1>1. ASSUME NEW k \in Nat, NEW x \in S PROVE Turned(x) \in S
  <2>1. CASE x.list = NULL
    BY <2>1 DEF Turned
  <2>2. CASE x.list # NULL
    <3>1. x.next \in Pointers(n) /\ x.list \in 1 .. n /\ x.behind \in 0 .. n
      BY <2>2 DEF NULL
    <3>2. Turned(x) = [next |-> [x.next EXCEPT ![x.list] = x.behind], list |-> x.next[x.list], behind |-> x.list]
      BY <2>2 DEF Turned
    <3>3. x.next[x.list] \in 0 .. n /\ [x.next EXCEPT ![x.list] = x.behind] \in Pointers(n)
      BY <3>1 DEF Pointers
    <3>q. QED
      BY <3>1, <3>2, <3>3
  <2>q. QED
    BY <2>1, <2>2
<1>2. turn \in [Nat -> [S -> S]]
  <2> HIDE DEF S
  <2>q. QED
    BY <1>1
<1>3. [next |-> h.next, list |-> list, behind |-> NULL] \in S
  BY DEF NULL
<1>4. PICK f : Loops(S, [next |-> h.next, list |-> list, behind |-> NULL], turn, f)
  <2> HIDE DEF S, turn
  <2>q. QED
    BY <1>2, <1>3, LoopExists
<1>5. f = [k \in Nat |-> IF k = 0 THEN [next |-> h.next, list |-> list, behind |-> NULL] ELSE Turned(f[k - 1])]
  <2>1. f \in [Nat -> S] /\ f = [k \in Nat |-> IF k = 0 THEN [next |-> h.next, list |-> list, behind |-> NULL] ELSE turn[k - 1][f[k - 1]]]
    BY <1>4 DEF Loops
  <2>2. ASSUME NEW k \in Nat, k # 0 PROVE turn[k - 1][f[k - 1]] = Turned(f[k - 1])
    <3>1. k - 1 \in Nat
      BY <2>2
    <3>2. f[k - 1] \in S
      BY <2>1, <3>1
    <3> HIDE DEF S
    <3>q. QED
      BY <3>1, <3>2
  <2> HIDE DEF turn, S
  <2>q. QED
    BY <2>1, <2>2
<1>6. at = [k \in Nat |-> IF k = 0 THEN [next |-> h.next, list |-> list, behind |-> NULL] ELSE Turned(at[k - 1])]
  BY <1>5 DEF Reversal
<1> HIDE DEF at
<1>7. at[0] = [next |-> h.next, list |-> list, behind |-> NULL] /\ \A k \in Nat : at[k + 1] = Turned(at[k])
  <2>1. at[0] = [next |-> h.next, list |-> list, behind |-> NULL]
    BY <1>6
  <2>2. ASSUME NEW k \in Nat PROVE at[k + 1] = Turned(at[k])
    <3>1. k + 1 \in Nat /\ k + 1 # 0 /\ (k + 1) - 1 = k
      OBVIOUS
    <3>q. QED
      BY <1>6, <3>1
  <2>q. QED
    BY <2>1, <2>2
<1>8. \A k \in Nat : at[k] \in S => at[k + 1] = turn[k][at[k]]
  <2> HIDE DEF S
  <2>q. QED
    BY <1>7
<1>9. \A k \in Nat : at[k] \in S
  <2> HIDE DEF S, turn
  <2>q. QED
    BY <1>2, <1>3, <1>7, <1>8, LoopIs
<1>q. QED
  BY <1>7, <1>9 DEF at, S, Reversing

(* The walk along a list after k turns.                                    *)
Walking(n, h, list, at) ==
  /\ at[0] = [cells |-> << >>, c |-> list]
  /\ \A k \in Nat : at[k] \in [cells : Seq(1 .. n), c : 0 .. n] /\ at[k + 1] = Walked(h, at[k])

\* The walk along a list is a function of the number of its turns.
LEMMA WalkIs ==
  ASSUME NEW n \in Nat, NEW h, h.next \in Pointers(n), NEW list \in 0 .. n
  PROVE  Walking(n, h, list, Walk(h, list))
<1> DEFINE S == [cells : Seq(1 .. n), c : 0 .. n]
           turn == [k \in Nat |-> [x \in S |-> Walked(h, x)]]
           at == Walk(h, list)
<1>1. ASSUME NEW k \in Nat, NEW x \in S PROVE Walked(h, x) \in S
  <2>1. CASE x.c = NULL
    BY <2>1 DEF Walked
  <2>2. CASE x.c # NULL
    <3>1. x.c \in 1 .. n /\ x.cells \in Seq(1 .. n)
      BY <2>2 DEF NULL
    <3>2. h.next[x.c] \in 0 .. n /\ Append(x.cells, x.c) \in Seq(1 .. n)
      BY <3>1 DEF Pointers
    <3>q. QED
      BY <2>2, <3>2 DEF Walked
  <2>q. QED
    BY <2>1, <2>2
<1>2. turn \in [Nat -> [S -> S]]
  <2> HIDE DEF S
  <2>q. QED
    BY <1>1
<1>3. [cells |-> << >>, c |-> list] \in S
  OBVIOUS
<1>4. PICK f : Loops(S, [cells |-> << >>, c |-> list], turn, f)
  <2> HIDE DEF S, turn
  <2>q. QED
    BY <1>2, <1>3, LoopExists
<1>5. f = [k \in Nat |-> IF k = 0 THEN [cells |-> << >>, c |-> list] ELSE Walked(h, f[k - 1])]
  <2>1. f \in [Nat -> S] /\ f = [k \in Nat |-> IF k = 0 THEN [cells |-> << >>, c |-> list] ELSE turn[k - 1][f[k - 1]]]
    BY <1>4 DEF Loops
  <2>2. ASSUME NEW k \in Nat, k # 0 PROVE turn[k - 1][f[k - 1]] = Walked(h, f[k - 1])
    <3>1. k - 1 \in Nat
      BY <2>2
    <3>2. f[k - 1] \in S
      BY <2>1, <3>1
    <3> HIDE DEF S
    <3>q. QED
      BY <3>1, <3>2
  <2> HIDE DEF turn, S
  <2>q. QED
    BY <2>1, <2>2
<1>6. at = [k \in Nat |-> IF k = 0 THEN [cells |-> << >>, c |-> list] ELSE Walked(h, at[k - 1])]
  BY <1>5 DEF Walk
<1> HIDE DEF at
<1>7. at[0] = [cells |-> << >>, c |-> list] /\ \A k \in Nat : at[k + 1] = Walked(h, at[k])
  <2>1. at[0] = [cells |-> << >>, c |-> list]
    BY <1>6
  <2>2. ASSUME NEW k \in Nat PROVE at[k + 1] = Walked(h, at[k])
    <3>1. k + 1 \in Nat /\ k + 1 # 0 /\ (k + 1) - 1 = k
      OBVIOUS
    <3>q. QED
      BY <1>6, <3>1
  <2>q. QED
    BY <2>1, <2>2
<1>8. \A k \in Nat : at[k] \in S => at[k + 1] = turn[k][at[k]]
  <2> HIDE DEF S
  <2>q. QED
    BY <1>7
<1>9. \A k \in Nat : at[k] \in S
  <2> HIDE DEF S, turn
  <2>q. QED
    BY <1>2, <1>3, <1>7, <1>8, LoopIs
<1>q. QED
  BY <1>7, <1>9 DEF at, S, Walking

(* `step insize places along` after k steps.                                *)
Placing(n, h, p, at) ==
  /\ at[0] = [q |-> p, psize |-> 0]
  /\ \A k \in Nat : at[k] \in [q : 0 .. n, psize : Nat] /\ at[k + 1] = Place(h, at[k])

\* The cells from a place on are a function of their number.
LEMMA PlacesAre ==
  ASSUME NEW n \in Nat, NEW h, h.next \in Pointers(n), NEW p \in 0 .. n
  PROVE  Placing(n, h, p, Places(h, p))
<1> DEFINE S == [q : 0 .. n, psize : Nat]
           turn == [k \in Nat |-> [x \in S |-> Place(h, x)]]
           at == Places(h, p)
<1>1. ASSUME NEW k \in Nat, NEW x \in S PROVE Place(h, x) \in S
  <2>1. CASE x.q = NULL
    BY <2>1 DEF Place
  <2>2. CASE x.q # NULL
    <3>1. x.q \in 1 .. n /\ x.psize \in Nat
      BY <2>2 DEF NULL
    <3>2. h.next[x.q] \in 0 .. n
      BY <3>1 DEF Pointers
    <3>q. QED
      BY <2>2, <3>1, <3>2 DEF Place
  <2>q. QED
    BY <2>1, <2>2
<1>2. turn \in [Nat -> [S -> S]]
  <2> HIDE DEF S
  <2>q. QED
    BY <1>1
<1>3. [q |-> p, psize |-> 0] \in S
  OBVIOUS
<1>4. PICK f : Loops(S, [q |-> p, psize |-> 0], turn, f)
  <2> HIDE DEF S, turn
  <2>q. QED
    BY <1>2, <1>3, LoopExists
<1>5. f = [k \in Nat |-> IF k = 0 THEN [q |-> p, psize |-> 0] ELSE Place(h, f[k - 1])]
  <2>1. f \in [Nat -> S] /\ f = [k \in Nat |-> IF k = 0 THEN [q |-> p, psize |-> 0] ELSE turn[k - 1][f[k - 1]]]
    BY <1>4 DEF Loops
  <2>2. ASSUME NEW k \in Nat, k # 0 PROVE turn[k - 1][f[k - 1]] = Place(h, f[k - 1])
    <3>1. k - 1 \in Nat
      BY <2>2
    <3>2. f[k - 1] \in S
      BY <2>1, <3>1
    <3> HIDE DEF S
    <3>q. QED
      BY <3>1, <3>2
  <2> HIDE DEF turn, S
  <2>q. QED
    BY <2>1, <2>2
<1>6. at = [k \in Nat |-> IF k = 0 THEN [q |-> p, psize |-> 0] ELSE Place(h, at[k - 1])]
  BY <1>5 DEF Places
<1> HIDE DEF at
<1>7. at[0] = [q |-> p, psize |-> 0] /\ \A k \in Nat : at[k + 1] = Place(h, at[k])
  <2>1. at[0] = [q |-> p, psize |-> 0]
    BY <1>6
  <2>2. ASSUME NEW k \in Nat PROVE at[k + 1] = Place(h, at[k])
    <3>1. k + 1 \in Nat /\ k + 1 # 0 /\ (k + 1) - 1 = k
      OBVIOUS
    <3>q. QED
      BY <1>6, <3>1
  <2>q. QED
    BY <2>1, <2>2
<1>8. \A k \in Nat : at[k] \in S => at[k + 1] = turn[k][at[k]]
  <2> HIDE DEF S
  <2>q. QED
    BY <1>7
<1>9. \A k \in Nat : at[k] \in S
  <2> HIDE DEF S, turn
  <2>q. QED
    BY <1>2, <1>3, <1>7, <1>8, LoopIs
<1>q. QED
  BY <1>7, <1>9 DEF at, S, Placing

(* A list has no more cells than its heap.                                 *)
LEMMA ChainLength ==
  ASSUME NEW n \in Nat, NEW next, NEW c, NEW L \in Nat, Chain(n, next, c, L)
  PROVE  L <= n
<1> DEFINE f == [i \in 1 .. L |-> c[i]]
<1>1. \A i \in 1 .. L : c[i] \in 1 .. n
  BY DEF Chain, NULL
<1>2. f \in Injection(1 .. L, 1 .. n)
  BY <1>1 DEF Chain, Injection, IsInjective
<1>3. IsFiniteSet(1 .. n) /\ Cardinality(1 .. n) = n /\ Cardinality(1 .. L) = L
  BY FS_Interval
<1> HIDE DEF f
<1>4. Cardinality(1 .. L) <= Cardinality(1 .. n)
  BY <1>2, <1>3, FS_Injection
<1>q. QED
  BY <1>3, <1>4

(* As many different cells as there are places.                            *)
LEMMA DifferentCells ==
  ASSUME NEW L \in Nat, NEW c, \A i, j \in 1 .. L : c[i] = c[j] => i = j
  PROVE  IsFiniteSet({c[i] : i \in 1 .. L}) /\ Cardinality({c[i] : i \in 1 .. L}) = L
<1> DEFINE T == {c[i] : i \in 1 .. L}
           f == [i \in 1 .. L |-> c[i]]
<1>1. f \in [1 .. L -> T]
  OBVIOUS
<1>2. \A t \in T : \E i \in 1 .. L : f[i] = t
  OBVIOUS
<1>3. \A i, j \in 1 .. L : f[i] = f[j] => i = j
  OBVIOUS
<1>4. IsFiniteSet(1 .. L) /\ Cardinality(1 .. L) = L
  BY FS_Interval
<1> HIDE DEF T, f
<1>5. f \in Bijection(1 .. L, T)
  BY <1>1, <1>2, <1>3 DEF Bijection, Injection, Surjection, IsInjective
<1>6. ExistsBijection(1 .. L, T)
  BY <1>5 DEF ExistsBijection
<1>7. IsFiniteSet(T) /\ Cardinality(T) = L
  BY <1>4, <1>6, FS_Bijection
<1>q. QED
  BY <1>7 DEF T

(* The bound of the loops is the number of cells.                          *)
LEMMA TurnsAre ==
  ASSUME NEW n \in Nat, NEW h, h.next \in Pointers(n)
  PROVE  Turns(h) = n
<1>1. DOMAIN h.next = 1 .. n
  BY DEF Pointers
<1>2. Cardinality(1 .. n) = n
  BY FS_Interval
<1>q. QED
  BY <1>1, <1>2 DEF Turns

(* core_list_find finds a cell of the list, or none.                       *)
FoundIn(f, c, L) == \E i \in 1 .. L + 1 : f = c[i]

\* In a list that ends, core_list_find returns a cell of it or NULL.
LEMMA FindIn ==
  ASSUME NEW n \in Nat, NEW h, h.next \in Pointers(n), NEW c, NEW L \in Nat,
         Chain(n, h.next, c, L), NEW wanted
  PROVE  FoundIn(core_list_find(h, c[1], wanted), c, L)
<1> DEFINE at == Finders(h, c[1], wanted)
           T == {k \in Nat : at[k] \in {c[i] : i \in 1 .. L + 1}}
<1>1. c \in [1 .. L + 1 -> 0 .. n] /\ c[L + 1] = NULL
      /\ \A i \in 1 .. L : c[i] # NULL /\ h.next[c[i]] = c[i + 1]
  BY DEF Chain
<1>2. c[1] \in 0 .. n
  BY <1>1
<1>3. /\ at[0] = c[1]
      /\ \A k \in Nat : at[k] \in 0 .. n /\ at[k + 1] = Finder(h, at[k], wanted)
  <2>1. Searching(n, h, c[1], wanted, at)
    BY <1>2, FindersAre
  <2>q. QED
    BY <2>1 DEF Searching
<1> HIDE DEF at
<1>4. 0 \in T
  <2>1. 1 \in 1 .. L + 1
    OBVIOUS
  <2>q. QED
    BY <1>3, <2>1
<1>5. ASSUME NEW k \in Nat, k \in T PROVE k + 1 \in T
  <2>1. PICK i \in 1 .. L + 1 : at[k] = c[i]
    BY <1>5
  <2>2. at[k + 1] = Finder(h, c[i], wanted)
    BY <1>3, <2>1
  <2>3. CASE i = L + 1
    BY <1>1, <2>1, <2>2, <2>3 DEF Finder
  <2>4. CASE i # L + 1
    <3>1. i \in 1 .. L /\ i + 1 \in 1 .. L + 1
      BY <2>4
    <3>2. at[k + 1] = c[i] \/ at[k + 1] = c[i + 1]
      BY <1>1, <2>2, <3>1 DEF Finder
    <3>q. QED
      BY <3>1, <3>2
  <2>q. QED
    BY <2>3, <2>4
<1>6. \A k \in Nat : k \in T
  <2> HIDE DEF T
  <2>q. QED
    BY <1>4, <1>5, Induction
<1>7. core_list_find(h, c[1], wanted) = at[n]
  BY TurnsAre DEF core_list_find, at
<1>8. \E i \in 1 .. L + 1 : at[n] = c[i]
  BY <1>6
<1>q. QED
  BY <1>7, <1>8 DEF FoundIn

(* A list the other way round.                                             *)
Backwards(c, L) == [i \in 1 .. L + 1 |-> IF i = L + 1 THEN NULL ELSE c[(L + 1) - i]]

\* core_list_reverse turns the list round and ends it.
LEMMA ReverseIs ==
  ASSUME NEW n \in Nat, NEW h, h.next \in Pointers(n), NEW c, NEW L \in Nat,
         Chain(n, h.next, c, L)
  PROVE  LET r == core_list_reverse(h, c[1])
         IN  \E next \in Pointers(n) :
               /\ r = [h |-> [h EXCEPT !.next = next], list |-> Backwards(c, L)[1]]
               /\ Chain(n, next, Backwards(c, L), L)
<1> DEFINE at == Reversal(h, c[1])
           b == Backwards(c, L)
           Half(k) ==    \* after k turns
             /\ at[k].list = c[k + 1]
             /\ at[k].behind = b[(L + 1) - k]
             /\ \A i \in 1 .. k : at[k].next[c[i]] = b[(L + 2) - i]
             /\ \A i \in k + 1 .. L : at[k].next[c[i]] = c[i + 1]
           T == {k \in Nat : k <= L => Half(k)}
<1>1. c \in [1 .. L + 1 -> 0 .. n] /\ c[L + 1] = NULL
      /\ (\A i \in 1 .. L : c[i] # NULL /\ h.next[c[i]] = c[i + 1])
      /\ \A i, j \in 1 .. L : c[i] = c[j] => i = j
  BY DEF Chain
<1>2. c[1] \in 0 .. n
  BY <1>1
<1>3. /\ at[0] = [next |-> h.next, list |-> c[1], behind |-> NULL]
      /\ \A k \in Nat : at[k] \in [next : Pointers(n), list : 0 .. n, behind : 0 .. n] /\ at[k + 1] = Turned(at[k])
  <2>1. Reversing(n, h, c[1], at)
    BY <1>2, ReversalIs
  <2>q. QED
    BY <2>1 DEF Reversing
<1>4. b \in [1 .. L + 1 -> 0 .. n] /\ b[L + 1] = NULL /\ \A i \in 1 .. L : b[i] = c[(L + 1) - i]
  BY <1>1 DEF Backwards, NULL
<1> HIDE DEF at, b
<1>5. 0 \in T
  <2>0. /\ at[0].list = c[1] /\ at[0].behind = NULL /\ at[0].next = h.next
        /\ 0 + 1 = 1 /\ (L + 1) - 0 = L + 1 /\ \A i \in 0 + 1 .. L : i \in 1 .. L
    BY <1>3
  <2>1. at[0].list = c[0 + 1] /\ at[0].behind = b[(L + 1) - 0]
    BY <2>0, <1>4
  <2>2. \A i \in 1 .. 0 : at[0].next[c[i]] = b[(L + 2) - i]
    OBVIOUS
  <2>3. \A i \in 0 + 1 .. L : at[0].next[c[i]] = c[i + 1]
    BY <1>1, <2>0
  <2>q. QED
    BY <2>1, <2>2, <2>3
<1>6. ASSUME NEW k \in Nat, k \in T PROVE k + 1 \in T
  <2> SUFFICES ASSUME k + 1 <= L PROVE Half(k + 1)
    OBVIOUS
  <2> DEFINE s == at[k]
  <2>1. Half(k)
    BY <1>6
  <2>2. s \in [next : Pointers(n), list : 0 .. n, behind : 0 .. n]
    BY <1>3
  <2>3. k + 1 \in 1 .. L /\ c[k + 1] \in 1 .. n
    BY <1>1 DEF NULL
  <2>4. s.list = c[k + 1] /\ s.list # NULL
    BY <1>1, <2>1, <2>3
  <2>5. at[k + 1] = [next |-> [s.next EXCEPT ![c[k + 1]] = s.behind], list |-> s.next[c[k + 1]], behind |-> c[k + 1]]
    BY <1>3, <2>4 DEF Turned
  <2>6. s.next \in Pointers(n) /\ DOMAIN s.next = 1 .. n
    BY <2>2 DEF Pointers
  <2> HIDE DEF s
  <2>7. at[k + 1].list = c[k + 2]
    <3>1. k + 1 \in k + 1 .. L /\ (k + 1) + 1 = k + 2
      BY <2>3
    <3>2. s.next[c[k + 1]] = c[k + 2]
      BY <2>1, <3>1 DEF s
    <3>q. QED
      BY <2>5, <3>2
  <2>8. at[k + 1].behind = b[(L + 1) - (k + 1)]
    <3>1. (L + 1) - (k + 1) \in 1 .. L + 1
      BY <2>3
    <3>2. CASE (L + 1) - (k + 1) = L + 1
      BY <3>2
    <3>3. CASE (L + 1) - (k + 1) # L + 1
      <4>1. (L + 1) - (k + 1) \in 1 .. L /\ (L + 1) - ((L + 1) - (k + 1)) = k + 1
        BY <3>1, <3>3
      <4>q. QED
        BY <4>1, <1>4, <2>5
    <3>q. QED
      BY <3>2, <3>3
  <2>9. ASSUME NEW i \in 1 .. k + 1 PROVE at[k + 1].next[c[i]] = b[(L + 2) - i]
    <3>1. c[i] \in 1 .. n /\ i \in 1 .. L
      BY <1>1, <2>3 DEF NULL
    <3>2. CASE i = k + 1
      <4>1. (L + 1) - k = (L + 2) - i
        BY <3>2
      <4>2. s.behind = b[(L + 2) - i]
        BY <2>1, <4>1 DEF s
      <4>q. QED
        BY <2>5, <2>6, <3>1, <3>2, <4>2
    <3>3. CASE i # k + 1
      <4>1. i \in 1 .. k
        BY <3>3
      <4>2. c[i] # c[k + 1]
        BY <1>1, <2>3, <3>1, <3>3
      <4>3. s.next[c[i]] = b[(L + 2) - i]
        BY <2>1, <4>1 DEF s
      <4>q. QED
        BY <2>5, <2>6, <3>1, <4>2, <4>3
    <3>q. QED
      BY <3>2, <3>3
  <2>10. ASSUME NEW i \in k + 2 .. L PROVE at[k + 1].next[c[i]] = c[i + 1]
    <3>1. c[i] \in 1 .. n /\ i \in 1 .. L /\ i \in k + 1 .. L
      BY <1>1, <2>3 DEF NULL
    <3>2. c[i] # c[k + 1]
      BY <1>1, <2>3, <3>1
    <3>3. s.next[c[i]] = c[i + 1]
      BY <2>1, <3>1 DEF s
    <3>q. QED
      BY <2>5, <2>6, <3>1, <3>2, <3>3
  <2>11. (k + 1) + 1 = k + 2
    OBVIOUS
  <2>q. QED
    BY <2>7, <2>8, <2>9, <2>10, <2>11
<1>7. \A k \in Nat : k \in T
  <2> HIDE DEF T
  <2>q. QED
    BY <1>5, <1>6, Induction
<1>8. Half(L)
  BY <1>7
<1>9. \A k \in Nat : k >= L => at[k] = at[L]
  <2> DEFINE U == {k \in Nat : k >= L => at[k] = at[L]}
  <2>1. at[L].list = NULL
    BY <1>1, <1>8
  <2>2. 0 \in U
    OBVIOUS
  <2>3. ASSUME NEW k \in Nat, k \in U PROVE k + 1 \in U
    <3>1. CASE k >= L
      <4>1. at[k] = at[L]
        BY <2>3, <3>1
      <4>2. at[k + 1] = at[k]
        BY <1>3, <2>1, <4>1 DEF Turned
      <4>q. QED
        BY <4>1, <4>2
    <3>2. CASE ~ (k >= L)
      BY <3>2
    <3>q. QED
      BY <3>1, <3>2
  <2>4. \A k \in Nat : k \in U
    <3> HIDE DEF U
    <3>q. QED
      BY <2>2, <2>3, Induction
  <2>q. QED
    BY <2>4
<1> DEFINE next == at[L].next
<1>10. n >= L
  BY ChainLength
<1>11. core_list_reverse(h, c[1]) = [h |-> [h EXCEPT !.next = next], list |-> b[1]]
  <2>1. core_list_reverse(h, c[1]) = [h |-> [h EXCEPT !.next = at[n].next], list |-> at[n].behind]
    BY TurnsAre DEF core_list_reverse, at
  <2>2. (L + 1) - L = 1
    OBVIOUS
  <2>q. QED
    BY <1>8, <1>9, <1>10, <2>1, <2>2
<1>12. next \in Pointers(n)
  BY <1>3
<1>13. ASSUME NEW i \in 1 .. L PROVE b[i] # NULL /\ next[b[i]] = b[i + 1]
  <2>1. (L + 1) - i \in 1 .. L /\ (L + 2) - ((L + 1) - i) = i + 1
    OBVIOUS
  <2>2. b[i] = c[(L + 1) - i]
    BY <1>4
  <2>3. next[c[(L + 1) - i]] = b[(L + 2) - ((L + 1) - i)]
    BY <1>8, <2>1
  <2>q. QED
    BY <1>1, <2>1, <2>2, <2>3
<1>14. ASSUME NEW i \in 1 .. L, NEW j \in 1 .. L, b[i] = b[j] PROVE i = j
  <2>1. (L + 1) - i \in 1 .. L /\ (L + 1) - j \in 1 .. L
    OBVIOUS
  <2>2. c[(L + 1) - i] = c[(L + 1) - j]
    BY <1>4, <1>14
  <2>3. (L + 1) - i = (L + 1) - j
    BY <1>1, <2>1, <2>2
  <2>q. QED
    BY <2>3
<1>15. Chain(n, next, b, L)
  BY <1>4, <1>13, <1>14 DEF Chain
<1> HIDE DEF next
<1>q. QED
  BY <1>11, <1>12, <1>15 DEF b

(* The heap of n cells, and the same heap with other pointers.             *)
Heap(n) == HeapOf(1 .. n, Word16)
Linked(h, next) == [next |-> next, info |-> h.info, data16 |-> h.data16, idx |-> h.idx]

\* The parts of a heap of n cells, and that they are all of it.
LEMMA HeapIs ==
  ASSUME NEW n \in Nat, NEW h \in Heap(n)
  PROVE  /\ h.next \in Pointers(n) /\ h.info \in [1 .. n -> 1 .. n]
         /\ h.data16 \in [1 .. n -> Word16] /\ h.idx \in [1 .. n -> Word16]
         /\ h = Linked(h, h.next)
<1>1. (1 .. n) \cup {NULL} = 0 .. n
  BY DEF NULL
<1>q. QED
  BY <1>1 DEF Heap, HeapOf, Linked, Pointers

\* A heap given other pointers is the heap that Linked names.
LEMMA LinkedIs ==
  ASSUME NEW n \in Nat, NEW h \in Heap(n), NEW next \in Pointers(n)
  PROVE  /\ [h EXCEPT !.next = next] = Linked(h, next)
         /\ Linked(h, next) \in Heap(n) /\ Linked(h, next).next = next
<1>1. (1 .. n) \cup {NULL} = 0 .. n
  BY DEF NULL
<1>2. /\ h.next \in Pointers(n) /\ h.info \in [1 .. n -> 1 .. n]
      /\ h.data16 \in [1 .. n -> Word16] /\ h.idx \in [1 .. n -> Word16]
  BY HeapIs
<1>3. [h EXCEPT !.next = next] = Linked(h, next)
  <2>1. h = Linked(h, h.next)
    BY HeapIs
  <2>2. [Linked(h, h.next) EXCEPT !.next = next] = Linked(h, next)
    BY DEF Linked
  <2>q. QED
    BY <2>1, <2>2
<1>4. Linked(h, next) \in Heap(n)
  BY <1>1, <1>2 DEF Heap, HeapOf, Linked, Pointers
<1>q. QED
  BY <1>3, <1>4 DEF Linked

(* The cells from the head on, one after the other.                        *)
LEMMA CellsFromIs ==
  ASSUME NEW n \in Nat, NEW h, h.next \in Pointers(n), NEW c, NEW L \in Nat,
         Chain(n, h.next, c, L)
  PROVE  /\ CellsFrom(h, c[1]) \in Seq(1 .. n) /\ Len(CellsFrom(h, c[1])) = L
         /\ \A i \in 1 .. L : CellsFrom(h, c[1])[i] = c[i]
<1> DEFINE at == Walk(h, c[1])
           On(k) == /\ at[k].c = c[k + 1] /\ Len(at[k].cells) = k
                    /\ \A i \in 1 .. k : at[k].cells[i] = c[i]
           T == {k \in Nat : k <= L => On(k)}
<1>1. c \in [1 .. L + 1 -> 0 .. n] /\ c[L + 1] = NULL
      /\ \A i \in 1 .. L : c[i] # NULL /\ h.next[c[i]] = c[i + 1]
  BY DEF Chain
<1>2. c[1] \in 0 .. n
  BY <1>1
<1>3. /\ at[0] = [cells |-> << >>, c |-> c[1]]
      /\ \A k \in Nat : at[k] \in [cells : Seq(1 .. n), c : 0 .. n] /\ at[k + 1] = Walked(h, at[k])
  <2>1. Walking(n, h, c[1], at)
    BY <1>2, WalkIs
  <2>q. QED
    BY <2>1 DEF Walking
<1> HIDE DEF at
<1>4. 0 \in T
  <2>1. at[0].c = c[1] /\ at[0].cells = << >> /\ 0 + 1 = 1
    BY <1>3
  <2>q. QED
    BY <2>1
<1>5. ASSUME NEW k \in Nat, k \in T PROVE k + 1 \in T
  <2> SUFFICES ASSUME k + 1 <= L PROVE On(k + 1)
    OBVIOUS
  <2>1. On(k)
    BY <1>5
  <2>2. k + 1 \in 1 .. L /\ c[k + 1] \in 1 .. n /\ (k + 1) + 1 = k + 2
    BY <1>1 DEF NULL
  <2>3. at[k + 1] = [cells |-> Append(at[k].cells, c[k + 1]), c |-> h.next[c[k + 1]]]
    BY <1>1, <1>3, <2>1, <2>2 DEF Walked
  <2>4. at[k + 1].c = c[(k + 1) + 1]
    <3>1. h.next[c[k + 1]] = c[(k + 1) + 1]
      BY <1>1, <2>2
    <3>q. QED
      BY <2>3, <3>1
  <2>5. at[k].cells \in Seq(1 .. n) /\ Len(at[k].cells) = k
    BY <1>3, <2>1
  <2> DEFINE s == at[k].cells
             w == Append(s, c[k + 1])
  <2>6. Len(w) = k + 1 /\ \A i \in 1 .. k : w[i] = s[i]
    BY <2>2, <2>5
  <2>7. w[k + 1] = c[k + 1]
    BY <2>2, <2>5
  <2>8. at[k + 1].cells = w
    BY <2>3
  <2>9. \A i \in 1 .. k : s[i] = c[i]
    BY <2>1
  <2> HIDE DEF w, s
  <2>10. \A i \in 1 .. k + 1 : w[i] = c[i]
    BY <2>6, <2>7, <2>9
  <2>q. QED
    BY <2>4, <2>6, <2>8, <2>10
<1>6. \A k \in Nat : k \in T
  <2> HIDE DEF T
  <2>q. QED
    BY <1>4, <1>5, Induction
<1>7. On(L)
  BY <1>6
<1>8. \A k \in Nat : k >= L => at[k] = at[L]
  <2> DEFINE U == {k \in Nat : k >= L => at[k] = at[L]}
  <2>1. at[L].c = NULL
    BY <1>1, <1>7
  <2>2. 0 \in U
    OBVIOUS
  <2>3. ASSUME NEW k \in Nat, k \in U PROVE k + 1 \in U
    <3>1. CASE k >= L
      <4>1. at[k] = at[L]
        BY <2>3, <3>1
      <4>2. at[k + 1] = at[k]
        BY <1>3, <2>1, <4>1 DEF Walked
      <4>q. QED
        BY <4>1, <4>2
    <3>2. CASE ~ (k >= L)
      BY <3>2
    <3>q. QED
      BY <3>1, <3>2
  <2>4. \A k \in Nat : k \in U
    <3> HIDE DEF U
    <3>q. QED
      BY <2>2, <2>3, Induction
  <2>q. QED
    BY <2>4
<1>9. n >= L
  BY ChainLength
<1>10. CellsFrom(h, c[1]) = at[L].cells
  <2>1. CellsFrom(h, c[1]) = at[n].cells
    BY TurnsAre DEF CellsFrom, at
  <2>q. QED
    BY <1>8, <1>9, <2>1
<1>11. at[L].cells \in Seq(1 .. n)
  BY <1>3
<1>q. QED
  BY <1>7, <1>10, <1>11

(* The cells of a list, in whatever order.                                 *)
CellsOf(c, L) == {c[i] : i \in 1 .. L}

(* Reversing only changes the order.                                       *)
LEMMA BackwardsIs ==
  ASSUME NEW L \in Nat, NEW c
  PROVE  CellsOf(Backwards(c, L), L) = CellsOf(c, L)
<1>1. \A i \in 1 .. L : (L + 1) - i \in 1 .. L /\ (L + 1) - ((L + 1) - i) = i
  OBVIOUS
<1>2. \A i \in 1 .. L : Backwards(c, L)[i] = c[(L + 1) - i]
  BY DEF Backwards
<1>q. QED
  BY <1>1, <1>2 DEF CellsOf

(* core_bench_list caches the cell behind the i-th: the order is another,  *)
(* the cells and the head are the same.                                    *)
CachedIn(n, h, c, L, h2) ==
  \E next, d :
    /\ next \in Pointers(n)
    /\ h2 = Linked(h, next)
    /\ Chain(n, next, d, L) /\ d[1] = c[1] /\ CellsOf(d, L) = CellsOf(c, L)

\* Putting a cell behind the head keeps the list whole, with the same cells.
LEMMA CachedList ==
  ASSUME NEW n \in Nat, NEW h \in Heap(n), NEW c, NEW L \in Nat, Chain(n, h.next, c, L),
         NEW i \in 1 .. L
  PROVE  CachedIn(n, h, c, L, CacheNext(h, c[1], c[i]))
<1> SUFFICES \E next, d :
      /\ next \in Pointers(n)
      /\ CacheNext(h, c[1], c[i]) = Linked(h, next)
      /\ Chain(n, next, d, L) /\ d[1] = c[1] /\ CellsOf(d, L) = CellsOf(c, L)
  BY DEF CachedIn
<1>1. c \in [1 .. L + 1 -> 0 .. n] /\ c[L + 1] = NULL
      /\ (\A j \in 1 .. L : c[j] # NULL /\ h.next[c[j]] = c[j + 1])
      /\ \A j, k \in 1 .. L : c[j] = c[k] => j = k
  BY DEF Chain
<1>2. h.next \in Pointers(n) /\ h = Linked(h, h.next)
  BY HeapIs
<1>3. CASE i = L
  <2>1. h.next[c[i]] = NULL
    BY <1>1, <1>3
  <2>2. CacheNext(h, c[1], c[i]) = h
    BY <2>1 DEF CacheNext
  <2>q. QED
    BY <1>2, <2>2
<1>4. CASE i # L
  <2> DEFINE d == [j \in 1 .. L + 1 |-> IF j = 1 THEN c[1]
                                        ELSE IF j = 2 THEN c[i + 1]
                                        ELSE IF j <= i + 1 THEN c[j - 1] ELSE c[j]]
             cut == [h.next EXCEPT ![c[i]] = h.next[c[i + 1]]]
             mid == [cut EXCEPT ![c[i + 1]] = cut[c[1]]]
             next == [mid EXCEPT ![c[1]] = c[i + 1]]
  <2>1. i + 1 \in 1 .. L /\ i + 2 \in 1 .. L + 1 /\ 1 \in 1 .. L
    BY <1>4
  <2>2. \A j \in 1 .. L : c[j] \in 1 .. n
    BY <1>1 DEF NULL
  <2>3. h.next[c[i]] = c[i + 1] /\ c[i + 1] # NULL /\ h.next[c[i + 1]] = c[i + 2]
    <3>1. (i + 1) + 1 = i + 2
      OBVIOUS
    <3>q. QED
      BY <1>1, <2>1, <3>1
  <2>4. CacheNext(h, c[1], c[i]) = [h EXCEPT !.next = next]
    BY <2>3 DEF CacheNext
  <2>5. /\ cut \in Pointers(n) /\ cut[c[i]] = c[i + 2]
        /\ \A x \in 1 .. n : x # c[i] => cut[x] = h.next[x]
    BY <1>1, <1>2, <2>1, <2>2, <2>3 DEF Pointers
  <2> HIDE DEF cut
  <2>6. /\ mid \in Pointers(n) /\ mid[c[i + 1]] = cut[c[1]]
        /\ \A x \in 1 .. n : x # c[i + 1] => mid[x] = cut[x]
    BY <2>1, <2>2, <2>5 DEF Pointers
  <2> HIDE DEF mid
  <2>7. /\ next \in Pointers(n) /\ next[c[1]] = c[i + 1]
        /\ \A x \in 1 .. n : x # c[1] => next[x] = mid[x]
    BY <2>1, <2>2, <2>6 DEF Pointers
  <2> HIDE DEF next
  <2>8. d \in [1 .. L + 1 -> 0 .. n] /\ d[L + 1] = NULL /\ d[1] = c[1]
    <3>1. ASSUME NEW j \in 1 .. L + 1 PROVE d[j] \in 0 .. n
      <4>1. j - 1 \in 1 .. L + 1 \/ j = 1
        OBVIOUS
      <4>q. QED
        BY <1>1, <2>1, <4>1
    <3>2. L + 1 # 1 /\ L + 1 # 2 /\ ~ (L + 1 <= i + 1)
      BY <2>1
    <3>q. QED
      BY <1>1, <3>1, <3>2
  <2>9. ASSUME NEW j \in 1 .. L PROVE d[j] # NULL /\ next[d[j]] = d[j + 1]
    <3>1. CASE j = 1
      BY <1>1, <2>1, <2>7, <3>1
    <3>2. CASE j = 2
      <4>1. d[2] = c[i + 1] /\ c[i + 1] # c[1] /\ c[i + 1] \in 1 .. n /\ c[1] \in 1 .. n
        BY <1>1, <2>1, <2>2, <3>2
      <4>2. next[d[2]] = cut[c[1]]
        BY <4>1, <2>6, <2>7
      <4>3. CASE i = 1
        <5>1. d[3] = c[3]
          BY <4>3, <3>2, <2>1
        <5>2. cut[c[1]] = c[3]
          BY <4>3, <2>5
        <5>q. QED
          BY <3>2, <4>1, <4>2, <5>1, <5>2, <2>3
      <4>4. CASE i # 1
        <5>1. d[3] = c[2] /\ 1 + 1 = 2
          BY <4>4, <3>2, <2>1
        <5>2. c[1] # c[i]
          BY <4>4, <1>1, <2>1
        <5>3. h.next[c[1]] = c[1 + 1]
          BY <1>1, <2>1
        <5>4. cut[c[1]] = c[2]
          BY <2>5, <4>1, <5>1, <5>2, <5>3
        <5>q. QED
          BY <3>2, <4>1, <4>2, <5>1, <5>4, <2>3
      <4>q. QED
        BY <4>3, <4>4
    <3>3. CASE j >= 3 /\ j <= i + 1
      <4>1. j - 1 \in 1 .. L /\ j - 1 # 1 /\ (j - 1) + 1 = j /\ j - 1 # i + 1
        BY <3>3
      <4>2. d[j] = c[j - 1] /\ c[j - 1] # NULL /\ c[j - 1] \in 1 .. n /\ c[j - 1] # c[1] /\ c[j - 1] # c[i + 1]
        BY <1>1, <2>1, <2>2, <3>3, <4>1
      <4>3. next[d[j]] = cut[c[j - 1]]
        BY <2>6, <2>7, <4>2
      <4>4. CASE j = i + 1
        <5>1. d[j + 1] = c[i + 2] /\ c[j - 1] = c[i]
          BY <3>3, <4>4, <2>1
        <5>q. QED
          BY <2>5, <4>2, <4>3, <5>1
      <4>5. CASE j # i + 1
        <5>1. j - 1 # i /\ d[j + 1] = c[j]
          BY <3>3, <4>5
        <5>2. c[j - 1] # c[i]
          BY <1>1, <4>1, <5>1
        <5>3. cut[c[j - 1]] = c[j]
          BY <1>1, <2>5, <4>1, <4>2, <5>2
        <5>q. QED
          BY <4>2, <4>3, <5>1, <5>3
      <4>q. QED
        BY <4>4, <4>5
    <3>4. CASE j > i + 1 /\ j # 1 /\ j # 2
      <4>1. d[j] = c[j] /\ d[j + 1] = c[j + 1]
        BY <3>4
      <4>2. c[j] # c[1] /\ c[j] # c[i] /\ c[j] # c[i + 1] /\ c[j] \in 1 .. n /\ c[j] # NULL
        BY <1>1, <2>1, <2>2, <3>4
      <4>3. h.next[c[j]] = c[j + 1]
        BY <1>1
      <4>4. next[c[j]] = h.next[c[j]]
        BY <2>5, <2>6, <2>7, <4>2
      <4>q. QED
        BY <4>1, <4>2, <4>3, <4>4
    <3>q. QED
      BY <3>1, <3>2, <3>3, <3>4
  <2> DEFINE place(j) == IF j = 1 THEN 1 ELSE IF j = 2 THEN i + 1 ELSE IF j <= i + 1 THEN j - 1 ELSE j
  <2>10. \A j \in 1 .. L : place(j) \in 1 .. L /\ d[j] = c[place(j)]
    BY <2>1
  <2>11. \A j, k \in 1 .. L : place(j) = place(k) => j = k
    OBVIOUS
  <2>12. \A k \in 1 .. L : \E j \in 1 .. L : place(j) = k
    <3> TAKE k \in 1 .. L
    <3>1. CASE k = 1
      BY <3>1, <2>1
    <3>2. CASE k = i + 1
      BY <3>2, <2>1
    <3>3. CASE k # 1 /\ k <= i
      <4>1. k + 1 \in 1 .. L /\ place(k + 1) = k
        BY <3>3, <2>1
      <4>q. QED
        BY <4>1
    <3>4. CASE k > i + 1
      BY <3>4
    <3>q. QED
      BY <3>1, <3>2, <3>3, <3>4
  <2> HIDE DEF d, place
  <2>13. ASSUME NEW j \in 1 .. L, NEW k \in 1 .. L, d[j] = d[k] PROVE j = k
    <3>1. place(j) \in 1 .. L /\ place(k) \in 1 .. L /\ c[place(j)] = c[place(k)]
      BY <2>10, <2>13
    <3>2. place(j) = place(k)
      BY <1>1, <3>1
    <3>q. QED
      BY <2>11, <3>2
  <2>14. CellsOf(d, L) = CellsOf(c, L)
    BY <2>10, <2>12 DEF CellsOf
  <2>15. Chain(n, next, d, L)
    BY <2>8, <2>9, <2>13 DEF Chain
  <2>16. [h EXCEPT !.next = next] = Linked(h, next)
    BY <2>7, LinkedIs
  <2>q. QED
    BY <2>4, <2>7, <2>8, <2>14, <2>15, <2>16
<1>q. QED
  BY <1>3, <1>4

-----------------------------------------------------------------------------
(* The state machine: where a scan ends.                                   *)

(* A block with a zero at z.                                               *)
ZeroAt(block, z) == z \in Nat /\ ByteAt(block, z) = 0

\* The states of core_state_transition.
LEMMA StatesAre ==
  States = {"START", "INVALID", "S1", "S2", "INT", "FLOAT", "EXPONENT", "SCIENTIFIC"}
BY DEF States, CORE_STATE

(* What the automaton does with a character.                               *)
LEMMA TransitionIs ==
  ASSUME NEW state \in States, state # "INVALID", NEW c, NEW track \in [States -> Nat]
  PROVE  /\ Transition(state, c)[1] \in States
         /\ Counted(track, Transition(state, c)) \in [States -> Nat]
<1>1. ASSUME NEW x \in States
      PROVE  [track EXCEPT ![x] = @ + 1] \in [States -> Nat]
  OBVIOUS
<1>2. ASSUME NEW x \in States
      PROVE  <<x>>[1] \in States /\ Counted(track, <<x>>) \in [States -> Nat]
  BY DEF Counted
<1>3. ASSUME NEW x \in States, NEW y \in States
      PROVE  <<x, y>>[1] \in States /\ Counted(track, <<x, y>>) \in [States -> Nat]
  BY <1>1 DEF Counted
<1>4. ASSUME NEW x \in States, NEW y \in States, NEW z \in States
      PROVE  <<x, y, z>>[1] \in States /\ Counted(track, <<x, y, z>>) \in [States -> Nat]
  <2>1. Counted(track, <<x, y, z>>) = [track EXCEPT ![y] = @ + 1, ![z] = @ + 1]
    BY DEF Counted
  <2>2. [track EXCEPT ![y] = @ + 1, ![z] = @ + 1] \in [States -> Nat]
    OBVIOUS
  <2>q. QED
    BY <2>1, <2>2
<1>5. /\ "START" \in States /\ "INVALID" \in States /\ "S1" \in States /\ "S2" \in States /\ "INT" \in States
      /\ "FLOAT" \in States /\ "EXPONENT" \in States /\ "SCIENTIFIC" \in States
      /\ state \in {"START", "S1", "S2", "INT", "FLOAT", "EXPONENT", "SCIENTIFIC"}
  BY StatesAre
<1> DEFINE t == Transition(state, c)
<1>6. \/ \E x \in States : t = <<x>>
      \/ \E x, y \in States : t = <<x, y>>
      \/ \E x, y, z \in States : t = <<x, y, z>>
  <2>1. CASE state = "START"
    <3>1. t \in {<<"INT", "START">>, <<"S1", "START">>, <<"FLOAT", "START">>, <<"INVALID", "START", "INVALID">>}
      BY <2>1 DEF Transition
    <3> HIDE DEF t
    <3>q. QED
      BY <1>5, <3>1
  <2>2. CASE state = "S1"
    <3>1. t \in {<<"INT", "S1">>, <<"FLOAT", "S1">>, <<"INVALID", "S1">>}
      BY <2>2 DEF Transition
    <3> HIDE DEF t
    <3>q. QED
      BY <1>5, <3>1
  <2>3. CASE state = "INT"
    <3>1. t \in {<<"FLOAT", "INT">>, <<"INT">>, <<"INVALID", "INT">>}
      BY <2>3 DEF Transition
    <3> HIDE DEF t
    <3>q. QED
      BY <1>5, <3>1
  <2>4. CASE state = "FLOAT"
    <3>1. t \in {<<"S2", "FLOAT">>, <<"FLOAT">>, <<"INVALID", "FLOAT">>}
      BY <2>4 DEF Transition
    <3> HIDE DEF t
    <3>q. QED
      BY <1>5, <3>1
  <2>5. CASE state = "S2"
    <3>1. t \in {<<"EXPONENT", "S2">>, <<"INVALID", "S2">>}
      BY <2>5 DEF Transition
    <3> HIDE DEF t
    <3>q. QED
      BY <1>5, <3>1
  <2>6. CASE state = "EXPONENT"
    <3>1. t \in {<<"SCIENTIFIC", "EXPONENT">>, <<"INVALID", "EXPONENT">>}
      BY <2>6 DEF Transition
    <3> HIDE DEF t
    <3>q. QED
      BY <1>5, <3>1
  <2>7. CASE state = "SCIENTIFIC"
    <3>1. t \in {<<"SCIENTIFIC">>, <<"INVALID", "INVALID">>}
      BY <2>7 DEF Transition
    <3> HIDE DEF t
    <3>q. QED
      BY <1>5, <3>1
  <2>q. QED
    BY <1>5, <2>1, <2>2, <2>3, <2>4, <2>5, <2>6, <2>7
<1> HIDE DEF t
<1>7. t[1] \in States /\ Counted(track, t) \in [States -> Nat]
  <2>1. CASE \E x \in States : t = <<x>>
    <3>1. PICK x \in States : t = <<x>>
      BY <2>1
    <3>2. <<x>>[1] \in States /\ Counted(track, <<x>>) \in [States -> Nat]
      BY <1>2
    <3>q. QED
      BY <3>1, <3>2
  <2>2. CASE \E x, y \in States : t = <<x, y>>
    <3>1. PICK x, y \in States : t = <<x, y>>
      BY <2>2
    <3>2. <<x, y>>[1] \in States /\ Counted(track, <<x, y>>) \in [States -> Nat]
      BY <1>3
    <3>q. QED
      BY <3>1, <3>2
  <2>3. CASE \E x, y, z \in States : t = <<x, y, z>>
    <3>1. PICK x, y, z \in States : t = <<x, y, z>>
      BY <2>3
    <3>2. <<x, y, z>>[1] \in States /\ Counted(track, <<x, y, z>>) \in [States -> Nat]
      BY <1>4
    <3>q. QED
      BY <3>1, <3>2
  <2>q. QED
    BY <1>6, <2>1, <2>2, <2>3
<1>q. QED
  BY <1>7 DEF t

(* One character read.                                                     *)
LEMMA CharacterIs ==
  ASSUME NEW block, NEW s \in Scans, s.state # "INVALID"
  PROVE  Character(block, s) \in Scans /\ Character(block, s).at = s.at + 1
<1> DEFINE t == Transition(s.state, ByteAt(block, s.at))
           tr == Counted(s.track, t)
<1>1. s.at \in Nat /\ s.state \in States /\ s.final \in [States -> Nat] /\ s.track \in [States -> Nat]
  BY DEF Scans
<1>2. t[1] \in States /\ tr \in [States -> Nat]
  BY <1>1, TransitionIs
<1> DEFINE s2 == [s EXCEPT !.at = s.at + 1]
           s3 == [s2 EXCEPT !.state = t[1]]
<1>3. Character(block, s) = [s3 EXCEPT !.track = tr]
  BY DEF Character
<1> HIDE DEF t, tr
<1>4. s2 \in Scans /\ s2.at = s.at + 1
  BY <1>1 DEF Scans
<1> HIDE DEF s2
<1>5. s3 \in Scans /\ s3.at = s.at + 1
  BY <1>2, <1>4 DEF Scans
<1> HIDE DEF s3
<1>6. [s3 EXCEPT !.track = tr] \in Scans /\ [s3 EXCEPT !.track = tr].at = s.at + 1
  BY <1>2, <1>5 DEF Scans
<1>q. QED
  BY <1>3, <1>6

(* core_state_transition stops, and not behind the zero.                   *)
Stopped(block, z, s, t) ==
  /\ t \in Scans /\ s.at <= t.at /\ t.at <= z
  /\ ByteAt(block, s.at) # 0 /\ s.state # "INVALID" => s.at < t.at

\* The scan of a token stays in front of the next zero, and moves unless it is there.
LEMMA TransitionStops ==
  ASSUME NEW block, NEW z, ZeroAt(block, z), NEW s \in Scans, s.at <= z
  PROVE  Stopped(block, z, s, core_state_transition(block, s))
<1> DEFINE Over(u) == ByteAt(block, u.at) = 0 \/ u.state = "INVALID"
           D == {u \in Scans : Over(u) \/ ByteAt(block, u.at) = Comma}
           g == [u \in Scans |-> IF Over(u) THEN u ELSE [u EXCEPT !.at = u.at + 1]]
           h == [u \in Scans |-> IF u \in D THEN u ELSE Character(block, u)]
           R(f) == [u \in Scans |-> IF Over(u) THEN u
                                    ELSE IF ByteAt(block, u.at) = Comma THEN [u EXCEPT !.at = @ + 1]
                                    ELSE f[Character(block, u)]]
           read == CHOOSE f : f = R(f)
<1>1. \A u \in Scans : [u EXCEPT !.at = u.at + 1] \in Scans
  BY DEF Scans
<1>2. g \in [Scans -> Scans]
  <2> HIDE DEF Over
  <2>q. QED
    BY <1>1
<1>3. h \in [Scans -> Scans]
  <2>1. ASSUME NEW u \in Scans, u \notin D PROVE Character(block, u) \in Scans
    <3>1. u.state # "INVALID"
      BY <2>1
    <3>q. QED
      BY <3>1, CharacterIs
  <2> HIDE DEF D
  <2>q. QED
    BY <2>1
<1>4. PICK f : Calls(Scans, Scans, D, g, h, f)
  <2> HIDE DEF D, g, h
  <2>q. QED
    BY <1>2, <1>3, TailCalls
<1>5. f \in [Scans -> Scans] /\ \A u \in Scans : f[u] = IF u \in D THEN g[u] ELSE f[h[u]]
  <2> HIDE DEF D, g, h
  <2>q. QED
    BY <1>4 DEF Calls
<1>6. f = R(f)
  <2>1. \A u \in Scans : f[u] = R(f)[u]
    <3> TAKE u \in Scans
    <3>1. CASE Over(u)
      BY <1>5, <3>1
    <3>2. CASE ~ Over(u) /\ ByteAt(block, u.at) = Comma
      BY <1>5, <3>2
    <3>3. CASE u \notin D
      BY <1>5, <3>3
    <3>q. QED
      BY <3>1, <3>2, <3>3
  <2> HIDE DEF Over
  <2>q. QED
    BY <1>5, <2>1
<1>7. read = R(read)
  <2> HIDE DEF R
  <2>q. QED
    BY <1>6
<1>8. core_state_transition(block, s) = read[s]
  BY DEF core_state_transition
<1> HIDE DEF read
<1>9. \A u \in Scans : read[u] = IF Over(u) THEN u
                                 ELSE IF ByteAt(block, u.at) = Comma THEN [u EXCEPT !.at = @ + 1]
                                 ELSE read[Character(block, u)]
  <2> HIDE DEF Over
  <2>q. QED
    BY <1>7
<1>10. \A u \in Scans : u.at \in Nat
  BY DEF Scans
<1>11. z \in Nat /\ ByteAt(block, z) = 0
  BY DEF ZeroAt
<1> DEFINE T == {k \in Nat : \A u \in Scans : u.at <= z /\ z - u.at <= k => Stopped(block, z, u, read[u])}
<1>12. ASSUME NEW u \in Scans, u.at <= z, Over(u) \/ ByteAt(block, u.at) = Comma
       PROVE  Stopped(block, z, u, read[u])
  <2>1. CASE Over(u)
    <3>1. read[u] = u
      BY <1>9, <2>1
    <3>q. QED
      BY <1>10, <1>12, <2>1, <3>1 DEF Stopped
  <2>2. CASE ~ Over(u)
    <3> DEFINE v == [u EXCEPT !.at = u.at + 1]
    <3>1. read[u] = v
      BY <1>9, <1>12, <2>2
    <3>2. v \in Scans /\ v.at = u.at + 1
      BY <1>1 DEF Scans
    <3>3. u.at # z
      BY <1>11, <2>2
    <3> HIDE DEF v
    <3>q. QED
      BY <1>10, <1>11, <1>12, <3>1, <3>2, <3>3 DEF Stopped
  <2>q. QED
    BY <2>1, <2>2
<1>13. 0 \in T
  <2>1. ASSUME NEW u \in Scans, u.at <= z, z - u.at <= 0 PROVE Stopped(block, z, u, read[u])
    <3>1. u.at = z
      BY <1>10, <1>11, <2>1
    <3>q. QED
      BY <1>11, <1>12, <2>1, <3>1
  <2>q. QED
    BY <2>1
<1>14. ASSUME NEW k \in Nat, k \in T PROVE k + 1 \in T
  <2>1. ASSUME NEW u \in Scans, u.at <= z, z - u.at <= k + 1 PROVE Stopped(block, z, u, read[u])
    <3>1. CASE Over(u) \/ ByteAt(block, u.at) = Comma
      BY <1>12, <2>1, <3>1
    <3>2. CASE ~ (Over(u) \/ ByteAt(block, u.at) = Comma)
      <4> DEFINE v == Character(block, u)
      <4>1. v \in Scans /\ v.at = u.at + 1
        BY <3>2, CharacterIs
      <4>2. read[u] = read[v]
        BY <1>9, <3>2
      <4>3. u.at # z
        BY <1>11, <3>2
      <4> HIDE DEF v
      <4>4. v.at <= z /\ z - v.at <= k
        BY <1>10, <1>11, <2>1, <4>1, <4>3
      <4>5. Stopped(block, z, v, read[v])
        BY <1>14, <4>1, <4>4
      <4>6. read[v] \in Scans /\ v.at <= read[v].at /\ read[v].at <= z
        BY <4>5 DEF Stopped
      <4>q. QED
        BY <1>10, <4>1, <4>2, <4>6 DEF Stopped
    <3>q. QED
      BY <3>1, <3>2
  <2>2. k + 1 \in Nat
    OBVIOUS
  <2>q. QED
    BY <2>1, <2>2
<1>15. \A k \in Nat : k \in T
  <2> HIDE DEF T
  <2>q. QED
    BY <1>13, <1>14, Induction
<1>16. z - s.at \in Nat /\ z - s.at <= z - s.at
  BY <1>10, <1>11
<1>17. z - s.at \in T
  BY <1>15, <1>16
<1>q. QED
  BY <1>8, <1>16, <1>17

-----------------------------------------------------------------------------
(* The tokens of a block, up to its zero.                                  *)

\* A token ends no further than the next zero.
LEMMA TokenStops ==
  ASSUME NEW block, NEW z, ZeroAt(block, z), NEW s \in Scans, s.at <= z
  PROVE  /\ Token(block, s) \in Scans /\ Token(block, s).at <= z
         /\ ByteAt(block, s.at) # 0 => s.at < Token(block, s).at
<1> DEFINE s2 == [s EXCEPT !.state = "START"]
           t == core_state_transition(block, s2)
<1>1. "START" \in States /\ "START" # "INVALID"
  BY StatesAre
<1>2. s2 \in Scans /\ s2.at = s.at /\ s2.state = "START"
  BY <1>1 DEF Scans
<1>3. Token(block, s) = [t EXCEPT !.final[t.state] = @ + 1]
  BY DEF Token
<1> HIDE DEF s2
<1>4. Stopped(block, z, s2, t)
  BY <1>2, TransitionStops
<1> HIDE DEF t
<1>5. t \in Scans /\ t.at <= z /\ (ByteAt(block, s.at) # 0 => s.at < t.at)
  BY <1>1, <1>2, <1>4 DEF Stopped
<1> DEFINE final == [t.final EXCEPT ![t.state] = @ + 1]
<1>6. final \in [States -> Nat]
  <2>1. t.final \in [States -> Nat] /\ t.state \in States
    BY <1>5 DEF Scans
  <2>q. QED
    BY <2>1
<1>7. Token(block, s) = [t EXCEPT !.final = final]
  BY <1>3
<1> HIDE DEF final
<1>8. [t EXCEPT !.final = final] \in Scans /\ [t EXCEPT !.final = final].at = t.at
  BY <1>5, <1>6 DEF Scans
<1>q. QED
  BY <1>5, <1>7, <1>8

(* A block of `size` bytes: behind it there is nothing.                    *)
Sized(block, size) == size \in Nat /\ DOMAIN block = 0 .. size - 1

\* Behind the array the scan reads zeros.
LEMMA ZeroBehind ==
  ASSUME NEW block, NEW size, Sized(block, size), NEW k \in Nat
  PROVE  ZeroAt(block, k + size)
BY DEF Sized, ZeroAt, ByteAt

\* A token that starts anywhere leaves a scan.
LEMMA TokenIs ==
  ASSUME NEW block, NEW size, Sized(block, size), NEW s \in Scans
  PROVE  Token(block, s) \in Scans
<1>1. s.at \in Nat /\ size \in Nat
  BY DEF Scans, Sized
<1>2. ZeroAt(block, s.at + size) /\ s.at <= s.at + size
  BY <1>1, ZeroBehind
<1>q. QED
  BY <1>2, TokenStops

(* Scan ends in a state of the automaton, and not behind the zero.         *)
LEMMA ScanStops ==
  ASSUME NEW block, NEW size, Sized(block, size), NEW z, ZeroAt(block, z), NEW s \in Scans, s.at <= z
  PROVE  Scan(block, s) \in Scans /\ Scan(block, s).at <= z
<1> DEFINE Over(u) == ByteAt(block, u.at) = 0
           D == {u \in Scans : Over(u)}
           g == [u \in Scans |-> u]
           h == [u \in Scans |-> Token(block, u)]
           R(f) == [u \in Scans |-> IF Over(u) THEN u ELSE f[Token(block, u)]]
           scan == CHOOSE f : f = R(f)
<1>1. g \in [Scans -> Scans] /\ h \in [Scans -> Scans]
  <2>1. \A u \in Scans : Token(block, u) \in Scans
    BY TokenIs
  <2>q. QED
    BY <2>1
<1>2. PICK f : Calls(Scans, Scans, D, g, h, f)
  <2> HIDE DEF D, g, h
  <2>q. QED
    BY <1>1, TailCalls
<1>3. f \in [Scans -> Scans] /\ \A u \in Scans : f[u] = IF u \in D THEN g[u] ELSE f[h[u]]
  <2> HIDE DEF D, g, h
  <2>q. QED
    BY <1>2 DEF Calls
<1>4. f = R(f)
  <2>1. \A u \in Scans : f[u] = R(f)[u]
    BY <1>3
  <2> HIDE DEF Over
  <2>q. QED
    BY <1>3, <2>1
<1>5. scan = R(scan)
  <2> HIDE DEF R
  <2>q. QED
    BY <1>4
<1>6. Scan(block, s) = scan[s]
  BY DEF Scan
<1> HIDE DEF scan
<1>7. \A u \in Scans : scan[u] = IF Over(u) THEN u ELSE scan[Token(block, u)]
  <2> HIDE DEF Over
  <2>q. QED
    BY <1>5
<1>8. \A u \in Scans : u.at \in Nat
  BY DEF Scans
<1>9. z \in Nat /\ ByteAt(block, z) = 0
  BY DEF ZeroAt
<1> DEFINE Good(u) == scan[u] \in Scans /\ scan[u].at <= z
           T == {k \in Nat : \A u \in Scans : u.at <= z /\ z - u.at <= k => Good(u)}
<1>10. ASSUME NEW u \in Scans, u.at <= z, Over(u) PROVE Good(u)
  BY <1>7, <1>10
<1>11. 0 \in T
  <2>1. ASSUME NEW u \in Scans, u.at <= z, z - u.at <= 0 PROVE Good(u)
    <3>1. u.at = z
      BY <1>8, <1>9, <2>1
    <3>q. QED
      BY <1>9, <1>10, <2>1, <3>1
  <2>q. QED
    BY <2>1
<1>12. ASSUME NEW k \in Nat, k \in T PROVE k + 1 \in T
  <2>1. ASSUME NEW u \in Scans, u.at <= z, z - u.at <= k + 1 PROVE Good(u)
    <3>1. CASE Over(u)
      BY <1>10, <2>1, <3>1
    <3>2. CASE ~ Over(u)
      <4> DEFINE v == Token(block, u)
      <4>1. v \in Scans /\ v.at <= z /\ u.at < v.at
        BY <2>1, <3>2, TokenStops
      <4>2. scan[u] = scan[v]
        BY <1>7, <3>2
      <4> HIDE DEF v
      <4>4. z - v.at <= k
        BY <1>8, <1>9, <2>1, <4>1
      <4>5. Good(v)
        BY <1>12, <4>1, <4>4
      <4>q. QED
        BY <4>2, <4>5
    <3>q. QED
      BY <3>1, <3>2
  <2>2. k + 1 \in Nat
    OBVIOUS
  <2>q. QED
    BY <2>1, <2>2
<1>13. \A k \in Nat : k \in T
  <2> HIDE DEF T
  <2>q. QED
    BY <1>11, <1>12, Induction
<1>14. z - s.at \in Nat /\ z - s.at <= z - s.at
  BY <1>8, <1>9
<1>15. z - s.at \in T
  BY <1>13, <1>14
<1>q. QED
  BY <1>6, <1>14, <1>15

-----------------------------------------------------------------------------
(* Loops of so many turns.                                                 *)

Counting(S, d, n, h, f) ==
  f \in [0 .. n -> S] /\ f = [i \in 0 .. n |-> IF i = 0 THEN d ELSE h[i][f[i - 1]]]

(* There is the function a loop of n turns is.                             *)
LEMMA TurningExists ==
  ASSUME NEW S, NEW d \in S, NEW n \in Nat, NEW h \in [1 .. n -> [S -> S]]
  PROVE  \E f : Counting(S, d, n, h, f)
<1> DEFINE id == [x \in S |-> x]
           H == [k \in Nat |-> IF k + 1 \in 1 .. n THEN h[k + 1] ELSE id]
<1>1. H \in [Nat -> [S -> S]]
  <2>1. id \in [S -> S]
    OBVIOUS
  <2>2. \A k \in Nat : k + 1 \in 1 .. n => h[k + 1] \in [S -> S]
    OBVIOUS
  <2> HIDE DEF id
  <2>q. QED
    BY <2>1, <2>2
<1>2. PICK g : Loops(S, d, H, g)
  <2> HIDE DEF H
  <2>q. QED
    BY <1>1, LoopExists
<1>3. g \in [Nat -> S] /\ \A k \in Nat : g[k] = IF k = 0 THEN d ELSE H[k - 1][g[k - 1]]
  <2> HIDE DEF H
  <2>q. QED
    BY <1>2 DEF Loops
<1> DEFINE f == [i \in 0 .. n |-> g[i]]
<1>4. f \in [0 .. n -> S]
  BY <1>3
<1>5. ASSUME NEW i \in 0 .. n PROVE f[i] = IF i = 0 THEN d ELSE h[i][f[i - 1]]
  <2>1. CASE i = 0
    BY <1>3, <2>1
  <2>2. CASE i # 0
    <3>1. i - 1 \in Nat /\ i - 1 \in 0 .. n /\ (i - 1) + 1 = i /\ i \in 1 .. n /\ i \in Nat
      BY <2>2
    <3>2. H[i - 1] = h[i]
      BY <3>1
    <3>3. g[i] = H[i - 1][g[i - 1]]
      <4> HIDE DEF H
      <4>q. QED
        BY <1>3, <2>2, <3>1
    <3>q. QED
      BY <2>2, <3>1, <3>2, <3>3
  <2>q. QED
    BY <2>1, <2>2
<1> HIDE DEF f
<1>6. f = [i \in 0 .. n |-> IF i = 0 THEN d ELSE h[i][f[i - 1]]]
  BY <1>4, <1>5
<1>q. QED
  BY <1>4, <1>6 DEF Counting

(* A function on 0 .. n that begins in S and stays in it is there at n.    *)
LEMMA TurningStays ==
  ASSUME NEW S, NEW n \in Nat, NEW f, f[0] \in S, \A i \in 1 .. n : f[i - 1] \in S => f[i] \in S
  PROVE  f[n] \in S
<1> DEFINE T == {k \in Nat : k <= n => f[k] \in S}
<1>1. 0 \in T
  OBVIOUS
<1>2. ASSUME NEW k \in Nat, k \in T PROVE k + 1 \in T
  <2>1. k + 1 \in Nat
    OBVIOUS
  <2>2. CASE k + 1 <= n
    <3>1. k + 1 \in 1 .. n /\ (k + 1) - 1 = k /\ f[k] \in S
      BY <1>2, <2>2
    <3>2. f[(k + 1) - 1] \in S
      BY <3>1
    <3>3. f[k + 1] \in S
      BY <3>1, <3>2
    <3>q. QED
      BY <2>1, <3>3
  <2>q. QED
    BY <2>1, <2>2
<1>3. \A k \in Nat : k \in T
  <2> HIDE DEF T
  <2>q. QED
    BY <1>1, <1>2, Induction
<1>q. QED
  BY <1>3

(* The CRC of the counts.                                                  *)
LEMMA CountsCrcIs ==
  ASSUME NEW s \in Scans, NEW crc0 \in Word16
  PROVE  CountsCrc(s, crc0) \in Word16
<1> DEFINE Next(i, w) == crcu32(s.track[CORE_STATE[i]], crcu32(s.final[CORE_STATE[i]], w))
           h == [i \in 1 .. 8 |-> [w \in Word16 |-> Next(i, w)]]
           R(f) == [i \in 0 .. 8 |-> IF i = 0 THEN crc0 ELSE Next(i, f[i - 1])]
           crc == CHOOSE f : f = R(f)
<1>1. s.final \in [States -> Nat] /\ s.track \in [States -> Nat]
  BY DEF Scans
<1>2. ASSUME NEW i \in 1 .. 8, NEW w \in Word16 PROVE Next(i, w) \in Word16
  <2>1. CORE_STATE[i] \in States
    BY DEF States
  <2>2. s.final[CORE_STATE[i]] \in Nat /\ s.track[CORE_STATE[i]] \in Nat
    BY <1>1, <2>1
  <2>3. crcu32(s.final[CORE_STATE[i]], w) \in Word16
    BY <2>2, CrcsAre
  <2>q. QED
    BY <2>2, <2>3, CrcsAre
<1> HIDE DEF Next
<1>3. h \in [1 .. 8 -> [Word16 -> Word16]]
  BY <1>2
<1>4. PICK f : Counting(Word16, crc0, 8, h, f)
  <2> HIDE DEF h
  <2>q. QED
    BY <1>3, TurningExists
<1>5. f \in [0 .. 8 -> Word16] /\ f = [i \in 0 .. 8 |-> IF i = 0 THEN crc0 ELSE h[i][f[i - 1]]]
  <2> HIDE DEF h
  <2>q. QED
    BY <1>4 DEF Counting
<1>6. f = R(f)
  <2>1. ASSUME NEW i \in 0 .. 8 PROVE f[i] = IF i = 0 THEN crc0 ELSE Next(i, f[i - 1])
    <3>1. CASE i = 0
      BY <1>5, <3>1
    <3>2. CASE i # 0
      <4>1. i \in 1 .. 8 /\ i - 1 \in 0 .. 8
        BY <3>2
      <4>2. f[i] = h[i][f[i - 1]] /\ f[i - 1] \in Word16
        <5> HIDE DEF h
        <5>q. QED
          BY <1>5, <3>2, <4>1
      <4>q. QED
        BY <3>2, <4>1, <4>2
    <3>q. QED
      BY <3>1, <3>2
  <2>q. QED
    BY <1>5, <2>1
<1>7. crc = R(crc)
  <2> HIDE DEF R
  <2>q. QED
    BY <1>6
<1>8. CountsCrc(s, crc0) = crc[8]
  BY DEF CountsCrc, Next
<1> HIDE DEF crc
<1>9. crc[0] \in Word16
  BY <1>7
<1>10. ASSUME NEW i \in 1 .. 8, crc[i - 1] \in Word16 PROVE crc[i] \in Word16
  <2>1. i \in 0 .. 8 /\ i # 0
    OBVIOUS
  <2>2. crc[i] = Next(i, crc[i - 1])
    BY <1>7, <2>1
  <2>q. QED
    BY <1>2, <1>10, <2>2
<1>11. crc[8] \in Word16
  BY <1>9, <1>10, TurningStays
<1>q. QED
  BY <1>8, <1>11

-----------------------------------------------------------------------------
(* Words put together bit by bit.                                          *)

(* Digits of a number of 16 bits, and the number they make.                *)
Bits16 == [0 .. 15 -> 0 .. 1]
Nibble(a, b, c, d) == a + 2 * b + 4 * c + 8 * d
Weights(b) ==
  Nibble(b[0], b[1], b[2], b[3]) + 16 * Nibble(b[4], b[5], b[6], b[7])
  + 256 * Nibble(b[8], b[9], b[10], b[11]) + 4096 * Nibble(b[12], b[13], b[14], b[15])
DigitsOf(a) == [p \in 0 .. 15 |-> BitOf(a, p)]

\* Four bits make a number of four bits, zero only if all of them are.
LEMMA NibbleIs ==
  ASSUME NEW a \in 0 .. 1, NEW b \in 0 .. 1, NEW c \in 0 .. 1, NEW d \in 0 .. 1
  PROVE  /\ Nibble(a, b, c, d) \in Nat /\ Nibble(a, b, c, d) <= 15
         /\ Nibble(a, b, c, d) = 0 => a = 0 /\ b = 0 /\ c = 0 /\ d = 0
BY DEF Nibble

\* Each of sixteen bits is a bit.
LEMMA BitsAre ==
  ASSUME NEW b \in Bits16
  PROVE  /\ b[0] \in 0 .. 1 /\ b[1] \in 0 .. 1 /\ b[2] \in 0 .. 1 /\ b[3] \in 0 .. 1
         /\ b[4] \in 0 .. 1 /\ b[5] \in 0 .. 1 /\ b[6] \in 0 .. 1 /\ b[7] \in 0 .. 1
         /\ b[8] \in 0 .. 1 /\ b[9] \in 0 .. 1 /\ b[10] \in 0 .. 1 /\ b[11] \in 0 .. 1
         /\ b[12] \in 0 .. 1 /\ b[13] \in 0 .. 1 /\ b[14] \in 0 .. 1 /\ b[15] \in 0 .. 1
<1>1. \A p \in 0 .. 15 : b[p] \in 0 .. 1
  BY DEF Bits16
<1>q. QED
  BY <1>1

\* Sixteen bits, weighed, make a word.
LEMMA WeightsAre ==
  ASSUME NEW b \in Bits16
  PROVE  Weights(b) \in Word16
<1> DEFINE b1 == Nibble(b[0], b[1], b[2], b[3])
           b2 == Nibble(b[4], b[5], b[6], b[7])
           b3 == Nibble(b[8], b[9], b[10], b[11])
           b4 == Nibble(b[12], b[13], b[14], b[15])
<1>1. /\ b1 \in Nat /\ b1 <= 15 /\ b2 \in Nat /\ b2 <= 15
      /\ b3 \in Nat /\ b3 <= 15 /\ b4 \in Nat /\ b4 <= 15
  BY BitsAre, NibbleIs
<1>2. Weights(b) = b1 + 16 * b2 + 256 * b3 + 4096 * b4
  BY DEF Weights
<1> HIDE DEF b1, b2, b3, b4
<1>q. QED
  BY <1>1, <1>2 DEF Word16

\* A bit of a number is 0 or 1.
LEMMA BitIs ==
  ASSUME NEW a \in Nat, NEW p \in Nat
  PROVE  BitOf(a, p) \in 0 .. 1
BY DEF BitOf

\* The digits of a number are sixteen bits.
LEMMA DigitsAre ==
  ASSUME NEW a \in Nat
  PROVE  DigitsOf(a) \in Bits16
<1>1. \A p \in 0 .. 15 : BitOf(a, p) \in 0 .. 1
  BY BitIs
<1>q. QED
  BY <1>1 DEF DigitsOf, Bits16

(* What the loop over the bits comes to.                                   *)
BitsOf(a, b, bit) == [p \in 0 .. 15 |-> bit[BitOf(a, p) + BitOf(b, p)]]

\* What OfBits makes bit by bit is the weighed sum of those bits.
LEMMA OfBitsIs ==
  ASSUME NEW a \in Nat, NEW b \in Nat, NEW bit \in [0 .. 2 -> 0 .. 1]
  PROVE  BitsOf(a, b, bit) \in Bits16 /\ OfBits(a, b, bit) = Weights(BitsOf(a, b, bit))
<1> DEFINE t(p) == bit[BitOf(a, p) + BitOf(b, p)]
           h == [k \in Nat |-> [v \in Int |-> v + t(k) * 2^k]]
           R(f) == [p \in Nat |-> IF p = 0 THEN 0 ELSE f[p - 1] + t(p - 1) * 2^(p - 1)]
           low == CHOOSE f : f = R(f)
<1>1. ASSUME NEW p \in Nat PROVE t(p) \in 0 .. 1
  <2>1. BitOf(a, p) \in 0 .. 1 /\ BitOf(b, p) \in 0 .. 1
    BY BitIs
  <2>q. QED
    BY <2>1
<1>2. BitsOf(a, b, bit) = [p \in 0 .. 15 |-> t(p)]
  BY DEF BitsOf
<1>8. OfBits(a, b, bit) = low[16]
  BY DEF OfBits
<1> HIDE DEF t
<1>3. h \in [Nat -> [Int -> Int]]
  <2>1. ASSUME NEW k \in Nat, NEW v \in Int PROVE v + t(k) * 2^k \in Int
    <3>1. t(k) \in Int /\ 2^k \in Int
      BY <1>1
    <3>q. QED
      BY <3>1
  <2>q. QED
    BY <2>1
<1>4. PICK f : Loops(Int, 0, h, f)
  <2>1. 0 \in Int
    OBVIOUS
  <2> HIDE DEF h
  <2>q. QED
    BY <1>3, <2>1, LoopExists
<1>5. f \in [Nat -> Int] /\ f = [k \in Nat |-> IF k = 0 THEN 0 ELSE h[k - 1][f[k - 1]]]
  <2> HIDE DEF h
  <2>q. QED
    BY <1>4 DEF Loops
<1>6. f = R(f)
  <2>1. ASSUME NEW k \in Nat, k # 0 PROVE h[k - 1][f[k - 1]] = f[k - 1] + t(k - 1) * 2^(k - 1)
    <3>0. f \in [Nat -> Int]
      BY <1>5
    <3>a. k - 1 \in Nat
      BY <2>1
    <3>1. k - 1 \in Nat /\ f[k - 1] \in Int
      BY <3>0, <3>a
    <3>q. QED
      BY <3>1
  <2> HIDE DEF h
  <2>2. \A k \in Nat : f[k] = IF k = 0 THEN 0 ELSE h[k - 1][f[k - 1]]
    BY <1>5
  <2>3. \A k \in Nat : f[k] = IF k = 0 THEN 0 ELSE f[k - 1] + t(k - 1) * 2^(k - 1)
    BY <2>1, <2>2
  <2>q. QED
    BY <1>5, <2>3
<1>7. low = R(low)
  <2> HIDE DEF R
  <2>q. QED
    BY <1>6
<1> HIDE DEF low
<1>9. \A k \in Nat : low[k] = IF k = 0 THEN 0 ELSE low[k - 1] + t(k - 1) * 2^(k - 1)
  BY <1>7
<1> HIDE DEF R, h
<1> DEFINE W(k) == 2^k
<1>10. low[0] = 0 /\ \A k \in Nat : low[k + 1] = low[k] + t(k) * W(k)
  <2>1. \A k \in Nat : k + 1 \in Nat /\ k + 1 # 0 /\ (k + 1) - 1 = k
    OBVIOUS
  <2>q. QED
    BY <1>9, <2>1
<1>11. low[1] = low[0] + t(0) * 1
  <2>1. W(0) = 1 /\ 0 + 1 = 1 /\ 0 \in Nat
    OBVIOUS
  <2> HIDE DEF W
  <2>2. low[0 + 1] = low[0] + t(0) * W(0)
    BY <1>10, <2>1
  <2>q. QED
    BY <2>1, <2>2
<1>12. low[2] = low[1] + t(1) * 2
  <2>1. W(1) = 2 /\ 1 + 1 = 2 /\ 1 \in Nat
    OBVIOUS
  <2> HIDE DEF W
  <2>2. low[1 + 1] = low[1] + t(1) * W(1)
    BY <1>10, <2>1
  <2>q. QED
    BY <2>1, <2>2
<1>13. low[3] = low[2] + t(2) * 4
  <2>1. W(2) = 4 /\ 2 + 1 = 3 /\ 2 \in Nat
    OBVIOUS
  <2> HIDE DEF W
  <2>2. low[2 + 1] = low[2] + t(2) * W(2)
    BY <1>10, <2>1
  <2>q. QED
    BY <2>1, <2>2
<1>14. low[4] = low[3] + t(3) * 8
  <2>1. W(3) = 8 /\ 3 + 1 = 4 /\ 3 \in Nat
    OBVIOUS
  <2> HIDE DEF W
  <2>2. low[3 + 1] = low[3] + t(3) * W(3)
    BY <1>10, <2>1
  <2>q. QED
    BY <2>1, <2>2
<1>15. low[5] = low[4] + t(4) * 16
  <2>1. W(4) = 16 /\ 4 + 1 = 5 /\ 4 \in Nat
    OBVIOUS
  <2> HIDE DEF W
  <2>2. low[4 + 1] = low[4] + t(4) * W(4)
    BY <1>10, <2>1
  <2>q. QED
    BY <2>1, <2>2
<1>16. low[6] = low[5] + t(5) * 32
  <2>1. W(5) = 32 /\ 5 + 1 = 6 /\ 5 \in Nat
    OBVIOUS
  <2> HIDE DEF W
  <2>2. low[5 + 1] = low[5] + t(5) * W(5)
    BY <1>10, <2>1
  <2>q. QED
    BY <2>1, <2>2
<1>17. low[7] = low[6] + t(6) * 64
  <2>1. W(6) = 64 /\ 6 + 1 = 7 /\ 6 \in Nat
    OBVIOUS
  <2> HIDE DEF W
  <2>2. low[6 + 1] = low[6] + t(6) * W(6)
    BY <1>10, <2>1
  <2>q. QED
    BY <2>1, <2>2
<1>18. low[8] = low[7] + t(7) * 128
  <2>1. W(7) = 128 /\ 7 + 1 = 8 /\ 7 \in Nat
    OBVIOUS
  <2> HIDE DEF W
  <2>2. low[7 + 1] = low[7] + t(7) * W(7)
    BY <1>10, <2>1
  <2>q. QED
    BY <2>1, <2>2
<1>19. low[9] = low[8] + t(8) * 256
  <2>1. W(8) = 256 /\ 8 + 1 = 9 /\ 8 \in Nat
    OBVIOUS
  <2> HIDE DEF W
  <2>2. low[8 + 1] = low[8] + t(8) * W(8)
    BY <1>10, <2>1
  <2>q. QED
    BY <2>1, <2>2
<1>20. low[10] = low[9] + t(9) * 512
  <2>1. W(9) = 512 /\ 9 + 1 = 10 /\ 9 \in Nat
    OBVIOUS
  <2> HIDE DEF W
  <2>2. low[9 + 1] = low[9] + t(9) * W(9)
    BY <1>10, <2>1
  <2>q. QED
    BY <2>1, <2>2
<1>21. low[11] = low[10] + t(10) * 1024
  <2>1. W(10) = 1024 /\ 10 + 1 = 11 /\ 10 \in Nat
    OBVIOUS
  <2> HIDE DEF W
  <2>2. low[10 + 1] = low[10] + t(10) * W(10)
    BY <1>10, <2>1
  <2>q. QED
    BY <2>1, <2>2
<1>22. low[12] = low[11] + t(11) * 2048
  <2>1. W(11) = 2048 /\ 11 + 1 = 12 /\ 11 \in Nat
    OBVIOUS
  <2> HIDE DEF W
  <2>2. low[11 + 1] = low[11] + t(11) * W(11)
    BY <1>10, <2>1
  <2>q. QED
    BY <2>1, <2>2
<1>23. low[13] = low[12] + t(12) * 4096
  <2>1. W(12) = 4096 /\ 12 + 1 = 13 /\ 12 \in Nat
    OBVIOUS
  <2> HIDE DEF W
  <2>2. low[12 + 1] = low[12] + t(12) * W(12)
    BY <1>10, <2>1
  <2>q. QED
    BY <2>1, <2>2
<1>24. low[14] = low[13] + t(13) * 8192
  <2>1. W(13) = 8192 /\ 13 + 1 = 14 /\ 13 \in Nat
    OBVIOUS
  <2> HIDE DEF W
  <2>2. low[13 + 1] = low[13] + t(13) * W(13)
    BY <1>10, <2>1
  <2>q. QED
    BY <2>1, <2>2
<1>25. low[15] = low[14] + t(14) * 16384
  <2>1. W(14) = 16384 /\ 14 + 1 = 15 /\ 14 \in Nat
    OBVIOUS
  <2> HIDE DEF W
  <2>2. low[14 + 1] = low[14] + t(14) * W(14)
    BY <1>10, <2>1
  <2>q. QED
    BY <2>1, <2>2
<1>26. low[16] = low[15] + t(15) * 32768
  <2>1. W(15) = 32768 /\ 15 + 1 = 16 /\ 15 \in Nat
    OBVIOUS
  <2> HIDE DEF W
  <2>2. low[15 + 1] = low[15] + t(15) * W(15)
    BY <1>10, <2>1
  <2>q. QED
    BY <2>1, <2>2
<1> DEFINE d == [p \in 0 .. 15 |-> t(p)]
<1>30. \A p \in 0 .. 15 : d[p] \in 0 .. 1
  BY <1>1
<1>31. d \in Bits16
  BY <1>30 DEF Bits16
<1>32. /\ d[0] = t(0) /\ d[1] = t(1) /\ d[2] = t(2) /\ d[3] = t(3)
       /\ d[4] = t(4) /\ d[5] = t(5) /\ d[6] = t(6) /\ d[7] = t(7)
       /\ d[8] = t(8) /\ d[9] = t(9) /\ d[10] = t(10) /\ d[11] = t(11)
       /\ d[12] = t(12) /\ d[13] = t(13) /\ d[14] = t(14) /\ d[15] = t(15)
  OBVIOUS
<1> HIDE DEF d
<1>33. /\ d[0] \in Int /\ d[1] \in Int /\ d[2] \in Int /\ d[3] \in Int /\ d[4] \in Int /\ d[5] \in Int
       /\ d[6] \in Int /\ d[7] \in Int /\ d[8] \in Int /\ d[9] \in Int /\ d[10] \in Int
       /\ d[11] \in Int /\ d[12] \in Int /\ d[13] \in Int /\ d[14] \in Int /\ d[15] \in Int
  BY <1>30
<1>40. low[4] = low[0] + Nibble(d[0], d[1], d[2], d[3])
  BY <1>10, <1>11, <1>12, <1>13, <1>14, <1>32, <1>33 DEF Nibble
<1>40a. low[4] \in Int /\ Nibble(d[0], d[1], d[2], d[3]) \in Int
  BY <1>10, <1>40, <1>33 DEF Nibble
<1>41. low[8] = low[4] + 16 * Nibble(d[4], d[5], d[6], d[7])
  BY <1>10, <1>40a, <1>15, <1>16, <1>17, <1>18, <1>32, <1>33 DEF Nibble
<1>41a. low[8] \in Int /\ Nibble(d[4], d[5], d[6], d[7]) \in Int
  BY <1>10, <1>40a, <1>41, <1>33 DEF Nibble
<1>42. low[12] = low[8] + 256 * Nibble(d[8], d[9], d[10], d[11])
  BY <1>10, <1>41a, <1>19, <1>20, <1>21, <1>22, <1>32, <1>33 DEF Nibble
<1>42a. low[12] \in Int /\ Nibble(d[8], d[9], d[10], d[11]) \in Int
  BY <1>10, <1>41a, <1>42, <1>33 DEF Nibble
<1>43. low[16] = low[12] + 4096 * Nibble(d[12], d[13], d[14], d[15])
  BY <1>10, <1>42a, <1>23, <1>24, <1>25, <1>26, <1>32, <1>33 DEF Nibble
<1>43a. low[16] \in Int /\ Nibble(d[12], d[13], d[14], d[15]) \in Int
  BY <1>10, <1>42a, <1>43, <1>33 DEF Nibble
<1>34. low[16] = Weights(d)
  BY <1>10, <1>40, <1>41, <1>42, <1>43, <1>40a, <1>41a, <1>42a, <1>43a DEF Weights
<1>q. QED
  BY <1>2, <1>8, <1>31, <1>34 DEF d

(* Exclusive or, and or, of two words.                                     *)
LEMMA XorIs ==
  ASSUME NEW a \in Nat, NEW b \in Nat
  PROVE  /\ Xor(a, b) = Weights([p \in 0 .. 15 |-> (BitOf(a, p) + BitOf(b, p)) % 2])
         /\ [p \in 0 .. 15 |-> (BitOf(a, p) + BitOf(b, p)) % 2] \in Bits16
         /\ Xor(a, b) \in Word16
<1> DEFINE bit == [ones \in 0 .. 2 |-> ones % 2]
           d == [p \in 0 .. 15 |-> (BitOf(a, p) + BitOf(b, p)) % 2]
<1>1. bit \in [0 .. 2 -> 0 .. 1]
  OBVIOUS
<1>2. Xor(a, b) = OfBits(a, b, bit)
  BY DEF Xor
<1>3. BitsOf(a, b, bit) = d
  <2>1. ASSUME NEW p \in 0 .. 15 PROVE bit[BitOf(a, p) + BitOf(b, p)] = (BitOf(a, p) + BitOf(b, p)) % 2
    <3>1. BitOf(a, p) \in 0 .. 1 /\ BitOf(b, p) \in 0 .. 1
      BY BitIs
    <3>q. QED
      BY <3>1
  <2> HIDE DEF bit
  <2>q. QED
    BY <2>1 DEF BitsOf
<1> HIDE DEF bit, d
<1>4. BitsOf(a, b, bit) \in Bits16 /\ OfBits(a, b, bit) = Weights(BitsOf(a, b, bit))
  BY <1>1, OfBitsIs
<1>5. Xor(a, b) = Weights(d) /\ d \in Bits16 /\ Weights(d) \in Word16
  BY <1>2, <1>3, <1>4, WeightsAre
<1>q. QED
  BY <1>5 DEF d

\* Or gives a word.
LEMMA OrIs ==
  ASSUME NEW a \in Nat, NEW b \in Nat
  PROVE  Or(a, b) \in Word16
<1> DEFINE bit == [ones \in 0 .. 2 |-> IF ones = 0 THEN 0 ELSE 1]
<1>1. bit \in [0 .. 2 -> 0 .. 1]
  OBVIOUS
<1>2. Or(a, b) = OfBits(a, b, bit)
  BY DEF Or
<1> HIDE DEF bit
<1>3. BitsOf(a, b, bit) \in Bits16 /\ OfBits(a, b, bit) = Weights(BitsOf(a, b, bit))
  BY <1>1, OfBitsIs
<1>q. QED
  BY <1>2, <1>3, WeightsAre

-----------------------------------------------------------------------------
(* The state machine benchmark.                                            *)

(* The steps of the damage: multiples of 17.                               *)
Strides == {17 * t : t \in 2 .. 15}

\* The places one stride damages are multiples of 17.
LEMMA StrideIs ==
  ASSUME NEW step \in Strides, NEW i \in Nat, i % step = 0
  PROVE  i % 17 = 0
<1>1. PICK t \in 2 .. 15 : step = 17 * t
  BY DEF Strides
<1>2. t \in {2, 3, 4, 5, 6, 7, 8, 9, 10, 11, 12, 13, 14, 15}
  BY <1>1
<1>3. step \in {34, 51, 68, 85, 102, 119, 136, 153, 170, 187, 204, 221, 238, 255}
  BY <1>1, <1>2
<1>4. /\ i % 34 = 0 => i % 17 = 0
      /\ i % 51 = 0 => i % 17 = 0
      /\ i % 68 = 0 => i % 17 = 0
      /\ i % 85 = 0 => i % 17 = 0
      /\ i % 102 = 0 => i % 17 = 0
      /\ i % 119 = 0 => i % 17 = 0
      /\ i % 136 = 0 => i % 17 = 0
  BY SMTT(30)
<1>5. /\ i % 153 = 0 => i % 17 = 0
      /\ i % 170 = 0 => i % 17 = 0
      /\ i % 187 = 0 => i % 17 = 0
      /\ i % 204 = 0 => i % 17 = 0
      /\ i % 221 = 0 => i % 17 = 0
      /\ i % 238 = 0 => i % 17 = 0
      /\ i % 255 = 0 => i % 17 = 0
  BY SMTT(30)
<1>q. QED
  BY <1>3, <1>4, <1>5

(* Blocks with a zero at z, which is none of the damaged places.           *)
Blocks(size, z) == {b \in [0 .. size - 1 -> Word16] : b[z] = 0}
Undamaged(size, z) == size \in Nat /\ z \in 0 .. size - 1 /\ z % 17 # 0

\* A block that may be damaged still ends with its zero.
LEMMA BlockIs ==
  ASSUME NEW size, NEW z, Undamaged(size, z), NEW b \in Blocks(size, z)
  PROVE  Sized(b, size) /\ ZeroAt(b, z)
BY DEF Undamaged, Blocks, Sized, ZeroAt, ByteAt

\* Damaging a block leaves the zero at its end.
LEMMA CorruptedIs ==
  ASSUME NEW size, NEW z, Undamaged(size, z), NEW b \in Blocks(size, z), NEW step \in Strides,
         NEW seed \in Nat
  PROVE  Corrupted(b, step, seed) \in Blocks(size, z)
<1> DEFINE c == Corrupted(b, step, seed)
<1>1. size \in Nat /\ z \in 0 .. size - 1 /\ z % 17 # 0
  BY DEF Undamaged
<1>2. b \in [0 .. size - 1 -> Word16] /\ b[z] = 0
  BY DEF Blocks
<1>3. c = [i \in 0 .. size - 1 |-> IF i % step = 0 /\ b[i] # Comma THEN Xor(b[i], LowByte(seed)) ELSE b[i]]
  BY <1>2 DEF Corrupted
<1>4. LowByte(seed) \in Nat
  BY DEF LowByte
<1>5. ASSUME NEW i \in 0 .. size - 1 PROVE c[i] \in Word16
  <2>1. b[i] \in Word16 /\ b[i] \in Nat
    BY <1>2 DEF Word16
  <2>2. Xor(b[i], LowByte(seed)) \in Word16
    BY <1>4, <2>1, XorIs
  <2> HIDE DEF c
  <2>q. QED
    BY <1>3, <2>1, <2>2
<1>6. c[z] = 0
  <2>1. z % step # 0
    BY <1>1, StrideIs
  <2> HIDE DEF c
  <2>q. QED
    BY <1>1, <1>2, <1>3, <2>1
<1> HIDE DEF c
<1>7. c \in [0 .. size - 1 -> Word16]
  BY <1>3, <1>5
<1>q. QED
  BY <1>6, <1>7 DEF Blocks, c

(* The blocks BB there may be, with the seeds of r: they end, and what     *)
(* damage and repair make of them is one of them.                          *)
Scannable(r, BB) ==
  /\ r.seed1 \in Nat /\ r.seed2 \in Nat
  /\ \E z : Undamaged(r.size, z) /\ BB \subseteq Blocks(r.size, z)
  /\ \A b \in BB, step \in Strides : Corrupted(Corrupted(b, step, r.seed1), step, r.seed2) \in BB

(* What the state machine benchmark gives.                                 *)
Scanned(r, BB, c) ==
  /\ c.block \in BB /\ c.crc \in Word16 /\ c.far \in Nat /\ c.far < r.size

\* core_bench_state leaves one of the blocks it may leave, and does not scan past the end.
LEMMA BenchStateIs ==
  ASSUME NEW r, NEW BB, Scannable(r, BB), NEW b \in BB, NEW step \in Strides, NEW crc \in Word16
  PROVE  Scanned(r, BB, core_bench_state(b, r.seed1, r.seed2, step, crc))
<1>1. r.seed1 \in Nat /\ r.seed2 \in Nat
  BY DEF Scannable
<1>2. PICK z : Undamaged(r.size, z) /\ BB \subseteq Blocks(r.size, z)
  BY DEF Scannable
<1> DEFINE damaged == Corrupted(b, step, r.seed1)
           s0 == [at |-> 0, state |-> "START", final |-> NoCounts, track |-> NoCounts]
           s1 == Scan(b, s0)
           s2 == Scan(damaged, [s1 EXCEPT !.at = 0])
<1>3. b \in Blocks(r.size, z) /\ damaged \in Blocks(r.size, z)
  BY <1>1, <1>2, CorruptedIs
<1>4. r.size \in Nat /\ z \in 0 .. r.size - 1 /\ z \in Nat /\ 0 <= z
  BY <1>2 DEF Undamaged
<1>5. core_bench_state(b, r.seed1, r.seed2, step, crc) =
        [block |-> Corrupted(damaged, step, r.seed2), crc |-> CountsCrc(s2, crc),
         far |-> IF s1.at < s2.at THEN s2.at ELSE s1.at]
  BY DEF core_bench_state
<1>6. Corrupted(damaged, step, r.seed2) \in BB
  BY DEF Scannable
<1>7. s0 \in Scans /\ s0.at = 0
  <2>1. "START" \in States /\ NoCounts \in [States -> Nat]
    BY StatesAre DEF NoCounts
  <2>q. QED
    BY <2>1 DEF Scans
<1>8. Sized(b, r.size) /\ ZeroAt(b, z) /\ Sized(damaged, r.size) /\ ZeroAt(damaged, z)
  BY <1>2, <1>3, BlockIs
<1> HIDE DEF s0, damaged
<1>9. s1 \in Scans /\ s1.at <= z
  BY <1>4, <1>7, <1>8, ScanStops
<1> DEFINE s1a == [s1 EXCEPT !.at = 0]
<1> HIDE DEF s1
<1>10. s1a \in Scans /\ s1a.at = 0
  BY <1>9 DEF Scans
<1>11. s2 = Scan(damaged, s1a)
  OBVIOUS
<1> HIDE DEF s2, s1a
<1>12. s2 \in Scans /\ s2.at <= z
  BY <1>4, <1>8, <1>10, <1>11, ScanStops
<1>13. CountsCrc(s2, crc) \in Word16
  BY <1>12, CountsCrcIs
<1>14. s1.at \in Nat /\ s2.at \in Nat
  BY <1>9, <1>12 DEF Scans
<1> DEFINE far == IF s1.at < s2.at THEN s2.at ELSE s1.at
<1>15. far \in Nat /\ far < r.size
  BY <1>4, <1>9, <1>12, <1>14
<1> HIDE DEF far
<1>16. Scanned(r, BB, [block |-> Corrupted(damaged, step, r.seed2), crc |-> CountsCrc(s2, crc), far |-> far])
  BY <1>6, <1>13, <1>15 DEF Scanned
<1>q. QED
  BY <1>5, <1>16 DEF far

-----------------------------------------------------------------------------
(* The matrix benchmark.                                                   *)

Int16 == {w \in Int : -32768 <= w /\ w < 32768}
Matrices(N) == [Offsets(N) -> Int]

\* S16 gives a signed word, and leaves one alone.
LEMMA S16Is ==
  ASSUME NEW w \in Int
  PROVE  S16(w) \in Int16 /\ (w \in Int16 => S16(w) = w)
<1>1. w % 65536 \in Nat /\ w % 65536 < 65536
  OBVIOUS
<1>2. S16(w) \in Int16
  BY <1>1 DEF S16, U16, Int16
<1>3. ASSUME w \in Int16 PROVE S16(w) = w
  <2>1. w >= -32768 /\ w < 32768
    BY <1>3 DEF Int16
  <2>2. CASE w >= 0
    <3>1. w % 65536 = w
      BY <2>1, <2>2
    <3>q. QED
      BY <2>1, <3>1 DEF S16, U16
  <2>3. CASE w < 0
    <3>1. w % 65536 = w + 65536
      BY <2>1, <2>3
    <3>q. QED
      BY <2>1, <2>3, <3>1 DEF S16, U16
  <2>q. QED
    BY <2>2, <2>3
<1>q. QED
  BY <1>2, <1>3

(* What is added to a word and taken from it again leaves the word.        *)
LEMMA S16Back ==
  ASSUME NEW a \in Int16, NEW v \in Int
  PROVE  S16(S16(a + v) + (-v)) = a
<1>1. a \in Int /\ a >= -32768 /\ a < 32768 /\ a + v \in Int
  BY DEF Int16
<1> DEFINE u == (a + v) % 65536
           s == S16(a + v)
<1>2. u \in Nat /\ u < 65536 /\ (u - (a + v)) % 65536 = 0
  BY <1>1
<1>3. s = u \/ s = u - 65536
  BY DEF S16, U16
<1> HIDE DEF u, s
<1>4. s \in Int /\ (s - (a + v)) % 65536 = 0
  BY <1>1, <1>2, <1>3
<1>5. ((s + (-v)) - a) % 65536 = 0 /\ s + (-v) \in Int
  BY <1>1, <1>4
<1> DEFINE x == s + (-v)
<1>6. x \in Int /\ (x - a) % 65536 = 0
  BY <1>5
<1> HIDE DEF x
<1>7. x % 65536 = a % 65536
  BY <1>1, <1>6
<1>8. S16(x) = S16(a)
  BY <1>7 DEF S16, U16
<1>9. S16(a) = a
  BY <1>1, S16Is
<1>q. QED
  BY <1>8, <1>9 DEF x, s

\* A 32 bit sum is a number.
LEMMA Add32Is ==
  ASSUME NEW a \in Int, NEW b \in Int
  PROVE  Add32(a, b) \in Int
BY DEF Add32, MinS32

\* A sum of numbers is a number.
LEMMA TotalIs ==
  ASSUME NEW n \in Nat, NEW g \in [0 .. n - 1 -> Int]
  PROVE  Total(g, n) \in Int
<1> DEFINE h == [i \in 1 .. n |-> [w \in Int |-> Add32(w, g[i - 1])]]
           R(f) == [k \in 0 .. n |-> IF k = 0 THEN 0 ELSE Add32(f[k - 1], g[k - 1])]
           sum == CHOOSE f : f = R(f)
<1>1. ASSUME NEW i \in 1 .. n PROVE g[i - 1] \in Int
  <2>1. i - 1 \in 0 .. n - 1
    OBVIOUS
  <2>q. QED
    BY <2>1
<1>2. h \in [1 .. n -> [Int -> Int]]
  BY <1>1, Add32Is
<1>3. PICK f : Counting(Int, 0, n, h, f)
  <2>1. 0 \in Int
    OBVIOUS
  <2> HIDE DEF h
  <2>q. QED
    BY <1>2, <2>1, TurningExists
<1>4. f \in [0 .. n -> Int] /\ f = [i \in 0 .. n |-> IF i = 0 THEN 0 ELSE h[i][f[i - 1]]]
  <2> HIDE DEF h
  <2>q. QED
    BY <1>3 DEF Counting
<1>5. f = R(f)
  <2>1. ASSUME NEW i \in 0 .. n PROVE f[i] = IF i = 0 THEN 0 ELSE Add32(f[i - 1], g[i - 1])
    <3>1. CASE i = 0
      BY <1>4, <3>1
    <3>2. CASE i # 0
      <4>1. i \in 1 .. n /\ i - 1 \in 0 .. n
        BY <3>2
      <4>2. f[i] = h[i][f[i - 1]] /\ f[i - 1] \in Int
        <5> HIDE DEF h
        <5>q. QED
          BY <1>4, <3>2, <4>1
      <4>q. QED
        BY <3>2, <4>1, <4>2
    <3>q. QED
      BY <3>1, <3>2
  <2>2. f = [i \in 0 .. n |-> f[i]]
    <3> HIDE DEF h
    <3>q. QED
      BY <1>4
  <2>q. QED
    BY <2>1, <2>2
<1>6. sum = R(sum)
  <2> HIDE DEF R
  <2>q. QED
    BY <1>5
<1>7. Total(g, n) = sum[n]
  BY DEF Total
<1> HIDE DEF sum
<1>8. sum[0] \in Int
  BY <1>6
<1>9. ASSUME NEW i \in 1 .. n, sum[i - 1] \in Int PROVE sum[i] \in Int
  <2>1. i \in 0 .. n /\ i # 0
    OBVIOUS
  <2>2. sum[i] = Add32(sum[i - 1], g[i - 1])
    BY <1>6, <2>1
  <2>q. QED
    BY <1>1, <1>9, <2>2, Add32Is
<1>10. sum[n] \in Int
  <2>0. 0 \in Nat
    OBVIOUS
  <2>q. QED
    BY <1>8, <1>9, TurningStays
<1>q. QED
  BY <1>7, <1>10

(* The places of a matrix: rows and columns.                               *)
LEMMA OffsetIs ==
  ASSUME NEW N \in Nat, NEW i \in 0 .. N - 1, NEW j \in 0 .. N - 1
  PROVE  i * N + j \in Offsets(N) /\ j \in Offsets(N)
<1>1. i \in Nat /\ j \in Nat /\ N >= 1 /\ i <= N - 1 /\ j <= N - 1
  OBVIOUS
<1>2. i * N \in Nat /\ N * N \in Nat /\ (N - 1) * N \in Nat
  BY <1>1
<1>3. i * N <= (N - 1) * N
  BY <1>1
<1>4. (N - 1) * N = N * N - N
  BY <1>1
<1>5. N <= N * N
  BY <1>1
<1>q. QED
  BY <1>1, <1>2, <1>3, <1>4, <1>5 DEF Offsets

\* The row and the column of an element.
LEMMA RowIs ==
  ASSUME NEW N \in Nat, NEW i \in Offsets(N)
  PROVE  Row(N, i) \in 0 .. N - 1 /\ Col(N, i) \in 0 .. N - 1
<1>1. i \in Nat /\ i < N * N /\ N # 0
  BY DEF Offsets
<1>2. i % N \in Nat /\ i % N < N /\ i \div N \in Nat
  BY <1>1
<1>3. i \div N < N
  BY <1>1
<1>q. QED
  BY <1>2, <1>3 DEF Row, Col

(* The four results are matrices of numbers.                               *)
LEMMA AddConstIs ==
  ASSUME NEW N \in Nat, NEW A \in Matrices(N), NEW val \in Int
  PROVE  matrix_add_const(N, A, val) \in Matrices(N)
<1>1. ASSUME NEW i \in Offsets(N) PROVE S16(A[i] + val) \in Int
  <2>1. A[i] + val \in Int
    BY DEF Matrices
  <2>q. QED
    BY <2>1, S16Is DEF Int16
<1>q. QED
  BY <1>1 DEF matrix_add_const, Matrices

\* A matrix times a number is a matrix.
LEMMA MulConstIs ==
  ASSUME NEW N \in Nat, NEW A \in Matrices(N), NEW val \in Int
  PROVE  matrix_mul_const(N, A, val) \in Matrices(N)
<1>1. ASSUME NEW i \in Offsets(N) PROVE A[i] * val \in Int
  <2>1. A[i] \in Int
    BY DEF Matrices
  <2>q. QED
    BY <2>1
<1>q. QED
  BY <1>1 DEF matrix_mul_const, Matrices

\* A product with a vector is a matrix again.
LEMMA MulVectIs ==
  ASSUME NEW N \in Nat, NEW C \in Matrices(N), NEW A \in Matrices(N), NEW B \in Matrices(N)
  PROVE  matrix_mul_vect(N, C, A, B) \in Matrices(N)
<1> DEFINE v(i) == Total([j \in 0 .. N - 1 |-> A[i * N + j] * B[j]], N)
<1>1. ASSUME NEW i \in 0 .. N - 1 PROVE v(i) \in Int
  <2>1. ASSUME NEW j \in 0 .. N - 1 PROVE A[i * N + j] * B[j] \in Int
    <3>1. i * N + j \in Offsets(N) /\ j \in Offsets(N)
      BY OffsetIs
    <3>2. A[i * N + j] \in Int /\ B[j] \in Int
      BY <3>1 DEF Matrices
    <3>q. QED
      BY <3>2
  <2> DEFINE g == [j \in 0 .. N - 1 |-> A[i * N + j] * B[j]]
  <2>2. g \in [0 .. N - 1 -> Int]
    BY <2>1
  <2> HIDE DEF g
  <2>3. Total(g, N) \in Int
    BY <2>2, TotalIs
  <2>q. QED
    BY <2>3 DEF g
<1>2. matrix_mul_vect(N, C, A, B) = [i \in Offsets(N) |-> IF i < N THEN v(i) ELSE C[i]]
  BY DEF matrix_mul_vect
<1> HIDE DEF v
<1>3. ASSUME NEW i \in Offsets(N) PROVE (IF i < N THEN v(i) ELSE C[i]) \in Int
  <2>1. i \in Nat /\ (i < N => i \in 0 .. N - 1)
    BY DEF Offsets
  <2>2. C[i] \in Int
    BY DEF Matrices
  <2>q. QED
    BY <1>1, <2>1, <2>2
<1>q. QED
  BY <1>2, <1>3 DEF Matrices

\* A term of an element of the product is a number.
LEMMA TermIs ==
  ASSUME NEW N \in Nat, NEW A \in Matrices(N), NEW B \in Matrices(N), NEW i \in Offsets(N), NEW k \in 0 .. N - 1
  PROVE  A[Row(N, i) * N + k] * B[k * N + Col(N, i)] \in Int
<1>1. Row(N, i) \in 0 .. N - 1 /\ Col(N, i) \in 0 .. N - 1
  BY RowIs
<1>2. Row(N, i) * N + k \in Offsets(N) /\ k * N + Col(N, i) \in Offsets(N)
  BY <1>1, OffsetIs
<1>3. A[Row(N, i) * N + k] \in Int /\ B[k * N + Col(N, i)] \in Int
  BY <1>2 DEF Matrices
<1>q. QED
  BY <1>3

\* A product of matrices is a matrix.
LEMMA MulMatrixIs ==
  ASSUME NEW N \in Nat, NEW A \in Matrices(N), NEW B \in Matrices(N)
  PROVE  matrix_mul_matrix(N, A, B) \in Matrices(N)
<1> DEFINE g(i) == [k \in 0 .. N - 1 |-> A[Row(N, i) * N + k] * B[k * N + Col(N, i)]]
<1>1. ASSUME NEW i \in Offsets(N) PROVE Total(g(i), N) \in Int
  <2>1. g(i) \in [0 .. N - 1 -> Int]
    BY TermIs
  <2> HIDE DEF g
  <2>q. QED
    BY <2>1, TotalIs
<1>2. matrix_mul_matrix(N, A, B) = [i \in Offsets(N) |-> Total(g(i), N)]
  BY DEF matrix_mul_matrix
<1> HIDE DEF g
<1>q. QED
  BY <1>1, <1>2 DEF Matrices

\* The bits the last multiplication takes are numbers.
LEMMA BitExtractIs ==
  ASSUME NEW x \in Int
  PROVE  bit_extract(x, 2, 4) \in Int /\ bit_extract(x, 5, 7) \in Int
<1>1. 2^2 = 4 /\ 2^4 = 16 /\ 2^5 = 32 /\ 2^7 = 128
  OBVIOUS
<1>2. (x \div 4) % 16 \in Int /\ (x \div 32) % 128 \in Int
  OBVIOUS
<1>q. QED
  BY <1>1, <1>2 DEF bit_extract

\* The product of bits is a matrix.
LEMMA MulBitExtractIs ==
  ASSUME NEW N \in Nat, NEW A \in Matrices(N), NEW B \in Matrices(N)
  PROVE  matrix_mul_matrix_bitextract(N, A, B) \in Matrices(N)
<1> DEFINE Part(tmp) == bit_extract(tmp, 2, 4) * bit_extract(tmp, 5, 7)
           g(i) == [k \in 0 .. N - 1 |-> Part(A[Row(N, i) * N + k] * B[k * N + Col(N, i)])]
<1>1. ASSUME NEW i \in Offsets(N) PROVE Total(g(i), N) \in Int
  <2>1. ASSUME NEW tmp \in Int PROVE Part(tmp) \in Int
    BY BitExtractIs
  <2>2. matrix_mul_matrix_bitextract(N, A, B) = [j \in Offsets(N) |-> Total(g(j), N)]
    BY DEF matrix_mul_matrix_bitextract
  <2> HIDE DEF Part
  <2>3. g(i) \in [0 .. N - 1 -> Int]
    BY <2>1, TermIs
  <2> HIDE DEF g
  <2>q. QED
    BY <2>3, TotalIs
<1>2. matrix_mul_matrix_bitextract(N, A, B) = [i \in Offsets(N) |-> Total(g(i), N)]
  BY DEF matrix_mul_matrix_bitextract
<1> HIDE DEF g, Part
<1>q. QED
  BY <1>1, <1>2 DEF Matrices

-----------------------------------------------------------------------------
(* The sum over a matrix, and the benchmark.                               *)

\* One element more of matrix_sum.
LEMMA SumWithIs ==
  ASSUME NEW s \in Sums, NEW cur \in Int, NEW clipval \in Int
  PROVE  SumWith(s, cur, clipval) \in Sums /\ SumWith(s, cur, clipval).k = s.k + 1
<1>1. s.k \in Nat /\ s.tmp \in Int /\ s.prev \in Int /\ s.ret \in Int
  BY DEF Sums
<1> DEFINE tmp == Add32(s.tmp, cur)
           one == IF cur > s.prev THEN 1 ELSE 0
           ret == s.ret + one
<1>2. tmp \in Int /\ ret \in Int
  <2>1. one \in Int
    OBVIOUS
  <2>2. tmp \in Int
    BY <1>1, Add32Is
  <2> HIDE DEF one
  <2>3. s.ret + one \in Int
    BY <1>1, <2>1
  <2>q. QED
    BY <2>2, <2>3
<1>3. SumWith(s, cur, clipval) =
        IF tmp > clipval THEN [k |-> s.k + 1, tmp |-> 0, prev |-> cur, ret |-> s.ret + 10]
        ELSE [k |-> s.k + 1, tmp |-> tmp, prev |-> cur, ret |-> ret]
  BY DEF SumWith
<1> HIDE DEF tmp, one, ret
<1>q. QED
  BY <1>1, <1>2, <1>3 DEF Sums

\* matrix_sum is a number.
LEMMA MatrixSumIs ==
  ASSUME NEW N \in Nat, NEW C \in Matrices(N), NEW clipval \in Int
  PROVE  matrix_sum(C, clipval) \in Int
<1> DEFINE M == N * N
           D == {s \in Sums : s.k \notin 0 .. M - 1}
           g == [s \in Sums |-> s.ret]
           h == [s \in Sums |-> IF s \in D THEN s ELSE SumWith(s, C[s.k], clipval)]
           R(f) == [s \in Sums |-> IF s.k \notin DOMAIN C THEN s.ret ELSE f[SumWith(s, C[s.k], clipval)]]
           sum == CHOOSE f : f = R(f)
<1>1. M \in Nat /\ DOMAIN C = 0 .. M - 1 /\ C \in [0 .. M - 1 -> Int]
  BY DEF Matrices, Offsets
<1> HIDE DEF M
<1>2. g \in [Sums -> Int]
  BY DEF Sums
<1>3. ASSUME NEW s \in Sums, s \notin D
      PROVE  SumWith(s, C[s.k], clipval) \in Sums /\ SumWith(s, C[s.k], clipval).k = s.k + 1
  <2>1. C[s.k] \in Int
    BY <1>1, <1>3
  <2>q. QED
    BY <2>1, SumWithIs
<1>4. h \in [Sums -> Sums]
  <2> HIDE DEF D
  <2>q. QED
    BY <1>3
<1>5. PICK f : Calls(Sums, Int, D, g, h, f)
  <2> HIDE DEF D, g, h
  <2>q. QED
    BY <1>2, <1>4, TailCalls
<1>6. f \in [Sums -> Int] /\ \A s \in Sums : f[s] = IF s \in D THEN g[s] ELSE f[h[s]]
  <2> HIDE DEF D, g, h
  <2>q. QED
    BY <1>5 DEF Calls
<1>7. f = R(f)
  <2>1. ASSUME NEW s \in Sums PROVE f[s] = IF s.k \notin DOMAIN C THEN s.ret ELSE f[SumWith(s, C[s.k], clipval)]
    BY <1>1, <1>6
  <2>2. f = [s \in Sums |-> f[s]]
    BY <1>6
  <2>q. QED
    BY <2>1, <2>2
<1>8. sum = R(sum)
  <2> HIDE DEF R
  <2>q. QED
    BY <1>7
<1> DEFINE s0 == [k |-> 0, tmp |-> 0, prev |-> 0, ret |-> 0]
<1>9. matrix_sum(C, clipval) = sum[s0]
  BY DEF matrix_sum
<1>10. s0 \in Sums /\ s0.k = 0
  BY DEF Sums
<1> HIDE DEF sum, s0
<1>11. \A s \in Sums : sum[s] = IF s \in D THEN s.ret ELSE sum[SumWith(s, C[s.k], clipval)]
  BY <1>1, <1>8
<1> HIDE DEF R, g, h
<1>12. \A s \in Sums : s.k \in Nat /\ s.ret \in Int
  BY DEF Sums
<1>13. \A s \in Sums : s \notin D <=> s.k < M
  BY <1>1, <1>12
<1> HIDE DEF D
<1> DEFINE T == {k \in Nat : \A s \in Sums : M - s.k <= k => sum[s] \in Int}
<1>14. 0 \in T
  <2>1. ASSUME NEW s \in Sums, M - s.k <= 0 PROVE sum[s] \in Int
    BY <1>1, <1>11, <1>12, <1>13, <2>1
  <2>q. QED
    BY <2>1
<1>15. ASSUME NEW k \in Nat, k \in T PROVE k + 1 \in T
  <2>1. ASSUME NEW s \in Sums, M - s.k <= k + 1 PROVE sum[s] \in Int
    <3>1. CASE s \in D
      BY <1>11, <1>12, <3>1
    <3>2. CASE s \notin D
      <4> DEFINE t == SumWith(s, C[s.k], clipval)
      <4>1. t \in Sums /\ t.k = s.k + 1
        BY <1>3, <3>2
      <4>2. sum[s] = sum[t]
        BY <1>11, <3>2
      <4> HIDE DEF t
      <4>3. M - t.k <= k
        BY <1>1, <1>12, <2>1, <4>1
      <4>q. QED
        BY <1>15, <4>1, <4>2, <4>3
    <3>q. QED
      BY <3>1, <3>2
  <2>2. k + 1 \in Nat
    OBVIOUS
  <2>q. QED
    BY <2>1, <2>2
<1>16. \A k \in Nat : k \in T
  <2> HIDE DEF T
  <2>q. QED
    BY <1>14, <1>15, Induction
<1>17. M - s0.k <= M /\ M \in T
  BY <1>1, <1>10, <1>16
<1>q. QED
  BY <1>9, <1>10, <1>17

(* The matrices of a machine.                                              *)
Matrixed(mat) ==
  /\ mat = [N |-> mat.N, A |-> mat.A, B |-> mat.B, first |-> mat.first, end |-> mat.end]
  /\ mat.N \in Nat /\ mat.A \in [Offsets(mat.N) -> Int16] /\ mat.B \in Matrices(mat.N)

(* The benchmark gives a CRC, and leaves A as it was.                      *)
LEMMA BenchMatrixIs ==
  ASSUME NEW mat, Matrixed(mat), NEW seed \in Nat, NEW crc \in Word16
  PROVE  core_bench_matrix(mat, seed, crc).A = mat.A /\ core_bench_matrix(mat, seed, crc).crc \in Word16
<1> DEFINE N == mat.N
           clipval == matrix_big(seed)
           A  == matrix_add_const(N, mat.A, seed)
           C1 == matrix_mul_const(N, A, seed)
           C2 == matrix_mul_vect(N, C1, A, mat.B)
           C3 == matrix_mul_matrix(N, A, mat.B)
           C4 == matrix_mul_matrix_bitextract(N, A, mat.B)
           back == matrix_add_const(N, A, -seed)
           w == crc16(matrix_sum(C4, clipval), crc16(matrix_sum(C3, clipval),
                 crc16(matrix_sum(C2, clipval), crc16(matrix_sum(C1, clipval), 0))))
<1>1. N \in Nat /\ mat.A \in [Offsets(N) -> Int16] /\ mat.B \in Matrices(N)
  BY DEF Matrixed
<1>2. clipval \in Int
  <2>1. 61440 + (seed % 4096) \in Int
    OBVIOUS
  <2>q. QED
    BY <2>1, S16Is DEF matrix_big, Int16
<1>3. mat.A \in Matrices(N)
  BY <1>1 DEF Matrices, Int16
<1>4. core_bench_matrix(mat, seed, crc) = [A |-> back, crc |-> crc16(w, crc)]
  BY DEF core_bench_matrix, matrix_test
<1>5. back = mat.A
  <2>1. A = [i \in Offsets(N) |-> S16(mat.A[i] + seed)]
    BY DEF matrix_add_const
  <2>2. back = [i \in Offsets(N) |-> S16(A[i] + (-seed))]
    BY DEF matrix_add_const
  <2> HIDE DEF A, back, N
  <2>3. \A i \in Offsets(N) : back[i] = S16(S16(mat.A[i] + seed) + (-seed))
    BY <2>1, <2>2
  <2>4. \A i \in Offsets(N) : back[i] = mat.A[i]
    BY <1>1, <2>3, S16Back
  <2>q. QED
    BY <1>1, <2>2, <2>4
<1> HIDE DEF N, clipval, back
<1>6. A \in Matrices(N)
  BY <1>1, <1>3, AddConstIs
<1> HIDE DEF A
<1>7. C1 \in Matrices(N)
  BY <1>1, <1>6, MulConstIs
<1> HIDE DEF C1
<1>8. C2 \in Matrices(N) /\ C3 \in Matrices(N) /\ C4 \in Matrices(N)
  BY <1>1, <1>6, <1>7, MulVectIs, MulMatrixIs, MulBitExtractIs
<1> HIDE DEF C2, C3, C4
<1>9. /\ matrix_sum(C1, clipval) \in Int /\ matrix_sum(C2, clipval) \in Int
      /\ matrix_sum(C3, clipval) \in Int /\ matrix_sum(C4, clipval) \in Int
  BY <1>1, <1>2, <1>7, <1>8, MatrixSumIs
<1>10. w \in Word16
  <2>1. 0 \in Word16
    BY DEF Word16
  <2>2. \A v \in Int, c \in Word16 : crc16(v, c) \in Word16
    BY CrcsAre
  <2>3. crc16(matrix_sum(C1, clipval), 0) \in Word16
    BY <1>9, <2>1, <2>2
  <2>4. crc16(matrix_sum(C2, clipval), crc16(matrix_sum(C1, clipval), 0)) \in Word16
    BY <1>9, <2>2, <2>3
  <2>5. crc16(matrix_sum(C3, clipval), crc16(matrix_sum(C2, clipval), crc16(matrix_sum(C1, clipval), 0))) \in Word16
    BY <1>9, <2>2, <2>4
  <2>q. QED
    BY <1>9, <2>2, <2>5
<1> HIDE DEF w
<1>11. crc16(w, crc) \in Word16
  <2>1. w \in Int
    BY <1>10 DEF Word16
  <2>q. QED
    BY <2>1, CrcsAre
<1>q. QED
  BY <1>4, <1>5, <1>11

-----------------------------------------------------------------------------
(* What a comparison may change.  r is the machine when the sort starts and *)
(* BB the blocks the state machine may leave behind.                        *)

Heaps(n, h0) ==
  {h \in Heap(n) : /\ h.info = h0.info /\ h.idx = h0.idx
                   /\ \A d \in 1 .. n : HighByte(h.data16[d]) = HighByte(h0.data16[d])}

Machines(n, r, BB) ==
  [seed1 : {r.seed1}, seed2 : {r.seed2}, seed3 : {r.seed3}, iterations : {r.iterations},
   size : {r.size}, crc : Word16, crclist : {r.crclist}, crcmatrix : Word16, crcstate : Word16,
   far : 0 .. r.size - 1, list : {r.list}, h : Heaps(n, r.h), mat : {r.mat}, block : BB]

(* What the machine is to be for the comparisons to work.                  *)
Able(n, r, BB) ==
  /\ r \in Machines(n, r, BB)
  /\ r.h.info = [d \in 1 .. n |-> d]
  /\ r.size \in Nat /\ Scannable(r, BB) /\ Matrixed(r.mat)

Cmps == {"cmp_complex", "cmp_idx"}

(* What a datum is sorted by, and that comparing leaves it from now on.    *)
Key(cmp, h, d) == IF cmp = "cmp_complex" THEN h.data16[d] % 128 ELSE S16(h.idx[d])
Settled(cmp, h, d) ==
  IF cmp = "cmp_complex" THEN BitOf(h.data16[d], 7) = 1 ELSE h.data16[d] = HighByte(h.data16[d]) * 257

Later(cmp, n, h, h2) == \A d \in 1 .. n : Settled(cmp, h, d) => h2.data16[d] = h.data16[d]

(* What a comparison makes of the machine.                                 *)
ComparesWell(cmp, n, r, BB, m, a, b, c) ==
  /\ c.m \in Machines(n, r, BB) /\ c.m.h.next = m.h.next /\ Later(cmp, n, m.h, c.m.h)
  /\ Settled(cmp, c.m.h, a) /\ Settled(cmp, c.m.h, b)
  /\ c.diff = Key(cmp, c.m.h, a) - Key(cmp, c.m.h, b)

(* The machine with one of what a comparison changes changed.              *)
LEMMA MachineWith ==
  ASSUME NEW n, NEW r, NEW BB, NEW m \in Machines(n, r, BB)
  PROVE  /\ \A b \in BB : [m EXCEPT !.block = b] \in Machines(n, r, BB)
         /\ \A w \in Word16 : /\ [m EXCEPT !.crcstate = w] \in Machines(n, r, BB)
                              /\ [m EXCEPT !.crcmatrix = w] \in Machines(n, r, BB)
                              /\ [m EXCEPT !.crc = w] \in Machines(n, r, BB)
         /\ \A f \in 0 .. r.size - 1 : [m EXCEPT !.far = f] \in Machines(n, r, BB)
         /\ \A h \in Heaps(n, r.h) : [m EXCEPT !.h = h] \in Machines(n, r, BB)
<1>1. \A b \in BB : [m EXCEPT !.block = b] \in Machines(n, r, BB)
  BY DEF Machines
<1>2. \A w \in Word16 : [m EXCEPT !.crcstate = w] \in Machines(n, r, BB)
  BY DEF Machines
<1>3. \A w \in Word16 : [m EXCEPT !.crcmatrix = w] \in Machines(n, r, BB)
  BY DEF Machines
<1>4. \A w \in Word16 : [m EXCEPT !.crc = w] \in Machines(n, r, BB)
  BY DEF Machines
<1>5. \A f \in 0 .. r.size - 1 : [m EXCEPT !.far = f] \in Machines(n, r, BB)
  BY DEF Machines
<1>6. \A h \in Heaps(n, r.h) : [m EXCEPT !.h = h] \in Machines(n, r, BB)
  BY DEF Machines
<1>q. QED
  BY <1>1, <1>2, <1>3, <1>4, <1>5, <1>6

(* What is calculated for a datum: the list is not touched.                *)
Worked(n, r, BB, m, c) ==
  c.m \in Machines(n, r, BB) /\ c.m.h = m.h /\ c.retval \in Nat

\* The state machine's part of calc_func leaves the machine able to go on.
LEMMA StateResultIs ==
  ASSUME NEW n, NEW r, NEW BB, Able(n, r, BB), NEW m \in Machines(n, r, BB), NEW step \in Strides
  PROVE  Worked(n, r, BB, m, StateResult(m, core_bench_state(m.block, m.seed1, m.seed2, step, m.crc)))
<1> DEFINE c == core_bench_state(m.block, m.seed1, m.seed2, step, m.crc)
           w == IF m.crcstate = 0 THEN c.crc ELSE m.crcstate
           f == IF m.far < c.far THEN c.far ELSE m.far
           m2 == [m EXCEPT !.block = c.block]
           m3 == [m2 EXCEPT !.crcstate = w]
<1>1. /\ m.seed1 = r.seed1 /\ m.seed2 = r.seed2 /\ m.block \in BB /\ m.crc \in Word16
      /\ m.crcstate \in Word16 /\ m.far \in 0 .. r.size - 1
  BY DEF Machines
<1>2. Scanned(r, BB, c)
  BY <1>1, BenchStateIs DEF Able
<1> HIDE DEF c
<1>3. c.block \in BB /\ c.crc \in Word16 /\ c.far \in Nat /\ c.far < r.size
  BY <1>2 DEF Scanned
<1>4. StateResult(m, c) = [m |-> [m3 EXCEPT !.far = f], retval |-> c.crc]
  BY DEF StateResult
<1>5. w \in Word16
  BY <1>1, <1>3
<1>6. r.size \in Nat
  BY DEF Able
<1>7. f \in 0 .. r.size - 1
  BY <1>1, <1>3, <1>6
<1> HIDE DEF w, f
<1>8. m2 \in Machines(n, r, BB) /\ m2.h = m.h
  BY <1>3, MachineWith DEF Machines
<1> HIDE DEF m2
<1>9. m3 \in Machines(n, r, BB) /\ m3.h = m.h
  BY <1>5, <1>8, MachineWith DEF Machines
<1> HIDE DEF m3
<1>10. [m3 EXCEPT !.far = f] \in Machines(n, r, BB) /\ [m3 EXCEPT !.far = f].h = m.h
  BY <1>7, <1>9, MachineWith DEF Machines
<1>11. c.crc \in Nat
  BY <1>3 DEF Word16
<1> DEFINE m4 == [m3 EXCEPT !.far = f]
<1> HIDE DEF m4
<1>12. Worked(n, r, BB, m, [m |-> m4, retval |-> c.crc])
  BY <1>10, <1>11 DEF Worked, m4
<1>13. Worked(n, r, BB, m, StateResult(m, c))
  BY <1>4, <1>12 DEF m4
<1>q. QED
  BY <1>13 DEF c

\* The matrices' part of calc_func leaves the machine able to go on.
LEMMA MatrixResultIs ==
  ASSUME NEW n, NEW r, NEW BB, Able(n, r, BB), NEW m \in Machines(n, r, BB), NEW seed \in Nat
  PROVE  Worked(n, r, BB, m, MatrixResult(m, core_bench_matrix(m.mat, seed, m.crc)))
<1> DEFINE c == core_bench_matrix(m.mat, seed, m.crc)
           w == IF m.crcmatrix = 0 THEN c.crc ELSE m.crcmatrix
<1>1. m.mat = r.mat /\ m.crc \in Word16 /\ m.crcmatrix \in Word16
  BY DEF Machines
<1>2. Matrixed(m.mat)
  BY <1>1 DEF Able
<1>3. c.A = m.mat.A /\ c.crc \in Word16
  BY <1>1, <1>2, BenchMatrixIs
<1> HIDE DEF c
<1>4. MatrixResult(m, c) = [m |-> [m EXCEPT !.mat.A = c.A, !.crcmatrix = w], retval |-> c.crc]
  BY DEF MatrixResult
<1>5. [m.mat EXCEPT !.A = c.A] = m.mat
  BY <1>2, <1>3 DEF Matrixed
<1>6. [m EXCEPT !.mat.A = c.A, !.crcmatrix = w] = [[m EXCEPT !.mat.A = c.A] EXCEPT !.crcmatrix = w]
  <2> HIDE DEF w
  <2>q. QED
    BY DEF Machines
<1>7. [m EXCEPT !.mat.A = c.A] = m
  <2>1. [m EXCEPT !.mat.A = c.A] = [m EXCEPT !.mat = [m.mat EXCEPT !.A = c.A]]
    OBVIOUS
  <2>2. [m EXCEPT !.mat = m.mat] = m
    BY DEF Machines
  <2>q. QED
    BY <1>5, <2>1, <2>2
<1>8. w \in Word16
  BY <1>1, <1>3
<1> HIDE DEF w
<1>9. [m EXCEPT !.crcmatrix = w] \in Machines(n, r, BB) /\ [m EXCEPT !.crcmatrix = w].h = m.h
  BY <1>8, MachineWith DEF Machines
<1>10. c.crc \in Nat
  BY <1>3 DEF Word16
<1> DEFINE m4 == [m EXCEPT !.crcmatrix = w]
<1> HIDE DEF m4
<1>11. Worked(n, r, BB, m, [m |-> m4, retval |-> c.crc])
  BY <1>9, <1>10 DEF Worked, m4
<1>12. Worked(n, r, BB, m, MatrixResult(m, c))
  BY <1>4, <1>6, <1>7, <1>11 DEF m4
<1>q. QED
  BY <1>12 DEF c

\* calc_func, when the result is not cached, leaves the machine able to go on.
LEMMA CalculatedIs ==
  ASSUME NEW n, NEW r, NEW BB, Able(n, r, BB), NEW m \in Machines(n, r, BB), NEW data \in Word16
  PROVE  Worked(n, r, BB, m, Calculated(m, data))
<1> DEFINE nibble == (data \div 8) % 16
           dtype == nibble * 17
           step == IF dtype < 34 THEN 34 ELSE dtype
<1>1. data \in Nat
  BY DEF Word16
<1>2. nibble \in 0 .. 15
  BY <1>1
<1> HIDE DEF nibble
<1>3. dtype \in Nat /\ step \in Strides
  <2>1. CASE nibble < 2
    <3>1. step = 17 * 2 /\ 2 \in 2 .. 15
      BY <1>2, <2>1
    <3>q. QED
      BY <1>2, <3>1 DEF Strides
  <2>2. CASE nibble >= 2
    <3>1. step = 17 * nibble /\ nibble \in 2 .. 15
      BY <1>2, <2>2
    <3>q. QED
      BY <1>2, <3>1 DEF Strides
  <2>q. QED
    BY <1>2, <2>1, <2>2
<1>4. Calculated(m, data) =
        CASE data % 8 = 0 -> StateResult(m, core_bench_state(m.block, m.seed1, m.seed2, step, m.crc))
          [] data % 8 = 1 -> MatrixResult(m, core_bench_matrix(m.mat, dtype, m.crc))
          [] OTHER -> [m |-> m, retval |-> data]
  BY DEF Calculated, nibble
<1> HIDE DEF dtype, step
<1>5. Worked(n, r, BB, m, StateResult(m, core_bench_state(m.block, m.seed1, m.seed2, step, m.crc)))
  BY <1>3, StateResultIs
<1>6. Worked(n, r, BB, m, MatrixResult(m, core_bench_matrix(m.mat, dtype, m.crc)))
  BY <1>3, MatrixResultIs
<1>7. Worked(n, r, BB, m, [m |-> m, retval |-> data])
  BY <1>1 DEF Worked
<1> DEFINE x == StateResult(m, core_bench_state(m.block, m.seed1, m.seed2, step, m.crc))
           y == MatrixResult(m, core_bench_matrix(m.mat, dtype, m.crc))
           z == [m |-> m, retval |-> data]
<1>8. Worked(n, r, BB, m, x) /\ Worked(n, r, BB, m, y) /\ Worked(n, r, BB, m, z)
  BY <1>5, <1>6, <1>7
<1>9. Calculated(m, data) \in {x, y, z}
  <2>1. Calculated(m, data) = IF data % 8 = 0 THEN x ELSE IF data % 8 = 1 THEN y ELSE z
    BY <1>4
  <2> HIDE DEF x, y, z
  <2>q. QED
    BY <2>1
<1> HIDE DEF x, y, z
<1>q. QED
  BY <1>8, <1>9

(* A heap with another datum, of the same high byte.                       *)
Rewritten(n, h0, h, d, v, h2) ==
  h2 \in Heaps(n, h0) /\ h2.next = h.next /\ h2.idx = h.idx /\ h2.data16 = [h.data16 EXCEPT ![d] = v]

\* Writing a datum that keeps its high byte changes nothing else of the heap.
LEMMA RewrittenIs ==
  ASSUME NEW n \in Nat, NEW h0, NEW h \in Heaps(n, h0), NEW d \in 1 .. n, NEW v \in Word16,
         HighByte(v) = HighByte(h.data16[d])
  PROVE  Rewritten(n, h0, h, d, v, [h EXCEPT !.data16[d] = v])
<1> DEFINE data == [h.data16 EXCEPT ![d] = v]
           h2 == [h EXCEPT !.data16 = data]
<1>1. h \in Heap(n) /\ h.info = h0.info /\ h.idx = h0.idx
      /\ \A x \in 1 .. n : HighByte(h.data16[x]) = HighByte(h0.data16[x])
  BY DEF Heaps
<1>2. h.data16 \in [1 .. n -> Word16]
  BY <1>1, HeapIs
<1>3. data \in [1 .. n -> Word16]
  BY <1>2
<1>4. \A x \in 1 .. n : HighByte(data[x]) = HighByte(h0.data16[x])
  BY <1>1, <1>2
<1>5. [h EXCEPT !.data16[d] = v] = h2
  OBVIOUS
<1> HIDE DEF data
<1>6. h2 \in Heap(n) /\ h2.next = h.next /\ h2.idx = h.idx /\ h2.info = h.info /\ h2.data16 = data
  BY <1>1, <1>3 DEF Heap, HeapOf
<1> HIDE DEF h2
<1>7. h2 \in Heaps(n, h0)
  BY <1>1, <1>4, <1>6 DEF Heaps
<1>q. QED
  BY <1>5, <1>6, <1>7 DEF Rewritten, data

(* What calc_func does.                                                    *)
Computed(n, r, BB, m, d, c) ==
  /\ c.m \in Machines(n, r, BB) /\ c.m.h.next = m.h.next /\ c.m.h.idx = m.h.idx
  /\ Later("cmp_complex", n, m.h, c.m.h) /\ Settled("cmp_complex", c.m.h, d)
  /\ c.val = Key("cmp_complex", c.m.h, d)

\* calc_func settles the datum it is asked for, changes none that was settled, and no pointer.
LEMMA CalcFuncIs ==
  ASSUME NEW n \in Nat, NEW r, NEW BB, Able(n, r, BB), NEW m \in Machines(n, r, BB), NEW d \in 1 .. n
  PROVE  Computed(n, r, BB, m, d, calc_func(m, d))
<1> DEFINE data == m.h.data16[d]
<1>0. m.h \in Heaps(n, r.h) /\ m.h \in Heap(n)
  BY DEF Machines, Heaps
<1>1. m.h.data16 \in [1 .. n -> Word16] /\ data \in Word16
  BY <1>0, HeapIs
<1>2. CASE BitOf(data, 7) = 1
  <2>1. calc_func(m, d) = [m |-> m, val |-> data % 128]
    BY <1>2 DEF calc_func
  <2>q. QED
    BY <1>2, <2>1 DEF Computed, Later, Settled, Key
<1>3. CASE BitOf(data, 7) # 1
  <2> DEFINE c == Calculated(m, data)
             v == HighByte(data) * 256 + 128 + (c.retval % 128)
             w == crcu16(c.retval, c.m.crc)
  <2>1. calc_func(m, d) = Kept(d, data, c)
    BY <1>3 DEF calc_func
  <2> HIDE DEF data
  <2>2. Worked(n, r, BB, m, c)
    BY <1>1, CalculatedIs
  <2> HIDE DEF c
  <2>3. c.m \in Machines(n, r, BB) /\ c.m.h = m.h /\ c.retval \in Nat /\ c.m.crc \in Word16
    BY <2>2 DEF Worked, Machines
  <2>4. w \in Word16
    BY <2>3, CrcsAre
  <2> DEFINE x == c.retval % 128
  <2>5. x \in Nat /\ x < 128 /\ data \in Nat /\ data < 65536
    BY <1>1, <2>3 DEF Word16
  <2>5a. v = HighByte(data) * 256 + 128 + x
    OBVIOUS
  <2> HIDE DEF x, v
  <2>6. v \in Word16 /\ HighByte(v) = HighByte(data) /\ v % 128 = x /\ (v \div 128) % 2 = 1
    BY <2>5, <2>5a DEF Word16, HighByte
  <2>7. BitOf(v, 7) = 1
    <3>1. 2^7 = 128
      OBVIOUS
    <3>q. QED
      BY <2>6, <3>1 DEF BitOf
  <2> DEFINE h2 == [m.h EXCEPT !.data16[d] = v]
  <2>8. Rewritten(n, r.h, m.h, d, v, h2)
    BY <1>0, <2>6, RewrittenIs DEF data
  <2> HIDE DEF h2
  <2>9. h2 \in Heaps(n, r.h) /\ h2.next = m.h.next /\ h2.idx = m.h.idx /\ h2.data16 = [m.h.data16 EXCEPT ![d] = v]
    BY <2>8 DEF Rewritten
  <2> DEFINE m2 == [c.m EXCEPT !.crc = w]
             m3 == [m2 EXCEPT !.h = h2]
  <2>10. Kept(d, data, c) = [m |-> [c.m EXCEPT !.crc = w, !.h.data16[d] = v], val |-> x]
    BY DEF Kept, v, x
  <2> HIDE DEF w
  <2>11. [c.m EXCEPT !.crc = w, !.h.data16[d] = v] = m3
    BY <2>3 DEF h2, Machines
  <2>12. m2 \in Machines(n, r, BB)
    BY <2>3, <2>4, MachineWith
  <2> HIDE DEF m2
  <2>13. m3 \in Machines(n, r, BB) /\ m3.h = h2
    BY <2>9, <2>12, MachineWith DEF Machines
  <2> HIDE DEF m3
  <2>14. Later("cmp_complex", n, m.h, h2)
    <3>1. ASSUME NEW e \in 1 .. n, BitOf(m.h.data16[e], 7) = 1 PROVE h2.data16[e] = m.h.data16[e]
      <4>1. e # d
        BY <1>3, <3>1 DEF data
      <4>q. QED
        BY <1>1, <2>9, <4>1
    <3>q. QED
      BY <3>1 DEF Later, Settled
  <2>15. h2.data16[d] = v
    BY <1>1, <2>9
  <2>16. Settled("cmp_complex", h2, d) /\ x = Key("cmp_complex", h2, d)
    BY <2>6, <2>7, <2>15 DEF Settled, Key
  <2>q. QED
    BY <2>1, <2>9, <2>10, <2>11, <2>13, <2>14, <2>16 DEF Computed
<1>q. QED
  BY <1>2, <1>3

(* The bytes of a datum that has its data back.                            *)
LEMMA RegeneratedIs ==
  ASSUME NEW w \in Word16
  PROVE  /\ Regenerated(w) \in Word16 /\ HighByte(Regenerated(w)) = HighByte(w)
         /\ Regenerated(Regenerated(w)) = Regenerated(w)
<1>1. w \in Nat /\ w < 65536
  BY DEF Word16
<1> DEFINE x == w \div 256
<1>2. x \in Nat /\ x < 256
  BY <1>1
<1> HIDE DEF x
<1>3. x * 257 \in Nat /\ x * 257 < 65536 /\ (x * 257) \div 256 = x
  BY <1>2
<1>4. Regenerated(w) = x * 257
  BY DEF Regenerated, HighByte, x
<1>5. HighByte(x * 257) = x /\ HighByte(w) = x
  BY <1>3 DEF HighByte, x
<1>q. QED
  BY <1>3, <1>4, <1>5 DEF Word16, Regenerated

\* Comparing two cells settles both, changes no settled one, and compares their keys.
LEMMA ComparedIs ==
  ASSUME NEW n \in Nat, NEW r, NEW BB, Able(n, r, BB), NEW cmp \in Cmps,
         NEW m \in Machines(n, r, BB), NEW a \in 1 .. n, NEW b \in 1 .. n
  PROVE  ComparesWell(cmp, n, r, BB, m, a, b, Compared(cmp, m, a, b))
<1>1. CASE cmp = "cmp_complex"
  <2> DEFINE va == calc_func(m, a)
             vb == calc_func(va.m, b)
  <2>1. Compared(cmp, m, a, b) = [m |-> vb.m, diff |-> va.val - vb.val]
    BY <1>1 DEF Compared, cmp_complex
  <2>2. Computed(n, r, BB, m, a, va)
    BY CalcFuncIs
  <2>3. va.m \in Machines(n, r, BB)
    BY <2>2 DEF Computed
  <2>4. Computed(n, r, BB, va.m, b, vb)
    BY <2>3, CalcFuncIs
  <2> HIDE DEF va, vb
  <2>5. /\ va.m.h.next = m.h.next /\ Later(cmp, n, m.h, va.m.h) /\ Settled(cmp, va.m.h, a)
        /\ va.val = Key(cmp, va.m.h, a)
    BY <1>1, <2>2 DEF Computed
  <2>6. /\ vb.m \in Machines(n, r, BB) /\ vb.m.h.next = va.m.h.next /\ vb.m.h.idx = va.m.h.idx
        /\ Later(cmp, n, va.m.h, vb.m.h) /\ Settled(cmp, vb.m.h, b) /\ vb.val = Key(cmp, vb.m.h, b)
    BY <1>1, <2>4 DEF Computed
  <2>7. Settled(cmp, vb.m.h, a) /\ Key(cmp, vb.m.h, a) = Key(cmp, va.m.h, a)
    BY <2>5, <2>6 DEF Later, Settled, Key
  <2>8. Later(cmp, n, m.h, vb.m.h)
    BY <2>5, <2>6 DEF Later, Settled
  <2>q. QED
    BY <2>1, <2>5, <2>6, <2>7, <2>8 DEF ComparesWell
<1>2. CASE cmp = "cmp_idx"
  <2> DEFINE old == m.h.data16
             data == [d \in DOMAIN old |-> IF d \in {a, b} THEN Regenerated(old[d]) ELSE old[d]]
             h2 == [m.h EXCEPT !.data16 = data]
             m2 == [m EXCEPT !.h = h2]
  <2>1. Compared(cmp, m, a, b) = [m |-> [m EXCEPT !.h.data16 = data], diff |-> S16(m.h.idx[a]) - S16(m.h.idx[b])]
    <3>1. Compared(cmp, m, a, b) = cmp_idx(m, a, b)
      BY <1>2 DEF Compared
    <3>2. cmp_idx(m, a, b) = [m |-> [m EXCEPT !.h.data16 = data], diff |-> S16(m.h.idx[a]) - S16(m.h.idx[b])]
      BY DEF cmp_idx
    <3>q. QED
      BY <3>1, <3>2
  <2>2. m.h \in Heaps(n, r.h) /\ m.h \in Heap(n)
    BY DEF Machines, Heaps
  <2>3. m.h.data16 \in [1 .. n -> Word16]
    BY <2>2, HeapIs
  <2>4. ASSUME NEW d \in 1 .. n
        PROVE  data[d] = IF d \in {a, b} THEN Regenerated(m.h.data16[d]) ELSE m.h.data16[d]
    BY <2>3
  <2>5. DOMAIN data = 1 .. n /\ data = [d \in 1 .. n |-> data[d]]
    BY <2>3
  <2>6. [m EXCEPT !.h.data16 = data] = m2
    OBVIOUS
  <2> HIDE DEF data
  <2>7. ASSUME NEW d \in 1 .. n
        PROVE  /\ data[d] \in Word16 /\ HighByte(data[d]) = HighByte(m.h.data16[d])
               /\ m.h.data16[d] = Regenerated(m.h.data16[d]) => data[d] = m.h.data16[d]
               /\ d \in {a, b} => data[d] = Regenerated(data[d])
    <3>1. m.h.data16[d] \in Word16
      BY <2>3
    <3>q. QED
      BY <2>4, <3>1, RegeneratedIs
  <2>8. data \in [1 .. n -> Word16]
    BY <2>5, <2>7
  <2>9. h2 \in Heap(n) /\ h2.next = m.h.next /\ h2.idx = m.h.idx /\ h2.info = m.h.info /\ h2.data16 = data
    BY <2>2, <2>8 DEF Heap, HeapOf
  <2> HIDE DEF h2
  <2>10. h2 \in Heaps(n, r.h)
    BY <2>2, <2>7, <2>9 DEF Heaps
  <2>11. m2 \in Machines(n, r, BB) /\ m2.h = h2
    BY <2>10, MachineWith DEF Machines
  <2> HIDE DEF m2
  <2>12. Later(cmp, n, m.h, h2)
    BY <1>2, <2>7, <2>9 DEF Later, Settled, Regenerated
  <2>13. Settled(cmp, h2, a) /\ Settled(cmp, h2, b)
    BY <1>2, <2>7, <2>9 DEF Settled, Regenerated
  <2>14. Key(cmp, h2, a) = S16(m.h.idx[a]) /\ Key(cmp, h2, b) = S16(m.h.idx[b])
    BY <1>2, <2>9 DEF Key
  <2>q. QED
    BY <2>1, <2>6, <2>9, <2>11, <2>12, <2>13, <2>14 DEF ComparesWell
<1>q. QED
  BY <1>1, <1>2 DEF Cmps

(* The machine with another pointer.                                       *)
Pointed(n, r, BB, m, x, y, m2) ==
  /\ m2 \in Machines(n, r, BB)
  /\ m2.h.next = [m.h.next EXCEPT ![x] = y] /\ m2.h.next \in Pointers(n)
  /\ m2.h.data16 = m.h.data16 /\ m2.h.idx = m.h.idx

\* Setting one pointer changes nothing but the pointer.
LEMMA MachineLinked ==
  ASSUME NEW n \in Nat, NEW r, NEW BB, NEW m \in Machines(n, r, BB),
         NEW x \in 1 .. n, NEW y \in 0 .. n
  PROVE  Pointed(n, r, BB, m, x, y, [m EXCEPT !.h.next[x] = y])
<1> DEFINE h2 == [m.h EXCEPT !.next = [m.h.next EXCEPT ![x] = y]]
           next == [m.h.next EXCEPT ![x] = y]
<1>1. m.h \in Heaps(n, r.h) /\ m.h \in Heap(n)
  BY DEF Machines, Heaps
<1>2. m.h.next \in Pointers(n)
  BY <1>1, HeapIs
<1>3. next \in Pointers(n)
  BY <1>2 DEF Pointers
<1> HIDE DEF next
<1>4. [m.h EXCEPT !.next = next] = Linked(m.h, next) /\ Linked(m.h, next) \in Heap(n)
  BY <1>1, <1>3, LinkedIs
<1>5. Linked(m.h, next) \in Heaps(n, r.h)
  BY <1>1, <1>4 DEF Heaps, Linked
<1> DEFINE g == Linked(m.h, next)
<1>6. [m EXCEPT !.h.next[x] = y] = [m EXCEPT !.h = g]
  BY <1>4 DEF next
<1>7. g.next = next /\ g.data16 = m.h.data16 /\ g.idx = m.h.idx
  BY DEF Linked
<1> HIDE DEF g
<1>8. [m EXCEPT !.h = g] \in Machines(n, r, BB) /\ [m EXCEPT !.h = g].h = g
  <2>1. g \in Heaps(n, r.h)
    BY <1>5 DEF g
  <2>q. QED
    BY <2>1 DEF Machines
<1>q. QED
  BY <1>3, <1>6, <1>7, <1>8 DEF next, Pointed

(* What is settled stays, and so does what it is sorted by.                *)
LEMMA LaterKeeps ==
  ASSUME NEW n \in Nat, NEW cmp, NEW h, NEW h2, h2.idx = h.idx, Later(cmp, n, h, h2),
         NEW d \in 1 .. n, Settled(cmp, h, d)
  PROVE  Settled(cmp, h2, d) /\ Key(cmp, h2, d) = Key(cmp, h, d)
BY DEF Later, Settled, Key

\* What was settled in one heap stays so over two steps.
LEMMA LaterTwice ==
  ASSUME NEW n \in Nat, NEW cmp, NEW h, NEW h2, NEW h3, Later(cmp, n, h, h2), Later(cmp, n, h2, h3)
  PROVE  Later(cmp, n, h, h3)
BY DEF Later, Settled

(* Keys are numbers.                                                       *)
LEMMA KeyIs ==
  ASSUME NEW n \in Nat, NEW r, NEW BB, NEW m \in Machines(n, r, BB), NEW cmp, NEW d \in 1 .. n
  PROVE  Key(cmp, m.h, d) \in Int
<1>1. m.h \in Heap(n)
  BY DEF Machines, Heaps
<1>2. m.h.data16[d] \in Nat /\ m.h.idx[d] \in Nat
  BY <1>1, HeapIs DEF Word16
<1>q. QED
  BY <1>2 DEF Key, S16, U16

-----------------------------------------------------------------------------
(* Merging two runs.  e is the cells in the order they are, o of them       *)
(* already merged, what is left of p up to x, and q behind it.              *)

(* The cells, linked but for the tail and the last cell of p.              *)
Threaded(n, next, e, L, o, x) ==
  /\ e \in [1 .. L + 1 -> 0 .. n] /\ e[L + 1] = NULL
  /\ \A i \in 1 .. L : e[i] # NULL /\ (i # o /\ i # x => next[e[i]] = e[i + 1])
  /\ \A i, j \in 1 .. L : e[i] = e[j] => i = j

(* The pointers when a cell is put in behind the tail.                     *)
Tailed(next, tail, c) == IF tail = NULL THEN next ELSE [next EXCEPT ![tail] = c]

(* Where the i-th cell was before the first of q came to the end of what is *)
(* merged.                                                                 *)
Source(i, o, x) == IF i = o + 1 THEN x + 1 ELSE IF o + 1 < i /\ i <= x + 1 THEN i - 1 ELSE i
Taken(e, L, o, x) == [i \in 1 .. L + 1 |-> e[Source(i, o, x)]]

(* The tail: the last cell merged.                                         *)
Last(e, o) == IF o = 0 THEN NULL ELSE e[o]

\* Taking the next cell from the first run leaves the merged list threaded.
LEMMA ThreadedP ==
  ASSUME NEW n \in Nat, NEW next \in Pointers(n), NEW e, NEW L \in Nat, NEW o \in Nat, NEW x \in Nat,
         Threaded(n, next, e, L, o, x), o < x, x <= L
  PROVE  /\ Threaded(n, Tailed(next, Last(e, o), e[o + 1]), e, L, o + 1, x)
         /\ Tailed(next, Last(e, o), e[o + 1]) \in Pointers(n)
<1>1. /\ e \in [1 .. L + 1 -> 0 .. n] /\ e[L + 1] = NULL
      /\ \A i \in 1 .. L : e[i] # NULL /\ (i # o /\ i # x => next[e[i]] = e[i + 1])
      /\ \A i, j \in 1 .. L : e[i] = e[j] => i = j
  BY DEF Threaded
<1>2. \A i \in 1 .. L : e[i] \in 1 .. n
  BY <1>1 DEF NULL
<1>3. CASE o = 0
  <2>1. Tailed(next, Last(e, o), e[o + 1]) = next
    BY <1>3 DEF Tailed, Last
  <2>2. \A i \in 1 .. L : e[i] # NULL /\ (i # o + 1 /\ i # x => next[e[i]] = e[i + 1])
    BY <1>1, <1>3
  <2>q. QED
    BY <1>1, <2>1, <2>2 DEF Threaded
<1>4. CASE o # 0
  <2> DEFINE new == [next EXCEPT ![e[o]] = e[o + 1]]
  <2>1. o \in 1 .. L /\ o + 1 \in 1 .. L
    BY <1>4
  <2>2. Tailed(next, Last(e, o), e[o + 1]) = new
    BY <1>1, <1>4, <2>1 DEF Tailed, Last
  <2>3. new \in Pointers(n) /\ new[e[o]] = e[o + 1] /\ \A c \in 1 .. n : c # e[o] => new[c] = next[c]
    BY <1>1, <1>2, <2>1 DEF Pointers
  <2> HIDE DEF new
  <2>4. ASSUME NEW i \in 1 .. L, i # o + 1, i # x PROVE new[e[i]] = e[i + 1]
    <3>1. CASE i = o
      BY <2>3, <3>1
    <3>2. CASE i # o
      <4>1. e[i] # e[o] /\ e[i] \in 1 .. n
        BY <1>1, <1>2, <2>1, <3>2
      <4>2. next[e[i]] = e[i + 1]
        BY <1>1, <2>4, <3>2
      <4>q. QED
        BY <2>3, <4>1, <4>2
    <3>q. QED
      BY <3>1, <3>2
  <2>q. QED
    BY <1>1, <2>2, <2>3, <2>4 DEF Threaded
<1>q. QED
  BY <1>3, <1>4

(* The sources are a permutation.                                          *)
Permuting(L, o, x) ==
  /\ \A i \in 1 .. L : Source(i, o, x) \in 1 .. L
  /\ \A i, j \in 1 .. L : Source(i, o, x) = Source(j, o, x) => i = j
  /\ \A i \in 1 .. L : \E j \in 1 .. L : Source(j, o, x) = i
  /\ Source(L + 1, o, x) = L + 1

\* Moving a cell to the front of a stretch is a permutation of the places.
LEMMA SourceIs ==
  ASSUME NEW L \in Nat, NEW o \in Nat, NEW x \in Nat, o <= x, x < L
  PROVE  Permuting(L, o, x)
<1>1. ASSUME NEW i \in 1 .. L PROVE \E j \in 1 .. L : Source(j, o, x) = i
  <2>1. CASE i = x + 1
    <3>1. o + 1 \in 1 .. L /\ Source(o + 1, o, x) = i
      BY <2>1 DEF Source
    <3>q. QED
      BY <3>1
  <2>2. CASE o + 1 <= i /\ i <= x
    <3>1. i + 1 \in 1 .. L /\ Source(i + 1, o, x) = i
      BY <2>2 DEF Source
    <3>q. QED
      BY <3>1
  <2>3. CASE i <= o \/ i > x + 1
    <3>1. Source(i, o, x) = i
      BY <2>3 DEF Source
    <3>q. QED
      BY <3>1
  <2>q. QED
    BY <2>1, <2>2, <2>3
<1>q. QED
  BY <1>1 DEF Source, Permuting

\* Taking the next cell from the second run leaves the merged list threaded.
LEMMA ThreadedQ ==
  ASSUME NEW n \in Nat, NEW next \in Pointers(n), NEW e, NEW L \in Nat, NEW o \in Nat, NEW x \in Nat,
         Threaded(n, next, e, L, o, x), o <= x, x < L
  PROVE  /\ Threaded(n, Tailed(next, Last(e, o), e[x + 1]), Taken(e, L, o, x), L, o + 1, x + 1)
         /\ Tailed(next, Last(e, o), e[x + 1]) \in Pointers(n)
<1> DEFINE d == Taken(e, L, o, x)
           new == Tailed(next, Last(e, o), e[x + 1])
<1>1. /\ e \in [1 .. L + 1 -> 0 .. n] /\ e[L + 1] = NULL
      /\ \A i \in 1 .. L : e[i] # NULL /\ (i # o /\ i # x => next[e[i]] = e[i + 1])
      /\ \A i, j \in 1 .. L : e[i] = e[j] => i = j
  BY DEF Threaded
<1>2. \A i \in 1 .. L : e[i] \in 1 .. n
  BY <1>1 DEF NULL
<1>3. x + 1 \in 1 .. L /\ x + 1 \in 1 .. L + 1
  OBVIOUS
<1>4. /\ new \in Pointers(n) /\ (o # 0 => new[e[o]] = e[x + 1])
      /\ \A i \in 1 .. L : i # o => new[e[i]] = next[e[i]]
  <2>1. CASE o = 0
    <3>1. new = next
      BY <2>1 DEF Tailed, Last
    <3>q. QED
      BY <2>1, <3>1
  <2>2. CASE o # 0
    <3>1. o \in 1 .. L
      BY <2>2
    <3>2. new = [next EXCEPT ![e[o]] = e[x + 1]]
      BY <1>1, <2>2, <3>1 DEF Tailed, Last
    <3>3. new \in Pointers(n) /\ new[e[o]] = e[x + 1] /\ \A c \in 1 .. n : c # e[o] => new[c] = next[c]
      BY <1>1, <1>2, <1>3, <3>1, <3>2 DEF Pointers
    <3>4. \A i \in 1 .. L : i # o => e[i] # e[o]
      BY <1>1, <3>1
    <3> HIDE DEF new
    <3>q. QED
      BY <1>2, <3>3, <3>4
  <2>q. QED
    BY <2>1, <2>2
<1> HIDE DEF new
<1>5. /\ \A i \in 1 .. L : Source(i, o, x) \in 1 .. L
      /\ \A i, j \in 1 .. L : Source(i, o, x) = Source(j, o, x) => i = j
      /\ Source(L + 1, o, x) = L + 1
  <2>1. Permuting(L, o, x)
    BY SourceIs
  <2>q. QED
    BY <2>1 DEF Permuting
<1>6. (\A i \in 1 .. L : d[i] = e[Source(i, o, x)]) /\ d[L + 1] = e[L + 1]
  BY <1>5 DEF Taken
<1>7. d \in [1 .. L + 1 -> 0 .. n]
  <2>1. ASSUME NEW i \in 1 .. L + 1 PROVE e[Source(i, o, x)] \in 0 .. n
    <3>1. Source(i, o, x) \in 1 .. L + 1
      BY <1>5
    <3>q. QED
      BY <1>1, <3>1
  <2>q. QED
    BY <2>1 DEF Taken
<1>8. d[L + 1] = NULL
  BY <1>1, <1>6
<1>9. ASSUME NEW i \in 1 .. L PROVE d[i] # NULL
  BY <1>1, <1>5, <1>6, ZenonT(60)
<1>10. ASSUME NEW i \in 1 .. L, NEW j \in 1 .. L, d[i] = d[j] PROVE i = j
  <2>1. Source(i, o, x) \in 1 .. L /\ Source(j, o, x) \in 1 .. L
        /\ e[Source(i, o, x)] = e[Source(j, o, x)]
    BY <1>5, <1>6, <1>10
  <2>2. Source(i, o, x) = Source(j, o, x)
    BY <1>1, <2>1
  <2>q. QED
    BY <1>5, <2>2
<1>11. ASSUME NEW i \in 1 .. L, i # o + 1, i # x + 1 PROVE new[d[i]] = d[i + 1]
  <2>0. d[i] = e[Source(i, o, x)] /\ d[i + 1] = e[Source(i + 1, o, x)]
    BY DEF Taken
  <2>1. CASE i = o
    <3>1. Source(i, o, x) = o /\ Source(i + 1, o, x) = x + 1 /\ o # 0
      BY <2>1 DEF Source
    <3>q. QED
      BY <1>4, <2>0, <3>1
  <2>2. CASE o + 1 < i /\ i < x + 1
    <3>1. Source(i, o, x) = i - 1 /\ Source(i + 1, o, x) = i
      BY <2>2 DEF Source
    <3>2. i - 1 \in 1 .. L /\ i - 1 # o /\ i - 1 # x /\ (i - 1) + 1 = i
      BY <2>2
    <3>3. next[e[i - 1]] = e[(i - 1) + 1] /\ new[e[i - 1]] = next[e[i - 1]]
      BY <1>1, <1>4, <3>2
    <3>q. QED
      BY <2>0, <3>1, <3>2, <3>3
  <2>3. CASE i < o \/ i > x + 1
    <3>1. Source(i, o, x) = i /\ Source(i + 1, o, x) = i + 1 /\ i # o /\ i # x
      BY <2>3 DEF Source
    <3>2. next[e[i]] = e[i + 1] /\ new[e[i]] = next[e[i]]
      BY <1>1, <1>4, <3>1
    <3>q. QED
      BY <2>0, <3>1, <3>2
  <2>q. QED
    BY <1>11, <2>1, <2>2, <2>3
<1> HIDE DEF d
<1>12. Threaded(n, new, d, L, o + 1, x + 1)
  BY <1>7, <1>8, <1>9, <1>10, <1>11 DEF Threaded
<1>q. QED
  BY <1>4, <1>12 DEF new, d

-----------------------------------------------------------------------------
(* The order of the cells.  bef are the pairs of cells in order for good,   *)
(* pos where the sort found each cell, B the places where runs end: cells   *)
(* of one run are in order, and those of different runs are as they were.   *)

Cut(B, i, j) == \E b \in B : i <= b /\ b < j

(* Two cells of different runs, or one of what is left of p and one of q.   *)
Parted(B, o, x, i, j) == Cut(B, i, j) \/ (o < i /\ i <= x /\ x < j)

Runs(bef, pos, e, L, B, o, x) ==
  \A i, j \in 1 .. L :
    i < j => IF Parted(B, o, x, i, j) THEN pos[e[i]] < pos[e[j]] ELSE <<e[i], e[j]>> \in bef

Transitive(bef) == \A a, b, c : <<a, b>> \in bef /\ <<b, c>> \in bef => <<a, c>> \in bef

\* Taking the least from the first run leaves the runs sorted.
LEMMA RunsP ==
  ASSUME NEW bef, Transitive(bef), NEW pos, NEW e, NEW L \in Nat, NEW B, B \subseteq Nat,
         NEW o \in Nat, NEW x \in Nat, NEW y \in Nat, o < x, x <= y, y <= L, y = L \/ y \in B,
         Runs(bef, pos, e, L, B, o, x), x < y => <<e[o + 1], e[x + 1]>> \in bef
  PROVE  Runs(bef, pos, e, L, B, o + 1, x)
<1> SUFFICES ASSUME NEW i \in 1 .. L, NEW j \in 1 .. L, i < j
             PROVE  IF Parted(B, o + 1, x, i, j) THEN pos[e[i]] < pos[e[j]] ELSE <<e[i], e[j]>> \in bef
  BY DEF Runs
<1>1. IF Parted(B, o, x, i, j) THEN pos[e[i]] < pos[e[j]] ELSE <<e[i], e[j]>> \in bef
  BY DEF Runs
<1>2. CASE Parted(B, o + 1, x, i, j) <=> Parted(B, o, x, i, j)
  BY <1>1, <1>2
<1>3. CASE ~ (Parted(B, o + 1, x, i, j) <=> Parted(B, o, x, i, j))
  <2>1. ~ Parted(B, o + 1, x, i, j) /\ i = o + 1 /\ x < j /\ ~ Cut(B, i, j)
    BY <1>3 DEF Parted
  <2>2. y < j => y \in B /\ i <= y
    BY <2>1
  <2>3. j <= y /\ x < y
    BY <2>1, <2>2 DEF Cut
  <2>4. <<e[i], e[x + 1]>> \in bef
    BY <2>1, <2>3
  <2>5. CASE j = x + 1
    BY <2>1, <2>4, <2>5
  <2>6. CASE j # x + 1
    <3>1. x + 1 \in 1 .. L /\ x + 1 < j
      BY <2>1, <2>6
    <3>2. ~ Cut(B, x + 1, j)
      BY <2>1, <3>1 DEF Cut
    <3>3. ~ Parted(B, o, x, x + 1, j)
      BY <3>2 DEF Parted
    <3>4. <<e[x + 1], e[j]>> \in bef
      BY <3>1, <3>3 DEF Runs
    <3>q. QED
      BY <2>1, <2>4, <3>4 DEF Transitive
  <2>q. QED
    BY <2>5, <2>6
<1>q. QED
  BY <1>2, <1>3

(* o of the cells are merged, of the two runs between the places s and y.  *)
Between(B, L, s, o, x, y) ==
  /\ s \in Nat /\ o \in Nat /\ x \in Nat /\ y \in Nat
  /\ s <= o /\ o <= x /\ x <= y /\ y <= L
  /\ \A b \in B : b <= s \/ y <= b

\* Whether a boundary lies between two cells does not depend on the one taken.
LEMMA CutSource ==
  ASSUME NEW L \in Nat, NEW B, B \subseteq Nat, NEW s, NEW o, NEW x, NEW y,
         Between(B, L, s, o, x, y), x < y, NEW i \in 1 .. L, NEW j \in 1 .. L, i < j, Source(i, o, x) < Source(j, o, x)
  PROVE  Cut(B, i, j) <=> Cut(B, Source(i, o, x), Source(j, o, x))
<1>0. /\ s \in Nat /\ o \in Nat /\ x \in Nat /\ y \in Nat
      /\ s <= o /\ o <= x /\ x <= y /\ y <= L
      /\ \A b \in B : b <= s \/ y <= b
  BY DEF Between
<1>1. ASSUME NEW b \in B PROVE (i <= b /\ b < j) <=> (Source(i, o, x) <= b /\ b < Source(j, o, x))
  <2>1. b \in Nat /\ (b <= s \/ y <= b)
    BY <1>0
  <2>q. QED
    BY <1>0, <2>1 DEF Source
<1>q. QED
  BY <1>1 DEF Cut

\* Taking the least from the second run leaves the runs sorted.
LEMMA RunsQ ==
  ASSUME NEW bef, Transitive(bef), NEW pos, NEW e, NEW L \in Nat, NEW B, B \subseteq Nat,
         NEW s, NEW o, NEW x, NEW y, Between(B, L, s, o, x, y), x < y,
         Runs(bef, pos, e, L, B, o, x), o < x => <<e[x + 1], e[o + 1]>> \in bef
  PROVE  Runs(bef, pos, Taken(e, L, o, x), L, B, o + 1, x + 1)
<1> DEFINE d == Taken(e, L, o, x)
<1>0. /\ s \in Nat /\ o \in Nat /\ x \in Nat /\ y \in Nat
      /\ s <= o /\ o <= x /\ x <= y /\ y <= L
      /\ \A b \in B : b <= s \/ y <= b
  BY DEF Between
<1> SUFFICES ASSUME NEW i \in 1 .. L, NEW j \in 1 .. L, i < j
             PROVE  IF Parted(B, o + 1, x + 1, i, j) THEN pos[d[i]] < pos[d[j]] ELSE <<d[i], d[j]>> \in bef
  BY DEF Runs
<1>1. d[i] = e[Source(i, o, x)] /\ d[j] = e[Source(j, o, x)]
  BY <1>0 DEF Taken
<1> HIDE DEF d
<1>2. Source(i, o, x) \in 1 .. L /\ Source(j, o, x) \in 1 .. L
  BY <1>0 DEF Source
<1>3. CASE Source(i, o, x) < Source(j, o, x)
  <2>1. Cut(B, i, j) <=> Cut(B, Source(i, o, x), Source(j, o, x))
    BY <1>3, CutSource, ZenonT(40)
  <2>2. (o + 1 < i /\ i <= x + 1 /\ x + 1 < j)
        <=> (o < Source(i, o, x) /\ Source(i, o, x) <= x /\ x < Source(j, o, x))
    BY <1>0 DEF Source
  <2>3. Parted(B, o + 1, x + 1, i, j) <=> Parted(B, o, x, Source(i, o, x), Source(j, o, x))
    BY <1>0, <2>1, <2>2 DEF Parted
  <2> DEFINE k == Source(i, o, x)
             l == Source(j, o, x)
  <2>4. k \in 1 .. L /\ l \in 1 .. L /\ k < l
    BY <1>0, <1>2, <1>3
  <2> HIDE DEF k, l
  <2>5. IF Parted(B, o, x, k, l) THEN pos[e[k]] < pos[e[l]] ELSE <<e[k], e[l]>> \in bef
    BY <1>0, <2>4 DEF Runs
  <2>q. QED
    BY <1>0, <1>1, <2>3, <2>5 DEF k, l
<1>4. CASE ~ (Source(i, o, x) < Source(j, o, x))
  <2>1. i = o + 1 /\ o + 2 <= j /\ j <= x + 1
    BY <1>0, <1>4 DEF Source
  <2>2. ~ Parted(B, o + 1, x + 1, i, j)
    <3>1. ASSUME NEW b \in B, i <= b, b < j PROVE FALSE
      BY <1>0, <2>1, <3>1
    <3>q. QED
      BY <1>0, <2>1, <3>1 DEF Parted, Cut
  <2>3. d[i] = e[x + 1] /\ d[j] = e[j - 1] /\ <<e[x + 1], e[o + 1]>> \in bef
    BY <1>0, <1>1, <2>1 DEF Source
  <2>4. CASE j - 1 = o + 1
    BY <1>0, <2>2, <2>3, <2>4
  <2>5. CASE j - 1 # o + 1
    <3>1. o + 1 \in 1 .. L /\ j - 1 \in 1 .. L /\ o + 1 < j - 1
      BY <1>0, <2>1, <2>5
    <3>2. ASSUME NEW b \in B, o + 1 <= b, b < j - 1 PROVE FALSE
      BY <1>0, <2>1, <3>2
    <3>3. ~ Parted(B, o, x, o + 1, j - 1)
      BY <1>0, <2>1, <3>2 DEF Parted, Cut
    <3>4. <<e[o + 1], e[j - 1]>> \in bef
      BY <1>0, <3>1, <3>3 DEF Runs
    <3>q. QED
      BY <1>0, <2>2, <2>3, <3>4 DEF Transitive
  <2>q. QED
    BY <1>0, <2>4, <2>5
<1>q. QED
  BY <1>0, <1>3, <1>4

-----------------------------------------------------------------------------
(* One turn of the merge.                                                  *)

(* a is sorted before b, for good: they are settled, and if the two are     *)
(* alike a was found before b.                                             *)
Before(cmp, h, pos, a, b) ==
  /\ Settled(cmp, h, a) /\ Settled(cmp, h, b)
  /\ \/ Key(cmp, h, a) < Key(cmp, h, b)
     \/ Key(cmp, h, a) = Key(cmp, h, b) /\ pos[a] < pos[b]

BeforeIn(cmp, n, h, pos) ==
  {ab \in (1 .. n) \X (1 .. n) : Before(cmp, h, pos, ab[1], ab[2])}

\* The order the sort establishes is transitive.
LEMMA BeforeIs ==
  ASSUME NEW n \in Nat, NEW r, NEW BB, NEW m \in Machines(n, r, BB), NEW cmp, NEW pos \in [1 .. n -> Nat]
  PROVE  Transitive(BeforeIn(cmp, n, m.h, pos))
<1> DEFINE bef == BeforeIn(cmp, n, m.h, pos)
<1>1. ASSUME NEW a, NEW b, NEW c, <<a, b>> \in bef, <<b, c>> \in bef
      PROVE  <<a, c>> \in bef
  <2>1. a \in 1 .. n /\ b \in 1 .. n /\ c \in 1 .. n
    BY <1>1 DEF BeforeIn
  <2>2. Before(cmp, m.h, pos, a, b) /\ Before(cmp, m.h, pos, b, c)
    BY <1>1 DEF BeforeIn
  <2>3. Key(cmp, m.h, a) \in Int
    BY <2>1, KeyIs
  <2>4. Key(cmp, m.h, b) \in Int
    BY <2>1, KeyIs
  <2>5. Key(cmp, m.h, c) \in Int
    BY <2>1, KeyIs
  <2>6. pos[a] \in Nat /\ pos[b] \in Nat /\ pos[c] \in Nat
    BY <2>1
  <2>7. Before(cmp, m.h, pos, a, c)
    BY <2>2, <2>3, <2>4, <2>5, <2>6 DEF Before
  <2>q. QED
    BY <2>1, <2>7 DEF BeforeIn
<1> HIDE DEF bef
<1>2. Transitive(bef)
  BY <1>1 DEF Transitive
<1>q. QED
  BY <1>2 DEF bef

(* What is in order stays so.                                              *)
LEMMA BeforeLater ==
  ASSUME NEW n \in Nat, NEW cmp, NEW pos, NEW h, NEW h2, h2.idx = h.idx, Later(cmp, n, h, h2)
  PROVE  BeforeIn(cmp, n, h, pos) \subseteq BeforeIn(cmp, n, h2, pos)
<1> SUFFICES ASSUME NEW ab \in BeforeIn(cmp, n, h, pos) PROVE ab \in BeforeIn(cmp, n, h2, pos)
  OBVIOUS
<1>1. ab \in (1 .. n) \X (1 .. n) /\ Before(cmp, h, pos, ab[1], ab[2])
  BY DEF BeforeIn
<1>2. ab[1] \in 1 .. n /\ ab[2] \in 1 .. n
  BY <1>1
<1>3. Settled(cmp, h2, ab[1]) /\ Key(cmp, h2, ab[1]) = Key(cmp, h, ab[1])
  BY <1>1, <1>2, LaterKeeps DEF Before
<1>4. Settled(cmp, h2, ab[2]) /\ Key(cmp, h2, ab[2]) = Key(cmp, h, ab[2])
  BY <1>1, <1>2, LaterKeeps DEF Before
<1>5. Before(cmp, h2, pos, ab[1], ab[2])
  BY <1>1, <1>3, <1>4 DEF Before
<1>q. QED
  BY <1>1, <1>5 DEF BeforeIn

\* Runs that are sorted stay so in a larger order.
LEMMA RunsMore ==
  ASSUME NEW bef, NEW bef2, bef \subseteq bef2, NEW pos, NEW e, NEW L, NEW B, NEW o, NEW x,
         Runs(bef, pos, e, L, B, o, x)
  PROVE  Runs(bef2, pos, e, L, B, o, x)
BY DEF Runs

(* The state of a merge: the machine and locals of core_list_mergesort; t   *)
(* merges have begun.                                                      *)
MergeStates(n, r, BB, t) ==
  [m : Machines(n, r, BB), p : 0 .. n, q : 0 .. n, psize : Nat, qsize : Nat,
   list : 0 .. n, tail : 0 .. n, nmerges : {t}]

PLeft(s) == s.psize # 0
QLeft(s) == s.qsize # 0 /\ s.q # NULL

(* Where the next element is taken from, and what comparing left behind.    *)
Chosen(cmp, n, r, BB, pos, s, f) ==
  /\ f.m \in Machines(n, r, BB) /\ f.m.h.next = s.m.h.next /\ Later(cmp, n, s.m.h, f.m.h)
  /\ f.m.h.idx = s.m.h.idx
  /\ IF f.fromP
     THEN PLeft(s) /\ (QLeft(s) => <<s.p, s.q>> \in BeforeIn(cmp, n, f.m.h, pos))
     ELSE QLeft(s) /\ (PLeft(s) => <<s.q, s.p>> \in BeforeIn(cmp, n, f.m.h, pos))

Furnished(n, r, BB, m) ==
  /\ m.h \in Heap(n) /\ m.h.next \in Pointers(n) /\ m.h.idx = r.h.idx
  /\ m.h.info = [d \in 1 .. n |-> d]

\* What every machine of a run has.
LEMMA MachineIs ==
  ASSUME NEW n \in Nat, NEW r, NEW BB, Able(n, r, BB), NEW m \in Machines(n, r, BB)
  PROVE  Furnished(n, r, BB, m)
<1>1. m.h \in Heaps(n, r.h)
  BY DEF Machines
<1>2. m.h \in Heap(n) /\ m.h.idx = r.h.idx /\ m.h.info = r.h.info
  BY <1>1 DEF Heaps
<1>3. m.h.next \in Pointers(n)
  BY <1>2, HeapIs
<1>q. QED
  BY <1>2, <1>3 DEF Able, Furnished

\* The cell a turn of the merge chooses comes before the head of the other run.
LEMMA ChosenIs ==
  ASSUME NEW n \in Nat, NEW r, NEW BB, Able(n, r, BB), NEW cmp \in Cmps, NEW pos \in [1 .. n -> Nat],
         NEW t, NEW s \in MergeStates(n, r, BB, t), PLeft(s) \/ QLeft(s),
         PLeft(s) /\ QLeft(s) => s.p \in 1 .. n /\ s.q \in 1 .. n /\ pos[s.p] < pos[s.q]
  PROVE  Chosen(cmp, n, r, BB, pos, s, FromP(s, cmp))
<1>0. s.m \in Machines(n, r, BB)
  BY DEF MergeStates
<1>1. Later(cmp, n, s.m.h, s.m.h)
  BY DEF Later
<1>5. Furnished(n, r, BB, s.m)
  BY <1>0, MachineIs
<1>2. CASE ~ PLeft(s)
  <2>1. FromP(s, cmp) = [m |-> s.m, fromP |-> FALSE]
    BY <1>2 DEF FromP, PLeft
  <2>q. QED
    BY <1>0, <1>1, <1>2, <2>1 DEF Chosen
<1>3. CASE PLeft(s) /\ ~ QLeft(s)
  <2>1. FromP(s, cmp) = [m |-> s.m, fromP |-> TRUE]
    BY <1>3 DEF FromP, PLeft, QLeft
  <2>q. QED
    BY <1>0, <1>1, <1>3, <2>1 DEF Chosen
<1>4. CASE PLeft(s) /\ QLeft(s)
  <2> DEFINE p == s.p
             q == s.q
             c == Compared(cmp, s.m, p, q)
             f == FromP(s, cmp)
  <2>1. p \in 1 .. n /\ q \in 1 .. n /\ pos[p] < pos[q]
    BY <1>4
  <2>2. s.m.h.info[p] = p /\ s.m.h.info[q] = q
    BY <1>5, <2>1 DEF Furnished
  <2>3. f = [m |-> c.m, fromP |-> PFirst(c.diff)]
    BY <1>4, <2>2 DEF FromP, PLeft, QLeft
  <2>4. ComparesWell(cmp, n, r, BB, s.m, p, q, c)
    <3> HIDE DEF p, q
    <3>q. QED
      BY <1>0, <2>1, ComparedIs
  <2> HIDE DEF p, q, c
  <2>5. /\ c.m \in Machines(n, r, BB) /\ c.m.h.next = s.m.h.next /\ Later(cmp, n, s.m.h, c.m.h)
        /\ Settled(cmp, c.m.h, p) /\ Settled(cmp, c.m.h, q)
        /\ c.diff = Key(cmp, c.m.h, p) - Key(cmp, c.m.h, q)
    BY <2>4 DEF ComparesWell
  <2>6. c.m.h.idx = r.h.idx
    <3>1. Furnished(n, r, BB, c.m)
      BY <2>5, MachineIs
    <3>q. QED
      BY <3>1 DEF Furnished
  <2>7. s.m.h.idx = r.h.idx
    BY <1>5 DEF Furnished
  <2>8. Key(cmp, c.m.h, p) \in Int
    BY <2>1, <2>5, KeyIs
  <2>9. Key(cmp, c.m.h, q) \in Int
    BY <2>1, <2>5, KeyIs
  <2>10. f.m = c.m /\ f.fromP = PFirst(c.diff)
    BY <2>3
  <2> HIDE DEF f
  <2>11. IF PFirst(c.diff) THEN Before(cmp, c.m.h, pos, p, q) ELSE Before(cmp, c.m.h, pos, q, p)
    <3>1. PFirst(c.diff) <=> Key(cmp, c.m.h, p) <= Key(cmp, c.m.h, q)
      BY <2>5, <2>8, <2>9 DEF PFirst
    <3>q. QED
      BY <3>1, <2>1, <2>5, <2>8, <2>9 DEF Before
  <2>12. IF f.fromP THEN <<p, q>> \in BeforeIn(cmp, n, f.m.h, pos) ELSE <<q, p>> \in BeforeIn(cmp, n, f.m.h, pos)
    BY <2>1, <2>10, <2>11 DEF BeforeIn
  <2>13. IF f.fromP
         THEN PLeft(s) /\ (QLeft(s) => <<s.p, s.q>> \in BeforeIn(cmp, n, f.m.h, pos))
         ELSE QLeft(s) /\ (PLeft(s) => <<s.q, s.p>> \in BeforeIn(cmp, n, f.m.h, pos))
    BY <1>4, <2>12 DEF p, q
  <2>14. Chosen(cmp, n, r, BB, pos, s, f)
    BY <2>5, <2>6, <2>7, <2>10, <2>13 DEF Chosen
  <2>q. QED
    BY <2>14 DEF f
<1>q. QED
  BY <1>2, <1>3, <1>4

(* The element taken is put in behind the tail.                            *)
Put(m, tail, c) == IF tail = NULL THEN m ELSE [m EXCEPT !.h.next[tail] = c]

PutWell(n, r, BB, m, tail, c, m2) ==
  /\ m2 \in Machines(n, r, BB)
  /\ m2.h.next = Tailed(m.h.next, tail, c)
  /\ m2.h.data16 = m.h.data16 /\ m2.h.idx = m.h.idx

\* Appending a cell to the merged list sets one pointer, or none.
LEMMA PutIs ==
  ASSUME NEW n \in Nat, NEW r, NEW BB, NEW m \in Machines(n, r, BB),
         NEW tail \in 0 .. n, NEW c \in 0 .. n
  PROVE  PutWell(n, r, BB, m, tail, c, Put(m, tail, c))
<1>1. CASE tail = NULL
  BY <1>1 DEF Put, Tailed, PutWell
<1>2. CASE tail # NULL
  <2>1. tail \in 1 .. n
    BY <1>2 DEF NULL
  <2> DEFINE m2 == [m EXCEPT !.h.next[tail] = c]
  <2>2. Pointed(n, r, BB, m, tail, c, m2)
    BY <2>1, MachineLinked
  <2>3. Put(m, tail, c) = m2
    BY <1>2 DEF Put
  <2>4. Tailed(m.h.next, tail, c) = [m.h.next EXCEPT ![tail] = c]
    BY <1>2 DEF Tailed
  <2> HIDE DEF m2
  <2>q. QED
    BY <2>2, <2>3, <2>4 DEF PutWell, Pointed
<1>q. QED
  BY <1>1, <1>2

\* A turn of the merge, written out.
LEMMA StepIs ==
  ASSUME NEW n \in Nat, NEW r, NEW BB, NEW t, NEW s \in MergeStates(n, r, BB, t), NEW f
  PROVE  LET c == IF f.fromP THEN s.p ELSE s.q
         IN  Step(s, f) =
               [m |-> Put(f.m, s.tail, c),
                p |-> IF f.fromP THEN s.m.h.next[s.p] ELSE s.p,
                q |-> IF f.fromP THEN s.q ELSE s.m.h.next[s.q],
                psize |-> IF f.fromP THEN s.psize - 1 ELSE s.psize,
                qsize |-> IF f.fromP THEN s.qsize ELSE s.qsize - 1,
                list |-> IF s.tail = NULL THEN c ELSE s.list, tail |-> c, nmerges |-> t]
<1>1. ASSUME NEW c
      PROVE  Appended(s, f.m, c)
               = [m |-> Put(f.m, s.tail, c), p |-> s.p, q |-> s.q, psize |-> s.psize, qsize |-> s.qsize,
                  list |-> IF s.tail = NULL THEN c ELSE s.list, tail |-> c, nmerges |-> t]
  <2> DEFINE m2 == Put(f.m, s.tail, c)
             list2 == IF s.tail = NULL THEN c ELSE s.list
             s2 == [s EXCEPT !.m = m2]
             s3 == [s2 EXCEPT !.list = list2]
  <2>1. Appended(s, f.m, c) = [s EXCEPT !.m = m2, !.list = list2, !.tail = c]
    BY DEF Appended, Put
  <2>2. [s EXCEPT !.m = m2, !.list = list2, !.tail = c] = [s3 EXCEPT !.tail = c]
    OBVIOUS
  <2> HIDE DEF m2, list2
  <2>3. s2 = [m |-> m2, p |-> s.p, q |-> s.q, psize |-> s.psize, qsize |-> s.qsize,
               list |-> s.list, tail |-> s.tail, nmerges |-> t]
    BY DEF MergeStates
  <2> HIDE DEF s2
  <2>4. s3 = [m |-> m2, p |-> s.p, q |-> s.q, psize |-> s.psize, qsize |-> s.qsize,
               list |-> list2, tail |-> s.tail, nmerges |-> t]
    BY <2>3
  <2> HIDE DEF s3
  <2>5. [s3 EXCEPT !.tail = c]
          = [m |-> m2, p |-> s.p, q |-> s.q, psize |-> s.psize, qsize |-> s.qsize,
               list |-> list2, tail |-> c, nmerges |-> t]
    BY <2>4
  <2>q. QED
    BY <2>1, <2>2, <2>5 DEF m2, list2
<1>2. CASE f.fromP
  <2> DEFINE m2 == Put(f.m, s.tail, s.p)
             list2 == IF s.tail = NULL THEN s.p ELSE s.list
             s2 == Appended(s, f.m, s.p)
             s3 == [s2 EXCEPT !.p = s.m.h.next[s.p]]
  <2>1. Step(s, f) = [s2 EXCEPT !.p = s.m.h.next[s.p], !.psize = @ - 1]
    BY <1>2 DEF Step
  <2>2. [s2 EXCEPT !.p = s.m.h.next[s.p], !.psize = @ - 1] = [s3 EXCEPT !.psize = @ - 1]
    OBVIOUS
  <2>3. s2 = [m |-> m2, p |-> s.p, q |-> s.q, psize |-> s.psize, qsize |-> s.qsize,
               list |-> list2, tail |-> s.p, nmerges |-> t]
    BY <1>1
  <2> HIDE DEF m2, list2, s2
  <2>4. s3 = [m |-> m2, p |-> s.m.h.next[s.p], q |-> s.q, psize |-> s.psize, qsize |-> s.qsize,
               list |-> list2, tail |-> s.p, nmerges |-> t]
    BY <2>3
  <2> HIDE DEF s3
  <2>5. [s3 EXCEPT !.psize = @ - 1]
          = [m |-> m2, p |-> s.m.h.next[s.p], q |-> s.q, psize |-> s.psize - 1, qsize |-> s.qsize,
               list |-> list2, tail |-> s.p, nmerges |-> t]
    BY <2>4
  <2>q. QED
    BY <1>2, <2>1, <2>2, <2>5 DEF m2, list2
<1>3. CASE ~ f.fromP
  <2> DEFINE m2 == Put(f.m, s.tail, s.q)
             list2 == IF s.tail = NULL THEN s.q ELSE s.list
             s2 == Appended(s, f.m, s.q)
             s3 == [s2 EXCEPT !.q = s.m.h.next[s.q]]
  <2>1. Step(s, f) = [s2 EXCEPT !.q = s.m.h.next[s.q], !.qsize = @ - 1]
    BY <1>3 DEF Step
  <2>2. [s2 EXCEPT !.q = s.m.h.next[s.q], !.qsize = @ - 1] = [s3 EXCEPT !.qsize = @ - 1]
    OBVIOUS
  <2>3. s2 = [m |-> m2, p |-> s.p, q |-> s.q, psize |-> s.psize, qsize |-> s.qsize,
               list |-> list2, tail |-> s.q, nmerges |-> t]
    BY <1>1
  <2> HIDE DEF m2, list2, s2
  <2>4. s3 = [m |-> m2, p |-> s.p, q |-> s.m.h.next[s.q], psize |-> s.psize, qsize |-> s.qsize,
               list |-> list2, tail |-> s.q, nmerges |-> t]
    BY <2>3
  <2> HIDE DEF s3
  <2>5. [s3 EXCEPT !.qsize = @ - 1]
          = [m |-> m2, p |-> s.p, q |-> s.m.h.next[s.q], psize |-> s.psize, qsize |-> s.qsize - 1,
               list |-> list2, tail |-> s.q, nmerges |-> t]
    BY <2>4
  <2>q. QED
    BY <1>3, <2>1, <2>2, <2>5 DEF m2, list2
<1>q. QED
  BY <1>2, <1>3

(* In the middle of a merge of the runs between the places i and y: o cells *)
(* are merged and p goes up to x.                                          *)
Merging(cmp, n, r, BB, t, pos, L, B, e, i, o, x, y, s) ==
  /\ s \in MergeStates(n, r, BB, t)
  /\ Between(B, L, i, o, x, y) /\ (y = L \/ y \in B)
  /\ Threaded(n, s.m.h.next, e, L, o, x)
  /\ Runs(BeforeIn(cmp, n, s.m.h, pos), pos, e, L, B, o, x)
  /\ s.psize = x - o /\ (o < x => s.p = e[o + 1])
  /\ s.q = e[x + 1] /\ y - x <= s.qsize /\ (y = L \/ s.qsize = y - x)
  /\ s.tail = Last(e, o) /\ s.list = (IF o = 0 THEN NULL ELSE e[1])

(* The cells stay the same.                                                *)
LEMMA TakenCells ==
  ASSUME NEW L \in Nat, NEW o \in Nat, NEW x \in Nat, o <= x, x < L, NEW e
  PROVE  CellsOf(Taken(e, L, o, x), L) = CellsOf(e, L)
<1> DEFINE d == Taken(e, L, o, x)
<1>1. Permuting(L, o, x)
  BY SourceIs
<1>2. \A i \in 1 .. L : d[i] = e[Source(i, o, x)]
  BY DEF Taken
<1> HIDE DEF d
<1>3. {d[i] : i \in 1 .. L} \subseteq {e[i] : i \in 1 .. L}
  BY <1>1, <1>2 DEF Permuting
<1>4. {e[i] : i \in 1 .. L} \subseteq {d[i] : i \in 1 .. L}
  BY <1>1, <1>2 DEF Permuting
<1>q. QED
  BY <1>3, <1>4 DEF CellsOf, d

(* What is left of p and q shows in psize, qsize and the pointers.         *)
LEMMA LeftIs ==
  ASSUME NEW n \in Nat, NEW cmp, NEW r, NEW BB, NEW t, NEW pos, NEW L \in Nat, NEW B, NEW e,
         NEW i, NEW o, NEW x, NEW y, NEW s, Merging(cmp, n, r, BB, t, pos, L, B, e, i, o, x, y, s)
  PROVE  /\ i \in Nat /\ o \in Nat /\ x \in Nat /\ y \in Nat /\ i <= o /\ o <= x /\ x <= y /\ y <= L
         /\ (PLeft(s) <=> o < x) /\ (QLeft(s) <=> x < y)
         /\ s.psize \in Nat /\ s.qsize \in Nat
         /\ \A j \in 1 .. L : e[j] \in 1 .. n
         /\ (o < x => s.p = e[o + 1]) /\ s.q = e[x + 1]
         /\ s.m \in Machines(n, r, BB) /\ s.m.h.next \in Pointers(n)
<1>1. /\ s \in MergeStates(n, r, BB, t) /\ (y = L \/ y \in B)
      /\ Between(B, L, i, o, x, y)
      /\ Threaded(n, s.m.h.next, e, L, o, x)
      /\ s.psize = x - o /\ (o < x => s.p = e[o + 1])
      /\ s.q = e[x + 1] /\ y - x <= s.qsize /\ (y = L \/ s.qsize = y - x)
  BY DEF Merging
<1>2. i \in Nat /\ o \in Nat /\ x \in Nat /\ y \in Nat /\ i <= o /\ o <= x /\ x <= y /\ y <= L
  BY <1>1 DEF Between
<1>3. e \in [1 .. L + 1 -> 0 .. n] /\ e[L + 1] = NULL /\ \A j \in 1 .. L : e[j] # NULL
  BY <1>1 DEF Threaded
<1>4. s.psize \in Nat /\ s.qsize \in Nat /\ s.m \in Machines(n, r, BB)
  BY <1>1 DEF MergeStates
<1>5. PLeft(s) <=> o < x
  BY <1>1, <1>2, <1>4 DEF PLeft
<1>6. e[x + 1] # NULL <=> x < L
  <2>1. CASE x < L
    <3>1. x + 1 \in 1 .. L
      BY <1>2, <2>1
    <3>q. QED
      BY <1>3, <2>1, <3>1
  <2>2. CASE ~ (x < L)
    <3>1. x = L
      BY <1>2, <2>2
    <3>q. QED
      BY <1>3, <2>2, <3>1
  <2>q. QED
    BY <2>1, <2>2
<1>7. QLeft(s) <=> x < y
  BY <1>1, <1>2, <1>4, <1>6 DEF QLeft
<1>8. \A j \in 1 .. L : e[j] \in 1 .. n
  BY <1>3 DEF NULL
<1>9. s.m.h.next \in Pointers(n)
  <2>1. s.m.h \in Heap(n)
    BY <1>4 DEF Machines, Heaps
  <2>q. QED
    BY <2>1, HeapIs
<1>q. QED
  BY <1>1, <1>2, <1>4, <1>5, <1>7, <1>8, <1>9

(* One more cell is merged.                                                *)
Advanced(cmp, n, r, BB, t, pos, L, B, e, i, o, y, s2) ==
  \E d, w : /\ Merging(cmp, n, r, BB, t, pos, L, B, d, i, o + 1, w, y, s2)
            /\ CellsOf(d, L) = CellsOf(e, L)

\* A turn that takes from the first run advances the merge.
LEMMA AdvanceP ==
  ASSUME NEW n \in Nat, NEW cmp, NEW r, NEW BB, NEW t, NEW pos \in [1 .. n -> Nat], NEW L \in Nat,
         NEW B, B \subseteq Nat, NEW e,
         NEW i, NEW o, NEW x, NEW y, NEW s, Merging(cmp, n, r, BB, t, pos, L, B, e, i, o, x, y, s),
         NEW f, Chosen(cmp, n, r, BB, pos, s, f), f.fromP
  PROVE  Advanced(cmp, n, r, BB, t, pos, L, B, e, i, o, y, Step(s, f))
<1> DEFINE s2 == Step(s, f)
           m2 == Put(f.m, s.tail, e[o + 1])
           bef == BeforeIn(cmp, n, f.m.h, pos)
<1>1. /\ i \in Nat /\ o \in Nat /\ x \in Nat /\ y \in Nat /\ i <= o /\ o <= x /\ x <= y /\ y <= L
      /\ (PLeft(s) <=> o < x) /\ (QLeft(s) <=> x < y)
      /\ s.psize \in Nat /\ s.qsize \in Nat
      /\ \A j \in 1 .. L : e[j] \in 1 .. n
      /\ (o < x => s.p = e[o + 1]) /\ s.q = e[x + 1]
      /\ s.m \in Machines(n, r, BB) /\ s.m.h.next \in Pointers(n)
  BY LeftIs
<1>2. /\ s \in MergeStates(n, r, BB, t)
      /\ Between(B, L, i, o, x, y) /\ (y = L \/ y \in B)
      /\ Threaded(n, s.m.h.next, e, L, o, x)
      /\ Runs(BeforeIn(cmp, n, s.m.h, pos), pos, e, L, B, o, x)
      /\ s.psize = x - o /\ y - x <= s.qsize /\ (y = L \/ s.qsize = y - x)
      /\ s.tail = Last(e, o) /\ s.list = (IF o = 0 THEN NULL ELSE e[1])
  BY DEF Merging
<1>3. /\ f.m \in Machines(n, r, BB) /\ f.m.h.next = s.m.h.next /\ Later(cmp, n, s.m.h, f.m.h)
      /\ f.m.h.idx = s.m.h.idx /\ PLeft(s) /\ (QLeft(s) => <<s.p, s.q>> \in bef)
  BY DEF Chosen
<1>4. o < x /\ s.p = e[o + 1] /\ o + 1 \in 1 .. L
  BY <1>1, <1>3
<1>5. s2 = [m |-> m2, p |-> s.m.h.next[e[o + 1]], q |-> s.q, psize |-> s.psize - 1, qsize |-> s.qsize,
            list |-> IF s.tail = NULL THEN e[o + 1] ELSE s.list, tail |-> e[o + 1], nmerges |-> t]
  BY <1>2, <1>4, StepIs
<1>6. s.tail \in 0 .. n /\ s.list \in 0 .. n /\ s.q \in 0 .. n
  BY <1>2 DEF MergeStates
<1>7. /\ m2 \in Machines(n, r, BB) /\ m2.h.next = Tailed(s.m.h.next, s.tail, e[o + 1])
      /\ m2.h.data16 = f.m.h.data16 /\ m2.h.idx = f.m.h.idx
  <2>1. e[o + 1] \in 0 .. n
    BY <1>1, <1>4
  <2> DEFINE c == e[o + 1]
  <2> HIDE DEF c
  <2>2. f.m \in Machines(n, r, BB) /\ s.tail \in 0 .. n /\ c \in 0 .. n
    BY <1>3, <1>6, <2>1 DEF c
  <2>3. PutWell(n, r, BB, f.m, s.tail, c, Put(f.m, s.tail, c))
    BY <2>2, PutIs
  <2>q. QED
    BY <1>3, <2>3 DEF c, PutWell
<1>8. Threaded(n, m2.h.next, e, L, o + 1, x)
  <2>1. x <= L
    BY <1>1
  <2>q. QED
    BY <1>1, <1>2, <1>4, <1>7, <2>1, ThreadedP
<1> HIDE DEF m2
<1>9. Runs(bef, pos, e, L, B, o + 1, x)
  <2>1. Transitive(bef)
    BY <1>3, BeforeIs
  <2>2. BeforeIn(cmp, n, s.m.h, pos) \subseteq bef
    BY <1>3, BeforeLater
  <2>3. Runs(bef, pos, e, L, B, o, x)
    BY <1>2, <2>2, RunsMore
  <2>4. x < y => <<e[o + 1], e[x + 1]>> \in bef
    BY <1>1, <1>3, <1>4
  <2> HIDE DEF bef
  <2>q. QED
    BY <1>1, <1>2, <1>4, <2>1, <2>3, <2>4, RunsP
<1>10. BeforeIn(cmp, n, m2.h, pos) = bef
  BY <1>7 DEF BeforeIn, Before, Settled, Key
<1>11. s2 \in MergeStates(n, r, BB, t)
  <2>1. s.m.h.next[e[o + 1]] \in 0 .. n
    BY <1>1, <1>4 DEF Pointers
  <2>2. s.psize - 1 \in Nat /\ e[o + 1] \in 0 .. n
    BY <1>1, <1>2, <1>4
  <2> HIDE DEF s2
  <2>q. QED
    BY <1>1, <1>5, <1>6, <1>7, <2>1, <2>2 DEF MergeStates
<1>12. o + 1 < x => s2.p = e[(o + 1) + 1]
  <2>1. ASSUME o + 1 < x PROVE s.m.h.next[e[o + 1]] = e[(o + 1) + 1]
    <3>1. o + 1 # o /\ o + 1 # x
      BY <1>1, <2>1
    <3>q. QED
      BY <1>2, <1>4, <3>1 DEF Threaded
  <2>q. QED
    BY <1>5, <2>1
<1>13. Between(B, L, i, o + 1, x, y)
  BY <1>1, <1>2, <1>4 DEF Between
<1>14. s2.psize = x - (o + 1) /\ s2.q = e[x + 1] /\ s2.qsize = s.qsize /\ s2.m = m2
  <2>1. s2.psize = s.psize - 1 /\ s2.q = s.q /\ s2.qsize = s.qsize /\ s2.m = m2
    BY <1>5
  <2> HIDE DEF s2
  <2>q. QED
    BY <1>1, <1>2, <2>1
<1>15. s2.tail = Last(e, o + 1) /\ s2.list = (IF o + 1 = 0 THEN NULL ELSE e[1])
  <2>1. s2.tail = e[o + 1] /\ s2.list = IF s.tail = NULL THEN e[o + 1] ELSE s.list
    BY <1>5
  <2> HIDE DEF s2
  <2>2. o + 1 # 0 /\ o + 1 \in Nat
    BY <1>1
  <2>3. CASE o = 0
    <3>1. s.tail = NULL /\ o + 1 = 1
      BY <1>2, <2>3 DEF Last
    <3>q. QED
      BY <2>1, <2>2, <3>1 DEF Last
  <2>4. CASE o # 0
    <3>1. s.tail = e[o] /\ s.list = e[1] /\ o \in 1 .. L
      BY <1>1, <1>2, <2>4 DEF Last
    <3>2. s.tail # NULL
      BY <1>1, <3>1 DEF NULL
    <3>q. QED
      BY <2>1, <2>2, <3>1, <3>2 DEF Last
  <2>q. QED
    BY <2>3, <2>4
<1> HIDE DEF s2
<1>16. Merging(cmp, n, r, BB, t, pos, L, B, e, i, o + 1, x, y, s2)
  BY <1>2, <1>8, <1>9, <1>10, <1>11, <1>12, <1>13, <1>14, <1>15 DEF Merging
<1>q. QED
  BY <1>16 DEF Advanced, s2

\* A turn that takes from the second run advances the merge.
LEMMA AdvanceQ ==
  ASSUME NEW n \in Nat, NEW cmp, NEW r, NEW BB, NEW t, NEW pos \in [1 .. n -> Nat], NEW L \in Nat,
         NEW B, B \subseteq Nat, NEW e,
         NEW i, NEW o, NEW x, NEW y, NEW s, Merging(cmp, n, r, BB, t, pos, L, B, e, i, o, x, y, s),
         NEW f, Chosen(cmp, n, r, BB, pos, s, f), ~ f.fromP
  PROVE  Advanced(cmp, n, r, BB, t, pos, L, B, e, i, o, y, Step(s, f))
<1> DEFINE s2 == Step(s, f)
           m2 == Put(f.m, s.tail, e[x + 1])
           d == Taken(e, L, o, x)
           bef == BeforeIn(cmp, n, f.m.h, pos)
<1>1. /\ i \in Nat /\ o \in Nat /\ x \in Nat /\ y \in Nat /\ i <= o /\ o <= x /\ x <= y /\ y <= L
      /\ (PLeft(s) <=> o < x) /\ (QLeft(s) <=> x < y)
      /\ s.psize \in Nat /\ s.qsize \in Nat
      /\ \A j \in 1 .. L : e[j] \in 1 .. n
      /\ (o < x => s.p = e[o + 1]) /\ s.q = e[x + 1]
      /\ s.m \in Machines(n, r, BB) /\ s.m.h.next \in Pointers(n)
  BY LeftIs
<1>2. /\ s \in MergeStates(n, r, BB, t)
      /\ Between(B, L, i, o, x, y) /\ (y = L \/ y \in B)
      /\ Threaded(n, s.m.h.next, e, L, o, x)
      /\ Runs(BeforeIn(cmp, n, s.m.h, pos), pos, e, L, B, o, x)
      /\ s.psize = x - o /\ y - x <= s.qsize /\ (y = L \/ s.qsize = y - x)
      /\ s.tail = Last(e, o) /\ s.list = (IF o = 0 THEN NULL ELSE e[1])
  BY DEF Merging
<1>3. /\ f.m \in Machines(n, r, BB) /\ f.m.h.next = s.m.h.next /\ Later(cmp, n, s.m.h, f.m.h)
      /\ f.m.h.idx = s.m.h.idx /\ QLeft(s) /\ (PLeft(s) => <<s.q, s.p>> \in bef)
  BY DEF Chosen
<1>4. x < y /\ x < L /\ o <= x /\ s.q = e[x + 1] /\ o + 1 \in 1 .. L /\ x + 1 \in 1 .. L
  BY <1>1, <1>3
<1>5. s2 = [m |-> m2, p |-> s.p, q |-> s.m.h.next[e[x + 1]], psize |-> s.psize, qsize |-> s.qsize - 1,
            list |-> IF s.tail = NULL THEN e[x + 1] ELSE s.list, tail |-> e[x + 1], nmerges |-> t]
  BY <1>2, <1>4, StepIs
<1>6. s.tail \in 0 .. n /\ s.list \in 0 .. n /\ s.p \in 0 .. n
  BY <1>2 DEF MergeStates
<1>7. /\ m2 \in Machines(n, r, BB) /\ m2.h.next = Tailed(s.m.h.next, s.tail, e[x + 1])
      /\ m2.h.data16 = f.m.h.data16 /\ m2.h.idx = f.m.h.idx
  <2>1. e[x + 1] \in 0 .. n
    BY <1>1, <1>4
  <2> DEFINE c == e[x + 1]
  <2> HIDE DEF c
  <2>2. f.m \in Machines(n, r, BB) /\ s.tail \in 0 .. n /\ c \in 0 .. n
    BY <1>3, <1>6, <2>1 DEF c
  <2>3. PutWell(n, r, BB, f.m, s.tail, c, Put(f.m, s.tail, c))
    BY <2>2, PutIs
  <2>q. QED
    BY <1>3, <2>3 DEF c, PutWell
<1>8. Threaded(n, m2.h.next, d, L, o + 1, x + 1)
  BY <1>1, <1>2, <1>4, <1>7, ThreadedQ, SMTT(40)
<1>17. CellsOf(d, L) = CellsOf(e, L)
  BY <1>1, <1>4, TakenCells
<1> HIDE DEF m2
<1>9. Runs(bef, pos, d, L, B, o + 1, x + 1)
  <2>1. Transitive(bef)
    BY <1>3, BeforeIs
  <2>2. BeforeIn(cmp, n, s.m.h, pos) \subseteq bef
    BY <1>3, BeforeLater
  <2>3. Runs(bef, pos, e, L, B, o, x)
    BY <1>2, <2>2, RunsMore
  <2>4. o < x => <<e[x + 1], e[o + 1]>> \in bef
    BY <1>1, <1>3, <1>4
  <2> HIDE DEF bef, d
  <2>q. QED
    BY <1>1, <1>2, <1>4, <2>1, <2>3, <2>4, RunsQ DEF d
<1>10. BeforeIn(cmp, n, m2.h, pos) = bef
  BY <1>7 DEF BeforeIn, Before, Settled, Key
<1>11. s2 \in MergeStates(n, r, BB, t)
  <2>1. s.m.h.next[e[x + 1]] \in 0 .. n
    BY <1>1, <1>4 DEF Pointers
  <2>2. s.qsize - 1 \in Nat /\ e[x + 1] \in 0 .. n
    BY <1>1, <1>2, <1>4
  <2> HIDE DEF s2
  <2>q. QED
    BY <1>1, <1>5, <1>6, <1>7, <2>1, <2>2 DEF MergeStates
<1>12. o + 1 < x + 1 => s2.p = d[(o + 1) + 1]
  <2>1. ASSUME o + 1 < x + 1 PROVE s.p = d[(o + 1) + 1]
    <3>1. o < x /\ Source((o + 1) + 1, o, x) = o + 1 /\ (o + 1) + 1 \in 1 .. L + 1
      BY <1>1, <1>4, <2>1 DEF Source
    <3>q. QED
      BY <1>1, <3>1 DEF Taken
  <2> HIDE DEF d
  <2>q. QED
    BY <1>5, <2>1
<1>13. Between(B, L, i, o + 1, x + 1, y)
  BY <1>1, <1>2, <1>4 DEF Between
<1>14. /\ s2.psize = (x + 1) - (o + 1) /\ s2.q = d[(x + 1) + 1] /\ s2.qsize = s.qsize - 1 /\ s2.m = m2
       /\ y - (x + 1) <= s2.qsize /\ (y = L \/ s2.qsize = y - (x + 1))
  <2>1. /\ s2.psize = s.psize /\ s2.q = s.m.h.next[e[x + 1]] /\ s2.qsize = s.qsize - 1 /\ s2.m = m2
    BY <1>5
  <2>2. s.m.h.next[e[x + 1]] = e[(x + 1) + 1]
    <3>1. x + 1 # o /\ x + 1 # x
      BY <1>1, <1>4
    <3>q. QED
      BY <1>2, <1>4, <3>1 DEF Threaded
  <2>3. d[(x + 1) + 1] = e[(x + 1) + 1]
    <3>1. Source((x + 1) + 1, o, x) = (x + 1) + 1 /\ (x + 1) + 1 \in 1 .. L + 1
      BY <1>1, <1>4 DEF Source
    <3>q. QED
      BY <3>1 DEF Taken
  <2> HIDE DEF s2, d
  <2>q. QED
    BY <1>1, <1>2, <1>4, <2>1, <2>2, <2>3
<1>15. s2.tail = Last(d, o + 1) /\ s2.list = (IF o + 1 = 0 THEN NULL ELSE d[1])
  <2>1. s2.tail = e[x + 1] /\ s2.list = IF s.tail = NULL THEN e[x + 1] ELSE s.list
    BY <1>5
  <2> HIDE DEF s2
  <2>2. o + 1 # 0 /\ o + 1 \in Nat /\ 1 \in 1 .. L + 1
    BY <1>1
  <2>5. d[o + 1] = e[x + 1]
    <3>1. Source(o + 1, o, x) = x + 1 /\ o + 1 \in 1 .. L + 1
      BY <1>1, <1>4 DEF Source
    <3>q. QED
      BY <3>1 DEF Taken
  <2>3. CASE o = 0
    <3>1. s.tail = NULL /\ o + 1 = 1
      BY <1>2, <2>3 DEF Last
    <3> HIDE DEF d
    <3>q. QED
      BY <2>1, <2>2, <2>5, <3>1 DEF Last
  <2>4. CASE o # 0
    <3>1. s.tail = e[o] /\ s.list = e[1] /\ o \in 1 .. L
      BY <1>1, <1>2, <2>4 DEF Last
    <3>2. s.tail # NULL
      BY <1>1, <3>1 DEF NULL
    <3>3. d[1] = e[1]
      <4>1. Source(1, o, x) = 1
        BY <1>1, <2>4 DEF Source
      <4>q. QED
        BY <2>2, <4>1 DEF Taken
    <3> HIDE DEF d
    <3>q. QED
      BY <2>1, <2>2, <2>5, <3>1, <3>2, <3>3 DEF Last
  <2>q. QED
    BY <2>3, <2>4
<1> HIDE DEF s2, d
<1>16. Merging(cmp, n, r, BB, t, pos, L, B, d, i, o + 1, x + 1, y, s2)
  BY <1>2, <1>8, <1>9, <1>10, <1>11, <1>12, <1>13, <1>14, <1>15 DEF Merging
<1>q. QED
  BY <1>16, <1>17 DEF Advanced, s2

(* A turn merges one more cell, and is the last when none is left.         *)
LEMMA MergeTurnIs ==
  ASSUME NEW n \in Nat, NEW r, NEW BB, Able(n, r, BB), NEW cmp \in Cmps, NEW t, NEW pos \in [1 .. n -> Nat],
         NEW L \in Nat, NEW B, B \subseteq Nat, NEW e,
         NEW i, NEW o, NEW x, NEW y, NEW s, Merging(cmp, n, r, BB, t, pos, L, B, e, i, o, x, y, s)
  PROVE  IF o = y THEN MergeTurn(s, cmp) = s
         ELSE Advanced(cmp, n, r, BB, t, pos, L, B, e, i, o, y, MergeTurn(s, cmp))
<1>1. /\ i \in Nat /\ o \in Nat /\ x \in Nat /\ y \in Nat /\ i <= o /\ o <= x /\ x <= y /\ y <= L
      /\ (PLeft(s) <=> o < x) /\ (QLeft(s) <=> x < y)
      /\ s.psize \in Nat /\ s.qsize \in Nat
      /\ \A j \in 1 .. L : e[j] \in 1 .. n
      /\ (o < x => s.p = e[o + 1]) /\ s.q = e[x + 1]
      /\ s.m \in Machines(n, r, BB) /\ s.m.h.next \in Pointers(n)
  BY LeftIs
<1>2. CASE o = y
  <2>1. ~ PLeft(s) /\ ~ QLeft(s)
    BY <1>1, <1>2
  <2>q. QED
    BY <1>2, <2>1 DEF MergeTurn, PLeft, QLeft
<1>3. CASE o # y
  <2>1. PLeft(s) \/ QLeft(s)
    BY <1>1, <1>3
  <2>2. MergeTurn(s, cmp) = Step(s, FromP(s, cmp))
    BY <2>1 DEF MergeTurn, PLeft, QLeft
  <2>3. s \in MergeStates(n, r, BB, t) /\ Runs(BeforeIn(cmp, n, s.m.h, pos), pos, e, L, B, o, x)
    BY DEF Merging
  <2>4. ASSUME PLeft(s), QLeft(s) PROVE s.p \in 1 .. n /\ s.q \in 1 .. n /\ pos[s.p] < pos[s.q]
    <3>1. o + 1 \in 1 .. L /\ x + 1 \in 1 .. L /\ o + 1 < x + 1 /\ s.p = e[o + 1] /\ s.q = e[x + 1]
      BY <1>1, <2>4
    <3>2. Parted(B, o, x, o + 1, x + 1)
      BY <1>1, <3>1 DEF Parted
    <3>3. pos[e[o + 1]] < pos[e[x + 1]]
      BY <2>3, <3>1, <3>2 DEF Runs
    <3>q. QED
      BY <1>1, <3>1, <3>3
  <2> DEFINE f == FromP(s, cmp)
  <2>5. Chosen(cmp, n, r, BB, pos, s, f)
    BY <2>1, <2>3, <2>4, ChosenIs
  <2> HIDE DEF f
  <2>6. CASE f.fromP
    <3>1. Advanced(cmp, n, r, BB, t, pos, L, B, e, i, o, y, Step(s, f))
      BY <2>5, <2>6, AdvanceP
    <3>q. QED
      BY <1>3, <2>2, <3>1 DEF f
  <2>7. CASE ~ f.fromP
    <3>1. Advanced(cmp, n, r, BB, t, pos, L, B, e, i, o, y, Step(s, f))
      BY <2>5, <2>7, AdvanceQ
    <3>q. QED
      BY <1>3, <2>2, <3>1 DEF f
  <2>q. QED
    BY <2>6, <2>7
<1>q. QED
  BY <1>2, <1>3

(* What a merge may come to.                                               *)
MergeSet(cmp, n, r, BB, t, pos, L, B, e, i, y) ==
  {s \in MergeStates(n, r, BB, t) :
     \E d, o, w : /\ Merging(cmp, n, r, BB, t, pos, L, B, d, i, o, w, y, s)
                  /\ CellsOf(d, L) = CellsOf(e, L)}

\* Every turn of the merge stays among the states a merge may reach.
LEMMA MergeSetClosed ==
  ASSUME NEW n \in Nat, NEW r, NEW BB, Able(n, r, BB), NEW cmp \in Cmps, NEW t, NEW pos \in [1 .. n -> Nat],
         NEW L \in Nat, NEW B, B \subseteq Nat, NEW e, NEW i, NEW y,
         NEW s \in MergeSet(cmp, n, r, BB, t, pos, L, B, e, i, y)
  PROVE  MergeTurn(s, cmp) \in MergeSet(cmp, n, r, BB, t, pos, L, B, e, i, y)
<1>1. PICK d, o, w : /\ Merging(cmp, n, r, BB, t, pos, L, B, d, i, o, w, y, s)
                     /\ CellsOf(d, L) = CellsOf(e, L)
  BY DEF MergeSet
<1>2. IF o = y THEN MergeTurn(s, cmp) = s
      ELSE Advanced(cmp, n, r, BB, t, pos, L, B, d, i, o, y, MergeTurn(s, cmp))
  BY <1>1, MergeTurnIs
<1>3. CASE o = y
  BY <1>2, <1>3
<1>4. CASE o # y
  <2> DEFINE u == MergeTurn(s, cmp)
  <2> HIDE DEF u
  <2>1. PICK g, v : /\ Merging(cmp, n, r, BB, t, pos, L, B, g, i, o + 1, v, y, u)
                    /\ CellsOf(g, L) = CellsOf(d, L)
    BY <1>2, <1>4 DEF Advanced, u
  <2>2. u \in MergeStates(n, r, BB, t)
    BY <2>1 DEF Merging
  <2>3. u \in MergeSet(cmp, n, r, BB, t, pos, L, B, e, i, y)
    BY <1>1, <2>1, <2>2 DEF MergeSet
  <2>q. QED
    BY <2>3 DEF u
<1>q. QED
  BY <1>3, <1>4

(* The merge, turn by turn.                                                *)
Merges(cmp, n, r, BB, t, pos, L, B, e, i, y, s, at) ==
  /\ at[0] = s
  /\ \A k \in Nat : at[k] \in MergeSet(cmp, n, r, BB, t, pos, L, B, e, i, y) /\ at[k + 1] = MergeTurn(at[k], cmp)

\* The turns of the merge are a function of their number.
LEMMA MergesAre ==
  ASSUME NEW n \in Nat, NEW r, NEW BB, Able(n, r, BB), NEW cmp \in Cmps, NEW t, NEW pos \in [1 .. n -> Nat],
         NEW L \in Nat, NEW B, B \subseteq Nat, NEW e, NEW i, NEW y,
         NEW s \in MergeSet(cmp, n, r, BB, t, pos, L, B, e, i, y)
  PROVE  Merges(cmp, n, r, BB, t, pos, L, B, e, i, y, s, Merge(s, cmp))
<1> DEFINE S == MergeSet(cmp, n, r, BB, t, pos, L, B, e, i, y)
           turn == [k \in Nat |-> [x \in S |-> MergeTurn(x, cmp)]]
           at == Merge(s, cmp)
<1>1. ASSUME NEW k \in Nat, NEW x \in S PROVE MergeTurn(x, cmp) \in S
  BY <1>1, MergeSetClosed
<1>2. turn \in [Nat -> [S -> S]]
  <2> HIDE DEF S
  <2>q. QED
    BY <1>1
<1>3. s \in S
  OBVIOUS
<1>4. PICK f : Loops(S, s, turn, f)
  <2> HIDE DEF S, turn
  <2>q. QED
    BY <1>2, <1>3, LoopExists
<1>5. f = [k \in Nat |-> IF k = 0 THEN s ELSE MergeTurn(f[k - 1], cmp)]
  <2>1. f \in [Nat -> S] /\ f = [k \in Nat |-> IF k = 0 THEN s ELSE turn[k - 1][f[k - 1]]]
    BY <1>4 DEF Loops
  <2>2. ASSUME NEW k \in Nat, k # 0 PROVE turn[k - 1][f[k - 1]] = MergeTurn(f[k - 1], cmp)
    <3>1. k - 1 \in Nat
      BY <2>2
    <3>2. f[k - 1] \in S
      BY <2>1, <3>1
    <3> HIDE DEF S
    <3>q. QED
      BY <3>1, <3>2
  <2> HIDE DEF turn, S
  <2>q. QED
    BY <2>1, <2>2
<1>6. at = [k \in Nat |-> IF k = 0 THEN s ELSE MergeTurn(at[k - 1], cmp)]
  BY <1>5 DEF Merge
<1> HIDE DEF at
<1>7. at[0] = s /\ \A k \in Nat : at[k + 1] = MergeTurn(at[k], cmp)
  <2>1. at[0] = s
    BY <1>6
  <2>2. ASSUME NEW k \in Nat PROVE at[k + 1] = MergeTurn(at[k], cmp)
    <3>1. k + 1 \in Nat /\ k + 1 # 0 /\ (k + 1) - 1 = k
      OBVIOUS
    <3>q. QED
      BY <1>6, <3>1
  <2>q. QED
    BY <2>1, <2>2
<1>8. \A k \in Nat : at[k] \in S => at[k + 1] = turn[k][at[k]]
  <2> HIDE DEF S
  <2>q. QED
    BY <1>7
<1>9. \A k \in Nat : at[k] \in S
  <2> HIDE DEF S, turn
  <2>q. QED
    BY <1>2, <1>3, <1>7, <1>8, LoopIs
<1>q. QED
  BY <1>7, <1>9 DEF at, S, Merges

(* The merge of two runs: all their cells are merged, in order.            *)
MergeDone(cmp, n, r, BB, t, pos, L, B, e, i, y, s) ==
  \E d : /\ Merging(cmp, n, r, BB, t, pos, L, B, d, i, y, y, y, s)
         /\ CellsOf(d, L) = CellsOf(e, L)

\* The merge takes all cells of the two runs.
LEMMA MergedIs ==
  ASSUME NEW n \in Nat, NEW r, NEW BB, Able(n, r, BB), NEW cmp \in Cmps, NEW t, NEW pos \in [1 .. n -> Nat],
         NEW L \in Nat, NEW B, B \subseteq Nat, NEW e, NEW i, NEW y, NEW x, NEW s,
         Merging(cmp, n, r, BB, t, pos, L, B, e, i, i, x, y, s)
  PROVE  MergeDone(cmp, n, r, BB, t, pos, L, B, e, i, y, Merged(s, cmp))
<1> DEFINE at == Merge(s, cmp)
           There(d, o, w, u) == /\ Merging(cmp, n, r, BB, t, pos, L, B, d, i, o, w, y, u)
                                /\ CellsOf(d, L) = CellsOf(e, L)
           T == {k \in Nat : \E d, o, w : There(d, o, w, at[k]) /\ (o = i + k \/ o = y)}
<1>1. s \in MergeStates(n, r, BB, t)
  BY DEF Merging
<1>2. s \in MergeSet(cmp, n, r, BB, t, pos, L, B, e, i, y)
  BY <1>1 DEF MergeSet
<1>3. Merges(cmp, n, r, BB, t, pos, L, B, e, i, y, s, at)
  BY <1>2, MergesAre
<1>4. at[0] = s /\ \A k \in Nat : at[k + 1] = MergeTurn(at[k], cmp)
  BY <1>3 DEF Merges
<1> HIDE DEF at
<1>5. /\ i \in Nat /\ x \in Nat /\ y \in Nat /\ i <= x /\ x <= y /\ y <= L
      /\ s.psize \in Nat /\ s.qsize \in Nat
  BY LeftIs
<1>6. s.psize = x - i /\ y - x <= s.qsize
  BY DEF Merging
<1>7. 0 \in T
  <2>1. There(e, i, x, at[0]) /\ i = i + 0
    BY <1>4, <1>5
  <2> HIDE DEF There
  <2>q. QED
    BY <2>1
<1>8. ASSUME NEW k \in Nat, k \in T PROVE k + 1 \in T
  <2>1. PICK d, o, w : There(d, o, w, at[k]) /\ (o = i + k \/ o = y)
    BY <1>8
  <2>2. Merging(cmp, n, r, BB, t, pos, L, B, d, i, o, w, y, at[k]) /\ CellsOf(d, L) = CellsOf(e, L)
    BY <2>1
  <2>3. IF o = y THEN MergeTurn(at[k], cmp) = at[k]
        ELSE Advanced(cmp, n, r, BB, t, pos, L, B, d, i, o, y, MergeTurn(at[k], cmp))
    BY <2>2, MergeTurnIs
  <2>4. at[k + 1] = MergeTurn(at[k], cmp) /\ k + 1 \in Nat
    BY <1>4
  <2>5. CASE o = y
    <3>1. There(d, o, w, at[k + 1])
      BY <2>1, <2>3, <2>4, <2>5
    <3> HIDE DEF There
    <3>q. QED
      BY <2>4, <2>5, <3>1
  <2>6. CASE o # y
    <3>1. Advanced(cmp, n, r, BB, t, pos, L, B, d, i, o, y, at[k + 1])
      BY <2>3, <2>4, <2>6
    <3>2. PICK g, v : /\ Merging(cmp, n, r, BB, t, pos, L, B, g, i, o + 1, v, y, at[k + 1])
                      /\ CellsOf(g, L) = CellsOf(d, L)
      BY <3>1 DEF Advanced
    <3>3. There(g, o + 1, v, at[k + 1])
      BY <2>2, <3>2
    <3>4. o + 1 = i + (k + 1)
      BY <1>5, <2>1, <2>6
    <3> HIDE DEF There
    <3>q. QED
      BY <2>4, <3>3, <3>4
  <2>q. QED
    BY <2>5, <2>6
<1>9. \A k \in Nat : k \in T
  <2> HIDE DEF T
  <2>q. QED
    BY <1>7, <1>8, Induction
<1> DEFINE k == s.psize + s.qsize
<1>10. k \in Nat /\ y <= i + k /\ Merged(s, cmp) = at[k]
  BY <1>5, <1>6 DEF Merged, at
<1> HIDE DEF k
<1>11. k \in T
  BY <1>9, <1>10
<1>12. PICK d, o, w : There(d, o, w, at[k]) /\ (o = i + k \/ o = y)
  BY <1>11
<1>13. Merging(cmp, n, r, BB, t, pos, L, B, d, i, o, w, y, at[k]) /\ CellsOf(d, L) = CellsOf(e, L)
  BY <1>12
<1>14. o \in Nat /\ w \in Nat /\ o <= w /\ w <= y
  BY <1>13, LeftIs
<1>15. o = y /\ w = y
  BY <1>5, <1>10, <1>12, <1>14
<1>q. QED
  BY <1>10, <1>13, <1>15 DEF MergeDone

-----------------------------------------------------------------------------
(* One pass.  The runs end at the multiples of their size; those before i   *)
(* are merged two by two, and end at the multiples of twice the size.       *)

Multiple(b, w) == \E t \in Nat : b = t * w
Bounds(w, i) == {b \in Nat : Multiple(b, w) /\ (i <= b \/ Multiple(b, 2 * w))}
Multiples(w) == {b \in Nat : Multiple(b, w)}

(* What comes next behind a multiple.                                      *)
LEMMA MultipleIs ==
  ASSUME NEW w \in Nat, w # 0, NEW i \in Nat, Multiple(i, 2 * w)
  PROVE  /\ Multiple(i, w) /\ Multiple(i + w, w) /\ Multiple(i + 2 * w, 2 * w) /\ Multiple(i + 2 * w, w)
         /\ ~ Multiple(i + w, 2 * w)
         /\ \A b \in Nat : Multiple(b, w) /\ i < b /\ b # i + w => i + 2 * w <= b
<1>1. PICK t \in Nat : i = t * (2 * w)
  BY DEF Multiple
<1>2. /\ i = (2 * t) * w /\ i + w = (2 * t + 1) * w /\ i + 2 * w = (2 * t + 2) * w
      /\ i + 2 * w = (t + 1) * (2 * w)
  BY <1>1
<1>3. 2 * t \in Nat /\ 2 * t + 1 \in Nat /\ 2 * t + 2 \in Nat /\ t + 1 \in Nat
  OBVIOUS
<1>4. Multiple(i, w) /\ Multiple(i + w, w) /\ Multiple(i + 2 * w, 2 * w) /\ Multiple(i + 2 * w, w)
  BY <1>2, <1>3 DEF Multiple
<1>5. ASSUME NEW u \in Nat, u * w > i, u * w # i + w PROVE i + 2 * w <= u * w
  <2>1. u > 2 * t
    <3>1. ASSUME u <= 2 * t PROVE u * w <= (2 * t) * w
      BY <3>1
    <3>q. QED
      BY <1>2, <1>5, <3>1
  <2>2. u # 2 * t + 1
    BY <1>2, <1>5
  <2>3. u >= 2 * t + 2
    BY <2>1, <2>2
  <2>4. u * w >= (2 * t + 2) * w
    BY <2>3
  <2>q. QED
    BY <1>2, <2>4
<1>6. ASSUME NEW b \in Nat, Multiple(b, w), i < b, b # i + w PROVE i + 2 * w <= b
  <2>1. PICK u \in Nat : b = u * w
    BY <1>6 DEF Multiple
  <2>q. QED
    BY <1>5, <1>6, <2>1
<1>7. ~ Multiple(i + w, 2 * w)
  <2> SUFFICES ASSUME NEW u \in Nat, i + w = u * (2 * w) PROVE FALSE
    BY DEF Multiple
  <2>1. CASE u <= t
    <3>1. u * (2 * w) <= t * (2 * w)
      BY <2>1
    <3>q. QED
      BY <1>1, <3>1
  <2>2. CASE u >= t + 1
    <3>1. u * (2 * w) >= (t + 1) * (2 * w)
      BY <2>2
    <3>q. QED
      BY <1>2, <3>1
  <2>q. QED
    BY <2>1, <2>2
<1>q. QED
  BY <1>4, <1>6, <1>7

(* The smaller of two numbers.                                             *)
Least(a, b) == IF a <= b THEN a ELSE b

(* Where two runs are merged that start at i, a run ends that ended there   *)
(* and one does not that did.                                              *)
LEMMA BoundsAre ==
  ASSUME NEW w \in Nat, w # 0, NEW L \in Nat, NEW i \in Nat, i < L, Multiple(i, 2 * w)
  PROVE  LET x == Least(i + w, L)
             y == Least(i + 2 * w, L)
             B == Bounds(w, i) \ {i + w}
         IN  /\ Between(B, L, i, i, x, y) /\ (y = L \/ y \in B) /\ B \subseteq Nat
             /\ \A j, k \in 1 .. L : j < k => (Parted(B, i, x, j, k) <=> Cut(Bounds(w, i), j, k))
             /\ \A b \in Nat : b < L => (b \in B <=> b \in Bounds(w, y))
             /\ y = L \/ (y = i + 2 * w /\ Multiple(y, 2 * w))
<1> DEFINE x == Least(i + w, L)
           y == Least(i + 2 * w, L)
           B == Bounds(w, i) \ {i + w}
<1>1. /\ Multiple(i, w) /\ Multiple(i + w, w) /\ Multiple(i + 2 * w, 2 * w) /\ Multiple(i + 2 * w, w)
      /\ ~ Multiple(i + w, 2 * w)
      /\ \A b \in Nat : Multiple(b, w) /\ i < b /\ b # i + w => i + 2 * w <= b
  BY MultipleIs
<1>2. /\ x \in Nat /\ y \in Nat /\ i < x /\ x <= y /\ y <= L /\ i < y
      /\ (x = L \/ x = i + w) /\ (y = L \/ y = i + 2 * w) /\ x <= i + w /\ y <= i + 2 * w
  BY DEF Least
<1>3. \A b \in B : b \in Nat /\ Multiple(b, w) /\ (i <= b \/ Multiple(b, 2 * w)) /\ b # i + w
  BY DEF Bounds
<1>4. \A b \in Nat : Multiple(b, w) /\ (i <= b \/ Multiple(b, 2 * w)) /\ b # i + w => b \in B
  BY DEF Bounds
<1>5. \A b \in Bounds(w, i) : b \in B \/ b = i + w
  OBVIOUS
<1>6. i + w \in Bounds(w, i) /\ B \subseteq Bounds(w, i)
  BY <1>1 DEF Bounds
<1>7. i \in B
  <2>1. i # i + w
    OBVIOUS
  <2>q. QED
    BY <1>1, <1>4, <2>1
<1>8. y = L \/ y \in B
  <2>1. i + 2 * w # i + w /\ i <= i + 2 * w /\ i + 2 * w \in Nat
    OBVIOUS
  <2>q. QED
    BY <1>1, <1>2, <1>4, <2>1
<1> HIDE DEF B
<1>9. \A b \in B : b \in Nat /\ (b <= i \/ y <= b)
  <2> TAKE b \in B
  <2>1. b \in Nat /\ Multiple(b, w) /\ b # i + w
    BY <1>3
  <2>2. i < b => i + 2 * w <= b
    BY <1>1, <2>1
  <2>q. QED
    BY <1>2, <2>1, <2>2
<1> HIDE DEF x, y
<1>10. Between(B, L, i, i, x, y)
  BY <1>2, <1>9 DEF Between
<1>11. ASSUME NEW j \in 1 .. L, NEW k \in 1 .. L, j < k
       PROVE  Parted(B, i, x, j, k) <=> Cut(Bounds(w, i), j, k)
  <2>1. ASSUME Cut(B, j, k) PROVE Cut(Bounds(w, i), j, k)
    BY <1>6, <2>1 DEF Cut
  <2>2. ASSUME i < j, j <= x, x < k PROVE Cut(Bounds(w, i), j, k)
    <3>1. x = i + w
      BY <1>2, <2>2
    <3>q. QED
      BY <1>6, <2>2, <3>1 DEF Cut
  <2>3. ASSUME NEW b \in Bounds(w, i), j <= b, b < k PROVE Parted(B, i, x, j, k)
    <3>1. CASE b \in B
      BY <2>3, <3>1 DEF Parted, Cut
    <3>2. CASE b = i + w
      <4>1. x = i + w
        BY <1>2, <2>3, <3>2
      <4>2. CASE j <= i
        <5>1. i < k
          BY <2>3, <3>2
        <5>q. QED
          BY <1>7, <4>2, <5>1 DEF Parted, Cut
      <4>3. CASE i < j
        BY <2>3, <3>2, <4>1, <4>3 DEF Parted
      <4>q. QED
        BY <4>2, <4>3
    <3>q. QED
      BY <1>5, <3>1, <3>2
  <2>q. QED
    BY <2>1, <2>2, <2>3 DEF Parted, Cut
<1>12. ASSUME NEW b \in Nat, b < L PROVE b \in B <=> b \in Bounds(w, y)
  <2>1. ASSUME b \in B PROVE b \in Bounds(w, y)
    <3>1. Multiple(b, w) /\ (i <= b \/ Multiple(b, 2 * w)) /\ b # i + w
      BY <1>3, <2>1
    <3>2. y <= b \/ Multiple(b, 2 * w)
      BY <1>9, <2>1, <3>1
    <3>q. QED
      BY <3>1, <3>2 DEF Bounds
  <2>2. ASSUME b \in Bounds(w, y) PROVE b \in B
    <3>1. Multiple(b, w) /\ (y <= b \/ Multiple(b, 2 * w))
      BY <2>2 DEF Bounds
    <3>2. i <= b \/ Multiple(b, 2 * w)
      BY <1>2, <3>1
    <3>3. b # i + w
      <4>1. CASE y <= b
        <5>1. y = i + 2 * w
          BY <1>12, <1>2, <4>1
        <5>q. QED
          BY <4>1, <5>1
      <4>2. CASE Multiple(b, 2 * w)
        BY <1>1, <4>2
      <4>q. QED
        BY <3>1, <4>1, <4>2
    <3>q. QED
      BY <1>4, <3>1, <3>2, <3>3
  <2>q. QED
    BY <2>1, <2>2
<1>13. B \subseteq Nat
  BY <1>3
<1>14. y = L \/ (y = i + 2 * w /\ Multiple(y, 2 * w))
  BY <1>1, <1>2
<1>q. QED
  BY <1>8, <1>10, <1>11, <1>12, <1>13, <1>14 DEF x, y, B

(* The end of a run p is found by going along it.                          *)
LEMMA AlongIs ==
  ASSUME NEW n \in Nat, NEW h, h.next \in Pointers(n), NEW e, NEW L \in Nat, NEW i \in Nat, i <= L,
         Threaded(n, h.next, e, L, i, i), NEW w \in Nat
  PROVE  Along(h, e[i + 1], w) = [q |-> e[Least(i + w, L) + 1], psize |-> Least(i + w, L) - i]
<1> DEFINE at == Places(h, e[i + 1])
           T == {k \in Nat : at[k] = [q |-> e[Least(i + k, L) + 1], psize |-> Least(i + k, L) - i]}
<1>1. /\ e \in [1 .. L + 1 -> 0 .. n] /\ e[L + 1] = NULL
      /\ \A j \in 1 .. L : e[j] # NULL /\ (j # i => h.next[e[j]] = e[j + 1])
  BY DEF Threaded
<1>2. e[i + 1] \in 0 .. n
  BY <1>1
<1>3. Placing(n, h, e[i + 1], at)
  <2> HIDE DEF at
  <2>q. QED
    BY <1>2, PlacesAre DEF at
<1>4. at[0] = [q |-> e[i + 1], psize |-> 0] /\ \A k \in Nat : at[k + 1] = Place(h, at[k])
  BY <1>3 DEF Placing
<1> HIDE DEF at
<1>5. 0 \in T
  <2>1. Least(i + 0, L) = i
    BY DEF Least
  <2>q. QED
    BY <1>4, <2>1
<1>6. ASSUME NEW k \in Nat, k \in T PROVE k + 1 \in T
  <2>1. at[k] = [q |-> e[Least(i + k, L) + 1], psize |-> Least(i + k, L) - i]
        /\ at[k + 1] = Place(h, at[k])
    BY <1>4, <1>6
  <2>2. CASE i + k < L
    <3>1. Least(i + k, L) = i + k /\ Least(i + (k + 1), L) = (i + k) + 1
      BY <2>2 DEF Least
    <3>2. (i + k) + 1 \in 1 .. L /\ (i + k) + 1 # i
      BY <2>2
    <3>3. e[(i + k) + 1] # NULL /\ h.next[e[(i + k) + 1]] = e[((i + k) + 1) + 1]
      BY <1>1, <3>2
    <3>4. at[k].q = e[(i + k) + 1] /\ at[k].psize = (i + k) - i
      BY <2>1, <3>1
    <3>5. at[k + 1] = [q |-> e[((i + k) + 1) + 1], psize |-> ((i + k) - i) + 1]
      BY <2>1, <3>3, <3>4 DEF Place
    <3>6. ((i + k) - i) + 1 = ((i + k) + 1) - i
      OBVIOUS
    <3>q. QED
      BY <3>1, <3>5, <3>6
  <2>3. CASE ~ (i + k < L)
    <3>1. Least(i + k, L) = L /\ Least(i + (k + 1), L) = L
      BY <2>3 DEF Least
    <3>2. at[k].q = NULL
      BY <1>1, <2>1, <3>1
    <3>3. at[k + 1] = at[k]
      BY <2>1, <3>2 DEF Place
    <3>q. QED
      BY <2>1, <3>1, <3>3
  <2>q. QED
    BY <2>2, <2>3
<1>7. \A k \in Nat : k \in T
  <2> HIDE DEF T
  <2>q. QED
    BY <1>5, <1>6, Induction
<1>8. w \in T
  BY <1>7
<1>q. QED
  BY <1>8 DEF Along, at

(* Between two merges of a pass: i cells are merged.                       *)
PassStates(n, r, BB) ==
  [m : Machines(n, r, BB), p : 0 .. n, q : 0 .. n, psize : Nat, qsize : Nat,
   list : 0 .. n, tail : 0 .. n, nmerges : Nat]

Passing(cmp, n, r, BB, pos, L, w, e, i, s) ==
  /\ s \in PassStates(n, r, BB)
  /\ i \in Nat /\ i <= L /\ (i = L \/ Multiple(i, 2 * w))
  /\ Threaded(n, s.m.h.next, e, L, i, i)
  /\ Runs(BeforeIn(cmp, n, s.m.h, pos), pos, e, L, Bounds(w, i), 0, 0)
  /\ s.p = e[i + 1] /\ s.tail = Last(e, i) /\ s.list = (IF i = 0 THEN NULL ELSE e[1])
  /\ (s.nmerges = 0 => i = 0) /\ (s.nmerges = 1 => i <= 2 * w)

(* Only the places inside the list matter.                                 *)
LEMMA RunsSame ==
  ASSUME NEW bef, NEW pos, NEW e, NEW L \in Nat, NEW B, NEW B2, NEW o, NEW x, NEW o2, NEW x2,
         Runs(bef, pos, e, L, B, o, x),
         \A j, k \in 1 .. L : j < k => (Parted(B, o, x, j, k) <=> Parted(B2, o2, x2, j, k))
  PROVE  Runs(bef, pos, e, L, B2, o2, x2)
BY DEF Runs

\* Where the two runs to merge start and end.
LEMMA StartsRuns ==
  ASSUME NEW n \in Nat, NEW r, NEW BB, NEW s \in PassStates(n, r, BB), NEW w, NEW a, Along(s.m.h, s.p, w) = a
  PROVE  TwoRuns(s, w) = [m |-> s.m, p |-> s.p, q |-> a.q, psize |-> a.psize, qsize |-> w,
                          list |-> s.list, tail |-> s.tail, nmerges |-> s.nmerges + 1]
<1> DEFINE s2 == [s EXCEPT !.q = a.q]
           s3 == [s2 EXCEPT !.psize = a.psize]
           s4 == [s3 EXCEPT !.qsize = w]
<1>1. TwoRuns(s, w) = [s4 EXCEPT !.nmerges = @ + 1]
  BY DEF TwoRuns
<1>2. s2 = [m |-> s.m, p |-> s.p, q |-> a.q, psize |-> s.psize, qsize |-> s.qsize,
            list |-> s.list, tail |-> s.tail, nmerges |-> s.nmerges]
  BY DEF PassStates
<1> HIDE DEF s2
<1>3. s3 = [m |-> s.m, p |-> s.p, q |-> a.q, psize |-> a.psize, qsize |-> s.qsize,
            list |-> s.list, tail |-> s.tail, nmerges |-> s.nmerges]
  BY <1>2
<1> HIDE DEF s3
<1>4. s4 = [m |-> s.m, p |-> s.p, q |-> a.q, psize |-> a.psize, qsize |-> w,
            list |-> s.list, tail |-> s.tail, nmerges |-> s.nmerges]
  BY <1>3
<1> HIDE DEF s4
<1>5. [s4 EXCEPT !.nmerges = @ + 1]
        = [m |-> s.m, p |-> s.p, q |-> a.q, psize |-> a.psize, qsize |-> w,
           list |-> s.list, tail |-> s.tail, nmerges |-> s.nmerges + 1]
  BY <1>4
<1>q. QED
  BY <1>1, <1>5

(* The merge of the next two runs begins.                                  *)
LEMMA BeginsMerge ==
  ASSUME NEW n \in Nat, NEW r, NEW BB, NEW cmp, NEW pos, NEW L \in Nat, NEW w \in Nat, w # 0, NEW e, NEW i,
         NEW s, Passing(cmp, n, r, BB, pos, L, w, e, i, s), i < L
  PROVE  Merging(cmp, n, r, BB, s.nmerges + 1, pos, L, Bounds(w, i) \ {i + w}, e, i, i,
                 Least(i + w, L), Least(i + 2 * w, L), TwoRuns(s, w))
<1> DEFINE x == Least(i + w, L)
           y == Least(i + 2 * w, L)
           B == Bounds(w, i) \ {i + w}
           s1 == TwoRuns(s, w)
           bef == BeforeIn(cmp, n, s.m.h, pos)
<1>1. /\ s \in PassStates(n, r, BB)
      /\ i \in Nat /\ i <= L /\ Multiple(i, 2 * w)
      /\ Threaded(n, s.m.h.next, e, L, i, i)
      /\ Runs(bef, pos, e, L, Bounds(w, i), 0, 0)
      /\ s.p = e[i + 1] /\ s.tail = Last(e, i) /\ s.list = (IF i = 0 THEN NULL ELSE e[1])
  BY DEF Passing
<1>2. s.m \in Machines(n, r, BB) /\ s.p \in 0 .. n /\ s.list \in 0 .. n /\ s.tail \in 0 .. n /\ s.nmerges \in Nat
  BY <1>1 DEF PassStates
<1>3. s.m.h.next \in Pointers(n)
  <2>1. s.m.h \in Heap(n)
    BY <1>2 DEF Machines, Heaps
  <2>q. QED
    BY <2>1, HeapIs
<1>4. Along(s.m.h, s.p, w) = [q |-> e[x + 1], psize |-> x - i]
  BY <1>1, <1>3, AlongIs
<1>5. /\ Between(B, L, i, i, x, y) /\ (y = L \/ y \in B) /\ B \subseteq Nat
      /\ \A j, k \in 1 .. L : j < k => (Parted(B, i, x, j, k) <=> Cut(Bounds(w, i), j, k))
      /\ \A b \in Nat : b < L => (b \in B <=> b \in Bounds(w, y))
      /\ y = L \/ (y = i + 2 * w /\ Multiple(y, 2 * w))
  BY <1>1, BoundsAre
<1>6. /\ x \in Nat /\ y \in Nat /\ i < x /\ x <= y /\ y <= L /\ x <= i + w /\ y <= i + 2 * w
      /\ (y = L \/ (y = i + 2 * w /\ x = i + w)) /\ (x = L \/ x = i + w)
  BY <1>1 DEF Least
<1>7. s1 = [m |-> s.m, p |-> s.p, q |-> e[x + 1], psize |-> x - i, qsize |-> w,
            list |-> s.list, tail |-> s.tail, nmerges |-> s.nmerges + 1]
  <2> DEFINE a == [q |-> e[x + 1], psize |-> x - i]
  <2> HIDE DEF x, s1
  <2>1. a.q = e[x + 1] /\ a.psize = x - i
    OBVIOUS
  <2> HIDE DEF a
  <2>2. TwoRuns(s, w) = [m |-> s.m, p |-> s.p, q |-> a.q, psize |-> a.psize, qsize |-> w,
                         list |-> s.list, tail |-> s.tail, nmerges |-> s.nmerges + 1]
    BY <1>1, <1>4, StartsRuns DEF a
  <2>q. QED
    BY <2>1, <2>2 DEF s1
<1> HIDE DEF x, y, B, s1
<1>8. e[x + 1] \in 0 .. n
  <2>1. x + 1 \in 1 .. L + 1
    BY <1>6
  <2>q. QED
    BY <1>1, <2>1 DEF Threaded
<1>9. /\ s1.m = s.m /\ s1.p = s.p /\ s1.q = e[x + 1] /\ s1.psize = x - i /\ s1.qsize = w
      /\ s1.list = s.list /\ s1.tail = s.tail
  BY <1>7
<1>10. s1 \in MergeStates(n, r, BB, s.nmerges + 1)
  <2>1. x - i \in Nat
    BY <1>1, <1>6
  <2>q. QED
    BY <1>2, <1>7, <1>8, <2>1 DEF MergeStates
<1>11. Threaded(n, s1.m.h.next, e, L, i, x)
  BY <1>1, <1>9 DEF Threaded
<1>12. Runs(bef, pos, e, L, B, i, x)
  <2>1. \A j, k \in 1 .. L : j < k => (Parted(Bounds(w, i), 0, 0, j, k) <=> Parted(B, i, x, j, k))
    <3>1. \A j, k \in 1 .. L : Parted(Bounds(w, i), 0, 0, j, k) <=> Cut(Bounds(w, i), j, k)
      BY DEF Parted
    <3>q. QED
      BY <1>5, <3>1
  <2> HIDE DEF bef
  <2>q. QED
    BY <1>1, <2>1, RunsSame
<1>13. y - x <= s1.qsize /\ (y = L \/ s1.qsize = y - x)
  BY <1>1, <1>6, <1>9
<1>14. Merging(cmp, n, r, BB, s.nmerges + 1, pos, L, B, e, i, i, x, y, s1)
  BY <1>1, <1>5, <1>9, <1>10, <1>11, <1>12, <1>13 DEF Merging
<1>q. QED
  BY <1>14 DEF x, y, B, s1

(* And it ends: the pass goes on behind it.                                *)
Further(cmp, n, r, BB, pos, L, w, e, i, s) ==
  \E d : /\ Passing(cmp, n, r, BB, pos, L, w, d, Least(i + 2 * w, L), s)
         /\ CellsOf(d, L) = CellsOf(e, L)

\* A turn of a pass merges the next two runs; at the end of the list there are none.
LEMMA PassTurnIs ==
  ASSUME NEW n \in Nat, NEW r, NEW BB, Able(n, r, BB), NEW cmp \in Cmps, NEW pos \in [1 .. n -> Nat],
         NEW L \in Nat, NEW w \in Nat, w # 0, NEW e, NEW i,
         NEW s, Passing(cmp, n, r, BB, pos, L, w, e, i, s)
  PROVE  IF i = L THEN PassTurn(s, w, cmp) = s
         ELSE Further(cmp, n, r, BB, pos, L, w, e, i, PassTurn(s, w, cmp))
<1>1. /\ s \in PassStates(n, r, BB)
      /\ i \in Nat /\ i <= L /\ (i = L \/ Multiple(i, 2 * w))
      /\ s.p = e[i + 1]
      /\ (s.nmerges = 0 => i = 0) /\ (s.nmerges = 1 => i <= 2 * w)
      /\ e[L + 1] = NULL /\ \A j \in 1 .. L : e[j] # NULL
  BY DEF Passing, Threaded
<1>2. CASE i = L
  BY <1>1, <1>2 DEF PassTurn
<1>3. CASE i # L
  <2> DEFINE x == Least(i + w, L)
             y == Least(i + 2 * w, L)
             B == Bounds(w, i) \ {i + w}
             t == s.nmerges + 1
             u == Merged(TwoRuns(s, w), cmp)
             v == PassTurn(s, w, cmp)
  <2>1. i < L /\ i + 1 \in 1 .. L
    BY <1>1, <1>3
  <2>2. v = [u EXCEPT !.p = u.q]
    BY <1>1, <2>1 DEF PassTurn
  <2>3. Merging(cmp, n, r, BB, t, pos, L, B, e, i, i, x, y, TwoRuns(s, w))
    BY <2>1, BeginsMerge
  <2>4. /\ (y = L \/ y \in B) /\ B \subseteq Nat
        /\ \A b \in Nat : b < L => (b \in B <=> b \in Bounds(w, y))
        /\ y = L \/ (y = i + 2 * w /\ Multiple(y, 2 * w))
    BY <1>1, <2>1, BoundsAre
  <2>5. y \in Nat /\ i < y /\ y <= L /\ y <= i + 2 * w
    BY <1>1, <2>1 DEF Least
  <2> HIDE DEF B, x, y, t, u, v
  <2>6. PICK d : /\ Merging(cmp, n, r, BB, t, pos, L, B, d, i, y, y, y, u)
                 /\ CellsOf(d, L) = CellsOf(e, L)
    <3>1. MergeDone(cmp, n, r, BB, t, pos, L, B, e, i, y, Merged(TwoRuns(s, w), cmp))
      BY <2>3, <2>4, MergedIs
    <3>q. QED
      BY <3>1 DEF u, MergeDone
  <2>7. /\ u \in MergeStates(n, r, BB, t)
        /\ Threaded(n, u.m.h.next, d, L, y, y)
        /\ Runs(BeforeIn(cmp, n, u.m.h, pos), pos, d, L, B, y, y)
        /\ u.q = d[y + 1] /\ u.tail = Last(d, y) /\ u.list = (IF y = 0 THEN NULL ELSE d[1])
    BY <2>6 DEF Merging
  <2>8. v = [m |-> u.m, p |-> u.q, q |-> u.q, psize |-> u.psize, qsize |-> u.qsize,
             list |-> u.list, tail |-> u.tail, nmerges |-> t]
    BY <2>2, <2>7 DEF MergeStates
  <2>9. s.nmerges \in Nat /\ t \in Nat
    BY <1>1 DEF PassStates, t
  <2>10. v \in PassStates(n, r, BB)
    <3>1. /\ u.m \in Machines(n, r, BB) /\ u.q \in 0 .. n /\ u.psize \in Nat /\ u.qsize \in Nat
          /\ u.list \in 0 .. n /\ u.tail \in 0 .. n
      BY <2>7 DEF MergeStates
    <3>q. QED
      BY <2>8, <2>9, <3>1 DEF PassStates
  <2>11. v.m = u.m /\ v.p = u.q /\ v.list = u.list /\ v.tail = u.tail /\ v.nmerges = t
    BY <2>8
  <2>12. Runs(BeforeIn(cmp, n, v.m.h, pos), pos, d, L, Bounds(w, y), 0, 0)
    <3> DEFINE bef == BeforeIn(cmp, n, u.m.h, pos)
    <3>1. \A j, k \in 1 .. L : j < k => (Parted(B, y, y, j, k) <=> Parted(Bounds(w, y), 0, 0, j, k))
      <4> TAKE j, k \in 1 .. L
      <4> HAVE j < k
      <4>1. Cut(B, j, k) <=> Cut(Bounds(w, y), j, k)
        <5>1. \A b \in Bounds(w, y) : b \in Nat
          BY DEF Bounds
        <5>2. \A b \in B : b \in Nat
          BY <2>4
        <5>q. QED
          BY <2>4, <5>1, <5>2 DEF Cut
      <4>2. ~ (y < j /\ j <= y /\ y < k) /\ ~ (0 < j /\ j <= 0 /\ 0 < k)
        BY <2>5
      <4>q. QED
        BY <4>1, <4>2 DEF Parted
    <3>2. Runs(bef, pos, d, L, B, y, y)
      BY <2>7
    <3> HIDE DEF bef
    <3>3. Runs(bef, pos, d, L, Bounds(w, y), 0, 0)
      BY <3>1, <3>2, RunsSame
    <3>q. QED
      BY <2>11, <3>3 DEF bef
  <2>13. (v.nmerges = 0 => y = 0) /\ (v.nmerges = 1 => y <= 2 * w)
    BY <1>1, <2>5, <2>9, <2>11 DEF t
  <2>14. Passing(cmp, n, r, BB, pos, L, w, d, y, v)
    BY <2>4, <2>5, <2>7, <2>10, <2>11, <2>12, <2>13 DEF Passing
  <2>q. QED
    BY <1>3, <2>6, <2>14 DEF Further, v, y
<1>q. QED
  BY <1>2, <1>3

(* What a pass may come to.                                                *)
PassSet(cmp, n, r, BB, pos, L, w, e) ==
  {s \in PassStates(n, r, BB) :
     \E d, i : Passing(cmp, n, r, BB, pos, L, w, d, i, s) /\ CellsOf(d, L) = CellsOf(e, L)}

\* Every turn of a pass stays among the states a pass may reach.
LEMMA PassSetClosed ==
  ASSUME NEW n \in Nat, NEW r, NEW BB, Able(n, r, BB), NEW cmp \in Cmps, NEW pos \in [1 .. n -> Nat],
         NEW L \in Nat, NEW w \in Nat, w # 0, NEW e,
         NEW s \in PassSet(cmp, n, r, BB, pos, L, w, e)
  PROVE  PassTurn(s, w, cmp) \in PassSet(cmp, n, r, BB, pos, L, w, e)
<1>1. PICK d, i : Passing(cmp, n, r, BB, pos, L, w, d, i, s) /\ CellsOf(d, L) = CellsOf(e, L)
  BY DEF PassSet
<1>2. IF i = L THEN PassTurn(s, w, cmp) = s
      ELSE Further(cmp, n, r, BB, pos, L, w, d, i, PassTurn(s, w, cmp))
  BY <1>1, PassTurnIs
<1>3. CASE i = L
  BY <1>2, <1>3
<1>4. CASE i # L
  <2> DEFINE u == PassTurn(s, w, cmp)
             y == Least(i + 2 * w, L)
  <2> HIDE DEF u, y
  <2>1. PICK g : Passing(cmp, n, r, BB, pos, L, w, g, y, u) /\ CellsOf(g, L) = CellsOf(d, L)
    BY <1>2, <1>4 DEF Further, u, y
  <2>2. u \in PassStates(n, r, BB)
    BY <2>1 DEF Passing
  <2>3. u \in PassSet(cmp, n, r, BB, pos, L, w, e)
    BY <1>1, <2>1, <2>2 DEF PassSet
  <2>q. QED
    BY <2>3 DEF u
<1>q. QED
  BY <1>3, <1>4

(* The pass, turn by turn.                                                 *)
Passes(cmp, n, r, BB, pos, L, w, e, s, at) ==
  /\ at[0] = s
  /\ \A k \in Nat : at[k] \in PassSet(cmp, n, r, BB, pos, L, w, e) /\ at[k + 1] = PassTurn(at[k], w, cmp)

\* The turns of a pass are a function of their number.
LEMMA PassesAre ==
  ASSUME NEW n \in Nat, NEW r, NEW BB, Able(n, r, BB), NEW cmp \in Cmps, NEW pos \in [1 .. n -> Nat],
         NEW L \in Nat, NEW w \in Nat, w # 0, NEW e,
         NEW s \in PassSet(cmp, n, r, BB, pos, L, w, e)
  PROVE  Passes(cmp, n, r, BB, pos, L, w, e, s, Pass(s, w, cmp))
<1> DEFINE S == PassSet(cmp, n, r, BB, pos, L, w, e)
           turn == [k \in Nat |-> [x \in S |-> PassTurn(x, w, cmp)]]
           at == Pass(s, w, cmp)
<1>1. ASSUME NEW k \in Nat, NEW x \in S PROVE PassTurn(x, w, cmp) \in S
  BY <1>1, PassSetClosed
<1>2. turn \in [Nat -> [S -> S]]
  <2> HIDE DEF S
  <2>q. QED
    BY <1>1
<1>3. s \in S
  OBVIOUS
<1>4. PICK f : Loops(S, s, turn, f)
  <2> HIDE DEF S, turn
  <2>q. QED
    BY <1>2, <1>3, LoopExists
<1>5. f = [k \in Nat |-> IF k = 0 THEN s ELSE PassTurn(f[k - 1], w, cmp)]
  <2>1. f \in [Nat -> S] /\ f = [k \in Nat |-> IF k = 0 THEN s ELSE turn[k - 1][f[k - 1]]]
    BY <1>4 DEF Loops
  <2>2. ASSUME NEW k \in Nat, k # 0 PROVE turn[k - 1][f[k - 1]] = PassTurn(f[k - 1], w, cmp)
    <3>1. k - 1 \in Nat
      BY <2>2
    <3>2. f[k - 1] \in S
      BY <2>1, <3>1
    <3> HIDE DEF S
    <3>q. QED
      BY <3>1, <3>2
  <2> HIDE DEF turn, S
  <2>q. QED
    BY <2>1, <2>2
<1>6. at = [k \in Nat |-> IF k = 0 THEN s ELSE PassTurn(at[k - 1], w, cmp)]
  BY <1>5 DEF Pass
<1> HIDE DEF at
<1>7. at[0] = s /\ \A k \in Nat : at[k + 1] = PassTurn(at[k], w, cmp)
  <2>1. at[0] = s
    BY <1>6
  <2>2. ASSUME NEW k \in Nat PROVE at[k + 1] = PassTurn(at[k], w, cmp)
    <3>1. k + 1 \in Nat /\ k + 1 # 0 /\ (k + 1) - 1 = k
      OBVIOUS
    <3>q. QED
      BY <1>6, <3>1
  <2>q. QED
    BY <2>1, <2>2
<1>8. \A k \in Nat : at[k] \in S => at[k + 1] = turn[k][at[k]]
  <2> HIDE DEF S
  <2>q. QED
    BY <1>7
<1>9. \A k \in Nat : at[k] \in S
  <2> HIDE DEF S, turn
  <2>q. QED
    BY <1>2, <1>3, <1>7, <1>8, LoopIs
<1>q. QED
  BY <1>7, <1>9 DEF at, S, Passes

(* A pass has as many turns as it needs.                                   *)
LEMMA EnoughTurns ==
  ASSUME NEW n \in Nat, NEW w \in Nat, w # 0
  PROVE  n \div w + 1 \in Nat /\ n < (n \div w + 1) * w
OBVIOUS

PassDone(cmp, n, r, BB, pos, L, w, e, s) ==
  \E d : Passing(cmp, n, r, BB, pos, L, w, d, L, s) /\ CellsOf(d, L) = CellsOf(e, L)

\* A pass comes to the end of the list.
LEMMA PassedIs ==
  ASSUME NEW n \in Nat, NEW r, NEW BB, Able(n, r, BB), NEW cmp \in Cmps, NEW pos \in [1 .. n -> Nat],
         NEW L \in Nat, NEW w \in Nat, w # 0, NEW e, L <= n, NEW s,
         Passing(cmp, n, r, BB, pos, L, w, e, 0, s)
  PROVE  PassDone(cmp, n, r, BB, pos, L, w, e, Pass(s, w, cmp)[n \div (2 * w) + 1])
<1> DEFINE at == Pass(s, w, cmp)
           There(d, i, u) == Passing(cmp, n, r, BB, pos, L, w, d, i, u) /\ CellsOf(d, L) = CellsOf(e, L)
           T == {k \in Nat : \E d, i : There(d, i, at[k]) /\ (i = L \/ i = k * (2 * w))}
<1>1. s \in PassStates(n, r, BB)
  BY DEF Passing
<1>2. s \in PassSet(cmp, n, r, BB, pos, L, w, e)
  BY <1>1 DEF PassSet
<1>3. Passes(cmp, n, r, BB, pos, L, w, e, s, at)
  BY <1>2, PassesAre
<1>4. at[0] = s /\ \A k \in Nat : at[k + 1] = PassTurn(at[k], w, cmp)
  BY <1>3 DEF Passes
<1> HIDE DEF at
<1>5. 0 \in T
  <2>1. There(e, 0, at[0]) /\ 0 = 0 * (2 * w)
    BY <1>4
  <2> HIDE DEF There
  <2>q. QED
    BY <2>1
<1>6. ASSUME NEW k \in Nat, k \in T PROVE k + 1 \in T
  <2>1. PICK d, i : There(d, i, at[k]) /\ (i = L \/ i = k * (2 * w))
    BY <1>6
  <2>2. Passing(cmp, n, r, BB, pos, L, w, d, i, at[k]) /\ CellsOf(d, L) = CellsOf(e, L)
    BY <2>1
  <2>3. IF i = L THEN PassTurn(at[k], w, cmp) = at[k]
        ELSE Further(cmp, n, r, BB, pos, L, w, d, i, PassTurn(at[k], w, cmp))
    BY <2>2, PassTurnIs
  <2>4. at[k + 1] = PassTurn(at[k], w, cmp) /\ k + 1 \in Nat /\ i \in Nat /\ i <= L
    BY <1>4, <2>2 DEF Passing
  <2>5. CASE i = L
    <3>1. There(d, i, at[k + 1])
      BY <2>1, <2>3, <2>4, <2>5
    <3> HIDE DEF There
    <3>q. QED
      BY <2>4, <2>5, <3>1
  <2>6. CASE i # L
    <3> DEFINE y == Least(i + 2 * w, L)
    <3> HIDE DEF y
    <3>1. Further(cmp, n, r, BB, pos, L, w, d, i, at[k + 1])
      BY <2>3, <2>4, <2>6
    <3>2. PICK g : Passing(cmp, n, r, BB, pos, L, w, g, y, at[k + 1]) /\ CellsOf(g, L) = CellsOf(d, L)
      BY <3>1 DEF Further, y
    <3>3. There(g, y, at[k + 1])
      BY <2>2, <3>2
    <3>4. y = L \/ y = (k + 1) * (2 * w)
      <4>1. y = L \/ y = i + 2 * w
        BY DEF Least, y
      <4>2. k * (2 * w) + 2 * w = (k + 1) * (2 * w)
        OBVIOUS
      <4>q. QED
        BY <2>1, <2>6, <4>1, <4>2
    <3> HIDE DEF There
    <3>q. QED
      BY <2>4, <3>3, <3>4
  <2>q. QED
    BY <2>5, <2>6
<1>7. \A k \in Nat : k \in T
  <2> HIDE DEF T
  <2>q. QED
    BY <1>5, <1>6, Induction
<1> DEFINE k == n \div (2 * w) + 1
<1>8. k \in Nat /\ n < k * (2 * w)
  <2>1. 2 * w \in Nat /\ 2 * w # 0
    OBVIOUS
  <2> DEFINE v == 2 * w
  <2> HIDE DEF v
  <2>2. v \in Nat /\ v # 0
    BY <2>1 DEF v
  <2>3. n \div v + 1 \in Nat /\ n < (n \div v + 1) * v
    BY <2>2, EnoughTurns
  <2>q. QED
    BY <2>3 DEF v
<1> HIDE DEF k
<1>9. k \in T
  BY <1>7, <1>8
<1>10. PICK d, i : There(d, i, at[k]) /\ (i = L \/ i = k * (2 * w))
  BY <1>9
<1>11. Passing(cmp, n, r, BB, pos, L, w, d, i, at[k]) /\ CellsOf(d, L) = CellsOf(e, L)
  BY <1>10
<1>12. i \in Nat /\ i <= L
  BY <1>11 DEF Passing
<1>13. i = L
  BY <1>8, <1>10, <1>12
<1>14. PassDone(cmp, n, r, BB, pos, L, w, e, at[k])
  BY <1>11, <1>13 DEF PassDone
<1>q. QED
  BY <1>14 DEF at, k

-----------------------------------------------------------------------------
(* core_list_mergesort, a pass at a time.                                  *)

(* The cells before a pass of runs of w cells, and after it.               *)
Sorting(cmp, n, r, BB, pos, L, w, e, m, list) ==
  /\ m \in Machines(n, r, BB)
  /\ Chain(n, m.h.next, e, L) /\ list = e[1]
  /\ Runs(BeforeIn(cmp, n, m.h, pos), pos, e, L, Multiples(w), 0, 0)

Sorted(cmp, n, pos, L, e, h) == \A i, j \in 1 .. L : i < j => <<e[i], e[j]>> \in BeforeIn(cmp, n, h, pos)

PassedOnce(cmp, n, r, BB, pos, L, w, e, s) ==
  \E d : /\ Sorting(cmp, n, r, BB, pos, L, 2 * w, d, s.m, s.list)
         /\ CellsOf(d, L) = CellsOf(e, L)
         /\ s.nmerges <= 1 => Sorted(cmp, n, pos, L, d, s.m.h)

\* One pass of core_list_mergesort: runs twice as long, sorted, or the list.
LEMMA SortPassIs ==
  ASSUME NEW n \in Nat, NEW r, NEW BB, Able(n, r, BB), NEW cmp \in Cmps, NEW pos \in [1 .. n -> Nat],
         NEW L \in Nat, NEW w \in Nat, w # 0, NEW e, L # 0,
         NEW m, NEW list, Sorting(cmp, n, r, BB, pos, L, w, e, m, list)
  PROVE  PassedOnce(cmp, n, r, BB, pos, L, w, e, SortPass(m, list, w, cmp))
<1> DEFINE start == [m |-> m, p |-> list, q |-> NULL, psize |-> 0, qsize |-> 0,
                     list |-> NULL, tail |-> NULL, nmerges |-> 0]
           u == Pass(start, w, cmp)[n \div (2 * w) + 1]
           v == SortPass(m, list, w, cmp)
           bef(h) == BeforeIn(cmp, n, h, pos)
<1>1. /\ m \in Machines(n, r, BB)
      /\ Chain(n, m.h.next, e, L) /\ list = e[1]
      /\ Runs(bef(m.h), pos, e, L, Multiples(w), 0, 0)
  BY DEF Sorting
<1>2. m.h.next \in Pointers(n)
  <2>1. m.h \in Heap(n)
    BY <1>1 DEF Machines, Heaps
  <2>q. QED
    BY <2>1, HeapIs
<1>3. L <= n /\ Turns(m.h) = n
  <2>1. L <= n
    BY <1>1, ChainLength
  <2>q. QED
    BY <1>2, <2>1, TurnsAre
<1>4. v = [m |-> [u.m EXCEPT !.h.next[u.tail] = NULL], list |-> u.list, nmerges |-> u.nmerges]
  BY <1>3 DEF SortPass
<1>5. Passing(cmp, n, r, BB, pos, L, w, e, 0, start)
  <2>1. list \in 0 .. n
    BY <1>1 DEF Chain
  <2>2. start \in PassStates(n, r, BB)
    BY <1>1, <2>1 DEF PassStates, NULL
  <2>3. Multiple(0, 2 * w)
    <3>1. 0 = 0 * (2 * w)
      OBVIOUS
    <3>q. QED
      BY <3>1 DEF Multiple
  <2>4. Threaded(n, m.h.next, e, L, 0, 0)
    BY <1>1 DEF Threaded, Chain
  <2>5. Runs(bef(m.h), pos, e, L, Bounds(w, 0), 0, 0)
    <3>1. Bounds(w, 0) = Multiples(w)
      BY DEF Bounds, Multiples
    <3>q. QED
      BY <1>1, <3>1
  <2>q. QED
    BY <1>1, <2>2, <2>3, <2>4, <2>5 DEF Passing, Last
<1> HIDE DEF start
<1>6. PassDone(cmp, n, r, BB, pos, L, w, e, u)
  BY <1>3, <1>5, PassedIs
<1> HIDE DEF u, v
<1>7. PICK d : Passing(cmp, n, r, BB, pos, L, w, d, L, u) /\ CellsOf(d, L) = CellsOf(e, L)
  BY <1>6 DEF PassDone
<1>8. /\ u \in PassStates(n, r, BB)
      /\ Threaded(n, u.m.h.next, d, L, L, L)
      /\ Runs(bef(u.m.h), pos, d, L, Bounds(w, L), 0, 0)
      /\ u.tail = d[L] /\ u.list = d[1] /\ (u.nmerges = 1 => L <= 2 * w) /\ u.nmerges # 0
  BY <1>7 DEF Passing, Last
<1>9. u.m \in Machines(n, r, BB) /\ u.nmerges \in Nat
  BY <1>8 DEF PassStates
<1>10. /\ d \in [1 .. L + 1 -> 0 .. n] /\ d[L + 1] = NULL
       /\ \A i \in 1 .. L : d[i] # NULL /\ (i # L => u.m.h.next[d[i]] = d[i + 1])
       /\ \A i, j \in 1 .. L : d[i] = d[j] => i = j
  BY <1>8 DEF Threaded
<1>11. L \in 1 .. L /\ \A i \in 1 .. L : d[i] \in 1 .. n
  BY <1>10 DEF NULL
<1> DEFINE m2 == [u.m EXCEPT !.h.next[d[L]] = NULL]
<1>12. /\ m2 \in Machines(n, r, BB)
       /\ m2.h.next = [u.m.h.next EXCEPT ![d[L]] = NULL]
       /\ m2.h.data16 = u.m.h.data16 /\ m2.h.idx = u.m.h.idx
  <2> DEFINE c == d[L]
             k == NULL
  <2>1. c \in 1 .. n /\ k \in 0 .. n
    BY <1>11 DEF NULL
  <2> HIDE DEF c, k
  <2>2. Pointed(n, r, BB, u.m, c, k, [u.m EXCEPT !.h.next[c] = k])
    BY <1>9, <2>1, MachineLinked
  <2>q. QED
    BY <2>2 DEF c, k, Pointed
<1>13. v.m = m2 /\ v.list = d[1] /\ v.nmerges = u.nmerges
  BY <1>4, <1>8
<1> HIDE DEF m2
<1>14. Chain(n, m2.h.next, d, L)
  <2>1. u.m.h.next \in Pointers(n)
    <3>1. u.m.h \in Heap(n)
      BY <1>9 DEF Machines, Heaps
    <3>q. QED
      BY <3>1, HeapIs
  <2>2. ASSUME NEW i \in 1 .. L PROVE m2.h.next[d[i]] = d[i + 1]
    <3>1. CASE i = L
      BY <1>10, <1>11, <1>12, <2>1, <3>1 DEF Pointers
    <3>2. CASE i # L
      <4>1. d[i] # d[L]
        BY <1>10, <1>11, <3>2
      <4>q. QED
        BY <1>10, <1>11, <1>12, <2>1, <3>2, <4>1 DEF Pointers
    <3>q. QED
      BY <3>1, <3>2
  <2>q. QED
    BY <1>10, <2>2 DEF Chain
<1>15. bef(m2.h) = bef(u.m.h)
  BY <1>12 DEF BeforeIn, Before, Settled, Key
<1>16. Runs(bef(m2.h), pos, d, L, Multiples(2 * w), 0, 0)
  <2>1. \A j, k \in 1 .. L : j < k => (Parted(Bounds(w, L), 0, 0, j, k) <=> Parted(Multiples(2 * w), 0, 0, j, k))
    <3> TAKE j, k \in 1 .. L
    <3> HAVE j < k
    <3>1. \A b \in Nat : b < L => (b \in Bounds(w, L) <=> b \in Multiples(2 * w))
      <4> TAKE b \in Nat
      <4> HAVE b < L
      <4>1. Multiple(b, 2 * w) => Multiple(b, w)
        BY MultipleIs
      <4>q. QED
        BY <4>1 DEF Bounds, Multiples
    <3>2. Bounds(w, L) \subseteq Nat /\ Multiples(2 * w) \subseteq Nat
      BY DEF Bounds, Multiples
    <3>3. Cut(Bounds(w, L), j, k) <=> Cut(Multiples(2 * w), j, k)
      BY <3>1, <3>2 DEF Cut
    <3>q. QED
      BY <3>3 DEF Parted
  <2> DEFINE S == bef(u.m.h)
  <2>2. Runs(S, pos, d, L, Bounds(w, L), 0, 0)
    BY <1>8
  <2> HIDE DEF S
  <2>3. Runs(S, pos, d, L, Multiples(2 * w), 0, 0)
    BY <2>1, <2>2, RunsSame
  <2>q. QED
    BY <1>15, <2>3 DEF S
<1>17. Sorting(cmp, n, r, BB, pos, L, 2 * w, d, v.m, v.list)
  BY <1>12, <1>13, <1>14, <1>16 DEF Sorting
<1>18. ASSUME v.nmerges <= 1 PROVE Sorted(cmp, n, pos, L, d, v.m.h)
  <2>1. L <= 2 * w
    BY <1>8, <1>9, <1>13, <1>18
  <2>2. ASSUME NEW i \in 1 .. L, NEW j \in 1 .. L, i < j PROVE ~ Parted(Multiples(2 * w), 0, 0, i, j)
    <3> SUFFICES ASSUME NEW t \in Nat, i <= t * (2 * w), t * (2 * w) < j PROVE FALSE
      BY DEF Parted, Cut, Multiples, Multiple
    <3>1. t * (2 * w) < 2 * w /\ 0 < t * (2 * w)
      BY <2>1
    <3>2. t # 0
      BY <3>1
    <3>3. t * (2 * w) >= 1 * (2 * w)
      BY <3>2
    <3>q. QED
      BY <3>1, <3>3
  <2>q. QED
    BY <1>13, <1>16, <2>2 DEF Sorted, Runs
<1>q. QED
  BY <1>7, <1>17, <1>18 DEF PassedOnce, v

-----------------------------------------------------------------------------
(* What the digits say of the number.                                      *)

(* The 14 low bits.                                                        *)
LowBits(b) ==
  Nibble(b[0], b[1], b[2], b[3]) + 16 * Nibble(b[4], b[5], b[6], b[7])
  + 256 * Nibble(b[8], b[9], b[10], b[11]) + 4096 * Nibble(b[12], b[13], 0, 0)

(* The digits of a number.                                                 *)
LEMMA DigitIs ==
  ASSUME NEW x \in Nat
  PROVE  \A p \in 0 .. 15 : DigitsOf(x)[p] = BitOf(x, p)
BY DEF DigitsOf

\* The low fourteen bits of a number, by its digits.
LEMMA LowBitsAre ==
  ASSUME NEW x \in Nat
  PROVE  x % 16384 = LowBits(DigitsOf(x))
<1> DEFINE d == DigitsOf(x)
<1>1. \A p \in 0 .. 15 : d[p] = (x \div 2^p) % 2
  BY DigitIs DEF BitOf
<1>2. d \in Bits16
  BY DigitsAre
<1> HIDE DEF d
<1>b. /\ d[0] \in Int /\ d[1] \in Int /\ d[2] \in Int /\ d[3] \in Int /\ d[4] \in Int /\ d[5] \in Int
      /\ d[6] \in Int /\ d[7] \in Int /\ d[8] \in Int /\ d[9] \in Int /\ d[10] \in Int
      /\ d[11] \in Int /\ d[12] \in Int /\ d[13] \in Int
  BY <1>2, BitsAre
<1>3. x % 2 = 0 + 1 * d[0]
  <2>1. 2^0 = 1 /\ 0 \in 0 .. 15
    OBVIOUS
  <2>2. d[0] = (x \div 2^0) % 2
    BY <1>1, <2>1
  <2>3. d[0] = (x \div 1) % 2
    BY <2>1, <2>2
  <2>4. x % 2 = 0 + 1 * ((x \div 1) % 2)
    BY SMTT(30)
  <2>q. QED
    BY <2>3, <2>4
<1>4. x % 4 = (x % 2) + 2 * d[1]
  <2>1. 2^1 = 2 /\ 1 \in 0 .. 15
    OBVIOUS
  <2>2. d[1] = (x \div 2^1) % 2
    BY <1>1, <2>1
  <2>3. d[1] = (x \div 2) % 2
    BY <2>1, <2>2
  <2>4. x % 4 = (x % 2) + 2 * ((x \div 2) % 2)
    BY SMTT(30)
  <2>q. QED
    BY <2>3, <2>4
<1>5. x % 8 = (x % 4) + 4 * d[2]
  <2>1. 2^2 = 4 /\ 2 \in 0 .. 15
    OBVIOUS
  <2>2. d[2] = (x \div 2^2) % 2
    BY <1>1, <2>1
  <2>3. d[2] = (x \div 4) % 2
    BY <2>1, <2>2
  <2>4. x % 8 = (x % 4) + 4 * ((x \div 4) % 2)
    BY SMTT(30)
  <2>q. QED
    BY <2>3, <2>4
<1>6. x % 16 = (x % 8) + 8 * d[3]
  <2>1. 2^3 = 8 /\ 3 \in 0 .. 15
    OBVIOUS
  <2>2. d[3] = (x \div 2^3) % 2
    BY <1>1, <2>1
  <2>3. d[3] = (x \div 8) % 2
    BY <2>1, <2>2
  <2>4. x % 16 = (x % 8) + 8 * ((x \div 8) % 2)
    BY SMTT(30)
  <2>q. QED
    BY <2>3, <2>4
<1>7. x % 32 = (x % 16) + 16 * d[4]
  <2>1. 2^4 = 16 /\ 4 \in 0 .. 15
    OBVIOUS
  <2>2. d[4] = (x \div 2^4) % 2
    BY <1>1, <2>1
  <2>3. d[4] = (x \div 16) % 2
    BY <2>1, <2>2
  <2>4. x % 32 = (x % 16) + 16 * ((x \div 16) % 2)
    BY SMTT(30)
  <2>q. QED
    BY <2>3, <2>4
<1>8. x % 64 = (x % 32) + 32 * d[5]
  <2>1. 2^5 = 32 /\ 5 \in 0 .. 15
    OBVIOUS
  <2>2. d[5] = (x \div 2^5) % 2
    BY <1>1, <2>1
  <2>3. d[5] = (x \div 32) % 2
    BY <2>1, <2>2
  <2>4. x % 64 = (x % 32) + 32 * ((x \div 32) % 2)
    BY SMTT(30)
  <2>q. QED
    BY <2>3, <2>4
<1>9. x % 128 = (x % 64) + 64 * d[6]
  <2>1. 2^6 = 64 /\ 6 \in 0 .. 15
    OBVIOUS
  <2>2. d[6] = (x \div 2^6) % 2
    BY <1>1, <2>1
  <2>3. d[6] = (x \div 64) % 2
    BY <2>1, <2>2
  <2>4. x % 128 = (x % 64) + 64 * ((x \div 64) % 2)
    BY SMTT(30)
  <2>q. QED
    BY <2>3, <2>4
<1>10. x % 256 = (x % 128) + 128 * d[7]
  <2>1. 2^7 = 128 /\ 7 \in 0 .. 15
    OBVIOUS
  <2>2. d[7] = (x \div 2^7) % 2
    BY <1>1, <2>1
  <2>3. d[7] = (x \div 128) % 2
    BY <2>1, <2>2
  <2>4. x % 256 = (x % 128) + 128 * ((x \div 128) % 2)
    BY SMTT(30)
  <2>q. QED
    BY <2>3, <2>4
<1>11. x % 512 = (x % 256) + 256 * d[8]
  <2>1. 2^8 = 256 /\ 8 \in 0 .. 15
    OBVIOUS
  <2>2. d[8] = (x \div 2^8) % 2
    BY <1>1, <2>1
  <2>3. d[8] = (x \div 256) % 2
    BY <2>1, <2>2
  <2>4. x % 512 = (x % 256) + 256 * ((x \div 256) % 2)
    BY SMTT(30)
  <2>q. QED
    BY <2>3, <2>4
<1>12. x % 1024 = (x % 512) + 512 * d[9]
  <2>1. 2^9 = 512 /\ 9 \in 0 .. 15
    OBVIOUS
  <2>2. d[9] = (x \div 2^9) % 2
    BY <1>1, <2>1
  <2>3. d[9] = (x \div 512) % 2
    BY <2>1, <2>2
  <2>4. x % 1024 = (x % 512) + 512 * ((x \div 512) % 2)
    BY SMTT(30)
  <2>q. QED
    BY <2>3, <2>4
<1>13. x % 2048 = (x % 1024) + 1024 * d[10]
  <2>1. 2^10 = 1024 /\ 10 \in 0 .. 15
    OBVIOUS
  <2>2. d[10] = (x \div 2^10) % 2
    BY <1>1, <2>1
  <2>3. d[10] = (x \div 1024) % 2
    BY <2>1, <2>2
  <2>4. x % 2048 = (x % 1024) + 1024 * ((x \div 1024) % 2)
    BY SMTT(30)
  <2>q. QED
    BY <2>3, <2>4
<1>14. x % 4096 = (x % 2048) + 2048 * d[11]
  <2>1. 2^11 = 2048 /\ 11 \in 0 .. 15
    OBVIOUS
  <2>2. d[11] = (x \div 2^11) % 2
    BY <1>1, <2>1
  <2>3. d[11] = (x \div 2048) % 2
    BY <2>1, <2>2
  <2>4. x % 4096 = (x % 2048) + 2048 * ((x \div 2048) % 2)
    BY SMTT(30)
  <2>q. QED
    BY <2>3, <2>4
<1>15. x % 8192 = (x % 4096) + 4096 * d[12]
  <2>1. 2^12 = 4096 /\ 12 \in 0 .. 15
    OBVIOUS
  <2>2. d[12] = (x \div 2^12) % 2
    BY <1>1, <2>1
  <2>3. d[12] = (x \div 4096) % 2
    BY <2>1, <2>2
  <2>4. x % 8192 = (x % 4096) + 4096 * ((x \div 4096) % 2)
    BY SMTT(30)
  <2>q. QED
    BY <2>3, <2>4
<1>16. x % 16384 = (x % 8192) + 8192 * d[13]
  <2>1. 2^13 = 8192 /\ 13 \in 0 .. 15
    OBVIOUS
  <2>2. d[13] = (x \div 2^13) % 2
    BY <1>1, <2>1
  <2>3. d[13] = (x \div 8192) % 2
    BY <2>1, <2>2
  <2>4. x % 16384 = (x % 8192) + 8192 * ((x \div 8192) % 2)
    BY SMTT(30)
  <2>q. QED
    BY <2>3, <2>4
<1>20. x % 16 = Nibble(d[0], d[1], d[2], d[3]) /\ x % 16 \in Int
  BY <1>b, <1>3, <1>4, <1>5, <1>6 DEF Nibble
<1>21. x % 256 = (x % 16) + 16 * Nibble(d[4], d[5], d[6], d[7]) /\ x % 256 \in Int
  BY <1>b, <1>7, <1>8, <1>9, <1>10 DEF Nibble
<1>22. x % 4096 = (x % 256) + 256 * Nibble(d[8], d[9], d[10], d[11]) /\ x % 4096 \in Int
  BY <1>b, <1>11, <1>12, <1>13, <1>14 DEF Nibble
<1>23. x % 16384 = (x % 4096) + 4096 * Nibble(d[12], d[13], 0, 0) /\ x % 16384 \in Int
  BY <1>b, <1>15, <1>16 DEF Nibble
<1>c. /\ Nibble(d[0], d[1], d[2], d[3]) \in Int /\ Nibble(d[4], d[5], d[6], d[7]) \in Int
      /\ Nibble(d[8], d[9], d[10], d[11]) \in Int /\ Nibble(d[12], d[13], 0, 0) \in Int
  BY <1>b DEF Nibble
<1>24. LowBits(d) = x % 16384
  BY <1>c, <1>20, <1>21, <1>22, <1>23 DEF LowBits
<1>q. QED
  BY <1>24 DEF d

(* Two of the bits of four.                                                *)
LEMMA NibbleTop ==
  ASSUME NEW a \in 0 .. 1, NEW b \in 0 .. 1, NEW c \in 0 .. 1, NEW d \in 0 .. 1
  PROVE  /\ Nibble(a, b, c, d) = Nibble(a, b, 0, 0) + 4 * (c + 2 * d)
         /\ Nibble(a, b, 0, 0) \in Nat /\ Nibble(a, b, 0, 0) <= 3 /\ c + 2 * d \in Nat
BY DEF Nibble

(* The low bits of a word that is put together.                            *)
LEMMA LowOfWeights ==
  ASSUME NEW b \in Bits16, Weights(b) % 16384 = 0
  PROVE  \A p \in 0 .. 13 : b[p] = 0
<1> DEFINE b1 == Nibble(b[0], b[1], b[2], b[3])
           b2 == Nibble(b[4], b[5], b[6], b[7])
           b3 == Nibble(b[8], b[9], b[10], b[11])
           y == Nibble(b[12], b[13], 0, 0)
           k == b[14] + 2 * b[15]
           t == b1 + 16 * b2 + 256 * b3 + 4096 * y
<1>0. 0 \in 0 .. 1
  OBVIOUS
<1>1. /\ b1 \in Nat /\ b1 <= 15 /\ b2 \in Nat /\ b2 <= 15 /\ b3 \in Nat /\ b3 <= 15
  BY BitsAre, NibbleIs
<1>2. /\ b1 = 0 => b[0] = 0 /\ b[1] = 0 /\ b[2] = 0 /\ b[3] = 0
      /\ b2 = 0 => b[4] = 0 /\ b[5] = 0 /\ b[6] = 0 /\ b[7] = 0
      /\ b3 = 0 => b[8] = 0 /\ b[9] = 0 /\ b[10] = 0 /\ b[11] = 0
      /\ y = 0 => b[12] = 0 /\ b[13] = 0
  BY <1>0, BitsAre, NibbleIs
<1>3. y \in Nat /\ y <= 3 /\ k \in Nat /\ Nibble(b[12], b[13], b[14], b[15]) = y + 4 * k
  <2>1. b[12] \in 0 .. 1 /\ b[13] \in 0 .. 1 /\ b[14] \in 0 .. 1 /\ b[15] \in 0 .. 1
    BY BitsAre
  <2>q. QED
    BY <2>1, NibbleTop
<1>4. Weights(b) = b1 + 16 * b2 + 256 * b3 + 4096 * (y + 4 * k)
  BY <1>3 DEF Weights
<1> HIDE DEF b1, b2, b3, y, k
<1>5. t \in Nat /\ t < 16384 /\ Weights(b) = t + 16384 * k
  BY <1>1, <1>3, <1>4
<1>6. t = 0 => b1 = 0 /\ b2 = 0 /\ b3 = 0 /\ y = 0
  BY <1>1, <1>3
<1> HIDE DEF t
<1>7. t = 0
  BY <1>3, <1>5
<1>8. /\ b[0] = 0 /\ b[1] = 0 /\ b[2] = 0 /\ b[3] = 0 /\ b[4] = 0 /\ b[5] = 0 /\ b[6] = 0
      /\ b[7] = 0 /\ b[8] = 0 /\ b[9] = 0 /\ b[10] = 0 /\ b[11] = 0 /\ b[12] = 0 /\ b[13] = 0
  BY <1>2, <1>6, <1>7
<1>q. QED
  BY <1>8

(* Exclusive or without a low bit: the low bits were the same.             *)
LEMMA XorNothing ==
  ASSUME NEW a \in Nat, NEW b \in Nat, Xor(a, b) % 16384 = 0
  PROVE  a % 16384 = b % 16384
<1> DEFINE d == [p \in 0 .. 15 |-> (BitOf(a, p) + BitOf(b, p)) % 2]
           x == DigitsOf(a)
           y == DigitsOf(b)
<1>1. Xor(a, b) = Weights(d) /\ d \in Bits16
  BY XorIs
<1> HIDE DEF d
<1>2. \A p \in 0 .. 13 : d[p] = 0
  BY <1>1, LowOfWeights
<1>3. \A p \in 0 .. 13 : BitOf(a, p) = BitOf(b, p)
  <2> TAKE p \in 0 .. 13
  <2>1. BitOf(a, p) \in 0 .. 1 /\ BitOf(b, p) \in 0 .. 1
    BY BitIs
  <2>2. (BitOf(a, p) + BitOf(b, p)) % 2 = 0
    BY <1>2 DEF d
  <2>q. QED
    BY <2>1, <2>2
<1>4. \A p \in 0 .. 13 : x[p] = y[p]
  BY <1>3, DigitIs
<1>5. a % 16384 = LowBits(x) /\ b % 16384 = LowBits(y)
  BY LowBitsAre
<1> HIDE DEF x, y
<1>6. /\ x[0] = y[0] /\ x[1] = y[1] /\ x[2] = y[2] /\ x[3] = y[3] /\ x[4] = y[4] /\ x[5] = y[5]
      /\ x[6] = y[6] /\ x[7] = y[7] /\ x[8] = y[8] /\ x[9] = y[9] /\ x[10] = y[10]
      /\ x[11] = y[11] /\ x[12] = y[12] /\ x[13] = y[13]
  BY <1>4
<1>q. QED
  BY <1>5, <1>6 DEF LowBits

(* Or without a low bit: neither had one.                                  *)
LEMMA OrNothing ==
  ASSUME NEW a \in Nat, NEW b \in Nat, Or(a, b) % 16384 = 0
  PROVE  a % 16384 = 0 /\ b % 16384 = 0
<1> DEFINE bit == [ones \in 0 .. 2 |-> IF ones = 0 THEN 0 ELSE 1]
           d == BitsOf(a, b, bit)
           x == DigitsOf(a)
           y == DigitsOf(b)
<1>1. bit \in [0 .. 2 -> 0 .. 1] /\ \A k \in 0 .. 2 : bit[k] = 0 => k = 0
  OBVIOUS
<1>2. Or(a, b) = OfBits(a, b, bit)
  BY DEF Or
<1> HIDE DEF bit
<1>3. d \in Bits16 /\ Or(a, b) = Weights(d)
  BY <1>1, <1>2, OfBitsIs
<1>4. \A p \in 0 .. 15 : d[p] = bit[BitOf(a, p) + BitOf(b, p)]
  BY DEF BitsOf
<1> HIDE DEF d
<1>5. \A p \in 0 .. 13 : d[p] = 0
  BY <1>3, LowOfWeights
<1>6. \A p \in 0 .. 13 : BitOf(a, p) = 0 /\ BitOf(b, p) = 0
  <2> TAKE p \in 0 .. 13
  <2>1. BitOf(a, p) \in 0 .. 1 /\ BitOf(b, p) \in 0 .. 1
    BY BitIs
  <2>2. bit[BitOf(a, p) + BitOf(b, p)] = 0
    BY <1>4, <1>5
  <2>3. BitOf(a, p) + BitOf(b, p) \in 0 .. 2
    BY <2>1
  <2>4. BitOf(a, p) + BitOf(b, p) = 0
    BY <1>1, <2>2, <2>3
  <2>q. QED
    BY <2>1, <2>4
<1>7. \A p \in 0 .. 13 : x[p] = 0 /\ y[p] = 0
  BY <1>6, DigitIs
<1>8. a % 16384 = LowBits(x) /\ b % 16384 = LowBits(y)
  BY LowBitsAre
<1> HIDE DEF x, y
<1>9. /\ x[0] = 0 /\ x[1] = 0 /\ x[2] = 0 /\ x[3] = 0 /\ x[4] = 0 /\ x[5] = 0 /\ x[6] = 0
      /\ x[7] = 0 /\ x[8] = 0 /\ x[9] = 0 /\ x[10] = 0 /\ x[11] = 0 /\ x[12] = 0 /\ x[13] = 0
  BY <1>7
<1>10. /\ y[0] = 0 /\ y[1] = 0 /\ y[2] = 0 /\ y[3] = 0 /\ y[4] = 0 /\ y[5] = 0 /\ y[6] = 0
       /\ y[7] = 0 /\ y[8] = 0 /\ y[9] = 0 /\ y[10] = 0 /\ y[11] = 0 /\ y[12] = 0 /\ y[13] = 0
  BY <1>7
<1>q. QED
  BY <1>8, <1>9, <1>10 DEF LowBits, Nibble

(* A word is its 16 digits.                                                *)
LEMMA WordIs ==
  ASSUME NEW x \in Nat
  PROVE  x % 65536 = Weights(DigitsOf(x))
<1> DEFINE d == DigitsOf(x)
<1>1. \A p \in 0 .. 15 : d[p] = (x \div 2^p) % 2
  BY DigitIs DEF BitOf
<1>2. LowBits(d) = x % 16384
  BY LowBitsAre
<1>3. d \in Bits16
  BY DigitsAre
<1> HIDE DEF d
<1>4. 2^14 = 16384 /\ 2^15 = 32768 /\ 14 \in 0 .. 15 /\ 15 \in 0 .. 15
  OBVIOUS
<1>5. d[14] = (x \div 16384) % 2 /\ d[15] = (x \div 32768) % 2
  BY <1>1, <1>4
<1>6. x % 65536 = (x % 16384) + 16384 * ((x \div 16384) % 2) + 32768 * ((x \div 32768) % 2)
  OBVIOUS
<1> DEFINE b1 == Nibble(d[0], d[1], d[2], d[3])
           b2 == Nibble(d[4], d[5], d[6], d[7])
           b3 == Nibble(d[8], d[9], d[10], d[11])
           b4 == Nibble(d[12], d[13], 0, 0)
<1>7. /\ d[0] \in 0 .. 1 /\ d[1] \in 0 .. 1 /\ d[2] \in 0 .. 1 /\ d[3] \in 0 .. 1 /\ d[4] \in 0 .. 1 /\ d[5] \in 0 .. 1
      /\ d[6] \in 0 .. 1 /\ d[7] \in 0 .. 1 /\ d[8] \in 0 .. 1 /\ d[9] \in 0 .. 1 /\ d[10] \in 0 .. 1
      /\ d[11] \in 0 .. 1 /\ d[12] \in 0 .. 1 /\ d[13] \in 0 .. 1 /\ d[14] \in 0 .. 1 /\ d[15] \in 0 .. 1 /\ 0 \in 0 .. 1
  BY <1>3, BitsAre
<1>8. b1 \in Nat /\ b2 \in Nat /\ b3 \in Nat /\ b4 \in Nat
  BY <1>7, NibbleIs
<1>9. Nibble(d[12], d[13], d[14], d[15]) = b4 + 4 * (d[14] + 2 * d[15]) /\ d[14] \in Int /\ d[15] \in Int
  <2>1. d[12] \in 0 .. 1 /\ d[13] \in 0 .. 1 /\ d[14] \in 0 .. 1 /\ d[15] \in 0 .. 1
    BY <1>7
  <2>2. d[14] \in Int /\ d[15] \in Int
    BY <2>1
  <2>3. Nibble(d[12], d[13], d[14], d[15]) = Nibble(d[12], d[13], 0, 0) + 4 * (d[14] + 2 * d[15])
    BY <2>1, NibbleTop
  <2>q. QED
    BY <2>2, <2>3
<1>10. /\ LowBits(d) = b1 + 16 * b2 + 256 * b3 + 4096 * b4
       /\ Weights(d) = b1 + 16 * b2 + 256 * b3 + 4096 * (b4 + 4 * (d[14] + 2 * d[15]))
  BY <1>9 DEF LowBits, Weights
<1> HIDE DEF b1, b2, b3, b4
<1>11. Weights(d) = LowBits(d) + 16384 * d[14] + 32768 * d[15]
  BY <1>8, <1>9, <1>10
<1>q. QED
  BY <1>2, <1>5, <1>6, <1>11 DEF d

-----------------------------------------------------------------------------
(* The list as core_list_init builds it.                                   *)

\* The datum of an item is a word.
LEMMA Pattern16Is ==
  ASSUME NEW seed \in Word16, NEW i \in Nat
  PROVE  Pattern16(seed, i) \in Word16
<1> DEFINE x == Xor(seed % 16, i % 16)
           a == seed % 16
           b == i % 16
           d == [p \in 0 .. 15 |-> (BitOf(a, p) + BitOf(b, p)) % 2]
<1>1. seed \in Nat
  BY DEF Word16
<1>2. a \in Nat /\ b \in Nat /\ a < 16 /\ b < 16
  BY <1>1
<1>3. x = Weights(d) /\ d \in Bits16
  BY <1>2, XorIs
<1> HIDE DEF a, b
<1>4. ASSUME NEW y \in Nat, y < 16, NEW p \in 4 .. 15 PROVE BitOf(y, p) = 0
  <2>1. p \in {4, 5, 6, 7, 8, 9, 10, 11, 12, 13, 14, 15}
    OBVIOUS
  <2>2. /\ 2^4 = 16 /\ 2^5 = 32 /\ 2^6 = 64 /\ 2^7 = 128 /\ 2^8 = 256 /\ 2^9 = 512
        /\ 2^10 = 1024 /\ 2^11 = 2048 /\ 2^12 = 4096 /\ 2^13 = 8192 /\ 2^14 = 16384 /\ 2^15 = 32768
    OBVIOUS
  <2>3. /\ (y \div 16) % 2 = 0 /\ (y \div 32) % 2 = 0 /\ (y \div 64) % 2 = 0 /\ (y \div 128) % 2 = 0
        /\ (y \div 256) % 2 = 0 /\ (y \div 512) % 2 = 0 /\ (y \div 1024) % 2 = 0
        /\ (y \div 2048) % 2 = 0 /\ (y \div 4096) % 2 = 0 /\ (y \div 8192) % 2 = 0
        /\ (y \div 16384) % 2 = 0 /\ (y \div 32768) % 2 = 0
    BY <1>4
  <2>4. /\ BitOf(y, 4) = 0 /\ BitOf(y, 5) = 0 /\ BitOf(y, 6) = 0 /\ BitOf(y, 7) = 0
        /\ BitOf(y, 8) = 0 /\ BitOf(y, 9) = 0 /\ BitOf(y, 10) = 0 /\ BitOf(y, 11) = 0
        /\ BitOf(y, 12) = 0 /\ BitOf(y, 13) = 0 /\ BitOf(y, 14) = 0 /\ BitOf(y, 15) = 0
    BY <2>2, <2>3 DEF BitOf
  <2>q. QED
    BY <2>1, <2>4
<1>5. \A p \in 4 .. 15 : d[p] = 0
  <2> TAKE p \in 4 .. 15
  <2>1. BitOf(a, p) = 0 /\ BitOf(b, p) = 0
    BY <1>2, <1>4
  <2>q. QED
    BY <2>1
<1> HIDE DEF d
<1>6. /\ d[4] = 0 /\ d[5] = 0 /\ d[6] = 0 /\ d[7] = 0 /\ d[8] = 0 /\ d[9] = 0 /\ d[10] = 0
      /\ d[11] = 0 /\ d[12] = 0 /\ d[13] = 0 /\ d[14] = 0 /\ d[15] = 0
  BY <1>5
<1>7. Nibble(d[0], d[1], d[2], d[3]) \in Nat /\ Nibble(d[0], d[1], d[2], d[3]) <= 15
  BY <1>3, BitsAre, NibbleIs
<1>8. Nibble(0, 0, 0, 0) = 0
  BY DEF Nibble
<1>9. x \in Nat /\ x <= 15
  BY <1>3, <1>6, <1>7, <1>8 DEF Weights
<1>10. Pattern16(seed, i) = (x * 8 + (i % 8)) * 257
  BY DEF Pattern16
<1> HIDE DEF x
<1> DEFINE z == i % 8
<1>11. z \in Nat /\ z < 8
  OBVIOUS
<1> HIDE DEF z
<1>12. (x * 8 + z) * 257 \in Nat /\ (x * 8 + z) * 257 < 65536
  BY <1>9, <1>11
<1>q. QED
  BY <1>10, <1>12 DEF Word16, z

(* The idx an item gets is a word that is positive, and not the head's 0.  *)
LEMMA IndexOfIs ==
  ASSUME NEW seed \in Word16, NEW size \in Nat, size <= 16384,
         seed % 8 # 7 \/ seed % 16384 >= size, NEW i \in Nat, i # 0, i < size
  PROVE  IndexOf(i, size, seed) \in Nat /\ IndexOf(i, size, seed) # 0 /\ IndexOf(i, size, seed) < 16384
<1>1. CASE i < size \div 5
  BY <1>1 DEF IndexOf
<1>2. CASE ~ (i < size \div 5)
  <2> DEFINE a == ((i + 1) % 8) * 256
             x == Xor(seed, i)
             y == Or(a, x)
  <2>1. seed \in Nat /\ seed < 65536
    BY DEF Word16
  <2>2. a \in Nat /\ (a % 16384 = 0 => (i + 1) % 8 = 0)
    OBVIOUS
  <2>3. x \in Nat
    <3>1. seed \in Nat
      BY <2>1
    <3>2. Xor(seed, i) \in Word16
      BY ONLY <3>1, i \in Nat, XorIs
    <3>q. QED
      BY <3>2 DEF Word16
  <2>4. IndexOf(i, size, seed) = y % 16384
    BY <1>2 DEF IndexOf
  <2>5. x % 16384 = 0 => seed % 16384 = i % 16384
    BY <2>1, XorNothing
  <2> HIDE DEF a, x
  <2>6. y \in Nat
    <3>1. y \in Word16
      BY <2>2, <2>3, OrIs
    <3>q. QED
      BY <3>1 DEF Word16
  <2>7. y % 16384 = 0 => a % 16384 = 0 /\ x % 16384 = 0
    BY <2>2, <2>3, OrNothing
  <2> HIDE DEF y
  <2>8. ASSUME y % 16384 = 0 PROVE FALSE
    <3>1. (i + 1) % 8 = 0 /\ seed % 16384 = i % 16384
      BY <2>2, <2>5, <2>7, <2>8
    <3>2. i < 16384
      OBVIOUS
    <3>3. seed % 16384 = i
      BY <3>1, <3>2
    <3>4. i % 8 = 7
      BY <3>1
    <3>5. seed % 8 = 7
      BY <2>1, <3>3, <3>4
    <3>q. QED
      BY <3>3, <3>5
  <2>9. y % 16384 \in Nat /\ y % 16384 < 16384
    BY <2>6
  <2>q. QED
    BY <2>4, <2>8, <2>9
<1>q. QED
  BY <1>1, <1>2

-----------------------------------------------------------------------------
(* The cells as core_list_insert_new puts them behind the head, u of them.  *)
Fresh(u) == [i \in 1 .. u + 1 |-> IF i = 1 THEN 1 ELSE IF i = u + 1 THEN NULL ELSE (u + 2) - i]

Slots(n) == [h : Heap(n), used : 1 .. n]

Built(n, s, u) ==
  /\ s \in Slots(n) /\ s.used = u /\ u < n
  /\ s.h.info = [d \in 1 .. n |-> d]
  /\ Chain(n, s.h.next, Fresh(u), u)
  /\ s.h.idx[1] = 0 /\ \A c \in 2 .. u : s.h.idx[c] = 32767

(* One more item, as long as there is room.                                 *)
LEMMA SlotIs ==
  ASSUME NEW n \in Nat, n # 0, NEW s \in Slots(n), NEW data, data.idx \in Word16, data.data16 \in Word16
  PROVE  core_list_insert_new(s.h, s.used, 1, data, n) \in Slots(n)
<1> DEFINE h == s.h
           u == s.used
           next == [h.next EXCEPT ![u + 1] = h.next[1], ![1] = u + 1]
           info == [h.info EXCEPT ![u + 1] = u + 1]
           data16 == [h.data16 EXCEPT ![u + 1] = data.data16]
           idx == [h.idx EXCEPT ![u + 1] = data.idx]
<1>1. h \in Heap(n) /\ u \in 1 .. n /\ s = [h |-> h, used |-> u]
  BY DEF Slots
<1> HIDE DEF h, u
<1>2. /\ h.next \in Pointers(n) /\ h.info \in [1 .. n -> 1 .. n]
      /\ h.data16 \in [1 .. n -> Word16] /\ h.idx \in [1 .. n -> Word16]
  BY <1>1, HeapIs
<1>3. CASE u + 1 >= n
  <2>1. core_list_insert_new(h, u, 1, data, n) = [h |-> h, used |-> u]
    BY <1>3 DEF core_list_insert_new
  <2>q. QED
    BY <1>1, <2>1 DEF h, u
<1>4. CASE ~ (u + 1 >= n)
  <2>1. core_list_insert_new(h, u, 1, data, n)
          = [h |-> [next |-> next, info |-> info, data16 |-> data16, idx |-> idx], used |-> u + 1]
    BY <1>4 DEF core_list_insert_new
  <2>2. u + 1 \in 1 .. n /\ 1 \in 1 .. n /\ u + 1 \in 0 .. n
    BY <1>1, <1>4
  <2>3. next \in [1 .. n -> 0 .. n] /\ info \in [1 .. n -> 1 .. n]
    BY <1>2, <2>2 DEF Pointers
  <2>4. data16 \in [1 .. n -> Word16] /\ idx \in [1 .. n -> Word16]
    BY <1>2, <2>2
  <2> HIDE DEF next, info, data16, idx
  <2>5. (1 .. n) \cup {NULL} = 0 .. n
    BY DEF NULL
  <2>6. [next |-> next, info |-> info, data16 |-> data16, idx |-> idx] \in Heap(n)
    BY <2>3, <2>4, <2>5 DEF Heap, HeapOf
  <2>7. [h |-> [next |-> next, info |-> info, data16 |-> data16, idx |-> idx], used |-> u + 1] \in Slots(n)
    BY <2>2, <2>6 DEF Slots
  <2>q. QED
    BY <2>1, <2>7 DEF h, u
<1>q. QED
  BY <1>3, <1>4

\* A function changed at two places.
LEMMA TwoPut ==
  ASSUME NEW S, NEW f, DOMAIN f = S, NEW x \in S, NEW y \in S, x # y, NEW v, NEW w
  PROVE  \A c \in S : [f EXCEPT ![x] = v, ![y] = w][c] = IF c = y THEN w ELSE IF c = x THEN v ELSE f[c]
OBVIOUS

\* A function changed at one place.
LEMMA OnePut ==
  ASSUME NEW S, NEW f, DOMAIN f = S, NEW x \in S, NEW v
  PROVE  /\ \A c \in S : [f EXCEPT ![x] = v][c] = IF c = x THEN v ELSE f[c]
         /\ DOMAIN [f EXCEPT ![x] = v] = S
         /\ [f EXCEPT ![x] = v] = [c \in S |-> [f EXCEPT ![x] = v][c]]
OBVIOUS

\* core_list_insert_new adds a cell behind the head, if there is room for it.
LEMMA InsertIs ==
  ASSUME NEW n \in Nat, NEW u \in 1 .. n, NEW s, Built(n, s, u), NEW data,
         data.idx = 32767, data.data16 \in Word16
  PROVE  Built(n, core_list_insert_new(s.h, s.used, 1, data, n), IF u + 1 < n THEN u + 1 ELSE u)
<1> DEFINE h == s.h
           next == [h.next EXCEPT ![u + 1] = h.next[1], ![1] = u + 1]
           info == [h.info EXCEPT ![u + 1] = u + 1]
           data16 == [h.data16 EXCEPT ![u + 1] = data.data16]
           idx == [h.idx EXCEPT ![u + 1] = data.idx]
           s2 == core_list_insert_new(s.h, s.used, 1, data, n)
<1>1. /\ s \in Slots(n) /\ s.used = u /\ u < n
      /\ h.info = [d \in 1 .. n |-> d] /\ Chain(n, h.next, Fresh(u), u)
      /\ h.idx[1] = 0 /\ \A c \in 2 .. u : h.idx[c] = 32767
  BY DEF Built
<1>2. h \in Heap(n) /\ s = [h |-> h, used |-> u]
  BY <1>1 DEF Slots
<1>3. data.idx \in Word16 /\ n # 0
  BY <1>1 DEF Word16
<1>4. s2 \in Slots(n)
  BY <1>1, <1>3, SlotIs
<1>5. CASE u + 1 >= n
  <2>1. s2 = [h |-> h, used |-> u]
    BY <1>1, <1>5 DEF core_list_insert_new
  <2>2. s2 = s
    BY <1>2, <2>1
  <2> HIDE DEF s2
  <2>q. QED
    BY <1>5, <2>2 DEF s2
<1>6. CASE ~ (u + 1 >= n)
  <2>1. s2 = [h |-> [next |-> next, info |-> info, data16 |-> data16, idx |-> idx], used |-> u + 1]
    BY <1>1, <1>6 DEF core_list_insert_new
  <2> HIDE DEF s2
  <2>2. /\ s2.h.next = next /\ s2.h.info = info /\ s2.h.idx = idx /\ s2.used = u + 1
    BY <2>1
  <2>3. /\ h.next \in [1 .. n -> 0 .. n] /\ h.info \in [1 .. n -> 1 .. n]
        /\ h.idx \in [1 .. n -> Word16]
    BY <1>2, HeapIs DEF Pointers
  <2>0. u + 1 \in 1 .. n /\ 1 \in 1 .. n /\ u + 1 # 1 /\ u + 1 \in 0 .. n
    BY <1>6
  <2>n. \A c \in 1 .. n : next[c] = IF c = 1 THEN u + 1 ELSE IF c = u + 1 THEN h.next[1] ELSE h.next[c]
    <3>1. DOMAIN h.next = 1 .. n
      BY <2>3
    <3> HIDE DEF h
    <3>q. QED
      BY <2>0, <3>1, TwoPut
  <2>x. \A c \in 1 .. n : idx[c] = IF c = u + 1 THEN 32767 ELSE h.idx[c]
    <3>1. DOMAIN h.idx = 1 .. n
      BY <2>3
    <3>2. \A c \in 1 .. n : idx[c] = IF c = u + 1 THEN data.idx ELSE h.idx[c]
      <4> HIDE DEF h
      <4>q. QED
        BY <2>0, <3>1, OnePut
    <3> HIDE DEF h, idx
    <3>q. QED
      BY <3>2
  <2>4. s2.h.info = [d \in 1 .. n |-> d]
    <3> DEFINE f == h.info
    <3>1. DOMAIN f = 1 .. n
      BY <2>3
    <3>2. info = [f EXCEPT ![u + 1] = u + 1]
      OBVIOUS
    <3>3. \A d \in 1 .. n : f[d] = d
      BY <1>1
    <3> HIDE DEF h, info, f
    <3>4. /\ \A d \in 1 .. n : info[d] = IF d = u + 1 THEN u + 1 ELSE f[d]
          /\ info = [d \in 1 .. n |-> info[d]]
      BY ONLY <2>0, <3>1, <3>2
    <3>5. \A d \in 1 .. n : info[d] = d
      BY <3>3, <3>4
    <3>q. QED
      BY <2>2, <3>4, <3>5
  <2>5. s2.h.idx[1] = 0 /\ \A c \in 2 .. u + 1 : s2.h.idx[c] = 32767
    <3>1. idx[1] = 0
      BY <1>1, <2>0, <2>x
    <3>2. ASSUME NEW c \in 2 .. u + 1 PROVE idx[c] = 32767
      <4>1. c \in 1 .. n
        BY <1>6
      <4>2. c # u + 1 => c \in 2 .. u
        OBVIOUS
      <4>3. c # u + 1 => h.idx[c] = 32767
        BY <1>1, <4>2
      <4>4. idx[c] = IF c = u + 1 THEN 32767 ELSE h.idx[c]
        BY <2>x, <4>1
      <4> HIDE DEF idx, h
      <4>q. QED
        BY <4>3, <4>4
    <3> HIDE DEF idx
    <3>q. QED
      BY <2>2, <3>1, <3>2
  <2>6. Chain(n, next, Fresh(u + 1), u + 1)
    <3> DEFINE e == Fresh(u)
               f == Fresh(u + 1)
    <3>1. /\ e \in [1 .. u + 1 -> 0 .. n] /\ e[u + 1] = NULL
          /\ (\A i \in 1 .. u : e[i] # NULL /\ h.next[e[i]] = e[i + 1])
      BY <1>1 DEF Chain
    <3>2. /\ \A i \in 1 .. u + 2 : f[i] = IF i = 1 THEN 1 ELSE IF i = u + 2 THEN 0 ELSE (u + 3) - i
          /\ DOMAIN f = 1 .. u + 2
      BY DEF Fresh, NULL
    <3>3. \A i \in 1 .. u + 1 : e[i] = IF i = 1 THEN 1 ELSE IF i = u + 1 THEN 0 ELSE (u + 2) - i
      BY DEF Fresh, NULL
    <3>4. f \in [1 .. (u + 1) + 1 -> 0 .. n]
      <4>1. \A i \in 1 .. u + 2 : f[i] \in 0 .. n
        BY <1>6, <3>2
      <4>2. f = [i \in 1 .. u + 2 |-> f[i]]
        BY DEF Fresh
      <4> HIDE DEF f
      <4>3. (u + 1) + 1 = u + 2
        OBVIOUS
      <4>q. QED
        BY <4>1, <4>2, <4>3
    <3> HIDE DEF e, f
    <3>5. f[(u + 1) + 1] = NULL
      BY <3>2 DEF NULL
    <3>6. ASSUME NEW i \in 1 .. u + 1 PROVE f[i] # NULL /\ next[f[i]] = f[i + 1]
      <4>1. f[i] # NULL /\ f[i] \in 1 .. n
        BY <1>6, <3>2 DEF NULL
      <4>2. CASE i = 1
        <5>1. f[1] = 1 /\ f[2] = u + 1
          BY <3>2
        <5>2. next[1] = u + 1
          BY <2>0, <2>n
        <5> HIDE DEF next
        <5>q. QED
          BY <4>1, <4>2, <5>1, <5>2
      <4>3. CASE i = 2
        <5>1. f[2] = u + 1 /\ u + 1 # 1
          BY <3>2
        <5>2. next[u + 1] = h.next[1]
          BY <2>0, <2>n, <5>1
        <5>3. h.next[1] = e[2]
          BY <3>1, <3>3
        <5>4. e[2] = f[3]
          BY <3>2, <3>3
        <5> HIDE DEF next
        <5>q. QED
          BY <4>1, <4>3, <5>1, <5>2, <5>3, <5>4
      <4>4. CASE i # 1 /\ i # 2
        <5>1. i - 1 \in 1 .. u /\ i - 1 # 1 /\ i \in 1 .. u + 1 /\ i + 1 \in 1 .. u + 2
          BY <4>4
        <5>2. f[i] = e[i - 1]
          BY <3>2, <3>3, <4>4, <5>1
        <5>3. f[i + 1] = e[i]
          BY <3>2, <3>3, <4>4, <5>1
        <5>4. f[i] # 1 /\ f[i] # u + 1
          BY <3>2, <4>4
        <5>5. next[f[i]] = h.next[f[i]]
          BY <2>n, <4>1, <5>4
        <5>6. h.next[e[i - 1]] = e[i]
          BY <3>1, <5>1
        <5> HIDE DEF next
        <5>q. QED
          BY <4>1, <5>2, <5>3, <5>5, <5>6
      <4>q. QED
        BY <4>2, <4>3, <4>4
    <3>7. \A i, j \in 1 .. u + 1 : f[i] = f[j] => i = j
      BY <3>2
    <3> HIDE DEF next
    <3>q. QED
      BY <3>4, <3>5, <3>6, <3>7 DEF Chain, f
  <2>7. Chain(n, s2.h.next, Fresh(u + 1), u + 1)
    <3> HIDE DEF next
    <3>q. QED
      BY <2>2, <2>6
  <2>8. u + 1 < n
    BY <1>6
  <2>9. Built(n, s2, u + 1)
    BY <1>4, <2>2, <2>4, <2>5, <2>7, <2>8 DEF Built
  <2>q. QED
    BY <2>8, <2>9 DEF s2
<1>q. QED
  BY <1>5, <1>6

-----------------------------------------------------------------------------
(* core_list_init's two loops.                                              *)
Inserting(n, seed, tail, at) ==
  /\ at[0] = tail
  /\ \A k \in Nat : at[k] \in Slots(n) /\ at[k + 1] = InsertTurn(at[k], k, n, seed)

\* The insertions of core_list_init are a function of their number.
LEMMA InsertsAre ==
  ASSUME NEW n \in Nat, n # 0, NEW seed \in Word16, NEW tail \in Slots(n)
  PROVE  Inserting(n, seed, tail, Inserts(tail, n, seed))
<1> DEFINE S == Slots(n)
           turn == [k \in Nat |-> [s \in S |-> InsertTurn(s, k, n, seed)]]
           at == Inserts(tail, n, seed)
<1>1. ASSUME NEW k \in Nat, NEW s \in S PROVE InsertTurn(s, k, n, seed) \in S
  <2> DEFINE data == [idx |-> 32767, data16 |-> Pattern16(seed, k)]
  <2>1. InsertTurn(s, k, n, seed) = core_list_insert_new(s.h, s.used, 1, data, n)
    BY DEF InsertTurn
  <2>2. Pattern16(seed, k) \in Word16 /\ 32767 \in Word16
    BY Pattern16Is DEF Word16
  <2>3. data.idx \in Word16 /\ data.data16 \in Word16
    BY <2>2
  <2> HIDE DEF data
  <2>q. QED
    BY <2>1, <2>3, SlotIs
<1>2. turn \in [Nat -> [S -> S]]
  <2> HIDE DEF S
  <2>q. QED
    BY <1>1
<1>3. tail \in S
  OBVIOUS
<1>4. PICK f : Loops(S, tail, turn, f)
  <2> HIDE DEF S, turn
  <2>q. QED
    BY <1>2, <1>3, LoopExists
<1>5. f = [k \in Nat |-> IF k = 0 THEN tail ELSE InsertTurn(f[k - 1], k - 1, n, seed)]
  <2>1. f \in [Nat -> S] /\ f = [k \in Nat |-> IF k = 0 THEN tail ELSE turn[k - 1][f[k - 1]]]
    BY <1>4 DEF Loops
  <2>2. ASSUME NEW k \in Nat, k # 0 PROVE turn[k - 1][f[k - 1]] = InsertTurn(f[k - 1], k - 1, n, seed)
    <3>1. k - 1 \in Nat
      BY <2>2
    <3>2. f[k - 1] \in S
      BY <2>1, <3>1
    <3> HIDE DEF S
    <3>q. QED
      BY <3>1, <3>2
  <2> HIDE DEF turn, S
  <2>q. QED
    BY <2>1, <2>2
<1>6. at = [k \in Nat |-> IF k = 0 THEN tail ELSE InsertTurn(at[k - 1], k - 1, n, seed)]
  BY <1>5 DEF Inserts
<1> HIDE DEF at
<1>7. at[0] = tail /\ \A k \in Nat : at[k + 1] = InsertTurn(at[k], k, n, seed)
  <2>1. at[0] = tail
    BY <1>6
  <2>2. ASSUME NEW k \in Nat PROVE at[k + 1] = InsertTurn(at[k], k, n, seed)
    <3>1. k + 1 \in Nat /\ k + 1 # 0 /\ (k + 1) - 1 = k
      OBVIOUS
    <3>q. QED
      BY <1>6, <3>1
  <2>q. QED
    BY <2>1, <2>2
<1>8. \A k \in Nat : at[k] \in S => at[k + 1] = turn[k][at[k]]
  <2> HIDE DEF S
  <2>q. QED
    BY <1>7
<1>9. \A k \in Nat : at[k] \in S
  <2> HIDE DEF S, turn
  <2>q. QED
    BY <1>2, <1>3, <1>7, <1>8, LoopIs
<1>q. QED
  BY <1>7, <1>9 DEF at, S, Inserting

(* All cells but the last of the heap are in the list.                      *)
LEMMA AllInserted ==
  ASSUME NEW n \in Nat, n >= 4, NEW seed \in Word16, NEW tail, Built(n, tail, 2)
  PROVE  Built(n, Inserts(tail, n, seed)[n], n - 1)
<1> DEFINE at == Inserts(tail, n, seed)
           On(k) == \E u \in 1 .. n : Built(n, at[k], u) /\ (u >= k + 2 \/ u = n - 1)
           T == {k \in Nat : On(k)}
<1>1. Inserting(n, seed, tail, at)
  BY InsertsAre DEF Built
<1> HIDE DEF at
<1>2. 0 \in T
  <2>1. at[0] = tail /\ 2 \in 1 .. n /\ 2 >= 0 + 2
    BY <1>1 DEF Inserting
  <2>q. QED
    BY <2>1
<1>3. ASSUME NEW k \in Nat, k \in T PROVE k + 1 \in T
  <2>1. PICK u \in 1 .. n : Built(n, at[k], u) /\ (u >= k + 2 \/ u = n - 1)
    BY <1>3
  <2> DEFINE data == [idx |-> 32767, data16 |-> Pattern16(seed, k)]
             v == IF u + 1 < n THEN u + 1 ELSE u
  <2>2. at[k + 1] = core_list_insert_new(at[k].h, at[k].used, 1, data, n)
    BY <1>1 DEF Inserting, InsertTurn
  <2>3. data.idx = 32767 /\ data.data16 \in Word16
    BY Pattern16Is
  <2> HIDE DEF data
  <2>4. Built(n, at[k + 1], v)
    BY <2>1, <2>2, <2>3, InsertIs
  <2>5. u < n
    BY <2>1 DEF Built
  <2>6. v \in 1 .. n /\ (v >= (k + 1) + 2 \/ v = n - 1)
    BY <2>1, <2>5
  <2> HIDE DEF v
  <2>q. QED
    BY <2>4, <2>6
<1> HIDE DEF T
<1>4. \A k \in Nat : k \in T
  BY <1>2, <1>3, Induction
<1>5. On(n)
  BY <1>4 DEF T
<1>6. PICK u \in 1 .. n : Built(n, at[n], u) /\ (u >= n + 2 \/ u = n - 1)
  BY <1>5
<1>7. u = n - 1
  BY <1>6
<1>q. QED
  BY <1>6, <1>7 DEF at

(* The numbering of the cells.                                              *)
Numbers(n) == [h : Heap(n), finder : 1 .. n]

Numbering(n, h0, seed, s0, at) ==
  /\ at[0] = s0
  /\ \A k \in Nat : at[k] \in Numbers(n) /\ at[k + 1] = IndexTurn(at[k], k + 1, n, seed)

\* An idx is a word.
LEMMA IndexIsWord ==
  ASSUME NEW seed \in Word16, NEW size \in Nat, size <= 16384, NEW i \in Nat
  PROVE  IndexOf(i, size, seed) \in Word16
<1>1. CASE i < size \div 5
  BY <1>1 DEF IndexOf, Word16
<1>2. CASE ~ (i < size \div 5)
  <2>1. seed \in Nat /\ ((i + 1) % 8) * 256 \in Nat
    BY DEF Word16
  <2>2. Xor(seed, i) \in Nat
    <3>1. Xor(seed, i) \in Word16
      BY ONLY <2>1, i \in Nat, XorIs
    <3>q. QED
      BY <3>1 DEF Word16
  <2> DEFINE x == Xor(seed, i)
             a == ((i + 1) % 8) * 256
  <2> HIDE DEF x, a
  <2>3. Or(a, x) \in Nat
    <3>1. a \in Nat /\ x \in Nat
      BY <2>1, <2>2 DEF x, a
    <3>2. Or(a, x) \in Word16
      BY ONLY <3>1, OrIs
    <3>q. QED
      BY <3>2 DEF Word16
  <2> DEFINE y == Or(a, x)
  <2>4. IndexOf(i, size, seed) = y % 16384
    BY <1>2 DEF IndexOf, x, a
  <2> HIDE DEF y
  <2>5. y % 16384 \in Nat /\ y % 16384 < 65536
    BY <2>3 DEF y
  <2>q. QED
    BY <2>4, <2>5 DEF Word16
<1>q. QED
  BY <1>1, <1>2

(* One cell gets its number.                                                *)
Renumbered(n, s, v, s2) ==
  /\ s2 \in Numbers(n) /\ s2.finder = s.h.next[s.finder]
  /\ s2.h.next = s.h.next /\ s2.h.info = s.h.info
  /\ s2.h.idx = [s.h.idx EXCEPT ![s.h.info[s.finder]] = v]

\* A turn of the loop that numbers the items changes one idx, or is behind the end.
LEMMA IndexTurnIs ==
  ASSUME NEW n \in Nat, n <= 16384, NEW seed \in Word16, NEW s \in Numbers(n), NEW i \in Nat
  PROVE  /\ IndexTurn(s, i, n, seed) \in Numbers(n)
         /\ s.h.next[s.finder] = NULL => IndexTurn(s, i, n, seed) = s
         /\ s.h.next[s.finder] # NULL =>
              Renumbered(n, s, IndexOf(i, n, seed), IndexTurn(s, i, n, seed))
<1> DEFINE v == IndexOf(i, n, seed)
           h == s.h
           d == h.info[s.finder]
           idx == [h.idx EXCEPT ![d] = v]
           s2 == IndexTurn(s, i, n, seed)
<1>1. h \in Heap(n) /\ s.finder \in 1 .. n
  BY DEF Numbers
<1>2. /\ h.next \in Pointers(n) /\ h.info \in [1 .. n -> 1 .. n]
      /\ h.data16 \in [1 .. n -> Word16] /\ h.idx \in [1 .. n -> Word16]
      /\ h = Linked(h, h.next)
  BY <1>1, HeapIs, SMTT(40)
<1>3. CASE h.next[s.finder] = NULL
  <2>1. s2 = s
    BY <1>3 DEF IndexTurn
  <2>q. QED
    BY <1>3, <2>1
<1>4. CASE h.next[s.finder] # NULL
  <2>1. v \in Word16
    BY IndexIsWord
  <2>2. d \in 1 .. n
    <3> HIDE DEF h
    <3>q. QED
      BY <1>1, <1>2
  <2> HIDE DEF v
  <2>3. idx \in [1 .. n -> Word16]
    <3>1. h.idx \in [1 .. n -> Word16]
      BY <1>2
    <3> HIDE DEF h, d
    <3>q. QED
      BY <2>1, <2>2, <3>1
  <2>4. s2 = [h |-> [h EXCEPT !.idx = idx], finder |-> h.next[s.finder]]
    BY <1>4 DEF IndexTurn, v
  <2> DEFINE g == [next |-> h.next, info |-> h.info, data16 |-> h.data16, idx |-> idx]
  <2>5. [Linked(h, h.next) EXCEPT !.idx = idx] = g
    <3> HIDE DEF idx
    <3>q. QED
      BY DEF Linked
  <2>6. [h EXCEPT !.idx = idx] = g
    BY <1>2, <2>5
  <2>7. s2 = [h |-> g, finder |-> h.next[s.finder]]
    BY <2>4, <2>6
  <2>8. (1 .. n) \cup {NULL} = 0 .. n
    BY DEF NULL
  <2>9. g \in Heap(n)
    <3> HIDE DEF idx, h
    <3>q. QED
      BY <1>2, <2>3, <2>8, SMTT(40) DEF Heap, HeapOf, Pointers
  <2>10. g.next = h.next /\ g.info = h.info /\ g.idx = idx
    OBVIOUS
  <2>11. h.next[s.finder] \in 1 .. n
    <3> HIDE DEF h
    <3>q. QED
      BY <1>1, <1>2, <1>4 DEF Pointers, NULL
  <2> HIDE DEF g, s2
  <2>12. s2 \in Numbers(n) /\ s2.h = g /\ s2.finder = h.next[s.finder]
    BY <2>7, <2>9, <2>11 DEF Numbers
  <2>13. Renumbered(n, s, v, s2)
    BY <2>10, <2>12 DEF Renumbered
  <2>q. QED
    BY <1>4, <2>12, <2>13 DEF s2, v
<1>q. QED
  BY <1>3, <1>4

\* The turns of that loop are a function of their number.
LEMMA IndexingIs ==
  ASSUME NEW n \in Nat, n <= 16384, NEW seed \in Word16, NEW h \in Heap(n), h.next[1] \in 1 .. n
  PROVE  Numbering(n, h, seed, [h |-> h, finder |-> h.next[1]], Indexing(h, n, seed))
<1> DEFINE S == Numbers(n)
           turn == [k \in Nat |-> [s \in S |-> IndexTurn(s, k + 1, n, seed)]]
           at == Indexing(h, n, seed)
           s0 == [h |-> h, finder |-> h.next[1]]
<1>1. ASSUME NEW k \in Nat, NEW s \in S PROVE IndexTurn(s, k + 1, n, seed) \in S
  <2>1. k + 1 \in Nat
    OBVIOUS
  <2>q. QED
    BY <2>1, IndexTurnIs
<1>2. turn \in [Nat -> [S -> S]]
  <2> HIDE DEF S
  <2>q. QED
    BY <1>1
<1>3. s0 \in S
  BY DEF Numbers
<1> HIDE DEF s0
<1>4. PICK f : Loops(S, s0, turn, f)
  <2> HIDE DEF S, turn
  <2>q. QED
    BY <1>2, <1>3, LoopExists
<1>5. f = [k \in Nat |-> IF k = 0 THEN s0 ELSE IndexTurn(f[k - 1], k, n, seed)]
  <2>1. f \in [Nat -> S] /\ f = [k \in Nat |-> IF k = 0 THEN s0 ELSE turn[k - 1][f[k - 1]]]
    <3> HIDE DEF turn, S
    <3>q. QED
      BY <1>4 DEF Loops
  <2>2. ASSUME NEW k \in Nat, k # 0 PROVE turn[k - 1][f[k - 1]] = IndexTurn(f[k - 1], k, n, seed)
    <3>1. k - 1 \in Nat /\ (k - 1) + 1 = k
      BY <2>2
    <3>2. f[k - 1] \in S
      BY <2>1, <3>1
    <3> HIDE DEF S
    <3>q. QED
      BY <3>1, <3>2
  <2> HIDE DEF turn, S
  <2>q. QED
    BY <2>1, <2>2
<1>6. at = [k \in Nat |-> IF k = 0 THEN s0 ELSE IndexTurn(at[k - 1], k, n, seed)]
  BY <1>5 DEF Indexing, s0
<1> HIDE DEF at
<1>7. at[0] = s0 /\ \A k \in Nat : at[k + 1] = IndexTurn(at[k], k + 1, n, seed)
  <2>1. at[0] = s0
    BY <1>6
  <2>2. ASSUME NEW k \in Nat PROVE at[k + 1] = IndexTurn(at[k], k + 1, n, seed)
    <3>1. k + 1 \in Nat /\ k + 1 # 0 /\ (k + 1) - 1 = k
      OBVIOUS
    <3>q. QED
      BY <1>6, <3>1
  <2>q. QED
    BY <2>1, <2>2
<1>8. \A k \in Nat : at[k] \in S => at[k + 1] = turn[k][at[k]]
  <2> HIDE DEF S
  <2>q. QED
    BY <1>7
<1>9. \A k \in Nat : at[k] \in S
  <2> HIDE DEF S, turn
  <2>q. QED
    <3>1. at[0] = s0
      BY <1>7
    <3>q. QED
      BY ONLY <1>2, <1>3, <1>8, <3>1, LoopIs
<1>q. QED
  BY <1>7, <1>9 DEF at, S, s0, Numbering

-----------------------------------------------------------------------------
(* The list as the sort by index finds it: the head is the only cell with   *)
(* the number 0, the others have positive ones.                             *)
HeadFirst(n, idx) == idx[1] = 0 /\ \A c \in 2 .. n - 1 : idx[c] \in Nat /\ 0 < idx[c] /\ idx[c] < 32768

Numbered(n, next, s, k) ==
  /\ s \in Numbers(n) /\ s.h.next = next /\ s.h.info = [d \in 1 .. n |-> d]
  /\ HeadFirst(n, s.h.idx)
  /\ \E j \in 2 .. n - 1 : s.finder = Fresh(n - 1)[j] /\ (j >= k + 2 \/ j = n - 1)

\* No item is given an idx that another one or the head has.
LEMMA NumberedOnce ==
  ASSUME NEW n \in Nat, n >= 4, n <= 16384, NEW seed \in Word16, seed % 8 # 7 \/ seed % 16384 >= n,
         NEW next, Chain(n, next, Fresh(n - 1), n - 1), NEW k \in Nat, NEW s, Numbered(n, next, s, k)
  PROVE  Numbered(n, next, IndexTurn(s, k + 1, n, seed), k + 1)
<1> DEFINE s2 == IndexTurn(s, k + 1, n, seed)
           e == Fresh(n - 1)
           L == n - 1
<1>1. PICK j \in 2 .. L : s.finder = e[j] /\ (j >= k + 2 \/ j = L)
  BY DEF Numbered
<1>2. L \in Nat /\ L >= 3
  OBVIOUS
<1>3. /\ s \in Numbers(n) /\ s.h.next = next /\ s.h.info = [d \in 1 .. n |-> d]
      /\ HeadFirst(n, s.h.idx)
  BY DEF Numbered
<1>4. e[L + 1] = NULL /\ \A i \in 1 .. L : e[i] # NULL /\ next[e[i]] = e[i + 1]
  BY DEF Chain
<1>5. \A i \in 2 .. L : e[i] \in 2 .. n - 1
  BY DEF Fresh
<1>6. k + 1 \in Nat
  OBVIOUS
<1>7. CASE j = L
  <2>1. s.h.next[s.finder] = NULL
    BY <1>1, <1>2, <1>3, <1>4, <1>7
  <2>2. s2 = s
    BY <1>3, <1>6, <2>1, IndexTurnIs
  <2>3. \E i \in 2 .. n - 1 : s.finder = e[i] /\ (i >= (k + 1) + 2 \/ i = n - 1)
    BY <1>1, <1>7
  <2> HIDE DEF s2, e
  <2>q. QED
    BY <1>3, <2>2, <2>3 DEF Numbered, s2, e
<1>8. CASE j # L
  <2>1. j \in 1 .. L /\ j + 1 \in 2 .. L
    BY <1>2, <1>8
  <2>2. s.h.next[s.finder] = e[j + 1] /\ e[j + 1] # NULL
    BY <1>1, <1>3, <1>4, <2>1
  <2> DEFINE v == IndexOf(k + 1, n, seed)
  <2>3. Renumbered(n, s, v, s2)
    BY <1>3, <1>6, <2>2, IndexTurnIs
  <2>4. v \in Nat /\ v # 0 /\ v < 16384
    <3>1. j >= k + 2
      BY <1>1, <1>8
    <3>2. k + 1 \in Nat /\ k + 1 # 0 /\ k + 1 < n
      BY <3>1
    <3>q. QED
      BY <3>2, IndexOfIs
  <2> HIDE DEF v, s2
  <2>5. e[j] \in 2 .. n - 1 /\ e[j] \in 1 .. n
    BY <1>5
  <2>6. s.h.info[s.finder] = e[j]
    BY <1>1, <1>3, <2>5
  <2>7. s2.h.idx = [s.h.idx EXCEPT ![e[j]] = v]
    BY <2>3, <2>6 DEF Renumbered
  <2>8. DOMAIN s.h.idx = 1 .. n
    <3>1. s.h \in Heap(n)
      BY <1>3 DEF Numbers
    <3>q. QED
      BY <3>1, HeapIs
  <2>9. \A c \in 1 .. n : s2.h.idx[c] = IF c = e[j] THEN v ELSE s.h.idx[c]
    <3> DEFINE x == e[j]
    <3>1. x \in 1 .. n
      BY <2>5
    <3> HIDE DEF x, e
    <3>q. QED
      BY <2>7, <2>8, <3>1, OnePut DEF x
  <2>10. HeadFirst(n, s2.h.idx)
    <3>1. s2.h.idx[1] = 0
      <4>1. 1 # e[j] /\ 1 \in 1 .. n
        BY <2>5
      <4>q. QED
        BY <1>3, <2>9, <4>1 DEF HeadFirst
    <3>2. ASSUME NEW c \in 2 .. n - 1
          PROVE  s2.h.idx[c] \in Nat /\ 0 < s2.h.idx[c] /\ s2.h.idx[c] < 32768
      <4>1. s.h.idx[c] \in Nat /\ 0 < s.h.idx[c] /\ s.h.idx[c] < 32768
        BY <1>3 DEF HeadFirst
      <4>2. c \in 1 .. n
        OBVIOUS
      <4>3. s2.h.idx[c] = v \/ s2.h.idx[c] = s.h.idx[c]
        BY <2>9, <4>2
      <4> HIDE DEF e
      <4>q. QED
        BY <2>4, <4>1, <4>3
    <3>q. QED
      BY <3>1, <3>2 DEF HeadFirst
  <2>11. /\ s2 \in Numbers(n) /\ s2.h.next = next /\ s2.h.info = [d \in 1 .. n |-> d]
         /\ s2.finder = e[j + 1]
    BY <1>3, <2>2, <2>3 DEF Renumbered
  <2>12. \E i \in 2 .. n - 1 : s2.finder = e[i] /\ (i >= (k + 1) + 2 \/ i = n - 1)
    BY <1>1, <1>8, <2>1, <2>11
  <2>q. QED
    BY <2>10, <2>11, <2>12 DEF Numbered, s2, e
<1>q. QED
  BY <1>7, <1>8

(* What core_list_init leaves for the sort.                                 *)
ListReady(n, h, e) ==
  /\ h \in Heap(n) /\ h.info = [d \in 1 .. n |-> d] /\ HeadFirst(n, h.idx)
  /\ Chain(n, h.next, e, n - 1) /\ e[1] = 1 /\ CellsOf(e, n - 1) = 1 .. n - 1

\* The list as it was built starts with the head and has each cell.
LEMMA AllFresh ==
  ASSUME NEW n \in Nat, n >= 4
  PROVE  Fresh(n - 1)[1] = 1 /\ CellsOf(Fresh(n - 1), n - 1) = 1 .. n - 1
<1> DEFINE e == Fresh(n - 1)
           L == n - 1
<1>1. \A i \in 1 .. L : e[i] = IF i = 1 THEN 1 ELSE (n + 1) - i
  BY DEF Fresh
<1>2. e[1] = 1
  BY <1>1
<1> HIDE DEF e
<1>3. \A i \in 1 .. L : e[i] \in 1 .. L
  BY <1>1
<1>4. ASSUME NEW x \in 1 .. L PROVE \E i \in 1 .. L : x = e[i]
  <2>1. CASE x = 1
    BY <1>1, <2>1
  <2>2. CASE x # 1
    <3>1. (n + 1) - x \in 1 .. L /\ (n + 1) - x # 1
      BY <2>2
    <3>2. e[(n + 1) - x] = (n + 1) - ((n + 1) - x)
      BY <1>1, <3>1
    <3>3. e[(n + 1) - x] = x
      BY <3>2
    <3>q. QED
      BY <3>1, <3>3
  <2>q. QED
    BY <2>1, <2>2
<1>5. {e[i] : i \in 1 .. L} = 1 .. L
  BY <1>3, <1>4
<1>q. QED
  BY <1>2, <1>5 DEF CellsOf, e

\* core_list_init, before its sort, builds a list of all its cells with distinct idx.
LEMMA ListInitIs ==
  ASSUME NEW blksize, NEW n \in Nat, n = ListSize(blksize), n >= 4, n <= 16384, NEW seed \in Word16,
         seed % 8 # 7 \/ seed % 16384 >= n
  PROVE  ListReady(n, core_list_init(blksize, seed), Fresh(n - 1))
<1> DEFINE h0 == [next |-> [c \in 1 .. n |-> NULL], info |-> [c \in 1 .. n |-> c],
                  data16 |-> [[c \in 1 .. n |-> 0] EXCEPT ![1] = 32896], idx |-> [c \in 1 .. n |-> 0]]
           data == [idx |-> 32767, data16 |-> 65535]
           tail == core_list_insert_new(h0, 1, 1, data, n)
           ins == Inserts(tail, n, seed)[n]
           at == Indexing(ins.h, n, seed)
           e == Fresh(n - 1)
<1>1. core_list_init(blksize, seed) = at[n].h
  BY DEF core_list_init
<1>2. Built(n, [h |-> h0, used |-> 1], 1)
  <2>1. h0.data16 \in [1 .. n -> Word16] /\ h0.idx \in [1 .. n -> Word16]
    BY DEF Word16
  <2>2. (1 .. n) \cup {NULL} = 0 .. n
    BY DEF NULL
  <2>3. h0.next \in [1 .. n -> 0 .. n] /\ h0.info \in [1 .. n -> 1 .. n]
    BY DEF NULL
  <2>4. h0 \in Heap(n)
    BY <2>1, <2>2, <2>3 DEF Heap, HeapOf
  <2>5. Chain(n, h0.next, Fresh(1), 1)
    <3>1. Fresh(1) = [i \in 1 .. 2 |-> IF i = 1 THEN 1 ELSE NULL]
      BY DEF Fresh
    <3>2. h0.next[1] = NULL
      OBVIOUS
    <3> HIDE DEF h0
    <3>q. QED
      BY <3>1, <3>2 DEF Chain, NULL
  <2>6. h0.info = [d \in 1 .. n |-> d] /\ h0.idx[1] = 0
    OBVIOUS
  <2> HIDE DEF h0
  <2>7. [h |-> h0, used |-> 1] \in Slots(n)
    BY <2>4 DEF Slots
  <2>q. QED
    BY <2>5, <2>6, <2>7 DEF Built
<1> HIDE DEF h0
<1>3. Built(n, tail, 2)
  <2> DEFINE s == [h |-> h0, used |-> 1]
  <2>1. data.idx = 32767 /\ data.data16 \in Word16
    BY DEF Word16
  <2>2. 1 \in 1 .. n /\ s.h = h0 /\ s.used = 1
    OBVIOUS
  <2> HIDE DEF data, s
  <2>3. Built(n, core_list_insert_new(s.h, s.used, 1, data, n), IF 1 + 1 < n THEN 1 + 1 ELSE 1)
    BY <1>2, <2>1, <2>2, InsertIs DEF s
  <2>4. (IF 1 + 1 < n THEN 1 + 1 ELSE 1) = 2
    OBVIOUS
  <2>q. QED
    BY <2>2, <2>3, <2>4
<1> HIDE DEF tail
<1>4. Built(n, ins, n - 1)
  BY <1>3, AllInserted
<1> HIDE DEF ins
<1>5. /\ ins.h \in Heap(n) /\ ins.h.info = [d \in 1 .. n |-> d]
      /\ Chain(n, ins.h.next, e, n - 1) /\ ins.h.idx[1] = 0
      /\ \A c \in 2 .. n - 1 : ins.h.idx[c] = 32767
  BY <1>4 DEF Built, Slots
<1>6. e[1] = 1 /\ e[2] = n - 1
  BY DEF Fresh
<1> HIDE DEF e
<1>7. ins.h.next[1] = n - 1 /\ n - 1 \in 1 .. n
  BY <1>5, <1>6 DEF Chain
<1>8. Numbering(n, ins.h, seed, [h |-> ins.h, finder |-> ins.h.next[1]], at)
  BY <1>5, <1>7, IndexingIs
<1> HIDE DEF at
<1> DEFINE T == {k \in Nat : Numbered(n, ins.h.next, at[k], k)}
<1>9. 0 \in T
  <2> DEFINE s == [h |-> ins.h, finder |-> n - 1]
  <2>1. at[0] = s
    BY <1>7, <1>8 DEF Numbering
  <2>2. s \in Numbers(n) /\ s.h = ins.h /\ s.finder = e[2]
    BY <1>5, <1>6, <1>7 DEF Numbers
  <2> HIDE DEF s
  <2>3. HeadFirst(n, s.h.idx)
    BY <1>5, <2>2 DEF HeadFirst
  <2>4. \E j \in 2 .. n - 1 : s.finder = Fresh(n - 1)[j] /\ (j >= 0 + 2 \/ j = n - 1)
    BY <2>2 DEF e
  <2>5. Numbered(n, ins.h.next, s, 0)
    BY <1>5, <2>2, <2>3, <2>4 DEF Numbered
  <2>q. QED
    BY <2>1, <2>5
<1>10. ASSUME NEW k \in Nat, k \in T PROVE k + 1 \in T
  <2>1. at[k + 1] = IndexTurn(at[k], k + 1, n, seed)
    BY <1>8 DEF Numbering
  <2>2. Numbered(n, ins.h.next, at[k], k)
    BY <1>10
  <2>3. Numbered(n, ins.h.next, IndexTurn(at[k], k + 1, n, seed), k + 1)
    BY <1>5, <2>2, NumberedOnce DEF e
  <2>q. QED
    BY <2>1, <2>3
<1> HIDE DEF T
<1>11. n \in T
  BY <1>9, <1>10, Induction
<1>12. Numbered(n, ins.h.next, at[n], n)
  BY <1>11 DEF T
<1>13. ListReady(n, at[n].h, e)
  BY <1>5, <1>12, AllFresh DEF ListReady, Numbered, Numbers, e
<1>q. QED
  BY <1>1, <1>13 DEF e

-----------------------------------------------------------------------------
(* core_init_state: the patterns and the room for the final zero.           *)
LEMMA Four ==
  ASSUME NEW a, NEW b, NEW c, NEW d, {a, b, c, d} \subseteq Word16
  PROVE  <<a, b, c, d>> \in Seq(Word16) /\ Len(<<a, b, c, d>>) >= 4
<1>1. a \in Word16 /\ b \in Word16 /\ c \in Word16 /\ d \in Word16
  OBVIOUS
<1>q. QED
  BY <1>1

\* Eight words are a pattern.
LEMMA Eight ==
  ASSUME NEW a, NEW b, NEW c, NEW d, NEW e, NEW f, NEW g, NEW h, {a, b, c, d, e, f, g, h} \subseteq Word16
  PROVE  <<a, b, c, d, e, f, g, h>> \in Seq(Word16) /\ Len(<<a, b, c, d, e, f, g, h>>) >= 4
<1>1. /\ a \in Word16 /\ b \in Word16 /\ c \in Word16 /\ d \in Word16
      /\ e \in Word16 /\ f \in Word16 /\ g \in Word16 /\ h \in Word16
  OBVIOUS
<1>q. QED
  BY <1>1

\* The pattern of a seed has words, four at the least.
LEMMA PatternIs ==
  ASSUME NEW seed \in Word16
  PROVE  Pattern(seed) \in Seq(Word16) /\ Len(Pattern(seed)) >= 4
<1> DEFINE i == ((seed \div 8) % 4) + 1
<1>1. seed \in Nat
  BY DEF Word16
<1>2. i \in {1, 2, 3, 4}
  <2>1. (seed \div 8) % 4 \in 0 .. 3
    BY <1>1
  <2>q. QED
    BY <2>1
<1> HIDE DEF i
<1>3. intpat[i] \in Seq(Word16) /\ Len(intpat[i]) >= 4
  <2>1. intpat[1] \in Seq(Word16) /\ Len(intpat[1]) >= 4
    <3>1. intpat[1] = <<53,48,49,50>>
      BY DEF intpat
    <3>2. {53,48,49,50} \subseteq Word16
      BY DEF Word16
    <3>q. QED
      BY <3>1, <3>2, Four
  <2>2. intpat[2] \in Seq(Word16) /\ Len(intpat[2]) >= 4
    <3>1. intpat[2] = <<49,50,51,52>>
      BY DEF intpat
    <3>2. {49,50,51,52} \subseteq Word16
      BY DEF Word16
    <3>q. QED
      BY <3>1, <3>2, Four
  <2>3. intpat[3] \in Seq(Word16) /\ Len(intpat[3]) >= 4
    <3>1. intpat[3] = <<45,56,55,52>>
      BY DEF intpat
    <3>2. {45,56,55,52} \subseteq Word16
      BY DEF Word16
    <3>q. QED
      BY <3>1, <3>2, Four
  <2>4. intpat[4] \in Seq(Word16) /\ Len(intpat[4]) >= 4
    <3>1. intpat[4] = <<43,49,50,50>>
      BY DEF intpat
    <3>2. {43,49,50,50} \subseteq Word16
      BY DEF Word16
    <3>q. QED
      BY <3>1, <3>2, Four
  <2>q. QED
    BY <1>2, <2>1, <2>2, <2>3, <2>4
<1>4. floatpat[i] \in Seq(Word16) /\ Len(floatpat[i]) >= 4
  <2>1. floatpat[1] \in Seq(Word16) /\ Len(floatpat[1]) >= 4
    <3>1. floatpat[1] = <<51,53,46,53,52,52,48,48>>
      BY DEF floatpat
    <3>2. {51,53,46,53,52,52,48,48} \subseteq Word16
      BY DEF Word16
    <3>q. QED
      BY <3>1, <3>2, Eight
  <2>2. floatpat[2] \in Seq(Word16) /\ Len(floatpat[2]) >= 4
    <3>1. floatpat[2] = <<46,49,50,51,52,53,48,48>>
      BY DEF floatpat
    <3>2. {46,49,50,51,52,53,48,48} \subseteq Word16
      BY DEF Word16
    <3>q. QED
      BY <3>1, <3>2, Eight
  <2>3. floatpat[3] \in Seq(Word16) /\ Len(floatpat[3]) >= 4
    <3>1. floatpat[3] = <<45,49,49,48,46,55,48,48>>
      BY DEF floatpat
    <3>2. {45,49,49,48,46,55,48,48} \subseteq Word16
      BY DEF Word16
    <3>q. QED
      BY <3>1, <3>2, Eight
  <2>4. floatpat[4] \in Seq(Word16) /\ Len(floatpat[4]) >= 4
    <3>1. floatpat[4] = <<43,48,46,54,52,52,48,48>>
      BY DEF floatpat
    <3>2. {43,48,46,54,52,52,48,48} \subseteq Word16
      BY DEF Word16
    <3>q. QED
      BY <3>1, <3>2, Eight
  <2>q. QED
    BY <1>2, <2>1, <2>2, <2>3, <2>4
<1>5. scipat[i] \in Seq(Word16) /\ Len(scipat[i]) >= 4
  <2>1. scipat[1] \in Seq(Word16) /\ Len(scipat[1]) >= 4
    <3>1. scipat[1] = <<53,46,53,48,48,101,43,51>>
      BY DEF scipat
    <3>2. {53,46,53,48,48,101,43,51} \subseteq Word16
      BY DEF Word16
    <3>q. QED
      BY <3>1, <3>2, Eight
  <2>2. scipat[2] \in Seq(Word16) /\ Len(scipat[2]) >= 4
    <3>1. scipat[2] = <<45,46,49,50,51,101,45,50>>
      BY DEF scipat
    <3>2. {45,46,49,50,51,101,45,50} \subseteq Word16
      BY DEF Word16
    <3>q. QED
      BY <3>1, <3>2, Eight
  <2>3. scipat[3] \in Seq(Word16) /\ Len(scipat[3]) >= 4
    <3>1. scipat[3] = <<45,56,55,101,43,56,51,50>>
      BY DEF scipat
    <3>2. {45,56,55,101,43,56,51,50} \subseteq Word16
      BY DEF Word16
    <3>q. QED
      BY <3>1, <3>2, Eight
  <2>4. scipat[4] \in Seq(Word16) /\ Len(scipat[4]) >= 4
    <3>1. scipat[4] = <<43,48,46,54,101,45,49,50>>
      BY DEF scipat
    <3>2. {43,48,46,54,101,45,49,50} \subseteq Word16
      BY DEF Word16
    <3>q. QED
      BY <3>1, <3>2, Eight
  <2>q. QED
    BY <1>2, <2>1, <2>2, <2>3, <2>4
<1>6. errpat[i] \in Seq(Word16) /\ Len(errpat[i]) >= 4
  <2>1. errpat[1] \in Seq(Word16) /\ Len(errpat[1]) >= 4
    <3>1. errpat[1] = <<84,48,46,51,101,45,49,70>>
      BY DEF errpat
    <3>2. {84,48,46,51,101,45,49,70} \subseteq Word16
      BY DEF Word16
    <3>q. QED
      BY <3>1, <3>2, Eight
  <2>2. errpat[2] \in Seq(Word16) /\ Len(errpat[2]) >= 4
    <3>1. errpat[2] = <<45,84,46,84,43,43,84,113>>
      BY DEF errpat
    <3>2. {45,84,46,84,43,43,84,113} \subseteq Word16
      BY DEF Word16
    <3>q. QED
      BY <3>1, <3>2, Eight
  <2>3. errpat[3] \in Seq(Word16) /\ Len(errpat[3]) >= 4
    <3>1. errpat[3] = <<49,84,51,46,52,101,52,122>>
      BY DEF errpat
    <3>2. {49,84,51,46,52,101,52,122} \subseteq Word16
      BY DEF Word16
    <3>q. QED
      BY <3>1, <3>2, Eight
  <2>4. errpat[4] \in Seq(Word16) /\ Len(errpat[4]) >= 4
    <3>1. errpat[4] = <<51,52,46,48,101,45,84,94>>
      BY DEF errpat
    <3>2. {51,52,46,48,101,45,84,94} \subseteq Word16
      BY DEF Word16
    <3>q. QED
      BY <3>1, <3>2, Eight
  <2>q. QED
    BY <1>2, <2>1, <2>2, <2>3, <2>4
<1>7. Pattern(seed) \in {intpat[i], floatpat[i], scipat[i], errpat[i]}
  BY DEF Pattern, i
<1>q. QED
  BY <1>3, <1>4, <1>5, <1>6, <1>7

Writings == [written : Seq(Nat), buf : Seq(Nat), seed : Word16]
Writing(s) == s \in Writings /\ s.written \in Seq(Word16) /\ s.buf \in Seq(Word16)
Length(s) == Len(s.written) + Len(s.buf)

\* A turn of core_init_state writes on, and at most one byte more than fits.
LEMMA NextPatternIs ==
  ASSUME NEW s \in Writings
  PROVE  /\ NextPattern(s) \in Writings /\ Length(s) < Length(NextPattern(s))
         /\ Writing(s) => Writing(NextPattern(s))
         /\ Len(NextPattern(s).written) <= Length(s) + 1
<1> DEFINE t == U16(s.seed + 1)
           p == Pattern(t)
           w == IF s.buf = << >> THEN s.written ELSE Append(s.written \o s.buf, Comma)
<1>1. s.written \in Seq(Nat) /\ s.buf \in Seq(Nat) /\ s.seed \in Word16
  BY DEF Writings
<1>2. t \in Word16
  BY <1>1 DEF U16, Word16
<1>3. p \in Seq(Word16) /\ Len(p) >= 4 /\ Len(p) \in Nat
  BY <1>2, PatternIs
<1>4. p \in Seq(Nat)
  <2>1. Len(p) \in Nat /\ DOMAIN p = 1 .. Len(p) /\ p = [i \in 1 .. Len(p) |-> p[i]]
    BY <1>3
  <2>2. \A i \in 1 .. Len(p) : p[i] \in Nat
    BY <1>3 DEF Word16
  <2>q. QED
    BY <2>1, <2>2, SeqDef
<1>5. NextPattern(s) = [written |-> w, buf |-> p, seed |-> t]
  BY DEF NextPattern
<1>6. Comma \in Nat /\ Comma \in Word16
  BY DEF Comma, Word16
<1> HIDE DEF t, p
<1>7. w \in Seq(Nat)
  BY <1>1, <1>6
<1>8. s.written \in Seq(Word16) /\ s.buf \in Seq(Word16) => w \in Seq(Word16)
  BY <1>6
<1>9. /\ s.buf = << >> => Len(w) = Len(s.written) /\ Len(s.buf) = 0
      /\ s.buf # << >> => Len(w) = Len(s.written) + Len(s.buf) + 1
  <2>1. s.buf = << >> => Len(w) = Len(s.written) /\ Len(s.buf) = 0
    OBVIOUS
  <2>2. ASSUME s.buf # << >> PROVE Len(w) = Len(s.written) + Len(s.buf) + 1
    <3> DEFINE x == s.written \o s.buf
    <3>1. x \in Seq(Nat) /\ Len(x) = Len(s.written) + Len(s.buf)
      BY <1>1
    <3>2. w = Append(x, Comma)
      BY <2>2
    <3> HIDE DEF x, w
    <3>3. Len(Append(x, Comma)) = Len(x) + 1
      BY ONLY <1>6, <3>1, AppendProperties, ZenonT(60)
    <3>q. QED
      BY <3>1, <3>2, <3>3
  <2>q. QED
    BY <2>1, <2>2
<1>10. Len(s.written) \in Nat /\ Len(s.buf) \in Nat
  BY <1>1
<1> HIDE DEF w
<1>11. [written |-> w, buf |-> p, seed |-> t] \in Writings
  BY <1>2, <1>4, <1>7 DEF Writings
<1>12. Length(s) < Len(w) + Len(p) /\ Len(w) <= Length(s) + 1
  <2>1. CASE s.buf = << >>
    BY <1>3, <1>9, <1>10, <2>1 DEF Length
  <2>2. CASE s.buf # << >>
    <3>1. Len(w) = (Len(s.written) + Len(s.buf)) + 1
      BY <1>9, <2>2
    <3> DEFINE a == Len(s.written)
               c == Len(s.buf)
    <3>2. a \in Nat /\ c \in Nat /\ Length(s) = a + c
      BY <1>10 DEF Length
    <3> HIDE DEF a, c
    <3>3. Len(w) = (a + c) + 1
      BY <3>1 DEF a, c
    <3>q. QED
      BY ONLY <1>3, <3>2, <3>3
  <2>q. QED
    BY <2>1, <2>2
<1>13. Length([written |-> w, buf |-> p, seed |-> t]) = Len(w) + Len(p)
  BY DEF Length
<1>14. Writing(s) => Writing([written |-> w, buf |-> p, seed |-> t])
  BY <1>3, <1>8, <1>11 DEF Writing
<1>q. QED
  BY <1>5, <1>11, <1>12, <1>13, <1>14

(* What is written leaves a byte of the room for a zero.                    *)
LEMMA PatternsAre ==
  ASSUME NEW room \in Nat, room # 0, NEW seed \in Word16
  PROVE  Patterns(room, seed) \in Seq(Word16) /\ Len(Patterns(room, seed)) < room
<1> DEFINE S == Writings
           Over(u) == Len(u.written) + Len(u.buf) + 1 >= room
           D == {u \in S : Over(u)}
           g == [u \in S |-> u.written]
           h == [u \in S |-> NextPattern(u)]
           R(f) == [u \in S |-> IF Over(u) THEN u.written ELSE f[NextPattern(u)]]
           write == CHOOSE f : f = R(f)
           s0 == [written |-> << >>, buf |-> << >>, seed |-> seed]
<1>1. g \in [S -> Seq(Nat)] /\ h \in [S -> S]
  <2>1. \A u \in S : NextPattern(u) \in S
    BY NextPatternIs
  <2>2. \A u \in S : u.written \in Seq(Nat)
    BY DEF Writings
  <2> HIDE DEF S
  <2>q. QED
    BY <2>1, <2>2
<1>2. PICK f : Calls(S, Seq(Nat), D, g, h, f)
  <2> HIDE DEF D, g, h, S
  <2>q. QED
    BY <1>1, TailCalls
<1>3. f \in [S -> Seq(Nat)] /\ \A u \in S : f[u] = IF u \in D THEN g[u] ELSE f[h[u]]
  <2> HIDE DEF D, g, h, S
  <2>q. QED
    BY <1>2 DEF Calls
<1>4. f = R(f)
  <2>1. \A u \in S : f[u] = R(f)[u]
    <3> HIDE DEF S, Over
    <3>q. QED
      BY <1>3
  <2> HIDE DEF Over, S
  <2>q. QED
    BY <1>3, <2>1
<1>5. write = R(write)
  <2> HIDE DEF R
  <2>q. QED
    BY <1>4
<1>6. Patterns(room, seed) = write[s0]
  BY DEF Patterns, Writings
<1> HIDE DEF write
<1>7. \A u \in S : write[u] = IF Over(u) THEN u.written ELSE write[NextPattern(u)]
  <2> HIDE DEF Over, S
  <2>q. QED
    BY <1>5
<1>8. \A u \in S : Length(u) \in Nat /\ (Over(u) <=> Length(u) + 1 >= room)
  BY DEF Writings, Length
<1> HIDE DEF S, Over, R, D, g, h
<1> DEFINE Good(u) == write[u] \in Seq(Word16) /\ Len(write[u]) < room
           Fit(u) == u \in S /\ Writing(u) /\ Len(u.written) < room
           T == {k \in Nat : \A u \in S : Fit(u) /\ room - Length(u) <= k => Good(u)}
<1>9. ASSUME NEW u \in S, Fit(u), Over(u) PROVE Good(u)
  <2>1. write[u] = u.written
    BY <1>7, <1>9
  <2>q. QED
    BY <1>9, <2>1 DEF Writing
<1>10. 0 \in T
  <2>1. ASSUME NEW u \in S, Fit(u), room - Length(u) <= 0 PROVE Good(u)
    <3>1. Over(u)
      BY <1>8, <2>1
    <3>q. QED
      BY <1>9, <2>1, <3>1
  <2>q. QED
    BY <2>1
<1>11. ASSUME NEW k \in Nat, k \in T PROVE k + 1 \in T
  <2>1. ASSUME NEW u \in S, Fit(u), room - Length(u) <= k + 1 PROVE Good(u)
    <3>1. CASE Over(u)
      BY <1>9, <2>1, <3>1
    <3>2. CASE ~ Over(u)
      <4> DEFINE v == NextPattern(u)
      <4>1. /\ v \in S /\ Length(u) < Length(v) /\ Writing(v) /\ Len(v.written) <= Length(u) + 1
        BY <2>1, NextPatternIs DEF S
      <4>2. write[u] = write[v]
        BY <1>7, <3>2
      <4> HIDE DEF v
      <4>3. Length(u) \in Nat /\ Length(v) \in Nat /\ Length(u) + 1 < room
        BY <1>8, <3>2, <4>1
      <4>4. room - Length(v) <= k
        BY <2>1, <4>1, <4>3
      <4>5. Len(v.written) < room
        <5>1. Len(v.written) \in Nat
          BY <4>1 DEF Writing
        <5>q. QED
          BY <4>1, <4>3, <5>1
      <4>6. Good(v)
        BY <1>11, <4>1, <4>4, <4>5
      <4>q. QED
        BY <4>2, <4>6
    <3>q. QED
      BY <3>1, <3>2
  <2>2. k + 1 \in Nat
    OBVIOUS
  <2>q. QED
    BY <2>1, <2>2
<1>12. \A k \in Nat : k \in T
  <2> HIDE DEF T
  <2>q. QED
    BY <1>10, <1>11, Induction
<1>13. Fit(s0) /\ Length(s0) = 0
  <2>1. s0 \in S /\ Writing(s0)
    BY DEF S, Writings, Writing
  <2>2. Len(s0.written) = 0 /\ Len(s0.buf) = 0
    OBVIOUS
  <2>q. QED
    BY <2>1, <2>2 DEF Length
<1>14. room \in T
  BY <1>12
<1> HIDE DEF s0
<1>15. Good(s0)
  BY <1>13, <1>14
<1>q. QED
  BY <1>6, <1>15

(* The block has a zero behind the patterns that the damage never hits.     *)
ZeroPlace(size) == IF (size - 1) % 17 = 0 THEN size - 2 ELSE size - 1

\* core_init_state leaves a block that ends with a zero.
LEMMA InitStateIs ==
  ASSUME NEW size \in Nat, size >= 3, NEW seed \in Word16
  PROVE  Undamaged(size, ZeroPlace(size)) /\ core_init_state(size, seed) \in Blocks(size, ZeroPlace(size))
<1> DEFINE w == Patterns(PatternRoom(size), seed)
           b == core_init_state(size, seed)
           z == ZeroPlace(size)
<1>1. w \in Seq(Word16) /\ Len(w) < size - 1
  <2>1. PatternRoom(size) \in Nat /\ PatternRoom(size) # 0 /\ PatternRoom(size) = size - 1
    BY DEF PatternRoom
  <2>q. QED
    BY <2>1, PatternsAre
<1>2. b = [i \in 0 .. size - 1 |-> IF i < Len(w) THEN w[i + 1] ELSE 0]
  BY DEF core_init_state
<1> HIDE DEF w, b
<1>3. z \in 0 .. size - 1 /\ z % 17 # 0 /\ z >= size - 2
  BY DEF ZeroPlace
<1> HIDE DEF z
<1>4. ASSUME NEW i \in 0 .. size - 1 PROVE b[i] \in Word16
  <2>1. CASE i < Len(w)
    <3>1. i + 1 \in 1 .. Len(w)
      BY <1>1, <2>1
    <3>2. w[i + 1] \in Word16
      BY <1>1, <3>1
    <3>q. QED
      BY <1>2, <2>1, <3>2
  <2>2. CASE ~ (i < Len(w))
    <3>1. b[i] = 0
      BY <1>2, <2>2
    <3>q. QED
      BY <3>1 DEF Word16
  <2>q. QED
    BY <2>1, <2>2
<1>5. b \in [0 .. size - 1 -> Word16]
  BY <1>2, <1>4
<1>6. b[z] = 0
  <2>1. ~ (z < Len(w))
    BY <1>1, <1>3
  <2>q. QED
    BY <1>2, <1>3, <2>1
<1>q. QED
  BY <1>3, <1>5, <1>6 DEF Undamaged, Blocks, b, z

-----------------------------------------------------------------------------
(* core_init_matrix: the dimension, the elements and the places.            *)
LEMMA DimensionIs ==
  ASSUME NEW size \in Nat, size # 0
  PROVE  Dimension(size) \in Nat /\ 8 * Dimension(size) * Dimension(size) < size
<1> DEFINE P(i) == 8 * i * i >= size /\ 8 * (i - 1) * (i - 1) < size
           c == CHOOSE i \in 1 .. size : P(i)
           T == {k \in Nat : 8 * k * k < size}
<1>1. \E i \in 1 .. size : P(i)
  <2> SUFFICES ASSUME \A i \in 1 .. size : ~ P(i) PROVE FALSE
    OBVIOUS
  <2>1. 0 \in T
    OBVIOUS
  <2>2. ASSUME NEW k \in Nat, k \in T PROVE k + 1 \in T
    <3>1. 8 * k * k < size /\ k <= 8 * k * k
      BY <2>2
    <3>2. k + 1 \in 1 .. size /\ (k + 1) - 1 = k
      BY <3>1
    <3>3. ~ P(k + 1)
      BY <3>2
    <3>4. 8 * ((k + 1) - 1) * ((k + 1) - 1) < size
      BY <3>1, <3>2
    <3>5. ~ (8 * (k + 1) * (k + 1) >= size)
      BY <3>3, <3>4
    <3>6. 8 * (k + 1) * (k + 1) \in Nat
      OBVIOUS
    <3>q. QED
      BY <3>5, <3>6
  <2> HIDE DEF T
  <2>3. size \in T
    BY <2>1, <2>2, Induction
  <2>4. 8 * size * size < size
    BY <2>3 DEF T
  <2>5. size <= 8 * size * size
    OBVIOUS
  <2>q. QED
    BY <2>4, <2>5
<1>2. c \in 1 .. size /\ P(c)
  BY <1>1
<1>3. Dimension(size) = c - 1
  BY DEF Dimension
<1> HIDE DEF c
<1>q. QED
  BY <1>2, <1>3

\* A turn of core_init_matrix adds one element to each matrix.
LEMMA FilledIs ==
  ASSUME NEW m \in Fills
  PROVE  Filled(m) \in Fills /\ Len(Filled(m).B) = Len(m.B) + 1
<1> DEFINE order == Len(m.B) + 1
           s == CRem(order * m.seed, 65536)
           v == S16(s + order)
<1>1. m.seed \in Int /\ m.B \in Seq(Int)
  BY DEF Fills
<1>2. order \in Int /\ Len(m.B) \in Nat
  BY <1>1
<1>3. s \in Int
  <2>1. order * m.seed \in Int
    BY <1>1, <1>2
  <2>2. \A a \in Int : CRem(a, 65536) \in Int
    BY DEF CRem
  <2>q. QED
    BY <2>1, <2>2
<1>4. Filled(m) = [seed |-> s, B |-> Append(m.B, v)]
  BY DEF Filled
<1> HIDE DEF s
<1>5. v \in Int
  <2>1. s + order \in Int
    BY <1>2, <1>3
  <2>q. QED
    BY <2>1, S16Is DEF Int16
<1> HIDE DEF v
<1>6. Append(m.B, v) \in Seq(Int) /\ Len(Append(m.B, v)) = Len(m.B) + 1
  BY ONLY <1>1, <1>5, AppendProperties
<1> DEFINE b == Append(m.B, v)
<1> HIDE DEF b
<1>7. [seed |-> s, B |-> b] \in Fills
  BY <1>3, <1>6 DEF Fills, b
<1>q. QED
  BY <1>4, <1>6, <1>7 DEF b

\* core_init_matrix fills both matrices.
LEMMA FillIs ==
  ASSUME NEW n \in Nat, NEW seed \in Int
  PROVE  Fill(n, seed) \in Seq(Int) /\ Len(Fill(n, seed)) >= n
<1> DEFINE S == Fills
           D == {u \in S : Len(u.B) >= n}
           g == [u \in S |-> u.B]
           h == [u \in S |-> Filled(u)]
           R(f) == [u \in S |-> IF Len(u.B) >= n THEN u.B ELSE f[Filled(u)]]
           fill == CHOOSE f : f = R(f)
           s0 == [seed |-> seed, B |-> << >>]
<1>1. g \in [S -> Seq(Int)] /\ h \in [S -> S]
  <2>1. \A u \in S : Filled(u) \in S
    BY FilledIs
  <2>2. \A u \in S : u.B \in Seq(Int)
    BY DEF Fills
  <2> HIDE DEF S
  <2>q. QED
    BY <2>1, <2>2
<1>2. PICK f : Calls(S, Seq(Int), D, g, h, f)
  <2> HIDE DEF D, g, h, S
  <2>q. QED
    BY <1>1, TailCalls
<1>3. f \in [S -> Seq(Int)] /\ \A u \in S : f[u] = IF u \in D THEN g[u] ELSE f[h[u]]
  <2> HIDE DEF D, g, h, S
  <2>q. QED
    BY <1>2 DEF Calls
<1>4. f = R(f)
  <2>1. \A u \in S : f[u] = R(f)[u]
    <3> HIDE DEF S
    <3>q. QED
      BY <1>3
  <2> HIDE DEF S
  <2>q. QED
    BY <1>3, <2>1
<1>5. fill = R(fill)
  <2> HIDE DEF R
  <2>q. QED
    BY <1>4
<1>6. Fill(n, seed) = fill[s0]
  BY DEF Fill
<1> HIDE DEF fill
<1>7. \A u \in S : fill[u] = IF Len(u.B) >= n THEN u.B ELSE fill[Filled(u)]
  <2> HIDE DEF S
  <2>q. QED
    BY <1>5
<1>8. \A u \in S : u.B \in Seq(Int) /\ Len(u.B) \in Nat
  BY DEF Fills
<1> HIDE DEF S, R, D, g, h
<1> DEFINE Good(u) == fill[u] \in Seq(Int) /\ Len(fill[u]) >= n
           T == {k \in Nat : \A u \in S : n - Len(u.B) <= k => Good(u)}
<1>9. ASSUME NEW u \in S, Len(u.B) >= n PROVE Good(u)
  <2>1. fill[u] = u.B
    BY <1>7, <1>9
  <2>q. QED
    BY <1>8, <1>9, <2>1
<1>10. 0 \in T
  <2>1. ASSUME NEW u \in S, n - Len(u.B) <= 0 PROVE Good(u)
    <3>1. Len(u.B) >= n
      BY <1>8, <2>1
    <3>q. QED
      BY <1>9, <2>1, <3>1
  <2>q. QED
    BY <2>1
<1>11. ASSUME NEW k \in Nat, k \in T PROVE k + 1 \in T
  <2>1. ASSUME NEW u \in S, n - Len(u.B) <= k + 1 PROVE Good(u)
    <3>1. CASE Len(u.B) >= n
      BY <1>9, <2>1, <3>1
    <3>2. CASE ~ (Len(u.B) >= n)
      <4> DEFINE v == Filled(u)
      <4>1. v \in S /\ Len(v.B) = Len(u.B) + 1
        BY FilledIs DEF S
      <4>2. fill[u] = fill[v]
        BY <1>7, <3>2
      <4> HIDE DEF v
      <4>3. n - Len(v.B) <= k
        <5>1. Len(u.B) \in Nat /\ n - Len(u.B) <= k + 1
          BY <1>8, <2>1
        <5> DEFINE a == Len(u.B)
                   b == Len(v.B)
        <5>2. b = a + 1 /\ a \in Nat /\ n - a <= k + 1
          BY <4>1, <5>1
        <5> HIDE DEF a, b
        <5>3. n - b <= k
          BY <5>2
        <5>q. QED
          BY <5>3 DEF b
      <4>4. Good(v)
        BY <1>11, <4>1, <4>3
      <4>q. QED
        BY <4>2, <4>4
    <3>q. QED
      BY <3>1, <3>2
  <2>2. k + 1 \in Nat
    OBVIOUS
  <2>q. QED
    BY <2>1, <2>2
<1>12. \A k \in Nat : k \in T
  <2> HIDE DEF T
  <2>q. QED
    BY <1>10, <1>11, Induction
<1>13. s0 \in S /\ Len(s0.B) = 0
  BY DEF S, Fills
<1> HIDE DEF s0
<1>14. n \in T /\ n - Len(s0.B) <= n
  BY <1>12, <1>13
<1>15. Good(s0)
  BY <1>13, <1>14
<1>q. QED
  BY <1>6, <1>15

(* The matrices, and that they with their alignment lie in the block.       *)
LEMMA InitMatrixIs ==
  ASSUME NEW size \in Nat, size # 0, NEW memblk \in Nat, NEW seed \in Int,
         \A N \in 0 .. size : size - 8 * N * N \notin {1, 2}
  PROVE  LET mat == core_init_matrix(size, memblk, seed)
         IN  Matrixed(mat) /\ memblk <= mat.first /\ mat.end <= memblk + size
<1> DEFINE mat == core_init_matrix(size, memblk, seed)
           N == Dimension(size)
           s1 == IF seed = 0 THEN 1 ELSE seed
           B == Fill(N * N, s1)
           atA == align_mem(memblk)
           atB == atA + 2 * N * N
           atC == align_mem(atB + 2 * N * N)
           mA == [i \in Offsets(N) |-> LowByte(B[i + 1] + i + 1)]
           mB == [i \in Offsets(N) |-> B[i + 1]]
<1>1. N \in Nat /\ 8 * N * N < size
  BY DimensionIs
<1>2. mat = [N |-> N, A |-> mA, B |-> mB, first |-> atA, end |-> atC + 4 * N * N]
  BY DEF core_init_matrix
<1> HIDE DEF mat, N
<1> DEFINE M == N * N
<1>3. M \in Nat
  BY <1>1
<1>4. B \in Seq(Int) /\ Len(B) \in Nat /\ Len(B) >= M
  <2>1. s1 \in Int
    OBVIOUS
  <2> HIDE DEF s1, M
  <2>2. Fill(M, s1) \in Seq(Int) /\ Len(Fill(M, s1)) >= M
    BY <1>3, <2>1, FillIs
  <2>q. QED
    BY <2>2 DEF M
<1> HIDE DEF B
<1>5. ASSUME NEW i \in Offsets(N) PROVE i + 1 \in 1 .. Len(B) /\ i \in Nat
  BY <1>3, <1>4 DEF Offsets
<1>6. ASSUME NEW i \in Offsets(N) PROVE B[i + 1] \in Int /\ LowByte(B[i + 1] + i + 1) \in Int16
  <2>1. B[i + 1] \in Int /\ i \in Nat
    BY <1>4, <1>5
  <2>2. (B[i + 1] + i) + 1 \in Int
    BY <2>1
  <2>3. \A x \in Int : LowByte(x) \in Int16
    BY DEF LowByte, Int16
  <2>q. QED
    BY <2>1, <2>2, <2>3
<1>7. mA \in [Offsets(N) -> Int16] /\ mB \in Matrices(N)
  BY <1>6 DEF Matrices
<1> HIDE DEF mA, mB
<1>8. Matrixed(mat)
  BY <1>1, <1>2, <1>7 DEF Matrixed
<1>9. memblk <= atA /\ atA <= memblk + 3 /\ atA % 4 = 0 /\ atA \in Nat
  BY DEF align_mem
<1> HIDE DEF atA
<1>10. 2 * N * N = 2 * M /\ 4 * N * N = 4 * M /\ 8 * N * N = 8 * M
  BY <1>1
<1>11. size >= 8 * M + 3
  <2>1. N <= N * N
    BY <1>1
  <2>2. N \in 0 .. size
    BY <1>1, <1>10, <2>1
  <2>3. size - 8 * N * N \notin {1, 2}
    BY <2>2
  <2> HIDE DEF M
  <2>q. QED
    BY <1>1, <1>3, <1>10, <2>3
<1>12. atC = atA + 4 * M
  <2> DEFINE x == atA + 4 * M
  <2>1. atB + 2 * N * N = x
    BY <1>3, <1>9, <1>10
  <2>2. x \in Nat /\ x % 4 = 0
    <3> HIDE DEF M
    <3>q. QED
      BY <1>3, <1>9
  <2> HIDE DEF x
  <2>3. align_mem(x) = x
    BY <2>2 DEF align_mem
  <2>q. QED
    BY <2>1, <2>3 DEF x
<1>13. atC + 4 * N * N <= memblk + size
  <2>1. atC + 4 * N * N = atA + 8 * M
    <3> HIDE DEF M, atC
    <3>q. QED
      BY <1>3, <1>9, <1>10, <1>12
  <2> HIDE DEF M, atC
  <2>q. QED
    BY <1>3, <1>9, <1>11, <2>1
<1> HIDE DEF atC
<1>14. mat.first = atA /\ mat.end = atC + 4 * N * N
  BY <1>2
<1>q. QED
  BY <1>8, <1>9, <1>13, <1>14 DEF mat

-----------------------------------------------------------------------------
(* CoreMark's list, for a heap of any size and cells that point anywhere   *)
(* in it: undoing a removal gives the heap back, and neither adding a cell *)
(* nor caching one loses a cell or shares a tail.                          *)

\* No two cells point to the same one: a list has one way to each of its cells.
Unshared(h, Nodes) ==
  \A c, d \in Nodes : h.next[c] = h.next[d] /\ h.next[c] # NULL => c = d

\* Nothing points to a cell.
Unreached(h, Nodes, cell) == \A c \in Nodes : h.next[c] # cell

\* The parts of a heap.
LEMMA HeapParts ==
  ASSUME NEW Nodes, NEW Datum, NEW h \in HeapOf(Nodes, Datum)
  PROVE  /\ h.next \in [Nodes -> Nodes \cup {NULL}]
         /\ h.info \in [Nodes -> Nodes]
         /\ h.data16 \in [Nodes -> Datum]
         /\ h.idx \in [Nodes -> Datum]
         /\ h = [next |-> h.next, info |-> h.info, data16 |-> h.data16, idx |-> h.idx]
BY DEF HeapOf

\* A heap with other pointers.
LEMMA Relinked ==
  ASSUME NEW Nodes, NEW Datum, NEW h \in HeapOf(Nodes, Datum),
         NEW info1 \in [Nodes -> Nodes], NEW next1 \in [Nodes -> Nodes \cup {NULL}]
  PROVE  [h EXCEPT !.info = info1, !.next = next1] =
         [next |-> next1, info |-> info1, data16 |-> h.data16, idx |-> h.idx]
<1> DEFINE mid == [h EXCEPT !.info = info1]
<1>1. mid = [next |-> h.next, info |-> info1, data16 |-> h.data16, idx |-> h.idx]
  BY DEF HeapOf
<1>2. mid \in HeapOf(Nodes, Datum)
  BY <1>1, HeapParts DEF HeapOf
<1>3. mid.info = info1 /\ mid.data16 = h.data16 /\ mid.idx = h.idx
  BY <1>1
<1>4. [h EXCEPT !.info = info1, !.next = next1] = [mid EXCEPT !.next = next1]
  OBVIOUS
<1> HIDE DEF mid
<1>5. [mid EXCEPT !.next = next1] =
      [next |-> next1, info |-> mid.info, data16 |-> mid.data16, idx |-> mid.idx]
  BY <1>2 DEF HeapOf
<1>q. QED
  BY <1>3, <1>4, <1>5

\* core_list_remove, then core_list_undo_remove: core_bench_list takes out the cell
\* behind the one behind the head and puts it in again.  The list is then what it
\* was, data and order, wherever the cell stands and even if the list is a ring.
THEOREM UndoRestores ==
  ASSUME NEW Nodes, NULL \notin Nodes, NEW Datum, NEW h \in HeapOf(Nodes, Datum),
         NEW item \in Nodes, h.next[item] # NULL
  PROVE  LET r == core_list_remove(h, item)
         IN  core_list_undo_remove(r.h, r.removed, item) = h
<1> DEFINE ret == h.next[item]
           info1 == [h.info EXCEPT ![item] = h.info[ret], ![ret] = h.info[item]]
           next1 == [h.next EXCEPT ![item] = h.next[ret], ![ret] = NULL]
           cut == [h EXCEPT !.info = info1, !.next = next1]
           info2 == [info1 EXCEPT ![ret] = info1[item], ![item] = info1[ret]]
           next2 == [next1 EXCEPT ![ret] = next1[item], ![item] = ret]
<1>1. /\ h.next \in [Nodes -> Nodes \cup {NULL}] /\ h.info \in [Nodes -> Nodes]
      /\ h = [next |-> h.next, info |-> h.info, data16 |-> h.data16, idx |-> h.idx]
  BY HeapParts
<1>2. ret \in Nodes
  BY <1>1
<1>3. core_list_remove(h, item) = [h |-> cut, removed |-> ret]
  BY DEF core_list_remove
<1>4. /\ info1 \in [Nodes -> Nodes] /\ next1 \in [Nodes -> Nodes \cup {NULL}]
      /\ info2 \in [Nodes -> Nodes] /\ next2 \in [Nodes -> Nodes \cup {NULL}]
  BY <1>1, <1>2
<1> HIDE DEF info1, next1, info2, next2, cut
<1>5. /\ cut = [next |-> next1, info |-> info1, data16 |-> h.data16, idx |-> h.idx]
      /\ cut \in HeapOf(Nodes, Datum)
      /\ cut.next = next1 /\ cut.info = info1 /\ cut.data16 = h.data16 /\ cut.idx = h.idx
  <2>1. cut = [next |-> next1, info |-> info1, data16 |-> h.data16, idx |-> h.idx]
    <3> DEFINE mid == [h EXCEPT !.info = info1]
    <3>1. mid = [next |-> h.next, info |-> info1, data16 |-> h.data16, idx |-> h.idx]
      BY DEF HeapOf
    <3>2. mid \in HeapOf(Nodes, Datum)
      BY <3>1, <1>4, HeapParts DEF HeapOf
    <3>3. mid.info = info1 /\ mid.data16 = h.data16 /\ mid.idx = h.idx
      BY <3>1
    <3>4. cut = [mid EXCEPT !.next = next1]
      BY DEF cut
    <3> HIDE DEF mid
    <3>5. [mid EXCEPT !.next = next1] =
          [next |-> next1, info |-> mid.info, data16 |-> mid.data16, idx |-> mid.idx]
      BY <3>2 DEF HeapOf
    <3>q. QED
      BY <3>3, <3>4, <3>5
  <2>2. cut \in HeapOf(Nodes, Datum)
    BY <1>1, <1>4, <2>1, HeapParts DEF HeapOf
  <2>q. QED
    BY <2>1, <2>2
<1>6. core_list_undo_remove(cut, ret, item) =
        [next |-> next2, info |-> info2, data16 |-> h.data16, idx |-> h.idx]
  <2>1. core_list_undo_remove(cut, ret, item) = [cut EXCEPT !.info = info2, !.next = next2]
    BY <1>5 DEF core_list_undo_remove, info2, next2
  <2>q. QED
    BY <1>4, <1>5, <2>1, Relinked
<1>7. info2 = h.info
  BY <1>1, <1>2 DEF info1, info2
<1>8. next2 = h.next
  BY <1>1, <1>2 DEF next1, next2
<1>q. QED
  BY <1>1, <1>3, <1>6, <1>7, <1>8

\* core_list_insert_new, when the cells are those of the arrays: it stays inside
\* them, and keeps the list unshared if the cell it takes was never linked.
THEOREM InsertKeeps ==
  ASSUME NEW size \in Nat, NEW Datum, NEW h \in HeapOf(1 .. size, Datum),
         NEW used \in Nat, NEW insert_point \in 1 .. size, insert_point <= used,
         NEW data \in [data16 : Datum, idx : Datum],
         Unshared(h, 1 .. size), \A c \in used + 1 .. size : Unreached(h, 1 .. size, c)
  PROVE  LET r == core_list_insert_new(h, used, insert_point, data, size)
         IN  /\ r.h \in HeapOf(1 .. size, Datum)
             /\ r.used \in Nat /\ (r.used = used \/ r.used < size)
             /\ Unshared(r.h, 1 .. size)
             /\ \A c \in r.used + 1 .. size : Unreached(r.h, 1 .. size, c)
<1> DEFINE Nodes == 1 .. size
           new == used + 1
           next1 == [h.next EXCEPT ![new] = h.next[insert_point], ![insert_point] = new]
           info1 == [h.info EXCEPT ![new] = new]
           data1 == [h.data16 EXCEPT ![new] = data.data16]
           idx1 == [h.idx EXCEPT ![new] = data.idx]
           h1 == [next |-> next1, info |-> info1, data16 |-> data1, idx |-> idx1]
<1>1. CASE new >= size
  BY <1>1 DEF core_list_insert_new
<1>2. CASE ~(new >= size)
  <2>1. new \in Nodes /\ insert_point \in Nodes /\ new # insert_point /\ new < size
    BY <1>2
  <2>2. core_list_insert_new(h, used, insert_point, data, size) = [h |-> h1, used |-> new]
    BY <1>2 DEF core_list_insert_new
  <2>3. /\ h.next \in [Nodes -> Nodes \cup {NULL}] /\ h.info \in [Nodes -> Nodes]
        /\ h.data16 \in [Nodes -> Datum] /\ h.idx \in [Nodes -> Datum]
    BY HeapParts
  <2>4. h1 \in HeapOf(Nodes, Datum)
    BY <2>1, <2>3 DEF HeapOf
  <2>5. /\ next1 \in [Nodes -> Nodes \cup {NULL}]
        /\ next1[new] = h.next[insert_point] /\ next1[insert_point] = new
        /\ \A c \in Nodes \ {new, insert_point} : next1[c] = h.next[c]
    BY <2>1, <2>3
  <2>6. \A c \in Nodes : h.next[c] # new
    BY <2>1 DEF Unreached
  <2>7. \A c, d \in Nodes : h.next[c] = h.next[d] /\ h.next[c] # NULL => c = d
    BY DEF Unshared
  <2> HIDE DEF Nodes, next1
  <2>8. Unshared(h1, Nodes)
    BY <2>1, <2>5, <2>6, <2>7 DEF Unshared, NULL
  <2>9. \A c \in new + 1 .. size : Unreached(h1, Nodes, c)
    <3> SUFFICES ASSUME NEW c \in new + 1 .. size, NEW d \in Nodes PROVE next1[d] # c
      BY DEF Unreached
    <3>1. c \in used + 1 .. size /\ c # new
      OBVIOUS
    <3>2. \A e \in Nodes : h.next[e] # c
      BY <3>1 DEF Unreached, Nodes
    <3>q. QED
      BY <3>1, <3>2, <2>1, <2>5
  <2>q. QED
    BY <2>1, <2>2, <2>4, <2>8, <2>9 DEF Nodes
<1>q. QED
  BY <1>1, <1>2

\* core_bench_list moves the cell behind the one it found to behind the head:
\* no cell is lost from the list, nor reached twice, as long as no cell points
\* back to the head.
THEOREM CacheKeeps ==
  ASSUME NEW Nodes, NULL \notin Nodes, NEW Datum, NEW h \in HeapOf(Nodes, Datum),
         NEW list \in Nodes, NEW found \in Nodes,
         Unshared(h, Nodes), Unreached(h, Nodes, list)
  PROVE  LET k == CacheNext(h, list, found)
         IN  /\ k \in HeapOf(Nodes, Datum)
             /\ Unshared(k, Nodes) /\ Unreached(k, Nodes, list)
             /\ \A c \in Nodes : Unreached(k, Nodes, c) <=> Unreached(h, Nodes, c)
<1> DEFINE finder == h.next[found]
           cut == [h.next EXCEPT ![found] = h.next[finder]]
           next1 == [[cut EXCEPT ![finder] = cut[list]] EXCEPT ![list] = finder]
           k == [h EXCEPT !.next = next1]
<1>1. /\ h.next \in [Nodes -> Nodes \cup {NULL}] /\ h.info \in [Nodes -> Nodes]
      /\ h.data16 \in [Nodes -> Datum] /\ h.idx \in [Nodes -> Datum]
      /\ h = [next |-> h.next, info |-> h.info, data16 |-> h.data16, idx |-> h.idx]
  BY HeapParts
<1>2. CASE finder = NULL
  BY <1>2 DEF CacheNext
<1>3. CASE finder # NULL
  <2>1. finder \in Nodes /\ finder # list
    BY <1>1, <1>3 DEF Unreached
  <2>2. CacheNext(h, list, found) = k
    BY <1>3 DEF CacheNext
  <2>3. k = [next |-> next1, info |-> h.info, data16 |-> h.data16, idx |-> h.idx]
    BY <1>1
  <2>4. /\ cut \in [Nodes -> Nodes \cup {NULL}] /\ cut[found] = h.next[finder]
        /\ \A c \in Nodes \ {found} : cut[c] = h.next[c]
    BY <1>1, <2>1
  <2>5. /\ next1 \in [Nodes -> Nodes \cup {NULL}]
        /\ next1[list] = finder /\ next1[finder] = cut[list]
        /\ \A c \in Nodes \ {finder, list} : next1[c] = cut[c]
    BY <2>1, <2>4
  <2>6. \A c, d \in Nodes : h.next[c] = h.next[d] /\ h.next[c] # NULL => c = d
    BY DEF Unshared
  <2>7. \A c \in Nodes : h.next[c] # list
    BY DEF Unreached
  <2>8. k \in HeapOf(Nodes, Datum)
    BY <1>1, <2>3, <2>5 DEF HeapOf
  <2>9. h.next[found] = finder
    OBVIOUS
  <2>10. k.next = next1
    BY <2>3
  <2> HIDE DEF cut, next1, k, finder
  <2>11. \A c, d \in Nodes : next1[c] = next1[d] /\ next1[c] # NULL => c = d
    BY <1>3, <2>1, <2>4, <2>5, <2>6, <2>9
  <2>12. \A t \in Nodes : (\E c \in Nodes : next1[c] = t) <=> (\E c \in Nodes : h.next[c] = t)
    <3> TAKE t \in Nodes
    <3>1. ASSUME NEW c \in Nodes, next1[c] = t PROVE \E d \in Nodes : h.next[d] = t
      BY <3>1, <2>1, <2>4, <2>5, <2>9
    <3>2. ASSUME NEW c \in Nodes, h.next[c] = t PROVE \E d \in Nodes : next1[d] = t
      <4>1. CASE c = found
        BY <3>2, <4>1, <2>5, <2>9
      <4>2. CASE c = list /\ c # found
        BY <3>2, <4>2, <2>1, <2>4, <2>5
      <4>3. CASE c = finder /\ c # found
        <5>1. CASE found = list
          BY <3>2, <4>3, <5>1, <2>1, <2>4, <2>5
        <5>2. CASE found # list
          <6>1. cut[found] = t
            BY <3>2, <4>3, <2>4
          <6>2. found # finder
            BY <4>3
          <6>q. QED
            BY <6>1, <6>2, <5>2, <2>5
        <5>q. QED
          BY <5>1, <5>2
      <4>4. CASE c \notin {found, list, finder}
        BY <3>2, <4>4, <2>4, <2>5
      <4>q. QED
        BY <4>1, <4>2, <4>3, <4>4
    <3>q. QED
      BY <3>1, <3>2
  <2>q. QED
    BY <2>2, <2>7, <2>8, <2>10, <2>11, <2>12 DEF Unshared, Unreached
<1>q. QED
  BY <1>2, <1>3
=============================================================================
