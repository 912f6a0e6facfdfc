------------------------------- MODULE CoreUtil -------------------------------
(***************************************************************************)
(* What the algorithms of CoreMark share: the widths of coremark.h's types *)
(* and the CRCs of core_util.c.  A word of 16 bits is its unsigned value;  *)
(* S16 is what the code sees when it reads it as an ee_s16.                *)
(***************************************************************************)
EXTENDS Integers

Word16 == {w \in Nat : w < 65536}
U16(n) == n % 65536
S16(n) == LET u == U16(n) IN IF u < 32768 THEN u ELSE u - 65536
HighByte(w) == w \div 256
LowByte(w) == w % 256
BitOf(w, p) == (w \div 2^p) % 2
Flip(w, weight) == IF (w \div weight) % 2 = 1 THEN w - weight ELSE w + weight

(* One bit of the LFSR, the lowest of what is left of data; n are to come.  *)
(* `crc ^= 0x4002` before the shift flips bits 13 and 0 after it, and the   *)
(* carry comes in as bit 15.                                                *)
Lfsr(s) ==
  [n    |-> s.n - 1,
   data |-> s.data \div 2,
   crc  |-> IF (s.data + s.crc) % 2 = 0 THEN s.crc \div 2
            ELSE Flip(Flip(s.crc \div 2, 8192), 1) + 32768]

Shifts == [n : Nat, data : Nat, crc : Word16]
Shifted[s \in Shifts] == IF s.n = 0 THEN s.crc ELSE Shifted[Lfsr(s)]

CrcBits(n, data, crc) == Shifted[[n |-> n, data |-> data, crc |-> crc]]

crcu8(data, crc) == CrcBits(8, data, crc)

(* The low byte first, and of an ee_u32 the low half first: all of it is    *)
(* one run over the bits.                                                   *)
crcu16_HighFirst(newval, crc) ==    \* slip: the bytes the other way round
  CrcBits(16, LowByte(newval) * 256 + HighByte(newval), crc)
crcu16(newval, crc) == CrcBits(16, newval, crc)
crc16(newval, crc) == crcu16(U16(newval), crc)
crcu32(newval, crc) == CrcBits(32, newval, crc)

(* a ^ b and a | b of words: a bit of the result depends on how many of the *)
(* two have it.                                                             *)
OfBits(a, b, bit) ==
  LET low[p \in Nat] ==
        IF p = 0 THEN 0
        ELSE low[p - 1] + bit[BitOf(a, p - 1) + BitOf(b, p - 1)] * 2^(p - 1)
  IN  low[16]
Xor(a, b) == OfBits(a, b, [ones \in 0 .. 2 |-> ones % 2])
Or(a, b) == OfBits(a, b, [ones \in 0 .. 2 |-> IF ones = 0 THEN 0 ELSE 1])

(* get_seed_32 reads the five volatile words of the port; there is no       *)
(* sixth.                                                                   *)
get_seed_32(i, seeds) == IF i \in 1 .. 5 THEN seeds[i] ELSE 0

===============================================================================
