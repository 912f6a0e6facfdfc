------------------------------ MODULE SpiXipProofs ------------------------------
(***************************************************************************)
(* What the CPU reads from the flash, that the flash is brought back from  *)
(* the enhance mode, and that two never drive a pin, for every content,    *)
(* address, delay, level of an open pin and order of reads, changes of the *)
(* mode, programming and resets.                                           *)
(*                                                                         *)
(* Going says what the flash has taken in of the byte that goes out,       *)
(* bit by bit; InState what is under way and what has come in each state   *)
(* of the read FSM; Calm what the boot ROM may count on.                   *)
(***************************************************************************)
EXTENDS SpiXip, SequenceTheorems, TLAPS

-----------------------------------------------------------------------------
(* A byte on its way. *)

\* The shift register that held s, with j bits of b behind it.
Behind(s, b, j) ==
    CASE j = 0 -> s                         [] j = 1 -> 2 * s + b \div 128
      [] j = 2 -> 4 * s + b \div 64         [] j = 3 -> 8 * s + b \div 32
      [] j = 4 -> 16 * s + b \div 16        [] j = 5 -> 32 * s + b \div 8
      [] j = 6 -> 64 * s + b \div 4         [] j = 7 -> 128 * s + b \div 2
      [] j = 8 -> 256 * s + b
\* What is left of a byte in the register it goes out of.
Left(b, j) ==
    CASE j = 0 -> b                         [] j = 1 -> (2 * b) % 256
      [] j = 2 -> (4 * b) % 256             [] j = 3 -> (8 * b) % 256
      [] j = 4 -> (16 * b) % 256            [] j = 5 -> (32 * b) % 256
      [] j = 6 -> (64 * b) % 256            [] j = 7 -> (128 * b) % 256
\* The last q bits taken in are the first of b.
Begins(i, b, q) ==
    CASE q = 0 -> TRUE                      [] q = 1 -> i % 2 = b \div 128
      [] q = 2 -> i % 4 = b \div 64         [] q = 3 -> i % 8 = b \div 32
      [] q = 4 -> i % 16 = b \div 16        [] q = 5 -> i % 32 = b \div 8
      [] q = 6 -> i % 64 = b \div 4         [] q = 7 -> i % 128 = b \div 2
      [] q = 8 -> i = b

Register24 == 0..(2^24 - 1)
FlashAddr  == 0..(2^22 - 1)

\* The flash's register takes a bit, or two, of the byte.
LEMMA BitGoes ==
    ASSUME NEW s \in Nat, NEW b \in Byte, NEW j \in 0..7
    PROVE  (2 * (Behind(s, b, j) % 2^24) + Left(b, j) \div 128) % 2^24
             = Behind(s, b, j + 1) % 2^24
<1>1. \A x \in Nat, y \in 0..1 : (2 * (x % 2^24) + y) % 2^24 = (2 * x + y) % 2^24
  OBVIOUS
<1>2. /\ Behind(s, b, j) \in Nat /\ Left(b, j) \div 128 \in 0..1
      /\ Behind(s, b, j + 1) = 2 * Behind(s, b, j) + Left(b, j) \div 128
  <2>1. CASE j = 0
    BY <2>1 DEF Behind, Left, Byte
  <2>2. CASE j = 1
    BY <2>2 DEF Behind, Left, Byte
  <2>3. CASE j = 2
    BY <2>3 DEF Behind, Left, Byte
  <2>4. CASE j = 3
    BY <2>4 DEF Behind, Left, Byte
  <2>5. CASE j = 4
    BY <2>5 DEF Behind, Left, Byte
  <2>6. CASE j = 5
    BY <2>6 DEF Behind, Left, Byte
  <2>7. CASE j = 6
    BY <2>7 DEF Behind, Left, Byte
  <2>8. CASE j = 7
    BY <2>8 DEF Behind, Left, Byte
  <2> QED
    BY <2>1, <2>2, <2>3, <2>4, <2>5, <2>6, <2>7, <2>8
<1> QED
  BY <1>1, <1>2, ZenonT(40)

\* See BitGoes.
LEMMA PairGoes ==
    ASSUME NEW s \in Nat, NEW b \in Byte, NEW j \in {0, 2, 4, 6}
    PROVE  (4 * (Behind(s, b, j) % 2^24) + Left(b, j) \div 64) % 2^24
             = Behind(s, b, j + 2) % 2^24
<1>1. \A x \in Nat, y \in 0..3 : (4 * (x % 2^24) + y) % 2^24 = (4 * x + y) % 2^24
  OBVIOUS
<1>2. /\ Behind(s, b, j) \in Nat /\ Left(b, j) \div 64 \in 0..3
      /\ Behind(s, b, j + 2) = 4 * Behind(s, b, j) + Left(b, j) \div 64
  <2>1. CASE j = 0
    BY <2>1 DEF Behind, Left, Byte
  <2>2. CASE j = 2
    BY <2>2 DEF Behind, Left, Byte
  <2>3. CASE j = 4
    BY <2>3 DEF Behind, Left, Byte
  <2>4. CASE j = 6
    BY <2>4 DEF Behind, Left, Byte
  <2> QED
    BY <2>1, <2>2, <2>3, <2>4
<1> QED
  BY <1>1, <1>2

\* The register it goes out of is shifted by one or by two.
LEMMA ByteLeaves ==
    ASSUME NEW b \in Byte, NEW j \in 0..6
    PROVE  /\ Left(b, j) \in Byte /\ Left(b, j + 1) \in Byte
           /\ (2 * Left(b, j)) % 256 = Left(b, j + 1)
           /\ j # 6 => (4 * Left(b, j)) % 256 = Left(b, j + 2)
<1>1. CASE j = 0
  BY <1>1 DEF Left, Byte
<1>2. CASE j = 1
  BY <1>2 DEF Left, Byte
<1>3. CASE j = 2
  BY <1>3 DEF Left, Byte
<1>4. CASE j = 3
  BY <1>4 DEF Left, Byte
<1>5. CASE j = 4
  BY <1>5 DEF Left, Byte
<1>6. CASE j = 5
  BY <1>6 DEF Left, Byte
<1>7. CASE j = 6
  BY <1>7 DEF Left, Byte
<1> QED
  BY <1>1, <1>2, <1>3, <1>4, <1>5, <1>6, <1>7

\* A bit, or two, of what the flash sends.
LEMMA BitComes ==
    ASSUME NEW i \in Byte, NEW b \in Byte, NEW q \in 0..7, Begins(i, b, q)
    PROVE  Begins((2 * i + Bit(b, 7 - q)) % 256, b, q + 1)
<1>1. CASE q = 0
  BY <1>1 DEF Begins, Bit, Byte
<1>2. CASE q = 1
  BY <1>2 DEF Begins, Bit, Byte
<1>3. CASE q = 2
  BY <1>3 DEF Begins, Bit, Byte
<1>4. CASE q = 3
  BY <1>4, SMTT(40) DEF Begins, Bit, Byte
<1>5. CASE q = 4
  BY <1>5, SMTT(40) DEF Begins, Bit, Byte
<1>6. CASE q = 5
  BY <1>6 DEF Begins, Bit, Byte
<1>7. CASE q = 6
  BY <1>7 DEF Begins, Bit, Byte
<1>8. CASE q = 7
  BY <1>8, SMTT(40) DEF Begins, Bit, Byte
<1> QED
  BY <1>1, <1>2, <1>3, <1>4, <1>5, <1>6, <1>7, <1>8

\* See BitComes.
LEMMA PairComes ==
    ASSUME NEW i \in Byte, NEW b \in Byte, NEW q \in {0, 2, 4, 6}, Begins(i, b, q)
    PROVE  Begins((4 * i + 2 * Bit(b, 7 - q) + Bit(b, 6 - q)) % 256, b, q + 2)
<1>1. CASE q = 0
  BY <1>1 DEF Begins, Bit, Byte
<1>2. CASE q = 2
  BY <1>2, SMTT(40) DEF Begins, Bit, Byte
<1>3. CASE q = 4
  BY <1>3 DEF Begins, Bit, Byte
<1>4. CASE q = 6
  BY <1>4 DEF Begins, Bit, Byte
<1> QED
  BY <1>1, <1>2, <1>3, <1>4

\* A bit is a bit.
LEMMA BitIs ==
    ASSUME NEW b \in Byte, NEW i \in 0..7
    PROVE  Bit(b, i) \in 0..1 /\ Bit(b, 7) = b \div 128 /\ 2 * Bit(b, 7) + Bit(b, 6) = b \div 64
<1>1. Bit(b, i) \in 0..1
  <2>1. CASE i = 0
    BY <2>1 DEF Bit, Byte
  <2>2. CASE i = 1
    BY <2>2 DEF Bit, Byte
  <2>3. CASE i = 2
    BY <2>3 DEF Bit, Byte
  <2>4. CASE i = 3
    BY <2>4 DEF Bit, Byte
  <2>5. CASE i = 4
    BY <2>5 DEF Bit, Byte
  <2>6. CASE i = 5
    BY <2>6 DEF Bit, Byte
  <2>7. CASE i = 6
    BY <2>7 DEF Bit, Byte
  <2>8. CASE i = 7
    BY <2>8 DEF Bit, Byte
  <2> QED
    BY <2>1, <2>2, <2>3, <2>4, <2>5, <2>6, <2>7, <2>8
<1>2. Bit(b, 7) = b \div 128 /\ 2 * Bit(b, 7) + Bit(b, 6) = b \div 64
  BY DEF Bit, Byte
<1> QED
  BY <1>1, <1>2
-----------------------------------------------------------------------------
(* Types. *)

PortType == [kind : {"none", "read", "mode", "pins", "off", "on", "program"},
             addr : FlashAddr, ddr : BOOLEAN, cont : BOOLEAN]
SpiType == [state : 0..15, pudly_cnt : Nat, xfer_resetn : BOOLEAN, din_valid : BOOLEAN,
            din_data : Byte, din_tag : 0..4, din_ddr : BOOLEAN, din_rd : BOOLEAN,
            rd_addr : Register24, rd_valid : BOOLEAN, rd_wait : BOOLEAN, rd_inc : BOOLEAN,
            buffer : Seq(Byte), rdata : Seq(Byte)]
XferType == [csb : 0..1, clk : 0..1, count : 0..8, obuffer : Byte, ibuffer : Byte,
             tag : 0..4, tag_q : 0..4, dspi : BOOLEAN, rd : BOOLEAN, fetch : BOOLEAN]
FlashType == [n : Nat, sr : Register24, cmd : Byte, addr : FlashAddr, enhance : BOOLEAN]

\* No byte of the answer is longer than eight clocks, or four.
FlashEnds == flash.n < IF Dual THEN 28 ELSE 40

TypeInv ==
    /\ port \in PortType /\ port.addr % 4 = 0 /\ prog \in {"held", "xip", "pins", "manual"}
    /\ cfg \in [ddr : BOOLEAN, cont : BOOLEAN] /\ softreset \in BOOLEAN
    /\ spi \in SpiType /\ xfer \in XferType /\ flash \in FlashType /\ FlashEnds
    /\ version \in Versions

-----------------------------------------------------------------------------
(* The byte under way. *)

Sent  == 8 - xfer.count
Ticks == IF xfer.dspi THEN Sent \div 2 ELSE Sent
First == xfer.count = 8 /\ xfer.clk = 0
Last  == xfer.clk = 1 /\ xfer.count = Width
Idle  == xfer.csb = 1 /\ xfer.count = 0

XferInv ==
    /\ xfer.count = 0 => xfer.clk = 0
    /\ xfer.csb = 1 => xfer.count = 0
    /\ xfer.dspi => xfer.count \in {0, 2, 4, 6, 8}
    /\ xfer.fetch <=> xfer.count = 0 \/ First
    /\ xfer.count > 0 /\ ~First => xfer.tag_q = xfer.tag

\* The flash takes it in behind s, from its clock n of command cmd.
Going(cmd, n, s, b) ==
    /\ xfer.csb = 0 /\ xfer.count > 0
    /\ xfer.obuffer = Left(b, Sent)
    /\ flash.cmd = cmd /\ flash.n = n + Ticks /\ flash.sr = Behind(s, b, Sent) % 2^24

\* Ones to a flash that may be in enhance mode, the first of n of them gone.
Mending(n) ==
    /\ xfer.csb = 0 /\ ~xfer.dspi /\ xfer.tag = 0
    /\ xfer.count > 0 => xfer.obuffer = Left(255, Sent)
    /\ IF flash.enhance
       THEN /\ flash.cmd = 187 /\ flash.n = 8 + n
            /\ n >= 1 => flash.sr % 2 = 1
            /\ n >= 2 => (flash.sr \div 4) % 2 = 1
            /\ n >= 3 => (flash.sr \div 16) % 2 = 1
       ELSE IF n < 8 THEN flash.cmd = 0 /\ flash.n = n /\ flash.sr = Behind(0, 255, n)
       ELSE flash.cmd = 255 /\ flash.n >= 8

\* The flash delivers, and nobody else drives its pins.
Reading(d) ==
    /\ flash.cmd = (IF d THEN 187 ELSE 3) /\ flash.n >= (IF d THEN 24 ELSE 32)
    /\ xfer.dspi = d /\ (d => xfer.rd)

-----------------------------------------------------------------------------
(* The states of the read FSM, in mode d (dual), c (without a command). *)

\* A byte waits for its turn.
Offer(b, tag, dual, rd) ==
    spi.din_valid /\ spi.xfer_resetn =>
        /\ spi.din_data = b /\ spi.din_tag = tag /\ spi.din_ddr = dual /\ (spi.din_rd <=> rd)

Plain == ~spi.din_ddr /\ ~spi.din_rd /\ ~spi.rd_valid

\* CS# has its pulse before the byte.
Begin(b) == (spi.xfer_resetn => Idle) /\ Offer(b, 0, FALSE, FALSE) /\ Plain

Wakes == Plain /\ spi.xfer_resetn

Command(d) == IF d THEN 187 ELSE 3
Clocks(d)  == IF d THEN 4 ELSE 8
ModeOf(c)  == IF c THEN 165 ELSE 255
Before(d)  == IF flash.enhance THEN 0 ELSE Command(d)

\* Once the first byte of the address has begun there is no waiting.
Busy(d) ==
    /\ xfer.csb = 0 /\ xfer.count > 0 /\ xfer.dspi = d
    /\ spi.xfer_resetn /\ spi.din_ddr = d /\ (spi.din_valid \/ First)

Asking(d, c) ==
    /\ valid /\ ~spi.rd_valid /\ ~spi.rd_inc
    /\ Busy(d) /\ ~xfer.rd /\ xfer.tag = 0
    /\ flash.enhance => d /\ c

\* In state 5 CS# is about to fall, the flash in enhance mode, or the command
\* goes out or has gone out.
Addressing(d, c) ==
    /\ ~spi.rd_valid /\ ~spi.rd_inc /\ ~spi.din_rd
    /\ (spi.din_valid => valid) /\ Offer(AddrByte(2), 0, d, FALSE)
    /\ IF ~spi.xfer_resetn \/ xfer.csb = 1
       THEN /\ d /\ c /\ flash.enhance /\ valid
            /\ IF spi.xfer_resetn THEN Idle ELSE xfer.csb = 0 /\ Reading(d)
       ELSE /\ ~flash.enhance /\ ~xfer.dspi /\ xfer.tag = 0
            /\ IF xfer.count > 0 THEN Going(0, 0, 0, Command(d))
               ELSE flash.cmd = Command(d) /\ flash.n = 8 /\ flash.sr = Command(d)

\* The word that is coming, and its bytes in the flash.
Coming    == IF spi.rd_inc THEN spi.rd_addr + 4 ELSE port.addr
ByteAt(a) == Content(version, a % 2^22)
Sampled   == IF xfer.clk = 0 THEN Sent ELSE Sent + Width

Got(m) == m > 0 => Len(spi.buffer) = m /\ \A k \in 1..m : spi.buffer[k] = ByteAt(Coming + k - 1)

\* Byte p of the word comes, or has come.
Fetching(p, d, c) ==
    /\ xfer.csb = 0 /\ spi.xfer_resetn /\ Reading(d) /\ (flash.enhance <=> c /\ d)
    /\ (spi.rd_inc <=> spi.rd_valid) /\ (~spi.rd_valid => valid)
    /\ spi.din_ddr = d /\ (spi.din_rd <=> d)
    /\ xfer.tag = p + 1
    /\ spi.din_valid => spi.din_tag = IF p = 3 THEN 1 ELSE p + 2
    /\ IF xfer.count > 0
       THEN /\ flash.n = (IF d THEN 24 ELSE 32) + Ticks
            /\ flash.addr = (Coming + p) % 2^22
            /\ Begins(xfer.ibuffer, ByteAt(Coming + p), Sampled)
            /\ Got(p)
       ELSE /\ flash.n = (IF d THEN 24 ELSE 32)
            /\ flash.addr = (Coming + p + 1) % 2^22
            /\ Got(p + 1)

\* The ones, eight and eight; the byte that wakes the flash up; and the rest.
Ones      == Wakes /\ ~spi.din_valid /\ xfer.count > 0 /\ Mending(Sent)
Half      == Wakes /\ xfer.count = 0 /\ Mending(8) /\ Offer(255, 0, FALSE, FALSE)
MoreOnes  == Wakes /\ ~spi.din_valid /\ xfer.count > 0 /\ Mending(8 + Sent)
Recalling == Begin(171) /\ ~flash.enhance /\ (~spi.xfer_resetn => xfer.count = 0)
Releasing == /\ Wakes /\ ~spi.din_valid /\ ~flash.enhance /\ ~xfer.dspi
             /\ xfer.tag = 0 /\ Going(0, 0, 0, 171)
Resting   == /\ Plain /\ ~spi.din_valid /\ ~flash.enhance /\ xfer.count = 0
             /\ spi.xfer_resetn => Idle

\* The command is about to go, after a read it may have cut off.
Commanding(d) ==
    /\ Begin(Command(d)) /\ ~flash.enhance
    /\ ~spi.xfer_resetn => xfer.csb = 0 /\ Reading(d)
    /\ spi.din_valid => ~spi.rd_inc

\* What has gone before the second byte of the address, and before the third.
OneGone(d) == 256 * Before(d) + AddrByte(2)
TwoGone(d) == 256 * OneGone(d) + AddrByte(1)

\* The bytes of the address go.
High(d, c) ==
    /\ Asking(d, c) /\ Going(Command(d), 8, Before(d), AddrByte(2))
    /\ Offer(AddrByte(1), 0, d, FALSE) /\ ~spi.din_rd
Middle(d, c) ==
    /\ Asking(d, c) /\ ~spi.din_rd /\ Offer(AddrByte(0), 0, d, FALSE)
    /\ Going(Command(d), 8 + Clocks(d), OneGone(d), AddrByte(1))
Low(d, c) ==
    /\ Asking(d, c) /\ ~spi.din_rd /\ Offer(ModeOf(c), 0, d, FALSE)
    /\ d /\ Going(187, 16, TwoGone(d), AddrByte(0))
\* The last byte before the data.
Final(d, c) ==
    /\ Asking(d, c) /\ (spi.din_rd <=> d) /\ (spi.din_valid => spi.din_tag = 1)
    /\ IF d THEN Going(187, 20, port.addr, ModeOf(c)) /\ flash.addr = port.addr
       ELSE Going(3, 24, TwoGone(d), AddrByte(0))

\* A byte of the data, the next one waiting; the third may wait for the CPU.
Streaming(p, d, c) == Busy(d) /\ Fetching(p, d, c)
Third(d, c)        == Fetching(2, d, c) /\ (spi.din_valid => ~spi.rd_wait)

InState(s, d, c) ==
    CASE s = 0  -> Begin(255)
      [] s = 1  -> Ones
      [] s = 14 -> Half
      [] s = 15 -> MoreOnes
      [] s = 2  -> Recalling
      [] s = 3  -> Releasing
      [] s = 13 -> Resting
      [] s = 4  -> Commanding(d)
      [] s = 5  -> Addressing(d, c)
      [] s = 6  -> High(d, c)
      [] s = 7  -> Middle(d, c)
      [] s = 8  -> Low(d, c)
      [] s = 9  -> IF xfer.tag = 0 THEN Final(d, c) ELSE Streaming(3, d, c)
      [] s = 10 -> Streaming(0, d, c)
      [] s = 11 -> Streaming(1, d, c)
      [] s = 12 -> Third(d, c)

\* While a write of the configuration register takes effect, the old mode.
Running == \E d, c \in BOOLEAN :
    /\ InState(spi.state, d, c)
    /\ ~softreset => d = cfg.ddr /\ c = cfg.cont

\* rdata is what the flash holds.
HeldWord ==
    spi.rd_valid => Len(spi.rdata) = 4 /\ \A k \in 1..4 : spi.rdata[k] = ByteAt(spi.rd_addr + k - 1)

\* The boot ROM has the pins of a flash that takes commands.
Calm ==
    /\ prog \in {"pins", "manual"} =>
         /\ ~flash.enhance /\ ~cfg.ddr
         /\ xfer.csb = 0 /\ flash.cmd = 187 => flash.n = 8 /\ ~spi.xfer_resetn
    /\ port.kind = "pins" => ~softreset /\ spi.state \in 4..12 /\ ~cfg.ddr
    /\ prog = "manual" => softreset
    /\ port.kind \in {"on", "program"} => prog = "manual"
    /\ port.kind = "off" => prog = "pins"
    /\ port.kind \in {"read", "mode", "pins"} => prog = "xip"

IInv == TypeInv /\ XferInv /\ Running /\ HeldWord /\ Calm
-----------------------------------------------------------------------------
(* Every register keeps its type. *)

\* A byte of the flash.
LEMMA ByteIs ==
    ASSUME TypeInv, NEW a \in Int
    PROVE  ByteAt(a) \in Byte
<1>1. a % 2^22 \in FlashAddr
  BY DEF FlashAddr
<1>2. version \in Versions
  BY DEF TypeInv
<1> QED
  BY <1>1, <1>2, SpiXipAssumption DEF ByteAt, FlashAddr

\* What the data pins carry.
LEMMA PinsTyped ==
    ASSUME TypeInv
    PROVE  io0 \in 0..1 /\ io1 \in 0..1
<1>1. xfer.obuffer \in Byte
  BY DEF TypeInv, XferType
<1>2. Bit(xfer.obuffer, 6) \in 0..1 /\ Bit(xfer.obuffer, 7) \in 0..1
  BY <1>1, BitIs
<1>3. ASSUME NEW pin \in 0..1, FlashOut, pin = 0 => Dual
      PROVE  OutBit(pin) \in 0..1
  <2> DEFINE k == flash.n - DataFrom
             i == IF Dual THEN 6 + pin - 2 * k ELSE 7 - k
  <2>1. flash.n \in Nat /\ flash.addr \in FlashAddr /\ version \in Versions
    BY DEF TypeInv, FlashType
  <2>2. IF Dual THEN k \in 0..3 ELSE k \in 0..7
    BY <1>3, <2>1 DEF TypeInv, FlashEnds, FlashOut, DataFrom
  <2>3. i \in 0..7
    BY <2>2
  <2>4. Content(version, flash.addr) \in Byte
    BY <2>1, SpiXipAssumption DEF FlashAddr
  <2>5. OutBit(pin) = Bit(Content(version, flash.addr), i)
    BY DEF OutBit
  <2> HIDE DEF i
  <2> QED
    BY <2>3, <2>4, <2>5, BitIs
<1>4. Float \in 0..1
  BY SpiXipAssumption
<1>5. io0 \in 0..1
  BY <1>2, <1>3, <1>4 DEF io0
<1>6. io1 \in 0..1
  BY <1>2, <1>3, <1>4 DEF io1
<1> QED
  BY <1>5, <1>6

\* The byte transfer.
LEMMA XferTyped ==
    ASSUME TypeInv, XferInv, Xfer
    PROVE  xfer' \in XferType
<1>1. xfer \in XferType /\ io0 \in 0..1 /\ io1 \in 0..1
  BY PinsTyped DEF TypeInv
<1>2. /\ spi.din_data \in Byte /\ spi.din_tag \in 0..4 /\ spi.din_ddr \in BOOLEAN
      /\ spi.din_rd \in BOOLEAN /\ xfer.tag \in 0..4 /\ 0 \in Byte
      /\ 0 \in 0..1 /\ 1 \in 0..1 /\ 8 \in 0..8 /\ 0 \in 0..8 /\ 0 \in 0..4
  BY DEF TypeInv, SpiType, XferType, Byte
<1>3. Move(xfer) \in XferType
  <2>1. CASE xfer.count = 0
    BY <1>1, <2>1 DEF Move
  <2>2. CASE xfer.count # 0
    <3> DEFINE c == 1 - xfer.clk
               o == IF xfer.clk = 1 THEN (2^Width * xfer.obuffer) % 256 ELSE xfer.obuffer
               i == IF xfer.clk = 0 THEN Shl(xfer.dspi, xfer.ibuffer) % 256 ELSE xfer.ibuffer
               r == xfer.rd \/ next_count = 0
    <3>1. c \in 0..1 /\ r \in BOOLEAN
      BY <1>1 DEF XferType
    <3>2. o \in Byte
      <4>1. xfer.obuffer \in Byte /\ 2^Width = IF xfer.dspi THEN 4 ELSE 2
        BY <1>1 DEF XferType, Width
      <4> QED
        BY <4>1 DEF Byte
    <3>3. i \in Byte
      <4>1. xfer.ibuffer \in Byte
        BY <1>1 DEF XferType
      <4> QED
        BY <1>1, <4>1 DEF Byte, Shl
    <3>4. next_count \in 0..8
      <4>1. xfer.count \in 1..8 /\ (xfer.dspi => xfer.count \in {2, 4, 6, 8})
        BY <1>1, <2>2 DEF XferType, XferInv
      <4> QED
        BY <4>1 DEF next_count, Width
    <3>5. Move(xfer) = [xfer EXCEPT !.clk = c, !.obuffer = o, !.ibuffer = i,
                                    !.count = next_count, !.rd = r]
      BY <2>2 DEF Move
    <3> HIDE DEF c, o, i, r
    <3> QED
      BY <1>1, <3>1, <3>2, <3>3, <3>4, <3>5, Zenon DEF XferType
  <2> QED
    BY <2>1, <2>2
<1>4. ASSUME NEW x \in XferType PROVE Load(x) \in XferType
  BY <1>2, <1>4, Zenon DEF Load, XferType
<1>5. \A x \in XferType, f \in BOOLEAN : [x EXCEPT !.fetch = f, !.tag_q = xfer.tag] \in XferType
  BY <1>2, Zenon DEF XferType
<1>6. next_fetch \in BOOLEAN
  BY DEF next_fetch
<1>7. CASE spi.xfer_resetn
  <2>1. xfer' = [Load(Move(xfer)) EXCEPT !.fetch = next_fetch, !.tag_q = xfer.tag]
    BY <1>7 DEF Xfer
  <2> QED
    BY <1>3, <1>4, <1>5, <1>6, <2>1, Zenon
<1>8. CASE ~spi.xfer_resetn
  <2>1. xfer' = [xfer EXCEPT !.fetch = TRUE, !.csb = 1, !.clk = 0, !.count = 0, !.tag = 0,
                             !.dspi = FALSE, !.rd = FALSE, !.tag_q = xfer.tag]
    BY <1>8 DEF Xfer
  <2> QED
    BY <1>1, <1>2, <2>1, Zenon DEF XferType
<1> QED
  BY <1>7, <1>8

\* What the flash becomes.
Becomes(n, s, c, a, e) ==
    flash'.n = n /\ flash'.sr = s /\ flash'.cmd = c /\ flash'.addr = a /\ flash'.enhance = e

ShiftedIn == IF Dual THEN Shl(TRUE, flash.sr) % 2^24 ELSE (2 * flash.sr + io0) % 2^24

\* The flash that has taken in its n-th clock, s in its register.
After(n, s) ==
    LET new == [flash EXCEPT !.n = n, !.sr = s]
    IN  IF n < 8 THEN new
        ELSE IF n = 8 THEN [new EXCEPT !.cmd = s % 256]
        ELSE IF flash.cmd \notin {3, 187} THEN flash
        ELSE IF n < DataFrom THEN [new EXCEPT !.addr = IF Dual /\ n = 20 THEN s % 2^22 ELSE @]
        ELSE IF n = DataFrom THEN [new EXCEPT !.sr = 0, !.addr = IF Dual THEN @ ELSE s % 2^22,
                                              !.enhance = IF Dual THEN (s \div 16) % 4 = 2 ELSE @]
        ELSE IF n = DataFrom + (IF Dual THEN 4 ELSE 8)
             THEN [flash EXCEPT !.n = DataFrom, !.addr = (@ + 1) % 2^22]
        ELSE [flash EXCEPT !.n = n]

\* What a rising edge of SCLK does, field by field.
LEMMA ClockedIs ==
    ASSUME TypeInv, Flash, flash_csb # 1, xfer.clk = 1,
           NEW n, n = flash.n + 1, NEW s, s = ShiftedIn
    PROVE  /\ n < 8 => Becomes(n, s, flash.cmd, flash.addr, flash.enhance)
           /\ n = 8 => Becomes(n, s, s % 256, flash.addr, flash.enhance)
           /\ n > 8 /\ flash.cmd \notin {3, 187} => flash' = flash
           /\ n > 8 /\ Dual =>
                /\ n < 24 /\ n # 20 => Becomes(n, s, 187, flash.addr, flash.enhance)
                /\ n = 20 => Becomes(n, s, 187, s % 2^22, flash.enhance)
                /\ n = 24 => Becomes(n, 0, 187, flash.addr, (s \div 16) % 4 = 2)
                /\ n \in 25..27 => Becomes(n, flash.sr, 187, flash.addr, flash.enhance)
                /\ n = 28 => Becomes(24, flash.sr, 187, (flash.addr + 1) % 2^22, flash.enhance)
           /\ n > 8 /\ flash.cmd = 3 =>
                /\ n < 32 => Becomes(n, s, 3, flash.addr, flash.enhance)
                /\ n = 32 => Becomes(n, 0, 3, s % 2^22, flash.enhance)
                /\ n \in 33..39 => Becomes(n, flash.sr, 3, flash.addr, flash.enhance)
                /\ n = 40 => Becomes(32, flash.sr, 3, (flash.addr + 1) % 2^22, flash.enhance)
<1> DEFINE new == [flash EXCEPT !.n = n, !.sr = s]
           taken == [new EXCEPT !.cmd = s % 256]
           here == [new EXCEPT !.addr = IF Dual /\ n = 20 THEN s % 2^22 ELSE @]
           there == [new EXCEPT !.sr = 0, !.addr = IF Dual THEN @ ELSE s % 2^22,
                                !.enhance = IF Dual THEN (s \div 16) % 4 = 2 ELSE @]
           next == [flash EXCEPT !.n = DataFrom, !.addr = (@ + 1) % 2^22]
           more == [flash EXCEPT !.n = n]
<1>1. flash \in FlashType /\ n \in Nat
  BY DEF TypeInv, FlashType
<1>2. flash' = IF n < 8 THEN new
               ELSE IF n = 8 THEN taken
               ELSE IF flash.cmd \notin {3, 187} THEN flash
               ELSE IF n < DataFrom THEN here
               ELSE IF n = DataFrom THEN there
               ELSE IF n = DataFrom + (IF Dual THEN 4 ELSE 8) THEN next ELSE more
  <2>1. flash' = After(flash.n + 1, ShiftedIn)
    BY DEF Flash, Clocked, ShiftedIn, After
  <2>2. flash' = After(n, s)
    BY <2>1
  <2> QED
    BY <2>2 DEF After
<1>3. n < 8 \/ n = 8 \/ n > 8
  BY <1>1
<1> HIDE DEF new, taken, here, there, next, more
<1>4. CASE n < 8
  <2>1. flash' = new
    BY <1>1, <1>2, <1>4 DEF DataFrom
  <2> QED
    BY <1>1, <1>4, <2>1 DEF Becomes, FlashType, new
<1>5. CASE n = 8
  <2>1. flash' = taken
    BY <1>2, <1>5
  <2> QED
    BY <1>1, <1>5, <2>1 DEF Becomes, FlashType, new, taken
<1>6. CASE n > 8 /\ flash.cmd \notin {3, 187}
  BY <1>1, <1>2, <1>6 DEF Dual
<1>7. CASE n > 8 /\ Dual
  <2>1. flash.cmd = 187 /\ DataFrom = 24
    BY <1>7 DEF Dual, DataFrom
  <2>2. CASE n < 24 /\ n # 20
    <3>1. flash' = here
      BY <1>1, <1>2, <1>7, <2>1, <2>2
    <3> QED
      BY <1>1, <1>7, <2>1, <2>2, <3>1 DEF Becomes, FlashType, new, here
  <2>3. CASE n = 20
    <3>1. flash' = here
      BY <1>1, <1>2, <1>7, <2>1, <2>3
    <3> QED
      BY <1>1, <1>7, <2>1, <2>3, <3>1 DEF Becomes, FlashType, new, here
  <2>4. CASE n = 24
    <3>1. flash' = there
      BY <1>1, <1>2, <1>7, <2>1, <2>4
    <3> QED
      BY <1>1, <1>7, <2>1, <2>4, <3>1 DEF Becomes, FlashType, new, there
  <2>5. CASE n \in 25..27
    <3>1. flash' = more
      BY <1>1, <1>2, <1>7, <2>1, <2>5
    <3> QED
      BY <1>1, <1>7, <2>1, <2>5, <3>1 DEF Becomes, FlashType, more
  <2>6. CASE n = 28
    <3>1. flash' = next
      BY <1>1, <1>2, <1>7, <2>1, <2>6
    <3> QED
      BY <1>1, <1>7, <2>1, <2>6, <3>1 DEF Becomes, FlashType, next
  <2> QED
    BY <1>7, <2>1, <2>2, <2>3, <2>4, <2>5, <2>6
<1>8. CASE n > 8 /\ flash.cmd = 3
  <2>1. ~Dual /\ DataFrom = 32
    BY <1>8 DEF Dual, DataFrom
  <2>2. CASE n < 32
    <3>1. flash' = here
      BY <1>1, <1>2, <1>8, <2>1, <2>2
    <3> QED
      BY <1>1, <1>8, <2>1, <2>2, <3>1 DEF Becomes, FlashType, new, here
  <2>3. CASE n = 32
    <3>1. flash' = there
      BY <1>1, <1>2, <1>8, <2>1, <2>3
    <3> QED
      BY <1>1, <1>8, <2>1, <2>3, <3>1 DEF Becomes, FlashType, new, there
  <2>4. CASE n \in 33..39
    <3>1. flash' = more
      BY <1>1, <1>2, <1>8, <2>1, <2>4
    <3> QED
      BY <1>1, <1>8, <2>1, <2>4, <3>1 DEF Becomes, FlashType, more
  <2>5. CASE n = 40
    <3>1. flash' = next
      BY <1>1, <1>2, <1>8, <2>1, <2>5
    <3> QED
      BY <1>1, <1>8, <2>1, <2>5, <3>1 DEF Becomes, FlashType, next
  <2> QED
    BY <1>8, <2>1, <2>2, <2>3, <2>4, <2>5
<1> QED
  BY <1>3, <1>4, <1>5, <1>6, <1>7, <1>8 DEF Dual

\* With CS# high it waits for a command or, in enhance mode, an address.
LEMMA Deselected ==
    ASSUME TypeInv, Flash, flash_csb = 1
    PROVE  IF flash.enhance THEN Becomes(8, 0, 187, 0, TRUE) ELSE Becomes(0, 0, 0, 0, FALSE)
<1>1. flash \in FlashType /\ flash.enhance \in BOOLEAN
  BY DEF TypeInv, FlashType
<1>2. flash' = Waiting
  BY DEF Flash
<1> QED
  BY <1>1, <1>2 DEF Waiting, Becomes, FlashType

\* The flash's registers keep their types.
LEMMA FlashTyped ==
    ASSUME TypeInv, Flash
    PROVE  flash' \in FlashType /\ FlashEnds'
<1>1. flash \in FlashType /\ FlashEnds /\ io0 \in 0..1 /\ io1 \in 0..1
  BY PinsTyped DEF TypeInv
<1>2. CASE flash_csb = 1
  <2> DEFINE n == IF flash.enhance THEN 8 ELSE 0
             c == IF flash.enhance THEN 187 ELSE 0
  <2>1. n \in Nat /\ c \in Byte /\ 0 \in Register24 /\ 0 \in FlashAddr
    BY DEF Byte, Register24, FlashAddr
  <2>2. flash' = [flash EXCEPT !.n = n, !.sr = 0, !.addr = 0, !.cmd = c]
    <3>1. flash' = Waiting
      BY <1>2 DEF Flash
    <3> QED
      BY <3>1 DEF Waiting
  <2>3. FlashEnds'
    <3>1. (flash'.n = 8 /\ flash'.cmd = 187) \/ (flash'.n = 0 /\ flash'.cmd = 0)
      BY <1>2, Deselected DEF Becomes
    <3> QED
      BY <3>1 DEF FlashEnds, Dual
  <2> HIDE DEF n, c
  <2> QED
    BY <1>1, <2>1, <2>2, <2>3, Zenon DEF FlashType
<1>3. CASE flash_csb # 1 /\ xfer.clk # 1
  BY <1>1, <1>3 DEF Flash, FlashEnds, Dual
<1>4. CASE flash_csb # 1 /\ xfer.clk = 1
  <2> DEFINE s == ShiftedIn
             n == flash.n + 1
             new == [flash EXCEPT !.n = n, !.sr = s]
             a == (flash.addr + 1) % 2^22
             sc == s % 256
             ah == IF Dual /\ n = 20 THEN s % 2^22 ELSE flash.addr
             at == IF Dual THEN flash.addr ELSE s % 2^22
             e == IF Dual THEN (s \div 16) % 4 = 2 ELSE flash.enhance
             taken == [new EXCEPT !.cmd = sc]
             here == [new EXCEPT !.addr = ah]
             there == [new EXCEPT !.sr = 0, !.addr = at, !.enhance = e]
             next == [flash EXCEPT !.n = DataFrom, !.addr = a]
             more == [flash EXCEPT !.n = n]
  <2>1. s \in Register24 /\ n \in Nat /\ 0 \in Register24
    <3>1. flash.sr \in Register24 /\ n \in Nat
      BY <1>1 DEF FlashType
    <3>2. \A z \in Int : z % 2^24 \in Register24
      BY DEF Register24
    <3>3. Shl(TRUE, flash.sr) \in Int /\ 2 * flash.sr + io0 \in Int
      BY <1>1, <3>1 DEF Shl, Register24
    <3>4. s \in Register24
      BY <3>2, <3>3 DEF ShiftedIn
    <3>5. 0 \in Register24
      BY DEF Register24
    <3> QED
      BY <3>1, <3>4, <3>5
  <2>2. flash' = IF n < 8 THEN new
                 ELSE IF n = 8 THEN taken
                 ELSE IF flash.cmd \notin {3, 187} THEN flash
                 ELSE IF n < DataFrom THEN here
                 ELSE IF n = DataFrom THEN there
                 ELSE IF n = DataFrom + (IF Dual THEN 4 ELSE 8) THEN next ELSE more
    <3>1. flash' = Clocked
      BY <1>4 DEF Flash
    <3> QED
      BY <3>1 DEF Clocked, ShiftedIn
  <2>3. /\ sc \in Byte /\ ah \in FlashAddr /\ at \in FlashAddr /\ a \in FlashAddr
        /\ e \in BOOLEAN /\ DataFrom \in Nat
    <3>1. \A z \in Register24 : z % 256 \in Byte /\ z % 2^22 \in FlashAddr
      BY DEF Byte, Register24, FlashAddr
    <3>2. \A z \in FlashAddr : (z + 1) % 2^22 \in FlashAddr
      BY DEF FlashAddr
    <3>3. flash.addr \in FlashAddr /\ flash.enhance \in BOOLEAN /\ DataFrom \in Nat
      BY <1>1 DEF FlashType, DataFrom
    <3> HIDE DEF s
    <3> QED
      BY <2>1, <3>1, <3>2, <3>3
  <2>4. FlashEnds'
    <3>1. flash.cmd = 187 \/ flash.cmd = 3 \/ flash.cmd \notin {3, 187}
      OBVIOUS
    <3>2. n < 8 \/ n = 8 \/ n > 8
      BY <2>1
    <3>3. n < (IF Dual THEN 29 ELSE 41)
      BY <1>1 DEF FlashEnds, FlashType
    <3>4. n > 8 /\ flash.cmd \notin {3, 187} => flash' = flash
      BY <1>4, ClockedIs
    <3>5. CASE n < 8 \/ n = 8
      BY <1>4, <2>1, <3>5, ClockedIs DEF Becomes, FlashEnds, Dual
    <3>6. CASE n > 8 /\ Dual
      <4>1. n \in 9..28
        BY <2>1, <3>3, <3>6
      <4>2. flash'.n < 28 /\ flash'.cmd = 187
        BY <1>4, <3>6, <4>1, ClockedIs DEF Becomes
      <4> QED
        BY <4>2 DEF FlashEnds, Dual
    <3>7. CASE n > 8 /\ flash.cmd = 3
      <4>1. n \in 9..40 /\ ~Dual
        BY <2>1, <3>3, <3>7 DEF Dual
      <4>2. flash'.n < 40 /\ flash'.cmd = 3
        BY <1>4, <3>7, <4>1, ClockedIs DEF Becomes
      <4> QED
        BY <4>2 DEF FlashEnds, Dual
    <3> QED
      BY <1>1, <3>1, <3>2, <3>4, <3>5, <3>6, <3>7 DEF FlashEnds, Dual
  <2> HIDE DEF s, n, a, e, ah, at, sc
  <2>5. new \in FlashType
    BY <1>1, <2>1, Zenon DEF FlashType
  <2> HIDE DEF new
  <2>6. /\ taken \in FlashType /\ here \in FlashType
        /\ there \in FlashType /\ next \in FlashType /\ more \in FlashType
    BY <1>1, <2>1, <2>3, <2>5, Zenon DEF FlashType
  <2> HIDE DEF taken, here, there, next, more
  <2>7. flash' \in FlashType
    BY <1>1, <2>2, <2>5, <2>6
  <2> QED
    BY <2>4, <2>7
<1> QED
  BY <1>2, <1>3, <1>4
-----------------------------------------------------------------------------
(* The registers of the read FSM. *)

\* The bytes of an address, and the address again.
LEMMA AddrBytes ==
    ASSUME TypeInv
    PROVE  /\ AddrByte(2) \in Byte /\ AddrByte(1) \in Byte /\ AddrByte(0) \in Byte
           /\ 256 * AddrByte(2) + AddrByte(1) = port.addr \div 256
           /\ 256 * (port.addr \div 256) + AddrByte(0) = port.addr
<1>1. port.addr \in FlashAddr
  BY DEF TypeInv, PortType
<1>2. /\ AddrByte(2) = (port.addr \div 65536) % 256
      /\ AddrByte(1) = (port.addr \div 256) % 256
      /\ AddrByte(0) = port.addr % 256
  BY <1>1 DEF AddrByte, FlashAddr
<1> QED
  BY <1>1, <1>2 DEF Byte, FlashAddr

\* The byte that the flash has sent is taken, and a wait is over.
Taken == Wanted(Capture([spi EXCEPT !.xfer_resetn = TRUE, !.din_valid = FALSE]))

\* The answer completes when the fourth byte has come.
Takes(k) == dout_valid /\ xfer.tag_q = k

BufferFits == \A k \in 1..3 : Takes(k) => Len(spi.buffer) >= k - 1

\* What comes is a byte of the answer, a word, or nothing.
LEMMA TakenIs ==
    ASSUME TypeInv, BufferFits
    PROVE  /\ Taken \in SpiType
           /\ Taken.state = spi.state /\ Taken.pudly_cnt = spi.pudly_cnt
           /\ Taken.xfer_resetn /\ ~Taken.din_valid /\ Taken.din_data = spi.din_data
           /\ Taken.din_tag = spi.din_tag /\ Taken.din_ddr = spi.din_ddr
           /\ Taken.din_rd = spi.din_rd
           /\ \A k \in 1..3 : Takes(k) =>
                Taken.buffer = Append(SubSeq(spi.buffer, 1, k - 1), xfer.ibuffer)
           /\ ~(\E k \in 1..3 : Takes(k)) => Taken.buffer = spi.buffer
           /\ Takes(4) =>
                /\ Taken.rdata = Append(spi.buffer, xfer.ibuffer)
                /\ Taken.rd_addr = IF spi.rd_inc THEN (spi.rd_addr + 4) % 2^24 ELSE port.addr
                /\ Taken.rd_valid /\ Taken.rd_inc /\ Taken.rd_wait = (spi.rd_inc /\ ~valid)
           /\ ~Takes(4) =>
                /\ Taken.rdata = spi.rdata /\ Taken.rd_addr = spi.rd_addr
                /\ Taken.rd_valid = spi.rd_valid /\ Taken.rd_inc = spi.rd_inc
                /\ Taken.rd_wait = (spi.rd_wait /\ ~valid)
<1> DEFINE s0 == [spi EXCEPT !.xfer_resetn = TRUE, !.din_valid = FALSE]
           s1 == Capture(s0)
           b(k) == Append(SubSeq(spi.buffer, 1, k - 1), xfer.ibuffer)
           w == Append(spi.buffer, xfer.ibuffer)
           a == IF spi.rd_inc THEN (spi.rd_addr + 4) % 2^24 ELSE port.addr
<1>1. spi \in SpiType /\ xfer.tag_q \in 0..4 /\ xfer.ibuffer \in Byte /\ port.addr \in FlashAddr
  BY DEF TypeInv, XferType, PortType
<1>2. w \in Seq(Byte)
  BY <1>1 DEF SpiType
<1>3. a \in Register24
  <2>1. \A z \in Int : z % 2^24 \in Register24
    BY DEF Register24
  <2>2. \A z \in Register24 : z + 4 \in Int
    BY DEF Register24
  <2>3. \A z \in FlashAddr : z \in Register24
    BY DEF FlashAddr, Register24
  <2>4. spi.rd_addr \in Register24
    BY <1>1 DEF SpiType
  <2> QED
    BY <1>1, <2>1, <2>2, <2>3, <2>4
<1>4. \A k \in 1..3 : Takes(k) => b(k) \in Seq(Byte)
  BY <1>1, SMTT(40) DEF SpiType, BufferFits
<1>5. /\ s0 \in SpiType /\ s0.state = spi.state /\ s0.pudly_cnt = spi.pudly_cnt
      /\ s0.xfer_resetn /\ ~s0.din_valid /\ s0.din_data = spi.din_data
      /\ s0.din_tag = spi.din_tag /\ s0.din_ddr = spi.din_ddr /\ s0.din_rd = spi.din_rd
      /\ s0.buffer = spi.buffer /\ s0.rdata = spi.rdata /\ s0.rd_addr = spi.rd_addr
      /\ s0.rd_valid = spi.rd_valid /\ s0.rd_inc = spi.rd_inc /\ s0.rd_wait = spi.rd_wait
  <2>1. s0 \in SpiType
    BY <1>1, Zenon DEF SpiType
  <2> QED
    BY <1>1, <2>1 DEF SpiType
<1>6. /\ s1 = IF Takes(4)
              THEN [s0 EXCEPT !.rdata = w, !.rd_addr = IF spi.rd_inc THEN (@ + 4) % 2^24 ELSE port.addr,
                              !.rd_valid = TRUE, !.rd_wait = spi.rd_inc, !.rd_inc = TRUE]
              ELSE IF \E k \in 1..3 : Takes(k)
              THEN [s0 EXCEPT !.buffer = Append(SubSeq(@, 1, xfer.tag_q - 1), xfer.ibuffer)]
              ELSE s0
  BY <1>1 DEF Capture, Takes
<1> HIDE DEF s0, s1
<1>7. CASE Takes(4)
  <2>1. s1 = [s0 EXCEPT !.rdata = w, !.rd_addr = a, !.rd_valid = TRUE, !.rd_wait = spi.rd_inc,
                        !.rd_inc = TRUE]
    BY <1>5, <1>6, <1>7 DEF SpiType
  <2>2. spi.rd_inc \in BOOLEAN
    BY <1>1 DEF SpiType
  <2> HIDE DEF w, a
  <2>3. s1 \in SpiType
    BY <1>2, <1>3, <1>5, <2>1, <2>2, Zenon DEF SpiType
  <2> DEFINE r == spi.rd_inc /\ ~valid
  <2>4. Taken = [s1 EXCEPT !.rd_wait = r]
    <3>1. s1.rd_wait = spi.rd_inc
      BY <1>5, <2>1 DEF SpiType
    <3> QED
      BY <3>1 DEF Taken, Wanted, s1, s0
  <2> HIDE DEF r
  <2>5. r \in BOOLEAN
    BY DEF r
  <2>6. Taken \in SpiType
    BY <2>3, <2>4, <2>5, Zenon DEF SpiType
  <2>7. ~(\E k \in 1..3 : Takes(k))
    BY <1>7 DEF Takes
  <2>8. /\ Taken.state = s1.state /\ Taken.pudly_cnt = s1.pudly_cnt
        /\ Taken.xfer_resetn = s1.xfer_resetn /\ Taken.din_valid = s1.din_valid
        /\ Taken.din_data = s1.din_data /\ Taken.din_tag = s1.din_tag
        /\ Taken.din_ddr = s1.din_ddr /\ Taken.din_rd = s1.din_rd
        /\ Taken.buffer = s1.buffer /\ Taken.rdata = s1.rdata /\ Taken.rd_addr = s1.rd_addr
        /\ Taken.rd_valid = s1.rd_valid /\ Taken.rd_inc = s1.rd_inc /\ Taken.rd_wait = r
    BY <2>3, <2>4 DEF SpiType
  <2>9. /\ s1.state = s0.state /\ s1.pudly_cnt = s0.pudly_cnt
        /\ s1.xfer_resetn = s0.xfer_resetn /\ s1.din_valid = s0.din_valid
        /\ s1.din_data = s0.din_data /\ s1.din_tag = s0.din_tag
        /\ s1.din_ddr = s0.din_ddr /\ s1.din_rd = s0.din_rd
        /\ s1.buffer = s0.buffer /\ s1.rdata = w /\ s1.rd_addr = a
        /\ s1.rd_valid = TRUE /\ s1.rd_inc = TRUE
    BY <1>5, <2>1 DEF SpiType
  <2> QED
    BY <1>5, <1>7, <2>6, <2>7, <2>8, <2>9 DEF w, a, r
<1>8. CASE ~Takes(4)
  <2> DEFINE r == spi.rd_wait /\ ~valid
             v == IF \E k \in 1..3 : Takes(k)
                  THEN Append(SubSeq(spi.buffer, 1, xfer.tag_q - 1), xfer.ibuffer) ELSE spi.buffer
  <2>1. v \in Seq(Byte) /\ r \in BOOLEAN
    <3>1. spi.buffer \in Seq(Byte)
      BY <1>1 DEF SpiType
    <3> QED
      BY <1>4, <3>1 DEF Takes
  <2>2. s1 = [s0 EXCEPT !.buffer = v]
    BY <1>5, <1>6, <1>8 DEF SpiType
  <2>3. \A k \in 1..3 : Takes(k) => v = b(k)
    BY DEF Takes
  <2>4. ~(\E k \in 1..3 : Takes(k)) => v = spi.buffer
    OBVIOUS
  <2> HIDE DEF v, b
  <2>5. s1 \in SpiType
    BY <1>5, <2>1, <2>2, Zenon DEF SpiType
  <2>6. Taken = [s1 EXCEPT !.rd_wait = r]
    <3>1. s1.rd_wait = spi.rd_wait
      BY <1>5, <2>2 DEF SpiType
    <3> QED
      BY <3>1 DEF Taken, Wanted, s1, s0
  <2> HIDE DEF r
  <2>7. Taken \in SpiType
    BY <2>1, <2>5, <2>6, Zenon DEF SpiType
  <2>8. /\ Taken.state = s1.state /\ Taken.pudly_cnt = s1.pudly_cnt
        /\ Taken.xfer_resetn = s1.xfer_resetn /\ Taken.din_valid = s1.din_valid
        /\ Taken.din_data = s1.din_data /\ Taken.din_tag = s1.din_tag
        /\ Taken.din_ddr = s1.din_ddr /\ Taken.din_rd = s1.din_rd
        /\ Taken.buffer = s1.buffer /\ Taken.rdata = s1.rdata /\ Taken.rd_addr = s1.rd_addr
        /\ Taken.rd_valid = s1.rd_valid /\ Taken.rd_inc = s1.rd_inc /\ Taken.rd_wait = r
    BY <2>5, <2>6 DEF SpiType
  <2>9. /\ s1.state = s0.state /\ s1.pudly_cnt = s0.pudly_cnt
        /\ s1.xfer_resetn = s0.xfer_resetn /\ s1.din_valid = s0.din_valid
        /\ s1.din_data = s0.din_data /\ s1.din_tag = s0.din_tag
        /\ s1.din_ddr = s0.din_ddr /\ s1.din_rd = s0.din_rd
        /\ s1.buffer = v /\ s1.rdata = s0.rdata /\ s1.rd_addr = s0.rd_addr
        /\ s1.rd_valid = s0.rd_valid /\ s1.rd_inc = s0.rd_inc
    BY <1>5, <2>2 DEF SpiType
  <2>10. \A k \in 1..3 : Takes(k) => Taken.buffer = b(k)
    BY <2>3, <2>8, <2>9
  <2>11. /\ Taken \in SpiType
         /\ Taken.state = spi.state /\ Taken.pudly_cnt = spi.pudly_cnt
         /\ Taken.xfer_resetn /\ ~Taken.din_valid /\ Taken.din_data = spi.din_data
         /\ Taken.din_tag = spi.din_tag /\ Taken.din_ddr = spi.din_ddr
         /\ Taken.din_rd = spi.din_rd
    BY <1>5, <2>7, <2>8, <2>9
  <2>12. /\ Taken.rdata = spi.rdata /\ Taken.rd_addr = spi.rd_addr
         /\ Taken.rd_valid = spi.rd_valid /\ Taken.rd_inc = spi.rd_inc
         /\ Taken.rd_wait = (spi.rd_wait /\ ~valid)
    BY <1>5, <2>8, <2>9 DEF r
  <2>13. ~(\E k \in 1..3 : Takes(k)) => Taken.buffer = spi.buffer
    BY <2>4, <2>8, <2>9
  <2> QED
    BY <1>8, <2>10, <2>11, <2>12, <2>13 DEF b
<1> QED
  BY <1>7, <1>8

\* What a state of the read FSM leaves alone.
Keeps(q, r) ==
    /\ q.rd_addr = r.rd_addr /\ q.rd_valid = r.rd_valid /\ q.rd_wait = r.rd_wait
    /\ q.buffer = r.buffer /\ q.rdata = r.rdata

Wires(q, r) ==
    /\ q.xfer_resetn = r.xfer_resetn /\ q.din_ddr = r.din_ddr
    /\ q.din_rd = r.din_rd /\ q.rd_inc = r.rd_inc

\* A byte is offered, and the state left when it is taken.
Sends(q, tag, data, next) ==
    /\ q.din_valid <=> ~din_ready
    /\ q.din_tag = tag /\ q.din_data = data
    /\ q.state = IF din_ready THEN next ELSE spi.state

Stays(q, s) == q.state = s /\ ~q.din_valid

\* A byte offered.
LEMMA SendIs ==
    ASSUME NEW r \in SpiType, NEW tag \in 0..4, NEW data \in Byte, NEW next \in 0..15,
           r.state = spi.state
    PROVE  /\ Send(r, tag, data, next) \in SpiType
           /\ Keeps(Send(r, tag, data, next), r) /\ Wires(Send(r, tag, data, next), r)
           /\ Sends(Send(r, tag, data, next), tag, data, next)
<1> DEFINE v == ~din_ready
           s == IF din_ready THEN next ELSE r.state
           q == [r EXCEPT !.din_valid = v, !.din_tag = tag, !.din_data = data, !.state = s]
<1>1. Send(r, tag, data, next) = q
  BY DEF Send
<1>2. v \in BOOLEAN /\ s \in 0..15
  BY DEF SpiType
<1>3. v = ~din_ready /\ s = IF din_ready THEN next ELSE spi.state
  OBVIOUS
<1> HIDE DEF v, s
<1>4. q \in SpiType
  BY <1>2, Zenon DEF SpiType
<1>5. q.din_valid = v /\ q.din_tag = tag /\ q.din_data = data /\ q.state = s
  BY DEF SpiType
<1>6. Keeps(q, r) /\ Wires(q, r)
  BY DEF SpiType, Keeps, Wires
<1> HIDE DEF q
<1> QED
  BY <1>1, <1>3, <1>4, <1>5, <1>6 DEF Sends

\* The same, of what it is called.
LEMMA SentIs ==
    ASSUME NEW r \in SpiType, NEW tag \in 0..4, NEW data \in Byte, NEW next \in 0..15,
           r.state = spi.state, NEW q, q = Send(r, tag, data, next)
    PROVE  q \in SpiType /\ Keeps(q, r) /\ Wires(q, r) /\ Sends(q, tag, data, next)
  BY SendIs, Zenon

\* The bytes and states there are.
LEMMA Constants ==
    /\ 255 \in Byte /\ 171 \in Byte /\ 0 \in Byte
    /\ 0 \in 0..4 /\ 1 \in 0..4 /\ 2 \in 0..4 /\ 3 \in 0..4 /\ 4 \in 0..4
    /\ 1 \in 0..15 /\ 2 \in 0..15 /\ 3 \in 0..15 /\ 4 \in 0..15 /\ 5 \in 0..15 /\ 6 \in 0..15
    /\ 7 \in 0..15 /\ 8 \in 0..15 /\ 9 \in 0..15 /\ 10 \in 0..15 /\ 11 \in 0..15
    /\ 12 \in 0..15 /\ 13 \in 0..15 /\ 14 \in 0..15 /\ 15 \in 0..15
  BY DEF Byte

\* The states that wake the flash.
LEMMA WakeIs ==
    ASSUME NEW r \in SpiType, r.state = spi.state, spi.state \in {0, 1, 2, 3, 13, 14, 15},
           ~r.din_valid, r.xfer_resetn, NEW q, q = Step(r)
    PROVE  /\ q \in SpiType /\ Keeps(q, r)
           /\ q.din_ddr = r.din_ddr /\ q.din_rd = r.din_rd /\ q.rd_inc = r.rd_inc
           /\ spi.state \in {3, 15} => (q.xfer_resetn <=> ~dout_valid)
           /\ spi.state \notin {3, 15} => q.xfer_resetn
           /\ spi.state = 0 => Sends(q, 0, 255, 1)
           /\ spi.state = 1 => Stays(q, IF dout_valid THEN 14 ELSE 1)
           /\ spi.state = 14 => Sends(q, 0, 255, 15)
           /\ spi.state = 15 => Stays(q, IF dout_valid THEN 2 ELSE 15)
           /\ spi.state = 2 => Sends(q, 0, 171, 3)
           /\ spi.state = 3 => Stays(q, IF dout_valid THEN 13 ELSE 3)
           /\ spi.state = 13 => Stays(q, 4) \/ Stays(q, 13)
<1>1. Step(r) = Wake(r)
  BY DEF Step
<1>2. FALSE \in BOOLEAN /\ 0 \in Nat
  OBVIOUS
<1>3. CASE spi.state = 0
  <2>1. q = Send(r, 0, 255, 1)
    BY <1>1, <1>3 DEF Wake
  <2>2. q \in SpiType /\ Keeps(q, r) /\ Wires(q, r) /\ Sends(q, 0, 255, 1)
    <3>1. 0 \in 0..4 /\ 255 \in Byte /\ 1 \in 0..15
      BY DEF Byte
    <3> QED
      BY <2>1, <3>1, SentIs, ZenonT(40)
  <2> QED
    BY <1>3, <2>2 DEF Wires
<1>4. CASE spi.state = 2
  <2>1. q = Send(r, 0, 171, 3)
    BY <1>1, <1>4 DEF Wake
  <2>2. q \in SpiType /\ Keeps(q, r) /\ Wires(q, r) /\ Sends(q, 0, 171, 3)
    <3>1. 0 \in 0..4 /\ 171 \in Byte /\ 3 \in 0..15
      BY DEF Byte
    <3> QED
      BY <2>1, <3>1, SentIs, ZenonT(40)
  <2> QED
    BY <1>4, <2>2 DEF Wires
<1>5. CASE spi.state = 14
  <2>1. q = Send(r, 0, 255, 15)
    BY <1>1, <1>5 DEF Wake
  <2>2. q \in SpiType /\ Keeps(q, r) /\ Wires(q, r) /\ Sends(q, 0, 255, 15)
    <3>1. 0 \in 0..4 /\ 255 \in Byte /\ 15 \in 0..15
      BY DEF Byte
    <3> QED
      BY <2>1, <3>1, SentIs, ZenonT(40)
  <2> QED
    BY <1>5, <2>2 DEF Wires
<1>6. CASE spi.state = 1
  <2> DEFINE p == [r EXCEPT !.state = 14]
  <2>1. q = IF dout_valid THEN p ELSE r
    BY <1>1, <1>6 DEF Wake, Again
  <2>2. p \in SpiType
    BY Constants, Zenon DEF SpiType
  <2>3. Keeps(p, r) /\ Wires(p, r) /\ Stays(p, 14) /\ p.xfer_resetn
    BY DEF SpiType, Keeps, Wires, Stays
  <2> HIDE DEF p
  <2>4. CASE dout_valid
    BY <1>6, <2>1, <2>2, <2>3, <2>4 DEF Wires
  <2>5. CASE ~dout_valid
    <3>1. q = r
      BY <2>1, <2>5
    <3>2. Keeps(r, r) /\ Stays(r, 1)
      BY <1>6 DEF Keeps, Stays
    <3> QED
      BY <1>6, <2>5, <3>1, <3>2
  <2> QED
    BY <2>4, <2>5
<1>7. ASSUME NEW n \in 0..15
      PROVE  /\ Deselect(r, n) \in SpiType /\ Keeps(Deselect(r, n), r)
             /\ Deselect(r, n).din_ddr = r.din_ddr /\ Deselect(r, n).din_rd = r.din_rd
             /\ Deselect(r, n).rd_inc = r.rd_inc /\ (Deselect(r, n).xfer_resetn <=> ~dout_valid)
             /\ Stays(Deselect(r, n), IF dout_valid THEN n ELSE spi.state)
  <2>1. CASE ~dout_valid
    BY <2>1 DEF Deselect, Keeps, Stays
  <2>2. CASE dout_valid
    <3> DEFINE p == [r EXCEPT !.xfer_resetn = FALSE, !.state = n]
    <3>1. Deselect(r, n) = p
      BY <2>2 DEF Deselect
    <3>2. p \in SpiType
      BY <1>2, Zenon DEF SpiType
    <3>3. /\ Keeps(p, r) /\ ~p.xfer_resetn /\ p.din_ddr = r.din_ddr /\ p.din_rd = r.din_rd
          /\ p.rd_inc = r.rd_inc /\ Stays(p, n)
      BY DEF SpiType, Keeps, Stays
    <3> HIDE DEF p
    <3> QED
      BY <2>2, <3>1, <3>2, <3>3
  <2> QED
    BY <2>1, <2>2
<1>8. CASE spi.state = 15
  <2>1. q = Deselect(r, 2)
    BY <1>1, <1>8 DEF Wake
  <2> QED
    BY <1>7, <1>8, <2>1
<1>9. CASE spi.state = 3
  <2> DEFINE p == Deselect(r, 13)
             k == IF dout_valid THEN 0 ELSE p.pudly_cnt
  <2>1. q = [p EXCEPT !.pudly_cnt = k]
    BY <1>1, <1>9 DEF Wake
  <2>2. /\ p \in SpiType /\ Keeps(p, r) /\ p.din_ddr = r.din_ddr /\ p.din_rd = r.din_rd
        /\ p.rd_inc = r.rd_inc /\ (p.xfer_resetn <=> ~dout_valid)
        /\ Stays(p, IF dout_valid THEN 13 ELSE spi.state)
    BY <1>7
  <2>3. k \in Nat
    BY <2>2 DEF SpiType
  <2> HIDE DEF p, k
  <2>4. q \in SpiType
    BY <2>1, <2>2, <2>3, Zenon DEF SpiType
  <2>5. Keeps(q, p) /\ Wires(q, p) /\ q.state = p.state /\ q.din_valid = p.din_valid
    BY <2>1, <2>2 DEF SpiType, Keeps, Wires
  <2> QED
    BY <1>9, <2>2, <2>4, <2>5 DEF Keeps, Wires, Stays
<1>10. CASE spi.state = 13
  <2> DEFINE k == r.pudly_cnt + 1
             p == [r EXCEPT !.state = 4]
             o == [r EXCEPT !.pudly_cnt = k]
  <2>1. q = p \/ q = o
    BY <1>1, <1>10 DEF Wake, Rest
  <2>2. k \in Nat
    BY DEF SpiType
  <2> HIDE DEF k
  <2>3. p \in SpiType /\ o \in SpiType
    BY <2>2, Constants, Zenon DEF SpiType
  <2>4. Keeps(p, r) /\ Wires(p, r) /\ Stays(p, 4) /\ p.xfer_resetn
    BY DEF SpiType, Keeps, Wires, Stays
  <2>5. Keeps(o, r) /\ Wires(o, r) /\ Stays(o, 13) /\ o.xfer_resetn
    BY <1>10 DEF SpiType, Keeps, Wires, Stays
  <2> HIDE DEF p, o
  <2>6. CASE q = p
    BY <1>10, <2>3, <2>4, <2>6 DEF Wires
  <2>7. CASE q = o
    BY <1>10, <2>3, <2>5, <2>7 DEF Wires
  <2> QED
    BY <2>1, <2>6, <2>7
<1> QED
  BY <1>3, <1>4, <1>5, <1>6, <1>8, <1>9, <1>10

\* The states that send the command, the address and the mode.
LEMMA AskIs ==
    ASSUME TypeInv, NEW r \in SpiType, r.state = spi.state, spi.state \in 4..8,
           ~r.din_valid, r.xfer_resetn, NEW q, q = Step(r)
    PROVE  /\ q \in SpiType /\ Keeps(q, r) /\ q.xfer_resetn
           /\ q.din_ddr = IF spi.state = 5 /\ valid /\ ~ready THEN cfg.ddr ELSE r.din_ddr
           /\ spi.state = 8 => (q.din_rd <=> r.din_rd \/ din_ready)
           /\ spi.state # 8 => q.din_rd = r.din_rd
           /\ spi.state = 4 => ~q.rd_inc
           /\ spi.state # 4 => q.rd_inc = r.rd_inc
           /\ spi.state = 4 => Sends(q, 0, Command(cfg.ddr), 5)
           /\ spi.state = 5 => IF valid /\ ~ready THEN Sends(q, 0, AddrByte(2), 6) ELSE Stays(q, 5)
           /\ spi.state = 6 => Sends(q, 0, AddrByte(1), 7)
           /\ spi.state = 7 => Sends(q, 0, IF din_ready THEN 0 ELSE AddrByte(0),
                                     IF cfg.ddr THEN 8 ELSE 9)
           /\ spi.state = 8 => Sends(q, 0, IF din_ready THEN 0 ELSE ModeOf(cfg.cont), 9)
<1>1. Step(r) = Ask(r)
  BY DEF Step
<1>2. /\ AddrByte(0) \in Byte /\ AddrByte(1) \in Byte /\ AddrByte(2) \in Byte
      /\ 0 \in Byte /\ Command(cfg.ddr) \in Byte /\ ModeOf(cfg.cont) \in Byte
  BY AddrBytes DEF Byte, Command, ModeOf
<1>3. cfg.ddr \in BOOLEAN
  BY DEF TypeInv
<1>4. CASE spi.state = 4
  <2> DEFINE p == Send(r, 0, Command(cfg.ddr), 5)
  <2>1. q = [p EXCEPT !.rd_inc = FALSE]
    BY <1>1, <1>4 DEF Ask, Command
  <2>2. p \in SpiType /\ Keeps(p, r) /\ Sends(p, 0, Command(cfg.ddr), 5) /\ Wires(p, r)
    BY <1>2, Constants, SendIs, Zenon
  <2> HIDE DEF p
  <2>3. q \in SpiType
    BY <2>1, <2>2, Zenon DEF SpiType
  <2>4. /\ Keeps(q, p) /\ q.xfer_resetn = p.xfer_resetn /\ q.din_ddr = p.din_ddr
        /\ q.din_rd = p.din_rd /\ ~q.rd_inc /\ q.din_valid = p.din_valid
        /\ q.din_tag = p.din_tag /\ q.din_data = p.din_data /\ q.state = p.state
    BY <2>1, <2>2 DEF SpiType, Keeps
  <2>5. Sends(q, 0, Command(cfg.ddr), 5)
    BY <2>2, <2>4 DEF Sends
  <2>6. Keeps(q, r)
    BY <2>2, <2>4 DEF Keeps
  <2> QED
    BY <1>4, <2>2, <2>3, <2>4, <2>5, <2>6 DEF Wires
<1>5. CASE spi.state = 5 /\ ~(valid /\ ~ready)
  <2>1. q = r
    BY <1>1, <1>5 DEF Ask
  <2> QED
    BY <1>5, <2>1 DEF Keeps, Stays
<1>6. CASE spi.state = 5 /\ valid /\ ~ready
  <2> DEFINE p == Send(r, 0, AddrByte(2), 6)
  <2>1. q = [p EXCEPT !.din_ddr = cfg.ddr]
    BY <1>1, <1>6 DEF Ask
  <2>2. p \in SpiType /\ Keeps(p, r) /\ Sends(p, 0, AddrByte(2), 6) /\ Wires(p, r)
    BY <1>2, Constants, SendIs, Zenon
  <2> HIDE DEF p
  <2>3. q \in SpiType
    BY <1>3, <2>1, <2>2, Zenon DEF SpiType
  <2>4. /\ Keeps(q, p) /\ q.xfer_resetn = p.xfer_resetn /\ q.din_ddr = cfg.ddr
        /\ q.din_rd = p.din_rd /\ q.rd_inc = p.rd_inc /\ q.din_valid = p.din_valid
        /\ q.din_tag = p.din_tag /\ q.din_data = p.din_data /\ q.state = p.state
    BY <2>1, <2>2 DEF SpiType, Keeps
  <2>5. Sends(q, 0, AddrByte(2), 6)
    BY <2>2, <2>4 DEF Sends
  <2>6. Keeps(q, r)
    BY <2>2, <2>4 DEF Keeps
  <2> QED
    BY <1>6, <2>2, <2>3, <2>4, <2>5, <2>6 DEF Wires
<1>7. CASE spi.state = 6
  <2>1. q = Send(r, 0, AddrByte(1), 7)
    BY <1>1, <1>7 DEF Ask
  <2>2. q \in SpiType /\ Keeps(q, r) /\ Sends(q, 0, AddrByte(1), 7) /\ Wires(q, r)
    BY <1>2, <2>1, Constants, SentIs, Zenon
  <2> QED
    BY <1>7, <2>2 DEF Wires
<1>8. CASE spi.state = 7
  <2> DEFINE b == IF din_ready THEN 0 ELSE AddrByte(0)
             n == IF cfg.ddr THEN 8 ELSE 9
  <2>1. q = Send(r, 0, b, n)
    BY <1>1, <1>8 DEF Ask
  <2>2. b \in Byte /\ n \in 0..15
    BY <1>2
  <2> HIDE DEF b, n
  <2>3. q \in SpiType /\ Keeps(q, r) /\ Sends(q, 0, b, n) /\ Wires(q, r)
    BY <2>1, <2>2, Constants, SentIs, Zenon
  <2> QED
    BY <1>8, <2>3 DEF Wires, b, n
<1>9. CASE spi.state = 8
  <2> DEFINE b == IF din_ready THEN 0 ELSE ModeOf(cfg.cont)
             p == Send(r, 0, b, 9)
             v == p.din_rd \/ din_ready
  <2>1. q = [p EXCEPT !.din_rd = v]
    BY <1>1, <1>9 DEF Ask, Mode, ModeOf, ModeByte
  <2>2. b \in Byte /\ v \in BOOLEAN
    BY <1>2
  <2>3. b = IF din_ready THEN 0 ELSE ModeOf(cfg.cont)
    OBVIOUS
  <2>4. v = (p.din_rd \/ din_ready)
    OBVIOUS
  <2> HIDE DEF b
  <2>5. p \in SpiType /\ Keeps(p, r) /\ Sends(p, 0, b, 9) /\ Wires(p, r)
    BY <2>2, Constants, SendIs, Zenon
  <2> HIDE DEF p, v
  <2>6. q \in SpiType
    BY <2>1, <2>2, <2>5, Zenon DEF SpiType
  <2>7. /\ Keeps(q, p) /\ q.xfer_resetn = p.xfer_resetn /\ q.din_ddr = p.din_ddr
        /\ q.din_rd = v /\ q.rd_inc = p.rd_inc /\ q.din_valid = p.din_valid
        /\ q.din_tag = p.din_tag /\ q.din_data = p.din_data /\ q.state = p.state
    BY <2>1, <2>5 DEF SpiType, Keeps
  <2>8. Sends(q, 0, IF din_ready THEN 0 ELSE ModeOf(cfg.cont), 9)
    BY <2>3, <2>5, <2>7 DEF Sends
  <2>9. Keeps(q, r)
    BY <2>5, <2>7 DEF Keeps
  <2>10. q.din_rd <=> r.din_rd \/ din_ready
    BY <2>4, <2>5, <2>7 DEF Wires
  <2> QED
    BY <1>9, <2>5, <2>6, <2>7, <2>8, <2>9, <2>10 DEF Wires
<1> QED
  BY <1>4, <1>5, <1>6, <1>7, <1>8, <1>9

\* The states that fetch a word.
LEMMA FetchIs ==
    ASSUME NEW r \in SpiType, r.state = spi.state, spi.state \in 9..12,
           ~r.din_valid, r.xfer_resetn, NEW q, q = Step(r)
    PROVE  /\ q \in SpiType /\ Keeps(q, r) /\ Wires(q, r)
           /\ spi.state = 9 => Sends(q, 1, q.din_data, 10)
           /\ spi.state = 10 => Sends(q, 2, q.din_data, 11)
           /\ spi.state = 11 => Sends(q, 3, q.din_data, 12)
           /\ spi.state = 12 => IF ~spi.rd_wait \/ valid THEN Sends(q, 4, q.din_data, 9)
                                ELSE Stays(q, 12)
<1>1. Step(r) = Fetch(r)
  BY DEF Step
<1>2. r.din_data \in Byte /\ 0 \in Byte
  BY DEF SpiType, Byte
<1>3. ASSUME NEW tag \in 0..4, NEW data \in Byte, NEW next \in 0..15, q = Send(r, tag, data, next)
      PROVE  q \in SpiType /\ Keeps(q, r) /\ Wires(q, r) /\ Sends(q, tag, q.din_data, next)
  <2>1. q \in SpiType /\ Keeps(q, r) /\ Wires(q, r) /\ Sends(q, tag, data, next)
    BY <1>3, SendIs, Zenon
  <2> QED
    BY <2>1 DEF Sends
<1>4. CASE spi.state = 9
  <2>1. q = Send(r, 1, r.din_data, 10)
    BY <1>1, <1>4 DEF Fetch
  <2>2. q \in SpiType /\ Keeps(q, r) /\ Wires(q, r) /\ Sends(q, 1, q.din_data, 10)
    BY <1>2, <1>3, <2>1, Constants, Zenon
  <2> QED
    BY <1>4, <2>2
<1>5. CASE spi.state = 10
  <2>1. q = Send(r, 2, 0, 11)
    BY <1>1, <1>5 DEF Fetch
  <2>2. q \in SpiType /\ Keeps(q, r) /\ Wires(q, r) /\ Sends(q, 2, q.din_data, 11)
    BY <1>2, <1>3, <2>1, Constants, Zenon
  <2> QED
    BY <1>5, <2>2
<1>6. CASE spi.state = 11
  <2>1. q = Send(r, 3, r.din_data, 12)
    BY <1>1, <1>6 DEF Fetch
  <2>2. q \in SpiType /\ Keeps(q, r) /\ Wires(q, r) /\ Sends(q, 3, q.din_data, 12)
    BY <1>2, <1>3, <2>1, Constants, Zenon
  <2> QED
    BY <1>6, <2>2
<1>7. CASE spi.state = 12 /\ (~spi.rd_wait \/ valid)
  <2>1. q = Send(r, 4, r.din_data, 9)
    BY <1>1, <1>7 DEF Fetch
  <2>2. q \in SpiType /\ Keeps(q, r) /\ Wires(q, r) /\ Sends(q, 4, q.din_data, 9)
    BY <1>2, <1>3, <2>1, Constants, Zenon
  <2> QED
    BY <1>7, <2>2
<1>8. CASE spi.state = 12 /\ ~(~spi.rd_wait \/ valid)
  <2>1. q = r
    BY <1>1, <1>8 DEF Fetch
  <2>2. Keeps(r, r) /\ Wires(r, r) /\ Stays(r, 12)
    BY <1>8 DEF Keeps, Wires, Stays
  <2> QED
    BY <1>8, <2>1, <2>2
<1> QED
  BY <1>4, <1>5, <1>6, <1>7, <1>8

\* A clock of the read FSM without a jump.
LEMMA SpiIs ==
    ASSUME TypeInv, BufferFits, Spi(TRUE), ~softreset, ~jump
    PROVE  /\ spi' \in SpiType
           /\ spi'.xfer_resetn <=> ~(spi.state \in {3, 15} /\ dout_valid)
           /\ spi'.din_ddr = IF spi.state = 5 /\ valid /\ ~ready THEN cfg.ddr ELSE spi.din_ddr
           /\ spi'.din_rd <=> spi.din_rd \/ (spi.state = 8 /\ din_ready)
           /\ spi'.rd_inc <=> (Takes(4) \/ spi.rd_inc) /\ spi.state # 4
           /\ spi'.rd_valid <=> Takes(4) \/ spi.rd_valid
           /\ Takes(4) =>
                /\ spi'.rdata = Append(spi.buffer, xfer.ibuffer)
                /\ spi'.rd_addr = IF spi.rd_inc THEN (spi.rd_addr + 4) % 2^24 ELSE port.addr
           /\ ~Takes(4) =>
                /\ spi'.rdata = spi.rdata /\ spi'.rd_addr = spi.rd_addr
                /\ spi'.rd_wait => spi.rd_wait /\ ~valid
           /\ \A k \in 1..3 : Takes(k) =>
                spi'.buffer = Append(SubSeq(spi.buffer, 1, k - 1), xfer.ibuffer)
           /\ ~(\E k \in 1..3 : Takes(k)) => spi'.buffer = spi.buffer
           /\ spi.state = 0 => Sends(spi', 0, 255, 1)
           /\ spi.state = 1 => Stays(spi', IF dout_valid THEN 14 ELSE 1)
           /\ spi.state = 14 => Sends(spi', 0, 255, 15)
           /\ spi.state = 15 => Stays(spi', IF dout_valid THEN 2 ELSE 15)
           /\ spi.state = 2 => Sends(spi', 0, 171, 3)
           /\ spi.state = 3 => Stays(spi', IF dout_valid THEN 13 ELSE 3)
           /\ spi.state = 13 => Stays(spi', 4) \/ Stays(spi', 13)
           /\ spi.state = 4 => Sends(spi', 0, Command(cfg.ddr), 5)
           /\ spi.state = 5 => IF valid /\ ~ready THEN Sends(spi', 0, AddrByte(2), 6)
                               ELSE Stays(spi', 5)
           /\ spi.state = 6 => Sends(spi', 0, AddrByte(1), 7)
           /\ spi.state = 7 => Sends(spi', 0, IF din_ready THEN 0 ELSE AddrByte(0),
                                     IF cfg.ddr THEN 8 ELSE 9)
           /\ spi.state = 8 => Sends(spi', 0, IF din_ready THEN 0 ELSE ModeOf(cfg.cont), 9)
           /\ spi.state = 9 => Sends(spi', 1, spi'.din_data, 10)
           /\ spi.state = 10 => Sends(spi', 2, spi'.din_data, 11)
           /\ spi.state = 11 => Sends(spi', 3, spi'.din_data, 12)
           /\ spi.state = 12 => IF ~spi.rd_wait \/ valid THEN Sends(spi', 4, spi'.din_data, 9)
                                ELSE Stays(spi', 12)
<1>1. spi' = Step(Taken)
  BY DEF Spi, Jump, Taken
<1>2. spi.state \in 0..15 /\ spi.rd_inc \in BOOLEAN /\ spi.rd_wait \in BOOLEAN /\ spi.din_rd \in BOOLEAN
  BY DEF TypeInv, SpiType
<1>3. /\ Taken \in SpiType /\ Taken.state = spi.state
      /\ Taken.xfer_resetn /\ ~Taken.din_valid
      /\ Taken.din_ddr = spi.din_ddr /\ Taken.din_rd = spi.din_rd
  BY TakenIs
<1>4. Keeps(spi', Taken) =>
        /\ spi'.rd_valid <=> Takes(4) \/ spi.rd_valid
        /\ Takes(4) =>
             /\ spi'.rdata = Append(spi.buffer, xfer.ibuffer)
             /\ spi'.rd_addr = IF spi.rd_inc THEN (spi.rd_addr + 4) % 2^24 ELSE port.addr
        /\ ~Takes(4) =>
             /\ spi'.rdata = spi.rdata /\ spi'.rd_addr = spi.rd_addr
             /\ spi'.rd_wait => spi.rd_wait /\ ~valid
        /\ \A k \in 1..3 : Takes(k) =>
             spi'.buffer = Append(SubSeq(spi.buffer, 1, k - 1), xfer.ibuffer)
        /\ ~(\E k \in 1..3 : Takes(k)) => spi'.buffer = spi.buffer
  BY TakenIs DEF Keeps
<1>5. Taken.rd_inc <=> Takes(4) \/ spi.rd_inc
  BY TakenIs
<1>6. CASE spi.state \in {0, 1, 2, 3, 13, 14, 15}
  <2> DEFINE q == Step(Taken)
  <2>1. /\ q \in SpiType /\ Keeps(q, Taken)
        /\ q.din_ddr = Taken.din_ddr /\ q.din_rd = Taken.din_rd /\ q.rd_inc = Taken.rd_inc
        /\ spi.state \in {3, 15} => (q.xfer_resetn <=> ~dout_valid)
        /\ spi.state \notin {3, 15} => q.xfer_resetn
        /\ spi.state = 0 => Sends(q, 0, 255, 1)
        /\ spi.state = 1 => Stays(q, IF dout_valid THEN 14 ELSE 1)
        /\ spi.state = 14 => Sends(q, 0, 255, 15)
        /\ spi.state = 15 => Stays(q, IF dout_valid THEN 2 ELSE 15)
        /\ spi.state = 2 => Sends(q, 0, 171, 3)
        /\ spi.state = 3 => Stays(q, IF dout_valid THEN 13 ELSE 3)
        /\ spi.state = 13 => Stays(q, 4) \/ Stays(q, 13)
    BY <1>3, <1>6, WakeIs, Zenon
  <2> HIDE DEF q
  <2> QED
    BY <1>1, <1>2, <1>3, <1>4, <1>5, <1>6, <2>1 DEF q
<1>7. CASE spi.state \in 4..8
  BY <1>1, <1>2, <1>3, <1>4, <1>5, <1>7, AskIs
<1>8. CASE spi.state \in 9..12
  BY <1>1, <1>2, <1>3, <1>4, <1>5, <1>8, FetchIs DEF Wires
<1> QED
  BY <1>2, <1>6, <1>7, <1>8
-----------------------------------------------------------------------------
(* Half a clock of a byte. *)

\* When a byte has gone, and when the next is taken.
LEMMA Ready ==
    ASSUME TypeInv, XferInv
    PROVE  /\ dout_valid <=> spi.xfer_resetn /\ Last
           /\ din_ready <=> spi.din_valid /\ spi.xfer_resetn /\ (xfer.count = 0 \/ Last)
           /\ next_fetch <=> xfer.count = 0 \/ Last
           /\ next_count = IF Last THEN 0
                           ELSE IF xfer.clk = 1 THEN xfer.count - Width ELSE xfer.count
           /\ Last => xfer.count > 0 /\ xfer.csb = 0 /\ ~First
           /\ xfer.count > 0 => xfer.count >= Width
           /\ Width = IF xfer.dspi THEN 2 ELSE 1
<1>1. /\ xfer.count \in 0..8 /\ xfer.clk \in 0..1 /\ xfer.csb \in 0..1
      /\ xfer.count = 0 => xfer.clk = 0
      /\ xfer.csb = 1 => xfer.count = 0
      /\ xfer.dspi => xfer.count \in {0, 2, 4, 6, 8}
      /\ xfer.fetch <=> xfer.count = 0 \/ First
  BY DEF TypeInv, XferType, XferInv
<1>2. Width = IF xfer.dspi THEN 2 ELSE 1
  BY DEF Width
<1>3. next_count = IF Last THEN 0
                   ELSE IF xfer.clk = 1 THEN xfer.count - Width ELSE xfer.count
  BY <1>1, <1>2 DEF next_count, Last
<1>4. xfer.count > 0 => xfer.count >= Width
  BY <1>1, <1>2
<1>5. next_fetch <=> xfer.count = 0 \/ Last
  BY <1>1, <1>2, <1>3, <1>4 DEF next_fetch, Last
<1>6. Last => xfer.count > 0 /\ xfer.csb = 0 /\ ~First
  BY <1>1, <1>2 DEF Last, First
<1>7. dout_valid <=> spi.xfer_resetn /\ Last
  BY <1>1, <1>5, <1>6 DEF dout_valid
<1>8. din_ready <=> spi.din_valid /\ spi.xfer_resetn /\ (xfer.count = 0 \/ Last)
  BY <1>5 DEF din_ready
<1> QED
  BY <1>2, <1>3, <1>4, <1>5, <1>6, <1>7, <1>8

\* The transfer keeps its line, the tag and the direction.
SameByte == xfer'.csb = xfer.csb /\ xfer'.tag = xfer.tag /\ xfer'.dspi = xfer.dspi
SameWay  == SameByte /\ (xfer'.rd <=> xfer.rd)

\* CS# goes high; a byte is taken; nothing; a byte has gone; its clock rises; it falls.
Drops == xfer'.csb = 1 /\ xfer'.clk = 0 /\ xfer'.count = 0
Loads == /\ xfer'.csb = 0 /\ xfer'.clk = 0 /\ xfer'.count = 8
         /\ xfer'.obuffer = spi.din_data /\ xfer'.tag = spi.din_tag
         /\ xfer'.dspi = spi.din_ddr /\ (xfer'.rd <=> spi.din_rd)
Rests == SameWay /\ xfer'.clk = 0 /\ xfer'.count = 0
Ends  == SameByte /\ xfer'.clk = 0 /\ xfer'.count = 0 /\ xfer'.rd
Rises == /\ SameWay /\ xfer'.clk = 1 /\ xfer'.count = xfer.count
         /\ xfer'.obuffer = xfer.obuffer
         /\ xfer'.ibuffer = Shl(xfer.dspi, xfer.ibuffer) % 256
Falls == /\ SameWay /\ xfer'.clk = 0 /\ xfer'.count = xfer.count - Width
         /\ xfer'.obuffer = (2^Width * xfer.obuffer) % 256
         /\ xfer'.ibuffer = xfer.ibuffer

\* What spimemio_xfer does in a clock.
LEMMA MovesIs ==
    ASSUME TypeInv, XferInv, Xfer
    PROVE  /\ ~spi.xfer_resetn => Drops
           /\ din_ready => Loads
           /\ spi.xfer_resetn /\ ~din_ready =>
                /\ xfer.count = 0 => Rests
                /\ Last => Ends
           /\ spi.xfer_resetn /\ xfer.count > 0 /\ ~Last =>
                /\ xfer.clk = 0 => Rises
                /\ xfer.clk = 1 => Falls
           /\ XferInv'
<1> DEFINE k == Move(xfer)
           l == Load(k)
<1>1. xfer \in XferType /\ spi.din_ddr \in BOOLEAN /\ spi.din_rd \in BOOLEAN /\ spi.din_tag \in 0..4
  BY DEF TypeInv, SpiType
<1>2. /\ xfer.count \in 0..8 /\ xfer.clk \in 0..1 /\ xfer.csb \in 0..1 /\ xfer.dspi \in BOOLEAN
      /\ xfer.rd \in BOOLEAN
  BY <1>1 DEF XferType
<1>3. /\ xfer.count = 0 => xfer.clk = 0
      /\ xfer.csb = 1 => xfer.count = 0
      /\ xfer.dspi => xfer.count \in {0, 2, 4, 6, 8}
      /\ xfer.count > 0 /\ ~First => xfer.tag_q = xfer.tag
  BY DEF XferInv
<1>4. xfer' \in XferType
  BY XferTyped
<1>5. CASE ~spi.xfer_resetn
  <2>1. xfer' = [xfer EXCEPT !.fetch = TRUE, !.csb = 1, !.clk = 0, !.count = 0, !.tag = 0,
                             !.dspi = FALSE, !.rd = FALSE, !.tag_q = xfer.tag]
    BY <1>5 DEF Xfer
  <2>2. xfer'.csb = 1 /\ xfer'.clk = 0 /\ xfer'.count = 0 /\ xfer'.fetch
    BY <1>1, <2>1 DEF XferType
  <2>3. XferInv'
    BY <2>2 DEF XferInv, First
  <2>4. ~din_ready
    BY <1>5 DEF din_ready
  <2> QED
    BY <1>5, <2>2, <2>3, <2>4 DEF Drops
<1>6. CASE spi.xfer_resetn
  <2>1. xfer' = [l EXCEPT !.fetch = next_fetch, !.tag_q = xfer.tag]
    BY <1>6 DEF Xfer
  <2>2. k = IF xfer.count = 0 THEN xfer
            ELSE [xfer EXCEPT !.clk = 1 - @,
                   !.obuffer = IF xfer.clk = 1 THEN (2^Width * @) % 256 ELSE @,
                   !.ibuffer = IF xfer.clk = 0 THEN Shl(xfer.dspi, @) % 256 ELSE @,
                   !.count = next_count, !.rd = @ \/ next_count = 0]
    BY DEF Move
  <2> HIDE DEF k
  <2>3. /\ DOMAIN k = DOMAIN xfer
        /\ k.csb = xfer.csb /\ k.tag = xfer.tag /\ k.dspi = xfer.dspi
        /\ xfer.count = 0 => k.clk = xfer.clk /\ k.count = 0 /\ (k.rd <=> xfer.rd)
        /\ xfer.count # 0 =>
             /\ k.clk = 1 - xfer.clk /\ k.count = next_count
             /\ k.obuffer = (IF xfer.clk = 1 THEN (2^Width * xfer.obuffer) % 256 ELSE xfer.obuffer)
             /\ k.ibuffer = (IF xfer.clk = 0 THEN Shl(xfer.dspi, xfer.ibuffer) % 256 ELSE xfer.ibuffer)
             /\ k.rd <=> xfer.rd \/ next_count = 0
    BY <1>1, <2>2 DEF XferType
  <2>4. CASE ~din_ready
    <3>1. l = k
      BY <2>4 DEF Load
    <3>2. /\ xfer'.csb = k.csb /\ xfer'.tag = k.tag /\ xfer'.dspi = k.dspi /\ xfer'.clk = k.clk
          /\ xfer'.count = k.count /\ (xfer'.rd <=> k.rd) /\ xfer'.obuffer = k.obuffer
          /\ xfer'.ibuffer = k.ibuffer /\ xfer'.fetch = next_fetch /\ xfer'.tag_q = xfer.tag
      BY <1>1, <2>1, <2>3, <3>1 DEF XferType
    <3>3. CASE xfer.count = 0
      <4>1. Rests
        BY <1>2, <1>3, <2>3, <3>2, <3>3 DEF Rests, SameWay, SameByte
      <4>2. XferInv'
        BY <3>2, <3>3, <4>1, Ready DEF XferInv, First, Rests
      <4>3. ~Last
        BY <3>3, Ready
      <4> QED
        BY <1>6, <2>4, <3>3, <4>1, <4>2, <4>3
    <3>4. CASE Last
      <4>1. Ends
        BY <1>2, <1>3, <2>3, <3>2, <3>4, Ready DEF Ends, SameByte, Last
      <4>2. XferInv'
        BY <3>2, <3>4, <4>1, Ready DEF XferInv, First, Ends
      <4> QED
        BY <1>6, <2>4, <3>4, <4>1, <4>2, Ready
    <3>5. CASE xfer.count > 0 /\ ~Last /\ xfer.clk = 0
      <4>1. next_count = xfer.count /\ xfer.count # 0
        BY <1>2, <3>5, Ready
      <4>2. Rises
        BY <1>2, <2>3, <3>2, <3>5, <4>1 DEF Rises, SameWay, SameByte
      <4>3. XferInv'
        BY <1>2, <1>3, <3>2, <3>5, <4>2, Ready DEF XferInv, First, Rises, SameWay, SameByte
      <4> QED
        BY <1>6, <2>4, <3>5, <4>2, <4>3
    <3>6. CASE xfer.count > 0 /\ ~Last /\ xfer.clk = 1
      <4>1. next_count = xfer.count - Width /\ xfer.count - Width \in 1..7
        BY <1>2, <3>6, Ready DEF Last
      <4>2. Falls
        BY <1>2, <2>3, <3>2, <3>6, <4>1 DEF Falls, SameWay, SameByte
      <4>3. XferInv'
        BY <1>2, <1>3, <3>2, <3>6, <4>1, <4>2, Ready DEF XferInv, First, Falls, SameWay, SameByte
      <4> QED
        BY <1>6, <2>4, <3>6, <4>2, <4>3
    <3> QED
      BY <1>2, <3>3, <3>4, <3>5, <3>6
  <2>5. CASE din_ready
    <3>1. l = [k EXCEPT !.csb = 0, !.clk = 0, !.count = 8, !.obuffer = spi.din_data,
                        !.tag = spi.din_tag, !.dspi = spi.din_ddr, !.rd = spi.din_rd]
      BY <2>5 DEF Load
    <3>2. Loads /\ xfer'.fetch = next_fetch
      BY <1>1, <2>1, <2>3, <3>1 DEF XferType, Loads
    <3>3. XferInv'
      BY <2>5, <3>2, Ready DEF XferInv, First, Loads
    <3>4. ~(xfer.count > 0 /\ ~Last)
      BY <1>2, <2>5, Ready
    <3> QED
      BY <1>6, <2>5, <3>2, <3>3, <3>4
  <2> QED
    BY <2>4, <2>5
<1> QED
  BY <1>5, <1>6
-----------------------------------------------------------------------------
(* What the flash takes in, and what it sends. *)

\* Which bytes go, and at which clocks of the flash.
Way(cmd, n) ==
    \/ cmd = 0 /\ n = 0 /\ ~xfer.dspi
    \/ cmd = 3 /\ n \in {8, 16, 24} /\ ~xfer.dspi
    \/ cmd = 187 /\ n \in {8, 12, 16, 20} /\ xfer.dspi /\ ~xfer.rd

\* A falling edge of the controller's clock ends a bit, or two.
LEMMA ShiftsIn ==
    ASSUME TypeInv, XferInv, config_en, NEW cmd, NEW n, NEW s \in Nat, NEW b \in Byte,
           Way(cmd, n), Going(cmd, n, s, b), xfer.clk = 1
    PROVE  /\ ShiftedIn = Behind(s, b, Sent + Width) % 2^24
           /\ ~Last => (2^Width * xfer.obuffer) % 256 = Left(b, Sent + Width)
<1>1. /\ xfer.count \in 1..8 /\ (xfer.dspi => xfer.count \in {2, 4, 6, 8})
      /\ xfer.obuffer = Left(b, Sent) /\ flash.cmd = cmd /\ flash.sr = Behind(s, b, Sent) % 2^24
  BY DEF TypeInv, XferType, XferInv, Going
<1>2. Sent \in 0..7 /\ (xfer.dspi => Sent \in {0, 2, 4, 6})
  BY <1>1 DEF Sent
<1>3. Left(b, Sent) \in Byte
  <2>1. CASE Sent = 7
    BY <2>1 DEF Left, Byte
  <2>2. CASE Sent # 7
    BY <1>2, <2>2, ByteLeaves
  <2> QED
    BY <2>1, <2>2
<1>4. Bit(xfer.obuffer, 7) = Left(b, Sent) \div 128
      /\ 2 * Bit(xfer.obuffer, 7) + Bit(xfer.obuffer, 6) = Left(b, Sent) \div 64
  BY <1>1, <1>3, BitIs
<1>5. CASE ~xfer.dspi
  <2>1. Width = 1 /\ 2^Width = 2 /\ ~Dual
    BY <1>1, <1>5 DEF Width, Way, Dual
  <2>2. io0 = Left(b, Sent) \div 128
    BY <1>4, <1>5 DEF io0, io0_oe
  <2>3. ShiftedIn = (2 * (Behind(s, b, Sent) % 2^24) + Left(b, Sent) \div 128) % 2^24
    BY <1>1, <2>1, <2>2 DEF ShiftedIn
  <2>4. ShiftedIn = Behind(s, b, Sent + 1) % 2^24
    BY <1>2, <2>3, BitGoes
  <2>5. ~Last => Sent \in 0..6
    BY <1>1, <1>2, <2>1 DEF Last, Sent
  <2>6. ~Last => (2 * Left(b, Sent)) % 256 = Left(b, Sent + 1)
    BY <2>5, ByteLeaves
  <2> QED
    BY <1>1, <2>1, <2>4, <2>6
<1>6. CASE xfer.dspi
  <2>1. Width = 2 /\ 2^Width = 4 /\ Dual /\ ~xfer.rd
    BY <1>1, <1>6 DEF Width, Way, Dual
  <2>2. 2 * io1 + io0 = Left(b, Sent) \div 64
    BY <1>4, <1>6, <2>1 DEF io0, io0_oe, io1, io1_oe
  <2>3. ShiftedIn = (4 * (Behind(s, b, Sent) % 2^24) + Left(b, Sent) \div 64) % 2^24
    <3>1. io0 \in 0..1 /\ io1 \in 0..1
      BY PinsTyped
    <3>2. flash.sr \in Int
      <4>1. Behind(s, b, Sent) \in Nat
        BY <1>2 DEF Behind, Byte
      <4> QED
        BY <1>1, <4>1
    <3>3. Shl(TRUE, flash.sr) = 4 * flash.sr + (2 * io1 + io0)
      BY <3>1, <3>2 DEF Shl
    <3> QED
      BY <1>1, <2>1, <2>2, <3>3 DEF ShiftedIn
  <2>4. ShiftedIn = Behind(s, b, Sent + 2) % 2^24
    BY <1>2, <1>6, <2>3, PairGoes
  <2>5. ~Last => Sent \in 0..5
    BY <1>1, <1>2, <1>6, <2>1 DEF Last, Sent
  <2>6. ~Last => (4 * Left(b, Sent)) % 256 = Left(b, Sent + 2)
    BY <2>5, ByteLeaves
  <2> QED
    BY <1>1, <2>1, <2>4, <2>6
<1> QED
  BY <1>5, <1>6

\* A byte goes on.
LEMMA GoesOn ==
    ASSUME TypeInv, XferInv, Xfer, Flash, config_en, spi.xfer_resetn,
           NEW cmd, NEW n, NEW s \in Nat, NEW b \in Byte,
           Way(cmd, n), Going(cmd, n, s, b), ~Last
    PROVE  /\ xfer'.csb = 0 /\ xfer'.count > 0 /\ xfer'.obuffer = Left(b, 8 - xfer'.count)
           /\ Becomes(n + (IF xfer.dspi THEN (8 - xfer'.count) \div 2 ELSE 8 - xfer'.count),
                      Behind(s, b, 8 - xfer'.count) % 2^24, cmd, flash.addr, flash.enhance)
           /\ SameWay /\ ~(xfer'.count = 8 /\ xfer'.clk = 0)
<1>1. /\ xfer.count \in 1..8 /\ (xfer.dspi => xfer.count \in {2, 4, 6, 8}) /\ xfer.clk \in 0..1
      /\ xfer.csb = 0 /\ xfer.obuffer = Left(b, Sent)
      /\ flash.cmd = cmd /\ flash.n = n + Ticks /\ flash.sr = Behind(s, b, Sent) % 2^24
  BY DEF TypeInv, XferType, XferInv, Going
<1>2. flash_csb = 0
  BY <1>1 DEF flash_csb
<1>3. Width = IF xfer.dspi THEN 2 ELSE 1
  BY DEF Width
<1>4. CASE xfer.clk = 0
  <2>1. Rises
    BY <1>1, <1>4, MovesIs
  <2>2. flash' = flash
    BY <1>2, <1>4 DEF Flash
  <2> QED
    BY <1>1, <2>1, <2>2 DEF Rises, SameWay, SameByte, Becomes, Ticks, Sent
<1>5. CASE xfer.clk = 1
  <2>1. Falls
    BY <1>1, <1>5, MovesIs
  <2>2. xfer.count - Width \in 1..7
    BY <1>1, <1>3, <1>5 DEF Last
  <2>3. 8 - xfer'.count = Sent + Width
    BY <1>1, <1>3, <2>1 DEF Falls, Sent
  <2>4. /\ xfer'.csb = 0 /\ xfer'.count > 0 /\ SameWay /\ xfer'.count # 8
        /\ xfer'.obuffer = Left(b, 8 - xfer'.count)
    BY <1>1, <1>5, <2>1, <2>2, <2>3, ShiftsIn DEF Falls, SameWay, SameByte
  <2> DEFINE S == ShiftedIn
             m == flash.n + 1
  <2>5. S = Behind(s, b, 8 - xfer'.count) % 2^24
    BY <1>5, <2>3, ShiftsIn
  <2>6. m = n + (IF xfer.dspi THEN (8 - xfer'.count) \div 2 ELSE 8 - xfer'.count)
    <3>1. Way(cmd, n)
      OBVIOUS
    <3>2. n \in Nat
      BY <3>1 DEF Way
    <3> QED
      BY <1>1, <1>3, <2>3, <3>2 DEF Ticks, Sent
  <2>7. /\ ~xfer.dspi => m \in n..(n + 7)
        /\ xfer.dspi => m \in n..(n + 3)
    BY <1>1, <1>3, <2>1, <2>2, <2>6 DEF Falls, Way
  <2>8. Becomes(m, S, cmd, flash.addr, flash.enhance)
    <3> HIDE DEF S, m
    <3>1. m = flash.n + 1 /\ S = ShiftedIn
      BY DEF m, S
    <3>2. /\ m < 8 => Becomes(m, S, flash.cmd, flash.addr, flash.enhance)
          /\ m > 8 /\ Dual /\ m < 24 /\ m # 20 => Becomes(m, S, 187, flash.addr, flash.enhance)
          /\ m > 8 /\ flash.cmd = 3 /\ m < 32 => Becomes(m, S, 3, flash.addr, flash.enhance)
      BY <1>2, <1>5, <3>1, ClockedIs
    <3>3. m > n
      BY <1>1, <1>3, <2>2, <2>3, <2>6 DEF Way, Sent
    <3>4. CASE cmd = 0 /\ n = 0 /\ ~xfer.dspi
      BY <1>1, <2>7, <3>2, <3>4
    <3>5. CASE cmd = 3 /\ n \in {8, 16, 24} /\ ~xfer.dspi
      BY <1>1, <2>7, <3>2, <3>3, <3>5
    <3>6. CASE cmd = 187 /\ n \in {8, 12, 16, 20} /\ xfer.dspi /\ ~xfer.rd
      BY <1>1, <2>7, <3>2, <3>3, <3>6 DEF Dual
    <3> QED
      BY <3>4, <3>5, <3>6 DEF Way
  <2> QED
    BY <2>4, <2>5, <2>6, <2>8
<1> QED
  BY <1>1, <1>4, <1>5

\* A byte ends, and what the flash makes of it.
LEMMA GoesOut ==
    ASSUME TypeInv, XferInv, Flash, config_en, NEW cmd, NEW n, NEW s \in Nat, NEW b \in Byte,
           Way(cmd, n), Going(cmd, n, s, b), Last,
           NEW t, t = Behind(s, b, 8) % 2^24
    PROVE  /\ cmd = 0 => Becomes(8, t, t % 256, flash.addr, flash.enhance)
           /\ cmd = 3 /\ n # 24 => Becomes(n + 8, t, 3, flash.addr, flash.enhance)
           /\ cmd = 3 /\ n = 24 => Becomes(32, 0, 3, t % 2^22, flash.enhance)
           /\ cmd = 187 /\ n \in {8, 12} => Becomes(n + 4, t, 187, flash.addr, flash.enhance)
           /\ cmd = 187 /\ n = 16 => Becomes(20, t, 187, t % 2^22, flash.enhance)
           /\ cmd = 187 /\ n = 20 => Becomes(24, 0, 187, flash.addr, (t \div 16) % 4 = 2)
<1>1. /\ xfer.count \in 1..8 /\ (xfer.dspi => xfer.count \in {2, 4, 6, 8}) /\ xfer.clk = 1
      /\ xfer.csb = 0 /\ flash.cmd = cmd /\ flash.n = n + Ticks /\ xfer.count = Width
  BY DEF TypeInv, XferType, XferInv, Going, Last
<1>2. flash_csb = 0
  BY <1>1 DEF flash_csb
<1>3. Width = IF xfer.dspi THEN 2 ELSE 1
  BY DEF Width
<1>4. Sent + Width = 8
  BY <1>1, <1>3 DEF Sent
<1>5. t = ShiftedIn
  BY <1>1, <1>4, ShiftsIn
<1> DEFINE m == flash.n + 1
<1>6. m = n + IF xfer.dspi THEN 4 ELSE 8
  <2>1. n \in Nat
    BY DEF Way
  <2> QED
    BY <1>1, <1>3, <2>1 DEF Ticks, Sent
<1> HIDE DEF m
<1>7. /\ m = 8 => Becomes(m, t, t % 256, flash.addr, flash.enhance)
      /\ m > 8 /\ Dual =>
           /\ m < 24 /\ m # 20 => Becomes(m, t, 187, flash.addr, flash.enhance)
           /\ m = 20 => Becomes(m, t, 187, t % 2^22, flash.enhance)
           /\ m = 24 => Becomes(m, 0, 187, flash.addr, (t \div 16) % 4 = 2)
      /\ m > 8 /\ flash.cmd = 3 =>
           /\ m < 32 => Becomes(m, t, 3, flash.addr, flash.enhance)
           /\ m = 32 => Becomes(m, 0, 3, t % 2^22, flash.enhance)
  BY <1>1, <1>2, <1>5, ClockedIs DEF m
<1>8. CASE cmd = 0 /\ n = 0 /\ ~xfer.dspi
  BY <1>6, <1>7, <1>8
<1>9. CASE cmd = 3 /\ n \in {8, 16, 24} /\ ~xfer.dspi
  BY <1>1, <1>6, <1>7, <1>9
<1>10. CASE cmd = 187 /\ n \in {8, 12, 16, 20} /\ xfer.dspi /\ ~xfer.rd
  BY <1>1, <1>6, <1>7, <1>10 DEF Dual
<1> QED
  BY <1>8, <1>9, <1>10 DEF Way

\* Ones go on, to a flash that may take them for an address or a mode.
LEMMA Mends ==
    ASSUME TypeInv, XferInv, Xfer, Flash, config_en, spi.xfer_resetn, ~din_ready,
           NEW n \in 0..15, Mending(n), xfer.count > 0, n = Sent \/ n = 8 + Sent
    PROVE  /\ xfer'.csb = 0 /\ ~xfer'.dspi /\ xfer'.tag = 0
           /\ ~(xfer'.count = 8 /\ xfer'.clk = 0)
           /\ Last <=> xfer'.count = 0
           /\ xfer.clk = 0 => Mending(n)' /\ xfer'.count = xfer.count
           /\ xfer.clk = 1 /\ n < 15 => Mending(n + 1)' /\ xfer'.count = xfer.count - 1
           /\ n = 15 /\ Last => ~flash'.enhance
<1>1. /\ xfer.count \in 1..8 /\ xfer.clk \in 0..1 /\ xfer.csb = 0 /\ ~xfer.dspi /\ xfer.tag = 0
      /\ xfer.obuffer = Left(255, Sent) /\ flash \in FlashType
  BY DEF TypeInv, XferType, Mending
<1>2. flash_csb = 0 /\ Width = 1 /\ 2^Width = 2 /\ Sent \in 0..7
  BY <1>1 DEF flash_csb, Width, Sent
<1>3. io0 = 1 /\ io1 \in 0..1
  <2>1. Left(255, Sent) \div 128 = 1 /\ Left(255, Sent) \in Byte
    BY <1>2 DEF Left, Byte
  <2>2. io0 = Bit(xfer.obuffer, 7)
    BY <1>1 DEF io0, io0_oe
  <2> QED
    BY <1>1, <2>1, <2>2, BitIs, PinsTyped
<1>4. CASE xfer.clk = 0
  <2>1. Rises /\ ~Last
    BY <1>1, <1>4, MovesIs DEF Last
  <2>2. flash' = flash
    BY <1>2, <1>4 DEF Flash
  <2>3. Mending(n)'
    BY <1>1, <2>1, <2>2 DEF Mending, Rises, SameWay, SameByte, Sent
  <2> QED
    BY <1>1, <1>4, <2>1, <2>3 DEF Rises, SameWay, SameByte
<1>5. CASE xfer.clk = 1
  <2>1. IF Last THEN Ends ELSE Falls
    BY <1>1, <1>5, MovesIs
  <2>2. /\ xfer'.csb = 0 /\ ~xfer'.dspi /\ xfer'.tag = 0 /\ xfer'.clk = 0
        /\ xfer'.count = xfer.count - 1 /\ (Last <=> xfer.count = 1)
        /\ xfer'.count > 0 => xfer'.obuffer = (2 * xfer.obuffer) % 256
    BY <1>1, <1>2, <1>5, <2>1 DEF Ends, Falls, SameWay, SameByte, Last
  <2>3. xfer'.count > 0 => xfer'.obuffer = Left(255, 8 - xfer'.count)
    <3>1. CASE xfer'.count > 0
      <4>1. Sent \in 0..6 /\ 8 - xfer'.count = Sent + 1
        BY <1>1, <2>2, <3>1 DEF Sent
      <4>2. 255 \in Byte
        BY DEF Byte
      <4> QED
        BY <1>1, <2>2, <3>1, <4>1, <4>2, ByteLeaves
    <3> QED
      BY <3>1
  <2> DEFINE t == ShiftedIn
             m == flash.n + 1
  <2>4. /\ m < 8 => Becomes(m, t, flash.cmd, flash.addr, flash.enhance)
        /\ m = 8 => Becomes(m, t, t % 256, flash.addr, flash.enhance)
        /\ m > 8 /\ flash.cmd \notin {3, 187} => flash' = flash
        /\ m > 8 /\ Dual =>
             /\ m < 24 /\ m # 20 => Becomes(m, t, 187, flash.addr, flash.enhance)
             /\ m = 20 => Becomes(m, t, 187, t % 2^22, flash.enhance)
             /\ m = 24 => Becomes(m, 0, 187, flash.addr, (t \div 16) % 4 = 2)
    BY <1>2, <1>5, ClockedIs
  <2>5. flash.sr \in Register24 /\ flash.n \in Nat
    BY <1>1 DEF FlashType
  <2>6. CASE flash.enhance
    <3>1. /\ flash.cmd = 187 /\ flash.n = 8 + n /\ Dual
          /\ n >= 1 => flash.sr % 2 = 1
          /\ n >= 2 => (flash.sr \div 4) % 2 = 1
          /\ n >= 3 => (flash.sr \div 16) % 2 = 1
      BY <2>6 DEF Mending, Dual
    <3>2. t = (4 * flash.sr + 2 * io1 + 1) % 2^24
      BY <1>3, <3>1 DEF ShiftedIn, Shl
    <3>3. t % 2 = 1 /\ (t \div 4) % 2 = flash.sr % 2 /\ (t \div 16) % 2 = (flash.sr \div 4) % 2
      <4>1. \A x \in Register24, z \in Int :
              z = (4 * x + 1) % 2^24 \/ z = (4 * x + 3) % 2^24 =>
              z % 2 = 1 /\ (z \div 4) % 2 = x % 2 /\ (z \div 16) % 2 = (x \div 4) % 2
        BY DEF Register24
      <4>2. t \in Int
        <5>1. \A x \in Register24, y \in 0..1 : (4 * x + 2 * y + 1) % 2^24 \in Int
          BY DEF Register24
        <5> QED
          BY <1>3, <2>5, <3>2, <5>1
      <4>3. t = (4 * flash.sr + 1) % 2^24 \/ t = (4 * flash.sr + 3) % 2^24
        <5>1. \A x \in Register24 : x \in Int
          BY DEF Register24
        <5>2. 4 * flash.sr + 2 * io1 + 1 = 4 * flash.sr + 1 \/ 4 * flash.sr + 2 * io1 + 1 = 4 * flash.sr + 3
          BY <1>3, <2>5, <5>1
        <5> QED
          BY <3>2, <5>2
      <4> HIDE DEF t
      <4> QED
        BY <2>5, <4>1, <4>2, <4>3
    <3>4. CASE n < 15
      <4>1. m \in 9..23 /\ m = 8 + (n + 1)
        BY <3>1, <3>4
      <4>2. flash'.enhance /\ flash'.cmd = 187 /\ flash'.n = 8 + (n + 1) /\ flash'.sr = t
        <5>1. \E a : Becomes(m, t, 187, a, flash.enhance)
          BY <2>4, <3>1, <4>1
        <5>2. flash'.enhance = flash.enhance /\ flash'.cmd = 187 /\ flash'.n = m /\ flash'.sr = t
          BY <5>1 DEF Becomes
        <5> QED
          BY <2>6, <4>1, <5>2
      <4> HIDE DEF t
      <4>3. /\ n + 1 >= 1 => flash'.sr % 2 = 1
            /\ n + 1 >= 2 => (flash'.sr \div 4) % 2 = 1
            /\ n + 1 >= 3 => (flash'.sr \div 16) % 2 = 1
        BY <3>1, <3>3, <4>2
      <4>4. Mending(n + 1)'
        BY <2>2, <2>3, <4>2, <4>3 DEF Mending, Sent
      <4> QED
        BY <1>1, <1>5, <2>2, <3>4, <4>4
    <3>5. CASE n = 15
      <4>1. m = 24
        BY <3>1, <3>5
      <4>2. flash'.enhance <=> (t \div 16) % 4 = 2
        <5>1. Becomes(24, 0, 187, flash.addr, (t \div 16) % 4 = 2)
          BY <2>4, <3>1, <4>1
        <5> QED
          BY <5>1 DEF Becomes
      <4>3. (t \div 16) % 2 = 1
        BY <3>1, <3>3, <3>5
      <4>4. (t \div 16) \in Int
        <5>1. \A x \in Int : (x % 2^24) \div 16 \in Int
          OBVIOUS
        <5>2. 4 * flash.sr + 2 * io1 + 1 \in Int
          <6>1. \A x \in Register24 : x \in Int
            BY DEF Register24
          <6> QED
            BY <1>3, <2>5, <6>1
        <5> QED
          BY <3>2, <5>1, <5>2
      <4> HIDE DEF t
      <4>5. (t \div 16) % 4 # 2
        BY <4>3, <4>4
      <4> QED
        BY <1>1, <1>5, <2>2, <3>5, <4>2, <4>5
    <3> QED
      BY <3>4, <3>5
  <2>7. CASE ~flash.enhance
    <3>1. ~flash'.enhance
      <4>1. CASE m < 8
        BY <2>4, <2>7, <4>1 DEF Becomes
      <4>2. CASE m = 8
        BY <2>4, <2>7, <4>2 DEF Becomes
      <4>3. CASE m > 8
        BY <2>4, <2>7, <4>3 DEF Mending
      <4> QED
        BY <2>5, <4>1, <4>2, <4>3
    <3>2. CASE n < 8
      <4>1. flash.cmd = 0 /\ flash.n = n /\ flash.sr = Behind(0, 255, n) /\ ~Dual
        BY <2>7, <3>2 DEF Mending, Dual
      <4>2. t = Behind(0, 255, n + 1)
        <5>1. /\ 2 * Behind(0, 255, n) + 1 = Behind(0, 255, n + 1)
              /\ Behind(0, 255, n + 1) \in 0..255
          BY <3>2 DEF Behind
        <5>2. \A x \in 0..255 : x % 2^24 = x
          OBVIOUS
        <5> QED
          BY <1>3, <4>1, <5>1, <5>2 DEF ShiftedIn
      <4> HIDE DEF t
      <4>3. n + 1 < 8 => flash'.cmd = 0 /\ flash'.n = n + 1 /\ flash'.sr = Behind(0, 255, n + 1)
        BY <2>4, <4>1, <4>2 DEF Becomes
      <4>4. n + 1 = 8 => flash'.cmd = 255 /\ flash'.n = 8
        <5>1. Behind(0, 255, 8) = 255
          BY DEF Behind
        <5> QED
          BY <2>4, <4>1, <4>2, <5>1 DEF Becomes
      <4>5. Mending(n + 1)'
        BY <2>2, <2>3, <3>1, <3>2, <4>3, <4>4 DEF Mending, Sent
      <4> QED
        BY <1>1, <1>5, <2>2, <3>1, <3>2, <4>5
    <3>3. CASE n >= 8
      <4>1. flash.cmd = 255 /\ flash.n >= 8
        BY <2>7, <3>3 DEF Mending
      <4>2. flash' = flash
        BY <2>4, <2>5, <4>1
      <4>3. Mending(n + 1)'
        BY <2>2, <2>3, <3>1, <3>3, <4>1, <4>2 DEF Mending, Sent
      <4> QED
        BY <1>1, <1>5, <2>2, <3>1, <4>3
    <3> QED
      BY <3>2, <3>3
  <2> QED
    BY <2>6, <2>7
<1> QED
  BY <1>1, <1>4, <1>5

\* The flash delivers bit after bit, and byte after byte.
LEMMA ReadsOn ==
    ASSUME TypeInv, Flash, flash_csb = 0, NEW d \in BOOLEAN, Reading(d),
           NEW from, from = IF d THEN 24 ELSE 32, NEW m, m = flash.n + 1
    PROVE  /\ flash'.cmd = flash.cmd /\ (flash'.enhance <=> flash.enhance) /\ flash'.n >= from
           /\ m <= from + Clocks(d)
           /\ xfer.clk # 1 => flash'.n = flash.n /\ flash'.addr = flash.addr
           /\ xfer.clk = 1 /\ m < from + Clocks(d) => flash'.n = m /\ flash'.addr = flash.addr
           /\ xfer.clk = 1 /\ m = from + Clocks(d) =>
                flash'.n = from /\ flash'.addr = (flash.addr + 1) % 2^22
<1>1. flash \in FlashType /\ FlashEnds /\ flash.n \in Nat
  BY DEF TypeInv, FlashType
<1>2. flash.cmd = (IF d THEN 187 ELSE 3) /\ flash.n >= from
  BY DEF Reading
<1>3. m \in (from + 1)..(from + Clocks(d))
  BY <1>1, <1>2 DEF FlashEnds, Dual, Clocks
<1>4. CASE xfer.clk # 1
  <2>1. flash' = flash
    BY <1>4 DEF Flash
  <2> QED
    BY <1>2, <1>3, <1>4, <2>1
<1>5. CASE xfer.clk = 1
  <2>1. /\ m > 8 /\ Dual =>
             /\ m \in 25..27 => Becomes(m, flash.sr, 187, flash.addr, flash.enhance)
             /\ m = 28 => Becomes(24, flash.sr, 187, (flash.addr + 1) % 2^22, flash.enhance)
        /\ m > 8 /\ flash.cmd = 3 =>
             /\ m \in 33..39 => Becomes(m, flash.sr, 3, flash.addr, flash.enhance)
             /\ m = 40 => Becomes(32, flash.sr, 3, (flash.addr + 1) % 2^22, flash.enhance)
    BY <1>5, ClockedIs
  <2>2. CASE d
    BY <1>2, <1>3, <1>5, <2>1, <2>2 DEF Becomes, Clocks, Dual
  <2>3. CASE ~d
    BY <1>2, <1>3, <1>5, <2>1, <2>3 DEF Becomes, Clocks, Dual
  <2> QED
    BY <2>2, <2>3
<1> QED
  BY <1>4, <1>5

\* A bit, or two, of the byte that comes are taken in.
LEMMA Samples ==
    ASSUME TypeInv, XferInv, config_en, xfer.csb = 0, xfer.count > 0, NEW d \in BOOLEAN, Reading(d),
           flash.n = (IF d THEN 24 ELSE 32) + Ticks, NEW b, b = Content(version, flash.addr),
           Begins(xfer.ibuffer, b, Sent)
    PROVE  Begins(Shl(xfer.dspi, xfer.ibuffer) % 256, b, Sent + Width)
<1>1. /\ xfer.count \in 1..8 /\ xfer.ibuffer \in Byte
      /\ (xfer.dspi => xfer.count \in {2, 4, 6, 8}) /\ b \in Byte
  <2>1. /\ xfer.count \in 1..8 /\ xfer.ibuffer \in Byte
        /\ (xfer.dspi => xfer.count \in {2, 4, 6, 8})
    BY DEF TypeInv, XferType, XferInv
  <2>2. flash.addr \in FlashAddr /\ version \in Versions
    BY DEF TypeInv, FlashType
  <2>3. b \in Byte
    BY <2>2, SpiXipAssumption DEF FlashAddr
  <2> QED
    BY <2>1, <2>3
<1>2. Sent \in 0..7 /\ (xfer.dspi => Sent \in {0, 2, 4, 6})
  BY <1>1 DEF Sent
<1>3. CASE ~d
  <2>1. ~xfer.dspi /\ flash.cmd = 3 /\ flash.n = 32 + Sent /\ ~Dual /\ DataFrom = 32 /\ Width = 1
    BY <1>3 DEF Reading, Dual, DataFrom, Width, Ticks
  <2>2. io1 = Bit(b, 7 - Sent)
    BY <1>2, <2>1 DEF io1, io1_oe, FlashOut, flash_csb, OutBit
  <2>3. Shl(xfer.dspi, xfer.ibuffer) = 2 * xfer.ibuffer + Bit(b, 7 - Sent)
    BY <2>1, <2>2 DEF Shl
  <2> QED
    BY <1>1, <1>2, <2>1, <2>3, BitComes
<1>4. CASE d
  <2>1. /\ xfer.dspi /\ xfer.rd /\ flash.cmd = 187 /\ flash.n = 24 + Sent \div 2 /\ Dual
        /\ DataFrom = 24 /\ Width = 2
    BY <1>4 DEF Reading, Dual, DataFrom, Width, Ticks
  <2>2. 2 * (flash.n - DataFrom) = Sent
    BY <1>2, <2>1
  <2>3. FlashOut
    BY <1>2, <2>1 DEF FlashOut, flash_csb
  <2>4. 6 + 1 - 2 * (flash.n - DataFrom) = 7 - Sent /\ 6 + 0 - 2 * (flash.n - DataFrom) = 6 - Sent
    BY <1>2, <2>2
  <2>5. OutBit(1) = Bit(b, 7 - Sent) /\ OutBit(0) = Bit(b, 6 - Sent)
    BY <2>1, <2>4 DEF OutBit
  <2>6. io1 = Bit(b, 7 - Sent) /\ io0 = Bit(b, 6 - Sent)
    BY <2>1, <2>3, <2>5 DEF io0, io0_oe, io1, io1_oe
  <2>7. Shl(xfer.dspi, xfer.ibuffer) = 4 * xfer.ibuffer + 2 * Bit(b, 7 - Sent) + Bit(b, 6 - Sent)
    BY <2>1, <2>6 DEF Shl
  <2>8. Sent \in {0, 2, 4, 6}
    BY <1>2, <2>1
  <2>9. Begins((4 * xfer.ibuffer + 2 * Bit(b, 7 - Sent) + Bit(b, 6 - Sent)) % 256, b, Sent + 2)
    BY <1>1, <2>8, PairComes
  <2> QED
    BY <2>1, <2>7, <2>9
<1> QED
  BY <1>3, <1>4
-----------------------------------------------------------------------------
(* A clock of each state, without a reset and without a jump. *)

Ticking(d, c) ==
    /\ TypeInv /\ XferInv /\ config_en /\ ~softreset /\ ~jump
    /\ d = cfg.ddr /\ c = cfg.cont /\ InState(spi.state, d, c)
    /\ Xfer /\ Flash /\ Spi(TRUE) /\ Cpu(TRUE) /\ version' = version

\* A read that is not answered stands.
LEMMA ReadStands ==
    ASSUME Cpu(TRUE), valid, ~ready
    PROVE  /\ port' = port /\ valid'
           /\ AddrByte(0)' = AddrByte(0) /\ AddrByte(1)' = AddrByte(1) /\ AddrByte(2)' = AddrByte(2)
<1>1. port' = port
  BY DEF Cpu
<1> QED
  BY <1>1 DEF valid, AddrByte

\* A byte of the answer has come only in the states that fetch.
LEMMA AnswersIn ==
    ASSUME NEW d \in BOOLEAN, NEW c \in BOOLEAN, TypeInv, XferInv, InState(spi.state, d, c)
    PROVE  /\ \A k \in 1..4 : Takes(k) =>
                /\ Last /\ xfer.tag = k /\ Fetching(k - 1, d, c)
                /\ spi.state = IF k = 4 THEN 9 ELSE 9 + k
           /\ BufferFits
<1>1. ASSUME NEW k \in 1..4, Takes(k)
      PROVE  /\ Last /\ xfer.tag = k /\ Fetching(k - 1, d, c)
             /\ spi.state = IF k = 4 THEN 9 ELSE 9 + k
  <2>1. spi.xfer_resetn /\ Last /\ xfer.count > 0 /\ ~First /\ xfer.csb = 0 /\ xfer.tag = k
    BY <1>1, Ready DEF Takes, XferInv
  <2>2. ~Idle /\ xfer.tag # 0 /\ xfer.count # 0 /\ xfer.csb # 1 /\ spi.xfer_resetn
    BY <2>1, <1>1 DEF Idle
  <2>3. spi.state \in 0..15
    BY DEF TypeInv, SpiType
  <2>4. spi.state \notin 0..8 \cup 13..15
    <3>1. spi.state # 0
      <4>1. spi.state = 0 => Begin(255)
        BY DEF InState
      <4> QED
        BY <2>1, <2>2, <4>1 DEF Begin
    <3>2. spi.state # 1
      <4>1. spi.state = 1 => Ones
        BY DEF InState
      <4> QED
        BY <2>1, <2>2, <4>1 DEF Ones, Mending
    <3>3. spi.state # 2
      <4>1. spi.state = 2 => Recalling
        BY DEF InState
      <4> QED
        BY <2>1, <2>2, <4>1 DEF Recalling, Begin
    <3>4. spi.state # 3
      <4>1. spi.state = 3 => Releasing
        BY DEF InState
      <4> QED
        BY <2>1, <2>2, <4>1 DEF Releasing
    <3>5. spi.state # 4
      <4>1. spi.state = 4 => Commanding(d)
        BY DEF InState
      <4> QED
        BY <2>1, <2>2, <4>1 DEF Commanding, Begin
    <3>6. spi.state # 5
      <4>1. spi.state = 5 => Addressing(d, c)
        BY DEF InState
      <4> QED
        BY <2>2, <4>1, Zenon DEF Addressing
    <3>7. spi.state # 6
      <4>1. spi.state = 6 => High(d, c)
        BY DEF InState
      <4> QED
        BY <2>2, <4>1, Zenon DEF High, Asking
    <3>8. spi.state # 7
      <4>1. spi.state = 7 => Middle(d, c)
        BY DEF InState
      <4> QED
        BY <2>2, <4>1, Zenon DEF Middle, Asking
    <3>9. spi.state # 8
      <4>1. spi.state = 8 => Low(d, c)
        BY DEF InState
      <4>2. Low(d, c) => Asking(d, c)
        BY DEF Low
      <4> QED
        BY <2>2, <4>1, <4>2, Zenon DEF Asking
    <3>10. spi.state # 13
      <4>1. spi.state = 13 => Resting
        BY DEF InState
      <4> QED
        BY <2>1, <2>2, <4>1 DEF Resting
    <3>11. spi.state # 14
      <4>1. spi.state = 14 => Half
        BY DEF InState
      <4> QED
        BY <2>2, <4>1, Zenon DEF Half
    <3>12. spi.state # 15
      <4>1. spi.state = 15 => MoreOnes
        BY DEF InState
      <4> QED
        BY <2>1, <2>2, <4>1 DEF MoreOnes, Mending
    <3> QED
      BY <2>3, <3>1, <3>2, <3>3, <3>4, <3>5, <3>6, <3>7, <3>8, <3>9, <3>10, <3>11, <3>12
  <2>5. spi.state \in 9..12
    BY <2>3, <2>4
  <2>6. CASE spi.state = 9
    <3>1. Fetching(3, d, c)
      <4>1. Streaming(3, d, c)
        BY <2>1, <2>6 DEF InState
      <4> QED
        BY <4>1 DEF Streaming
    <3>2. k = 4
      BY <2>1, <3>1 DEF Fetching
    <3> QED
      BY <2>1, <2>6, <3>1, <3>2
  <2>7. CASE spi.state = 10
    <3>1. Fetching(0, d, c)
      <4>1. Streaming(0, d, c)
        BY <2>1, <2>7 DEF InState
      <4> QED
        BY <4>1 DEF Streaming
    <3>2. k = 1
      BY <2>1, <3>1 DEF Fetching
    <3> QED
      BY <2>1, <2>7, <3>1, <3>2
  <2>8. CASE spi.state = 11
    <3>1. Fetching(1, d, c)
      <4>1. Streaming(1, d, c)
        BY <2>1, <2>8 DEF InState
      <4> QED
        BY <4>1 DEF Streaming
    <3>2. k = 2
      BY <2>1, <3>1 DEF Fetching
    <3> QED
      BY <2>1, <2>8, <3>1, <3>2
  <2>9. CASE spi.state = 12
    <3>1. Fetching(2, d, c)
      <4>1. Third(d, c)
        BY <2>1, <2>9 DEF InState
      <4> QED
        BY <4>1 DEF Third
    <3>2. k = 3
      BY <2>1, <3>1 DEF Fetching
    <3> QED
      BY <2>1, <2>9, <3>1, <3>2
  <2> QED
    BY <2>5, <2>6, <2>7, <2>8, <2>9
<1>2. BufferFits
  <2>1. ASSUME NEW k \in 1..3, Takes(k) PROVE Len(spi.buffer) >= k - 1
    <3>1. Last /\ Fetching(k - 1, d, c)
      BY <1>1, <2>1
    <3>2. Got(k - 1)
      BY <3>1, Ready DEF Fetching
    <3>3. spi.buffer \in Seq(Byte)
      BY DEF TypeInv, SpiType
    <3> QED
      BY <3>2, <3>3 DEF Got
  <2> QED
    BY <2>1 DEF BufferFits
<1> QED
  BY <1>1, <1>2

\* No byte of an answer comes outside them.
LEMMA NoAnswer ==
    ASSUME NEW d \in BOOLEAN, NEW c \in BOOLEAN, Ticking(d, c),
           spi.state \notin 9..12 \/ ~Last \/ xfer.tag = 0
    PROVE  /\ BufferFits /\ \A k \in 1..4 : ~Takes(k)
           /\ spi'.rd_valid <=> spi.rd_valid
           /\ spi'.rd_inc <=> spi.rd_inc /\ spi.state # 4
           /\ spi'.rdata = spi.rdata /\ spi'.rd_addr = spi.rd_addr /\ spi'.buffer = spi.buffer
           /\ spi'.rd_wait => spi.rd_wait /\ ~valid
<1>1. /\ TypeInv /\ XferInv /\ InState(spi.state, d, c) /\ Spi(TRUE) /\ ~softreset /\ ~jump
  BY DEF Ticking
<1>2. BufferFits
  BY <1>1, AnswersIn
<1>3. ASSUME NEW k \in 1..4, Takes(k) PROVE FALSE
  <2>1. Last /\ xfer.tag = k /\ spi.state = IF k = 4 THEN 9 ELSE 9 + k
    BY <1>1, <1>3, AnswersIn
  <2> QED
    BY <2>1
<1> QED
  BY <1>1, <1>2, <1>3, SpiIs

\* CS# high.
LEMMA Pulse ==
    ASSUME TypeInv, XferInv, Xfer, Flash
    PROVE  /\ ~spi.xfer_resetn => Idle'
           /\ spi.xfer_resetn /\ Idle /\ ~din_ready => Idle'
           /\ Idle => ~Last
           /\ Idle => IF flash.enhance THEN Becomes(8, 0, 187, 0, TRUE)
                      ELSE Becomes(0, 0, 0, 0, FALSE)
<1>1. Idle => flash_csb = 1
  BY DEF Idle, flash_csb
<1>2. ~spi.xfer_resetn => Idle'
  BY MovesIs DEF Idle, Drops
<1>3. spi.xfer_resetn /\ Idle /\ ~din_ready => Idle'
  BY MovesIs DEF Idle, Rests, SameWay, SameByte
<1>4. Idle => ~Last
  BY Ready DEF Idle
<1>5. flash_csb = 1 => IF flash.enhance THEN Becomes(8, 0, 187, 0, TRUE) ELSE Becomes(0, 0, 0, 0, FALSE)
  BY Deselected
<1> QED
  BY <1>1, <1>2, <1>3, <1>4, <1>5

\* A byte that is taken is the next to go.
LEMMA StartsAt ==
    ASSUME Loads, NEW b, spi.din_data = b, NEW n \in Int, NEW t, NEW cmd, NEW a, NEW e,
           Becomes(n, t, cmd, a, e), NEW s, t = s % 2^24
    PROVE  Going(cmd, n, s, b)' /\ First'
<1>1. xfer'.count = 8 /\ xfer'.clk = 0 /\ xfer'.csb = 0 /\ xfer'.obuffer = b
  BY DEF Loads
<1>2. Sent' = 0 /\ Ticks' = 0
  BY <1>1 DEF Sent, Ticks
<1>3. Left(b, 0) = b /\ Behind(s, b, 0) = s
  BY DEF Left, Behind
<1>4. First'
  BY <1>1 DEF First
<1> QED
  BY <1>1, <1>2, <1>3, <1>4 DEF Going, Becomes

\* What a state says.
LEMMA Being ==
    ASSUME NEW d, NEW c, InState(spi.state, d, c)
    PROVE  /\ spi.state = 0 => Begin(255)
           /\ spi.state = 1 => Ones
           /\ spi.state = 14 => Half
           /\ spi.state = 15 => MoreOnes
           /\ spi.state = 2 => Recalling
           /\ spi.state = 3 => Releasing
           /\ spi.state = 13 => Resting
           /\ spi.state = 4 => Commanding(d)
           /\ spi.state = 5 => Addressing(d, c)
           /\ spi.state = 6 => High(d, c)
           /\ spi.state = 7 => Middle(d, c)
           /\ spi.state = 8 => Low(d, c)
           /\ spi.state = 10 => Streaming(0, d, c)
           /\ spi.state = 11 => Streaming(1, d, c)
           /\ spi.state = 12 => Third(d, c)
           /\ spi.state = 9 => IF xfer.tag = 0 THEN Final(d, c) ELSE Streaming(3, d, c)
<1>1. spi.state = 0 => Begin(255)
  BY DEF InState
<1>2. spi.state = 1 => Ones
  BY DEF InState
<1>3. spi.state = 14 => Half
  BY DEF InState
<1>4. spi.state = 15 => MoreOnes
  BY DEF InState
<1>5. spi.state = 2 => Recalling
  BY DEF InState
<1>6. spi.state = 3 => Releasing
  BY DEF InState
<1>7. spi.state = 13 => Resting
  BY DEF InState
<1>8. spi.state = 4 => Commanding(d)
  BY DEF InState
<1>9. spi.state = 5 => Addressing(d, c)
  BY DEF InState
<1>10. spi.state = 6 => High(d, c)
  BY DEF InState
<1>11. spi.state = 7 => Middle(d, c)
  BY DEF InState
<1>12. spi.state = 8 => Low(d, c)
  BY DEF InState
<1>13. spi.state = 10 => Streaming(0, d, c)
  BY DEF InState
<1>14. spi.state = 11 => Streaming(1, d, c)
  BY DEF InState
<1>15. spi.state = 12 => Third(d, c)
  BY DEF InState
<1>16. spi.state = 9 => IF xfer.tag = 0 THEN Final(d, c) ELSE Streaming(3, d, c)
  BY DEF InState
<1> QED
  BY <1>1, <1>2, <1>3, <1>4, <1>5, <1>6, <1>7, <1>8, <1>9, <1>10, <1>11, <1>12, <1>13, <1>14, <1>15, <1>16

\* What it takes to enter one.
LEMMA Enters ==
    ASSUME NEW d, NEW c
    PROVE  /\ spi'.state = 0 /\ Begin(255)' => InState(spi.state, d, c)'
           /\ spi'.state = 1 /\ Ones' => InState(spi.state, d, c)'
           /\ spi'.state = 14 /\ Half' => InState(spi.state, d, c)'
           /\ spi'.state = 15 /\ MoreOnes' => InState(spi.state, d, c)'
           /\ spi'.state = 2 /\ Recalling' => InState(spi.state, d, c)'
           /\ spi'.state = 3 /\ Releasing' => InState(spi.state, d, c)'
           /\ spi'.state = 13 /\ Resting' => InState(spi.state, d, c)'
           /\ spi'.state = 4 /\ Commanding(d)' => InState(spi.state, d, c)'
           /\ spi'.state = 5 /\ Addressing(d, c)' => InState(spi.state, d, c)'
           /\ spi'.state = 6 /\ High(d, c)' => InState(spi.state, d, c)'
           /\ spi'.state = 7 /\ Middle(d, c)' => InState(spi.state, d, c)'
           /\ spi'.state = 8 /\ Low(d, c)' => InState(spi.state, d, c)'
           /\ spi'.state = 10 /\ Streaming(0, d, c)' => InState(spi.state, d, c)'
           /\ spi'.state = 11 /\ Streaming(1, d, c)' => InState(spi.state, d, c)'
           /\ spi'.state = 12 /\ Third(d, c)' => InState(spi.state, d, c)'
           /\ spi'.state = 9 /\ (IF xfer'.tag = 0 THEN Final(d, c)' ELSE Streaming(3, d, c)')
                  => InState(spi.state, d, c)'
<1>1. spi'.state = 0 /\ Begin(255)' => InState(spi.state, d, c)'
  BY DEF InState
<1>2. spi'.state = 1 /\ Ones' => InState(spi.state, d, c)'
  BY DEF InState
<1>3. spi'.state = 14 /\ Half' => InState(spi.state, d, c)'
  BY DEF InState
<1>4. spi'.state = 15 /\ MoreOnes' => InState(spi.state, d, c)'
  BY DEF InState
<1>5. spi'.state = 2 /\ Recalling' => InState(spi.state, d, c)'
  BY DEF InState
<1>6. spi'.state = 3 /\ Releasing' => InState(spi.state, d, c)'
  BY DEF InState
<1>7. spi'.state = 13 /\ Resting' => InState(spi.state, d, c)'
  BY DEF InState
<1>8. spi'.state = 4 /\ Commanding(d)' => InState(spi.state, d, c)'
  BY DEF InState
<1>9. spi'.state = 5 /\ Addressing(d, c)' => InState(spi.state, d, c)'
  BY DEF InState
<1>10. spi'.state = 6 /\ High(d, c)' => InState(spi.state, d, c)'
  BY DEF InState
<1>11. spi'.state = 7 /\ Middle(d, c)' => InState(spi.state, d, c)'
  BY DEF InState
<1>12. spi'.state = 8 /\ Low(d, c)' => InState(spi.state, d, c)'
  BY DEF InState
<1>13. spi'.state = 10 /\ Streaming(0, d, c)' => InState(spi.state, d, c)'
  BY DEF InState
<1>14. spi'.state = 11 /\ Streaming(1, d, c)' => InState(spi.state, d, c)'
  BY DEF InState
<1>15. spi'.state = 12 /\ Third(d, c)' => InState(spi.state, d, c)'
  BY DEF InState
<1>16. spi'.state = 9 /\ (IF xfer'.tag = 0 THEN Final(d, c)' ELSE Streaming(3, d, c)')
       => InState(spi.state, d, c)'
  BY DEF InState
<1> QED
  BY <1>1, <1>2, <1>3, <1>4, <1>5, <1>6, <1>7, <1>8, <1>9, <1>10, <1>11, <1>12, <1>13, <1>14, <1>15, <1>16

\* With SCLK low the flash keeps what it has, or waits.
LEMMA Quiet ==
    ASSUME TypeInv, XferInv, Flash, config_en, xfer.clk = 0
    PROVE  /\ xfer.csb = 0 => flash' = flash
           /\ flash'.enhance <=> flash.enhance
<1>1. xfer.csb \in 0..1 /\ flash.enhance \in BOOLEAN
  BY DEF TypeInv, XferType, FlashType
<1>2. CASE xfer.csb = 0
  BY <1>2 DEF Flash, flash_csb
<1>3. CASE xfer.csb = 1
  <2>1. flash_csb = 1
    BY <1>3 DEF flash_csb
  <2>2. IF flash.enhance THEN Becomes(8, 0, 187, 0, TRUE) ELSE Becomes(0, 0, 0, 0, FALSE)
    BY <2>1, Deselected
  <2> QED
    BY <1>1, <1>3, <2>2 DEF Becomes
<1> QED
  BY <1>1, <1>2, <1>3

\* A byte that begins with CS# falling.
LEMMA Offered ==
    ASSUME NEW d \in BOOLEAN, NEW c \in BOOLEAN, Ticking(d, c), spi.state \in {0, 2, 4},
           NEW b, Begin(b), NEW next, Sends(spi', 0, b, next)
    PROVE  /\ Plain' /\ spi'.xfer_resetn
           /\ ~din_ready => Begin(b)' /\ spi'.state = spi.state
           /\ din_ready =>
                /\ spi'.state = next /\ ~spi'.din_valid /\ Loads /\ spi.din_data = b
                /\ ~xfer'.dspi /\ ~xfer'.rd /\ xfer'.tag = 0
                /\ IF flash.enhance THEN Becomes(8, 0, 187, 0, TRUE)
                   ELSE Becomes(0, 0, 0, 0, FALSE)
<1>1. /\ TypeInv /\ XferInv /\ Xfer /\ Flash /\ Spi(TRUE) /\ ~softreset /\ ~jump
  BY DEF Ticking
<1>2. BufferFits /\ (spi'.rd_valid <=> spi.rd_valid)
  BY NoAnswer
<1>3. /\ spi'.xfer_resetn /\ spi'.din_ddr = spi.din_ddr /\ (spi'.din_rd <=> spi.din_rd)
  BY <1>1, <1>2, SpiIs
<1>4. Plain'
  BY <1>2, <1>3 DEF Begin, Plain
<1>5. ASSUME ~din_ready PROVE Begin(b)' /\ spi'.state = spi.state
  <2>1. Idle'
    BY <1>1, <1>5, Pulse DEF Begin
  <2>2. Offer(b, 0, FALSE, FALSE)'
    BY <1>4 DEF Offer, Sends, Plain
  <2> QED
    BY <1>4, <1>5, <2>1, <2>2 DEF Begin, Sends
<1>6. ASSUME din_ready
      PROVE  /\ spi'.state = next /\ ~spi'.din_valid /\ Loads /\ spi.din_data = b
             /\ ~xfer'.dspi /\ ~xfer'.rd /\ xfer'.tag = 0
             /\ IF flash.enhance THEN Becomes(8, 0, 187, 0, TRUE)
                ELSE Becomes(0, 0, 0, 0, FALSE)
  <2>1. spi.din_valid /\ spi.xfer_resetn
    BY <1>6 DEF din_ready
  <2>2. Idle /\ Offer(b, 0, FALSE, FALSE)
    BY <2>1 DEF Begin
  <2>3. Loads
    BY <1>1, <1>6, MovesIs
  <2>4. spi.din_data = b /\ spi.din_tag = 0 /\ ~spi.din_ddr /\ ~spi.din_rd
    BY <2>1, <2>2 DEF Offer
  <2>5. ~xfer'.dspi /\ ~xfer'.rd /\ xfer'.tag = 0
    BY <2>3, <2>4 DEF Loads
  <2>6. IF flash.enhance THEN Becomes(8, 0, 187, 0, TRUE) ELSE Becomes(0, 0, 0, 0, FALSE)
    BY <1>1, <2>2, Pulse
  <2> QED
    BY <1>6, <2>3, <2>4, <2>5, <2>6 DEF Sends
<1> QED
  BY <1>3, <1>4, <1>5, <1>6

\* State 0: the first ones are offered.
LEMMA At0 ==
    ASSUME NEW d \in BOOLEAN, NEW c \in BOOLEAN, Ticking(d, c), spi.state = 0
    PROVE  InState(spi.state, d, c)'
<1>1. TypeInv /\ XferInv /\ Spi(TRUE) /\ ~softreset /\ ~jump /\ Begin(255)
  BY Being DEF Ticking
<1>2. spi.state \in {0, 2, 4}
  OBVIOUS
<1>3. Sends(spi', 0, 255, 1)
  BY <1>1, NoAnswer, SpiIs
<1>4. /\ Plain' /\ spi'.xfer_resetn
      /\ ~din_ready => Begin(255)' /\ spi'.state = spi.state
      /\ din_ready =>
           /\ spi'.state = 1 /\ ~spi'.din_valid /\ Loads /\ spi.din_data = 255
           /\ ~xfer'.dspi /\ ~xfer'.rd /\ xfer'.tag = 0
           /\ IF flash.enhance THEN Becomes(8, 0, 187, 0, TRUE)
              ELSE Becomes(0, 0, 0, 0, FALSE)
  BY <1>2, <1>1, <1>3, Offered, Zenon
<1>5. ASSUME din_ready PROVE Ones' /\ spi'.state = 1
  <2>1. /\ Plain' /\ spi'.xfer_resetn /\ spi'.state = 1 /\ ~spi'.din_valid /\ Loads
        /\ spi.din_data = 255 /\ ~xfer'.dspi /\ xfer'.tag = 0
        /\ IF flash.enhance THEN Becomes(8, 0, 187, 0, TRUE) ELSE Becomes(0, 0, 0, 0, FALSE)
    BY <1>4, <1>5
  <2>2. Sent' = 0 /\ xfer'.obuffer = 255 /\ xfer'.count = 8 /\ xfer'.csb = 0
    BY <2>1 DEF Sent, Loads
  <2>3. Left(255, 0) = 255 /\ Behind(0, 255, 0) = 0
    BY DEF Left, Behind
  <2>4. Mending(Sent)'
    BY <2>1, <2>2, <2>3 DEF Mending, Becomes
  <2> QED
    BY <2>1, <2>2, <2>4 DEF Ones, Wakes
<1> QED
  BY <1>4, <1>5, Enters

\* State 1: they go.
LEMMA At1 ==
    ASSUME NEW d \in BOOLEAN, NEW c \in BOOLEAN, Ticking(d, c), spi.state = 1
    PROVE  InState(spi.state, d, c)'
<1>1. /\ TypeInv /\ XferInv /\ Xfer /\ Flash /\ Spi(TRUE) /\ ~softreset /\ ~jump /\ config_en
      /\ Ones
  BY Being DEF Ticking
<1>2. /\ spi.xfer_resetn /\ ~spi.din_valid /\ xfer.count > 0 /\ Mending(Sent) /\ Plain
      /\ ~din_ready /\ xfer.count \in 1..8 /\ xfer.clk \in 0..1 /\ ~xfer.dspi
  BY <1>1 DEF Ones, Wakes, din_ready, TypeInv, XferType, Mending
<1>3. BufferFits /\ (spi'.rd_valid <=> spi.rd_valid)
  BY NoAnswer
<1>4. /\ Stays(spi', IF dout_valid THEN 14 ELSE 1) /\ spi'.xfer_resetn
      /\ spi'.din_ddr = spi.din_ddr /\ (spi'.din_rd <=> spi.din_rd)
  BY <1>1, <1>3, SpiIs
<1>5. Wakes' /\ ~spi'.din_valid
  BY <1>2, <1>3, <1>4 DEF Wakes, Plain, Stays
<1>6. Sent \in 0..7 /\ (xfer.count = 1 <=> Sent = 7) /\ Sent' = 8 - xfer'.count
  BY <1>2 DEF Sent
<1>7. PICK n \in 0..7 : n = Sent
  BY <1>6
<1>8. /\ Last <=> xfer'.count = 0
      /\ xfer.clk = 0 => Mending(n)' /\ xfer'.count = xfer.count
      /\ xfer.clk = 1 => Mending(n + 1)' /\ xfer'.count = xfer.count - 1
  BY <1>1, <1>2, <1>7, Mends
<1>9. CASE ~Last
  <2>1. Mending(Sent)'
    <3>1. CASE xfer.clk = 0
      <4>1. Sent' = n /\ Mending(n)'
        BY <1>6, <1>7, <1>8, <3>1 DEF Sent
      <4> QED
        BY <4>1 DEF Mending
    <3>2. CASE xfer.clk = 1
      <4>1. Sent' = n + 1 /\ Mending(n + 1)'
        BY <1>2, <1>6, <1>7, <1>8, <3>2 DEF Sent
      <4> QED
        BY <4>1 DEF Mending
    <3> QED
      BY <1>2, <3>1, <3>2
  <2>2. xfer'.count > 0 /\ spi'.state = 1
    BY <1>1, <1>2, <1>4, <1>8, <1>9, Ready DEF Stays
  <2> QED
    BY <1>5, <2>1, <2>2, Enters DEF Ones
<1>10. CASE Last
  <2>1. xfer.clk = 1 /\ n = 7 /\ xfer'.count = 0 /\ spi'.state = 14
    BY <1>1, <1>2, <1>4, <1>6, <1>7, <1>8, <1>10, Ready DEF Last, Width, Stays
  <2>2. Mending(8)'
    BY <1>8, <2>1
  <2>3. Half'
    BY <1>5, <2>1, <2>2 DEF Half, Offer
  <2> QED
    BY <2>1, <2>3, Enters
<1> QED
  BY <1>9, <1>10

\* State 14: eight more are offered, CS# low.
LEMMA At14 ==
    ASSUME NEW d \in BOOLEAN, NEW c \in BOOLEAN, Ticking(d, c), spi.state = 14
    PROVE  InState(spi.state, d, c)'
<1>1. /\ TypeInv /\ XferInv /\ Xfer /\ Flash /\ Spi(TRUE) /\ ~softreset /\ ~jump /\ config_en
      /\ Half
  BY Being DEF Ticking
<1>2. /\ Plain /\ spi.xfer_resetn /\ xfer.count = 0 /\ Mending(8) /\ Offer(255, 0, FALSE, FALSE)
  BY <1>1 DEF Half, Wakes
<1>3. xfer.clk = 0 /\ xfer.csb = 0 /\ ~xfer.dspi /\ xfer.tag = 0
  BY <1>1, <1>2 DEF XferInv, Mending
<1>4. flash' = flash
  BY <1>1, <1>3, Quiet
<1>5. BufferFits /\ (spi'.rd_valid <=> spi.rd_valid)
  BY NoAnswer
<1>6. /\ Sends(spi', 0, 255, 15) /\ spi'.xfer_resetn
      /\ spi'.din_ddr = spi.din_ddr /\ (spi'.din_rd <=> spi.din_rd)
  BY <1>1, <1>5, SpiIs
<1>7. Wakes'
  BY <1>2, <1>5, <1>6 DEF Wakes, Plain
<1>8. CASE ~din_ready
  <2>1. Rests
    BY <1>1, <1>2, <1>8, MovesIs
  <2>2. xfer'.count = 0 /\ xfer'.csb = 0 /\ ~xfer'.dspi /\ xfer'.tag = 0
    BY <1>3, <2>1 DEF Rests, SameWay, SameByte
  <2>3. Mending(8)'
    BY <1>2, <1>4, <2>2 DEF Mending
  <2>4. Offer(255, 0, FALSE, FALSE)'
    BY <1>6, <1>7 DEF Offer, Sends, Wakes, Plain
  <2>5. spi'.state = 14
    BY <1>6, <1>8 DEF Sends
  <2> QED
    BY <1>7, <2>2, <2>3, <2>4, <2>5, Enters DEF Half
<1>9. CASE din_ready
  <2>1. Loads
    BY <1>1, <1>9, MovesIs
  <2>2. spi.din_data = 255 /\ spi.din_tag = 0 /\ ~spi.din_ddr
    BY <1>2, <1>9 DEF Offer, din_ready
  <2>3. /\ xfer'.count = 8 /\ xfer'.csb = 0 /\ ~xfer'.dspi /\ xfer'.tag = 0
        /\ xfer'.obuffer = 255
    BY <2>1, <2>2 DEF Loads
  <2>4. Sent' = 0 /\ Left(255, 0) = 255
    BY <2>3 DEF Sent, Left
  <2>5. Mending(8 + Sent)'
    BY <1>2, <1>4, <2>3, <2>4 DEF Mending
  <2>6. spi'.state = 15 /\ ~spi'.din_valid
    BY <1>6, <1>9 DEF Sends
  <2> QED
    BY <1>7, <2>3, <2>5, <2>6, Enters DEF MoreOnes
<1> QED
  BY <1>8, <1>9

\* State 15: they go, and then CS# high.
LEMMA At15 ==
    ASSUME NEW d \in BOOLEAN, NEW c \in BOOLEAN, Ticking(d, c), spi.state = 15
    PROVE  InState(spi.state, d, c)'
<1>1. /\ TypeInv /\ XferInv /\ Xfer /\ Flash /\ Spi(TRUE) /\ ~softreset /\ ~jump /\ config_en
      /\ MoreOnes
  BY Being DEF Ticking
<1>2. /\ spi.xfer_resetn /\ ~spi.din_valid /\ xfer.count > 0 /\ Mending(8 + Sent) /\ Plain
      /\ ~din_ready /\ xfer.count \in 1..8 /\ xfer.clk \in 0..1 /\ ~xfer.dspi
  BY <1>1 DEF MoreOnes, Wakes, din_ready, TypeInv, XferType, Mending
<1>3. BufferFits /\ (spi'.rd_valid <=> spi.rd_valid)
  BY NoAnswer
<1>4. /\ Stays(spi', IF dout_valid THEN 2 ELSE 15) /\ (spi'.xfer_resetn <=> ~dout_valid)
      /\ spi'.din_ddr = spi.din_ddr /\ (spi'.din_rd <=> spi.din_rd)
  BY <1>1, <1>3, SpiIs
<1>5. Plain' /\ ~spi'.din_valid
  BY <1>2, <1>3, <1>4 DEF Plain, Stays
<1>6. Sent \in 0..7 /\ (xfer.count = 1 <=> Sent = 7) /\ Sent' = 8 - xfer'.count
  BY <1>2 DEF Sent
<1>7. PICK n \in 8..15 : n = 8 + Sent
  BY <1>6
<1>8. /\ Last <=> xfer'.count = 0
      /\ xfer.clk = 0 => Mending(n)' /\ xfer'.count = xfer.count
      /\ xfer.clk = 1 /\ n < 15 => Mending(n + 1)' /\ xfer'.count = xfer.count - 1
      /\ n = 15 /\ Last => ~flash'.enhance
  BY <1>1, <1>2, <1>7, Mends
<1>9. CASE ~Last
  <2>1. Mending(8 + Sent)'
    <3>1. CASE xfer.clk = 0
      <4>1. 8 + Sent' = n /\ Mending(n)'
        BY <1>6, <1>7, <1>8, <3>1 DEF Sent
      <4> QED
        BY <4>1 DEF Mending
    <3>2. CASE xfer.clk = 1
      <4>1. n < 15
        BY <1>2, <1>6, <1>7, <1>9, <3>2 DEF Last, Width
      <4>2. 8 + Sent' = n + 1 /\ Mending(n + 1)'
        BY <1>2, <1>6, <1>7, <1>8, <3>2, <4>1 DEF Sent
      <4> QED
        BY <4>2 DEF Mending
    <3> QED
      BY <1>2, <3>1, <3>2
  <2>2. xfer'.count > 0 /\ spi'.state = 15 /\ spi'.xfer_resetn
    <3>1. ~dout_valid
      BY <1>1, <1>9, Ready
    <3>2. xfer'.count # 0 /\ xfer'.count \in Nat
      BY <1>1, <1>8, <1>9, XferTyped DEF XferType
    <3> QED
      BY <1>4, <3>1, <3>2 DEF Stays
  <2> QED
    BY <1>5, <2>1, <2>2, Enters DEF MoreOnes, Wakes
<1>10. CASE Last
  <2>1. n = 15 /\ xfer'.count = 0 /\ spi'.state = 2 /\ ~spi'.xfer_resetn
    BY <1>1, <1>2, <1>4, <1>6, <1>7, <1>8, <1>10, Ready DEF Last, Width, Stays
  <2>2. Recalling'
    BY <1>5, <1>8, <1>10, <2>1 DEF Recalling, Begin, Offer
  <2> QED
    BY <2>1, <2>2, Enters
<1> QED
  BY <1>9, <1>10

\* State 2: 0xAB is offered.
LEMMA At2 ==
    ASSUME NEW d \in BOOLEAN, NEW c \in BOOLEAN, Ticking(d, c), spi.state = 2
    PROVE  InState(spi.state, d, c)'
<1>1. /\ TypeInv /\ XferInv /\ Flash /\ Spi(TRUE) /\ ~softreset /\ ~jump /\ config_en
      /\ Recalling
  BY Being DEF Ticking
<1>2. spi.state \in {0, 2, 4} /\ Begin(171) /\ ~flash.enhance /\ xfer.clk = 0
  <2>1. Begin(171) /\ ~flash.enhance /\ (~spi.xfer_resetn => xfer.count = 0)
    BY <1>1 DEF Recalling
  <2>2. xfer.count = 0
    BY <2>1 DEF Begin, Idle
  <2> QED
    BY <1>1, <2>1, <2>2 DEF XferInv
<1>3. Sends(spi', 0, 171, 3)
  BY <1>1, NoAnswer, SpiIs
<1>4. /\ Plain' /\ spi'.xfer_resetn
      /\ ~din_ready => Begin(171)' /\ spi'.state = spi.state
      /\ din_ready =>
           /\ spi'.state = 3 /\ ~spi'.din_valid /\ Loads /\ spi.din_data = 171
           /\ ~xfer'.dspi /\ ~xfer'.rd /\ xfer'.tag = 0
           /\ IF flash.enhance THEN Becomes(8, 0, 187, 0, TRUE)
              ELSE Becomes(0, 0, 0, 0, FALSE)
  BY <1>2, <1>1, <1>3, Offered, Zenon
<1>5. ~flash'.enhance
  BY <1>2, <1>1, Quiet
<1>6. CASE ~din_ready
  BY <1>4, <1>5, <1>6, Enters DEF Recalling
<1>7. CASE din_ready
  <2>1. Becomes(0, 0, 0, 0, FALSE)
    BY <1>2, <1>4, <1>7
  <2>2. Going(0, 0, 0, 171)'
    <3>1. 0 = 0 % 2^24 /\ 0 \in Int
      OBVIOUS
    <3>2. PICK b : b = 171
      OBVIOUS
    <3>3. Loads /\ spi.din_data = b
      BY <1>4, <1>7, <3>2
    <3>4. Going(0, 0, 0, b)'
      BY <2>1, <3>1, <3>3, StartsAt, Zenon
    <3> QED
      BY <3>2, <3>4
  <2> QED
    BY <1>4, <1>5, <1>7, <2>2, Enters DEF Releasing, Wakes
<1> QED
  BY <1>6, <1>7

\* State 3: it goes, and then CS# high.
LEMMA At3 ==
    ASSUME NEW d \in BOOLEAN, NEW c \in BOOLEAN, Ticking(d, c), spi.state = 3
    PROVE  InState(spi.state, d, c)'
<1>1. /\ TypeInv /\ XferInv /\ Xfer /\ Flash /\ Spi(TRUE) /\ ~softreset /\ ~jump /\ config_en
      /\ Releasing
  BY Being DEF Ticking
<1>2. /\ spi.xfer_resetn /\ ~spi.din_valid /\ ~flash.enhance /\ ~xfer.dspi /\ Plain
      /\ xfer.tag = 0 /\ Going(0, 0, 0, 171) /\ ~din_ready /\ xfer.count > 0
  BY <1>1 DEF Releasing, Wakes, din_ready, Going
<1>3. BufferFits /\ (spi'.rd_valid <=> spi.rd_valid)
  BY NoAnswer
<1>4. /\ Stays(spi', IF dout_valid THEN 13 ELSE 3) /\ (spi'.xfer_resetn <=> ~dout_valid)
      /\ spi'.din_ddr = spi.din_ddr /\ (spi'.din_rd <=> spi.din_rd)
  BY <1>1, <1>3, SpiIs
<1>5. Plain' /\ ~spi'.din_valid
  BY <1>2, <1>3, <1>4 DEF Plain, Stays
<1>6. Way(0, 0)
  BY <1>2 DEF Way
<1>7. PICK b \in Byte : b = 171
  BY DEF Byte
<1>8. 0 \in Nat /\ Going(0, 0, 0, b)
  BY <1>2, <1>7
<1>9. CASE ~Last
  <2>1. /\ xfer'.csb = 0 /\ xfer'.count > 0 /\ xfer'.obuffer = Left(b, 8 - xfer'.count)
        /\ Becomes(0 + (IF xfer.dspi THEN (8 - xfer'.count) \div 2 ELSE 8 - xfer'.count),
                   Behind(0, b, 8 - xfer'.count) % 2^24, 0, flash.addr, flash.enhance)
        /\ SameWay
    BY <1>1, <1>2, <1>6, <1>9, <1>8, GoesOn, Zenon
  <2>2. ~xfer'.dspi /\ xfer'.tag = 0
    BY <1>2, <2>1 DEF SameWay, SameByte
  <2>3. Going(0, 0, 0, 171)' /\ ~flash'.enhance
    BY <1>2, <1>7, <2>1, <2>2 DEF Going, Sent, Ticks, Becomes
  <2>4. spi'.state = 3 /\ spi'.xfer_resetn
    BY <1>1, <1>4, <1>9, Ready DEF Stays
  <2> QED
    BY <1>5, <2>2, <2>3, <2>4, Enters DEF Releasing, Wakes
<1>10. CASE Last
  <2>1. Ends /\ spi'.state = 13 /\ ~spi'.xfer_resetn
    BY <1>1, <1>2, <1>4, <1>10, MovesIs, Ready DEF Stays
  <2>2. ~flash'.enhance
    BY <1>1, <1>2, <1>6, <1>10, <1>8, GoesOut DEF Becomes
  <2> QED
    BY <1>5, <2>1, <2>2, Enters DEF Resting, Ends
<1> QED
  BY <1>9, <1>10

\* State 13: a rest, CS# high.
LEMMA At13 ==
    ASSUME NEW d \in BOOLEAN, NEW c \in BOOLEAN, Ticking(d, c), spi.state = 13
    PROVE  InState(spi.state, d, c)'
<1>1. /\ TypeInv /\ XferInv /\ Xfer /\ Flash /\ Spi(TRUE) /\ ~softreset /\ ~jump /\ config_en
      /\ Resting
  BY Being DEF Ticking
<1>2. /\ ~spi.din_valid /\ ~flash.enhance /\ Plain /\ xfer.count = 0 /\ ~din_ready
      /\ (spi.xfer_resetn => Idle)
  BY <1>1 DEF Resting, din_ready
<1>3. BufferFits /\ (spi'.rd_valid <=> spi.rd_valid)
  BY NoAnswer
<1>4. /\ Stays(spi', 4) \/ Stays(spi', 13)
      /\ spi'.xfer_resetn
      /\ spi'.din_ddr = spi.din_ddr /\ (spi'.din_rd <=> spi.din_rd)
  BY <1>1, <1>3, SpiIs
<1>5. Plain' /\ ~spi'.din_valid
  BY <1>2, <1>3, <1>4 DEF Plain, Stays
<1>6. ~flash'.enhance
  BY <1>1, <1>2, Quiet DEF XferInv
<1>7. Idle'
  BY <1>1, <1>2, Pulse
<1>8. CASE spi'.state = 13
  BY <1>4, <1>5, <1>6, <1>7, <1>8, Enters DEF Resting, Idle
<1>9. CASE spi'.state = 4
  BY <1>4, <1>5, <1>6, <1>7, <1>9, Enters DEF Commanding, Begin, Offer
<1> QED
  BY <1>4, <1>8, <1>9 DEF Stays

\* State 4: the command is offered.
LEMMA At4 ==
    ASSUME NEW d \in BOOLEAN, NEW c \in BOOLEAN, Ticking(d, c), spi.state = 4
    PROVE  InState(spi.state, d, c)'
<1>1. /\ TypeInv /\ XferInv /\ Flash /\ Spi(TRUE) /\ ~softreset /\ ~jump /\ config_en
      /\ d = cfg.ddr /\ Commanding(d)
  BY Being DEF Ticking
<1>2. spi.state \in {0, 2, 4} /\ Begin(Command(d)) /\ ~flash.enhance
  BY <1>1 DEF Commanding
<1>3. Sends(spi', 0, Command(d), 5)
  BY <1>1, NoAnswer, SpiIs
<1>4. /\ Plain' /\ spi'.xfer_resetn
      /\ ~din_ready => Begin(Command(d))' /\ spi'.state = spi.state
      /\ din_ready =>
           /\ spi'.state = 5 /\ ~spi'.din_valid /\ Loads /\ spi.din_data = Command(d)
           /\ ~xfer'.dspi /\ ~xfer'.rd /\ xfer'.tag = 0
           /\ IF flash.enhance THEN Becomes(8, 0, 187, 0, TRUE)
              ELSE Becomes(0, 0, 0, 0, FALSE)
  BY <1>2, <1>1, <1>3, Offered, Zenon
<1>5. ~flash'.enhance /\ ~spi'.rd_inc
  <2>1. CASE ~spi.xfer_resetn
    <3>1. flash_csb = 0 /\ Reading(d)
      BY <1>1, <2>1 DEF Commanding, flash_csb
    <3> QED
      BY <1>2, <1>1, <3>1, ReadsOn, NoAnswer
  <2>2. CASE spi.xfer_resetn
    <3>1. Idle
      BY <1>2, <2>2 DEF Begin
    <3> QED
      BY <1>2, <1>1, <3>1, Quiet, NoAnswer DEF XferInv, Idle
  <2> QED
    BY <2>1, <2>2
<1>6. CASE ~din_ready
  BY <1>4, <1>5, <1>6, Enters DEF Commanding
<1>7. CASE din_ready
  <2>1. Becomes(0, 0, 0, 0, FALSE)
    BY <1>2, <1>4, <1>7
  <2>2. Going(0, 0, 0, Command(d))'
    <3>1. 0 = 0 % 2^24 /\ 0 \in Int
      OBVIOUS
    <3>2. Loads /\ spi.din_data = Command(d)
      BY <1>4, <1>7
    <3> QED
      BY <2>1, <3>1, <3>2, StartsAt, Zenon
  <2>3. /\ xfer'.csb = 0 /\ xfer'.count = 8 /\ spi'.state = 5 /\ ~spi'.din_valid
    BY <1>4, <1>7 DEF Loads
  <2>4. Offer(AddrByte(2), 0, d, FALSE)'
    BY <2>3 DEF Offer
  <2>5. /\ spi'.xfer_resetn /\ xfer'.csb # 1 /\ xfer'.count > 0 /\ ~xfer'.dspi /\ xfer'.tag = 0
        /\ ~spi'.rd_valid /\ ~spi'.rd_inc /\ ~spi'.din_rd /\ ~flash'.enhance /\ ~spi'.din_valid
    BY <1>4, <1>5, <1>7, <2>3 DEF Plain
  <2>6. Addressing(d, c)'
    BY <2>2, <2>4, <2>5, Zenon DEF Addressing
  <2> QED
    BY <2>3, <2>6, Enters
<1> QED
  BY <1>6, <1>7

\* The clock of a read in state 5 or after, which is not answered yet.
LEMMA Unanswered ==
    ASSUME NEW d \in BOOLEAN, NEW c \in BOOLEAN, Ticking(d, c), valid, ~spi.rd_valid
    PROVE  /\ ~ready /\ port' = port /\ valid' /\ AddrByte(0)' = AddrByte(0)
           /\ AddrByte(1)' = AddrByte(1) /\ AddrByte(2)' = AddrByte(2)
<1>1. ~ready /\ Cpu(TRUE)
  BY DEF Ticking, ready
<1> QED
  BY <1>1, ReadStands

\* The first byte of the address is taken, the flash ready for it.
LEMMA Calls ==
    ASSUME NEW d \in BOOLEAN, NEW c \in BOOLEAN, Ticking(d, c), spi.state = 5, Addressing(d, c),
           din_ready, NEW a, NEW s, NEW e \in BOOLEAN, Becomes(8, s, Command(d), a, e),
           s = (IF e THEN 0 ELSE Command(d)), e => d /\ c
    PROVE  InState(spi.state, d, c)'
<1>1. /\ TypeInv /\ XferInv /\ Xfer /\ Spi(TRUE) /\ ~softreset /\ ~jump /\ d = cfg.ddr
  BY DEF Ticking
<1>2. spi.din_valid /\ spi.xfer_resetn
  BY DEF din_ready
<1>3. /\ ~spi.rd_valid /\ ~spi.rd_inc /\ ~spi.din_rd /\ valid /\ Offer(AddrByte(2), 0, d, FALSE)
  BY <1>2 DEF Addressing
<1>4. spi.din_data = AddrByte(2) /\ spi.din_tag = 0 /\ spi.din_ddr = d
  BY <1>2, <1>3 DEF Offer
<1>5. ~ready /\ valid' /\ AddrByte(2)' = AddrByte(2)
  BY <1>3, Unanswered
<1>6. BufferFits /\ ~spi'.rd_valid /\ ~spi'.rd_inc
  BY <1>3, NoAnswer
<1>7. /\ Sends(spi', 0, AddrByte(2), 6) /\ spi'.xfer_resetn
      /\ spi'.din_ddr = d /\ (spi'.din_rd <=> spi.din_rd)
  BY <1>1, <1>3, <1>5, <1>6, SpiIs
<1>8. Loads
  BY <1>1, MovesIs
<1>9. /\ xfer'.csb = 0 /\ xfer'.count > 0 /\ xfer'.dspi = d /\ ~xfer'.rd /\ xfer'.tag = 0
  BY <1>3, <1>4, <1>8 DEF Loads
<1>10. Going(Command(d), 8, s, AddrByte(2))' /\ First'
  <2>1. 8 \in Int /\ s = s % 2^24
    BY DEF Command
  <2>2. PICK b : b = AddrByte(2)
    OBVIOUS
  <2>3. spi.din_data = b
    BY <1>4, <2>2
  <2>4. Going(Command(d), 8, s, b)' /\ First'
    BY <1>8, <2>1, <2>3, StartsAt, Zenon
  <2> QED
    BY <1>5, <2>2, <2>4
<1>11. Before(d)' = s /\ (flash'.enhance <=> e)
  BY DEF Before, Becomes
<1>12. ~spi'.din_valid /\ spi'.state = 6
  BY <1>7 DEF Sends
<1>13. Asking(d, c)'
  BY <1>5, <1>6, <1>7, <1>9, <1>10, <1>11 DEF Asking, Busy
<1>14. Offer(AddrByte(1), 0, d, FALSE)'
  BY <1>12 DEF Offer
<1>15. Going(Command(d), 8, Before(d), AddrByte(2))'
  BY <1>10, <1>11 DEF Going
<1>16. High(d, c)'
  BY <1>3, <1>7, <1>13, <1>14, <1>15, Zenon DEF High
<1> QED
  BY <1>12, <1>16, Enters

\* State 5 goes on until the read has come.
LEMMA StillAt5 ==
    ASSUME NEW d \in BOOLEAN, NEW c \in BOOLEAN, Ticking(d, c), spi.state = 5, Addressing(d, c),
           ~din_ready
    PROVE  /\ spi'.state = 5 /\ spi'.xfer_resetn /\ ~spi'.rd_valid /\ ~spi'.rd_inc /\ ~spi'.din_rd
           /\ spi'.din_valid => valid'
           /\ valid => valid'
           /\ Offer(AddrByte(2), 0, d, FALSE)'
<1>1. /\ TypeInv /\ XferInv /\ Xfer /\ Spi(TRUE) /\ ~softreset /\ ~jump /\ d = cfg.ddr
  BY DEF Ticking
<1>2. ~spi.rd_valid /\ ~spi.rd_inc /\ ~spi.din_rd
  BY DEF Addressing
<1>3. BufferFits /\ ~spi'.rd_valid /\ ~spi'.rd_inc
  BY <1>2, NoAnswer
<1>4. /\ IF valid /\ ~ready THEN Sends(spi', 0, AddrByte(2), 6) ELSE Stays(spi', 5)
      /\ spi'.xfer_resetn /\ (spi'.din_rd <=> spi.din_rd)
      /\ spi'.din_ddr = IF valid /\ ~ready THEN d ELSE spi.din_ddr
  BY <1>1, <1>3, SpiIs
<1>5. CASE valid
  <2>1. ~ready /\ valid' /\ AddrByte(2)' = AddrByte(2)
    BY <1>2, <1>5, Unanswered
  <2> QED
    BY <1>2, <1>3, <1>4, <1>5, <2>1 DEF Sends, Offer
<1>6. CASE ~valid
  BY <1>2, <1>3, <1>4, <1>6 DEF Stays, Offer
<1> QED
  BY <1>5, <1>6

\* State 5: the command goes and the first byte of the address is offered.
LEMMA At5 ==
    ASSUME NEW d \in BOOLEAN, NEW c \in BOOLEAN, Ticking(d, c), spi.state = 5
    PROVE  InState(spi.state, d, c)'
<1>1. /\ TypeInv /\ XferInv /\ Xfer /\ Flash /\ config_en /\ Addressing(d, c)
      /\ xfer.csb \in 0..1 /\ xfer.count \in 0..8
  BY Being DEF Ticking, TypeInv, XferType
<1>2. CASE ~spi.xfer_resetn \/ xfer.csb = 1
  <2>1. d /\ c /\ flash.enhance /\ valid /\ (spi.xfer_resetn => Idle)
        /\ (~spi.xfer_resetn => xfer.csb = 0 /\ Reading(d))
    BY <1>1, <1>2 DEF Addressing
  <2>2. flash'.enhance
    <3>1. CASE spi.xfer_resetn
      BY <1>1, <2>1, <3>1, Quiet DEF XferInv, Idle
    <3>2. CASE ~spi.xfer_resetn
      <4>1. flash_csb = 0
        BY <1>1, <2>1, <3>2 DEF flash_csb
      <4> QED
        BY <1>1, <2>1, <3>2, <4>1, ReadsOn
    <3> QED
      BY <3>1, <3>2
  <2>3. CASE ~din_ready
    <3>1. Idle'
      BY <1>1, <2>1, <2>3, Pulse
    <3>2. /\ spi'.state = 5 /\ spi'.xfer_resetn /\ ~spi'.rd_valid /\ ~spi'.rd_inc /\ ~spi'.din_rd
          /\ (spi'.din_valid => valid') /\ valid' /\ Offer(AddrByte(2), 0, d, FALSE)'
      BY <1>1, <2>1, <2>3, StillAt5
    <3>3. Addressing(d, c)'
      BY <2>1, <2>2, <3>1, <3>2 DEF Addressing, Idle
    <3> QED
      BY <3>2, <3>3, Enters
  <2>4. CASE din_ready
    <3>1. Idle
      BY <2>1, <2>4 DEF din_ready
    <3>2. Becomes(8, 0, 187, 0, TRUE)
      BY <1>1, <2>1, <3>1, Pulse
    <3>3. Command(d) = 187 /\ 0 = IF TRUE THEN 0 ELSE Command(d)
      BY <2>1 DEF Command
    <3>4. Becomes(8, 0, Command(d), 0, TRUE)
      BY <3>2, <3>3
    <3> QED
      BY <1>1, <2>1, <2>4, <3>3, <3>4, Calls, Zenon
  <2> QED
    BY <2>3, <2>4
<1>3. CASE spi.xfer_resetn /\ xfer.csb # 1 /\ xfer.count = 0
  <2>1. /\ ~flash.enhance /\ ~xfer.dspi /\ xfer.tag = 0 /\ xfer.csb = 0 /\ xfer.clk = 0
        /\ flash.cmd = Command(d) /\ flash.n = 8 /\ flash.sr = Command(d)
    BY <1>1, <1>3 DEF Addressing, XferInv
  <2>2. flash' = flash
    BY <1>1, <2>1, Quiet
  <2>3. CASE ~din_ready
    <3>1. Rests
      BY <1>1, <1>3, <2>3, MovesIs
    <3>2. xfer'.csb = 0 /\ xfer'.count = 0 /\ ~xfer'.dspi /\ xfer'.tag = 0
      BY <2>1, <3>1 DEF Rests, SameWay, SameByte
    <3>3. /\ spi'.state = 5 /\ spi'.xfer_resetn /\ ~spi'.rd_valid /\ ~spi'.rd_inc /\ ~spi'.din_rd
          /\ (spi'.din_valid => valid') /\ Offer(AddrByte(2), 0, d, FALSE)'
      BY <1>1, <2>3, StillAt5
    <3>4. /\ ~flash'.enhance /\ flash'.cmd = Command(d) /\ flash'.n = 8 /\ flash'.sr = Command(d)
          /\ xfer'.csb # 1 /\ ~(xfer'.count > 0)
      BY <2>1, <2>2, <3>2
    <3>5. Addressing(d, c)'
      BY <3>2, <3>3, <3>4, Zenon DEF Addressing
    <3> QED
      BY <3>3, <3>5, Enters
  <2>4. CASE din_ready
    <3>1. Becomes(8, Command(d), Command(d), flash.addr, FALSE)
      BY <2>1, <2>2 DEF Becomes
    <3>2. Command(d) = IF FALSE THEN 0 ELSE Command(d)
      OBVIOUS
    <3> QED
      BY <1>1, <2>4, <3>1, <3>2, Calls, Zenon
  <2> QED
    BY <2>3, <2>4
<1>4. CASE spi.xfer_resetn /\ xfer.csb # 1 /\ xfer.count > 0
  <2>1. ~flash.enhance /\ ~xfer.dspi /\ xfer.tag = 0 /\ Going(0, 0, 0, Command(d))
    BY <1>1, <1>4 DEF Addressing
  <2>2. Way(0, 0) /\ 0 \in Nat
    BY <2>1 DEF Way
  <2>3. PICK b \in Byte : b = Command(d)
    BY DEF Command, Byte
  <2>4. Going(0, 0, 0, b)
    BY <2>1, <2>3
  <2>5. CASE ~Last
    <3>1. ~din_ready
      BY <1>1, <1>4, <2>5, Ready
    <3>2. /\ xfer'.csb = 0 /\ xfer'.count > 0 /\ xfer'.obuffer = Left(b, 8 - xfer'.count)
          /\ Becomes(0 + (IF xfer.dspi THEN (8 - xfer'.count) \div 2 ELSE 8 - xfer'.count),
                     Behind(0, b, 8 - xfer'.count) % 2^24, 0, flash.addr, flash.enhance)
          /\ SameWay
      BY <1>1, <1>4, <2>2, <2>4, <2>5, GoesOn, Zenon
    <3>3. ~xfer'.dspi /\ xfer'.tag = 0
      BY <2>1, <3>2 DEF SameWay, SameByte
    <3>4. Going(0, 0, 0, Command(d))' /\ ~flash'.enhance
      BY <2>1, <2>3, <3>2, <3>3 DEF Going, Sent, Ticks, Becomes
    <3>5. /\ spi'.state = 5 /\ spi'.xfer_resetn /\ ~spi'.rd_valid /\ ~spi'.rd_inc /\ ~spi'.din_rd
          /\ (spi'.din_valid => valid') /\ Offer(AddrByte(2), 0, d, FALSE)'
      BY <1>1, <3>1, StillAt5
    <3>6. xfer'.csb # 1
      BY <3>2
    <3>7. Addressing(d, c)'
      BY <3>2, <3>3, <3>4, <3>5, <3>6, Zenon DEF Addressing
    <3> QED
      BY <3>5, <3>7, Enters
  <2>6. CASE Last
    <3>1. Becomes(8, Command(d), Command(d), flash.addr, FALSE)
      <4>1. PICK t : t = Behind(0, b, 8) % 2^24
        OBVIOUS
      <4>2. Becomes(8, t, t % 256, flash.addr, flash.enhance)
        BY <1>1, <2>2, <2>4, <2>6, <4>1, GoesOut
      <4>3. t = Command(d) /\ t % 256 = Command(d)
        BY <2>3, <4>1 DEF Behind, Byte
      <4> QED
        BY <2>1, <4>2, <4>3 DEF Becomes
    <3>2. CASE ~din_ready
      <4>1. Ends
        BY <1>1, <1>4, <2>6, <3>2, MovesIs
      <4>2. xfer'.csb = 0 /\ xfer'.count = 0 /\ ~xfer'.dspi /\ xfer'.tag = 0
        BY <2>1, <2>4, <4>1 DEF Ends, SameByte, Going
      <4>3. /\ spi'.state = 5 /\ spi'.xfer_resetn /\ ~spi'.rd_valid /\ ~spi'.rd_inc /\ ~spi'.din_rd
            /\ (spi'.din_valid => valid') /\ Offer(AddrByte(2), 0, d, FALSE)'
        BY <1>1, <3>2, StillAt5
      <4>4. /\ ~flash'.enhance /\ flash'.cmd = Command(d) /\ flash'.n = 8 /\ flash'.sr = Command(d)
            /\ xfer'.csb # 1 /\ ~(xfer'.count > 0)
        BY <3>1, <4>2 DEF Becomes
      <4>5. Addressing(d, c)'
        BY <4>2, <4>3, <4>4, Zenon DEF Addressing
      <4> QED
        BY <4>3, <4>5, Enters
    <3>3. CASE din_ready
      <4>1. Command(d) = IF FALSE THEN 0 ELSE Command(d)
        OBVIOUS
      <4> QED
        BY <1>1, <3>1, <3>3, <4>1, Calls, Zenon
    <3> QED
      BY <3>2, <3>3
  <2> QED
    BY <2>5, <2>6
<1> QED
  BY <1>1, <1>2, <1>3, <1>4

\* A byte of the address, or the mode, goes on.
LEMMA AskGoes ==
    ASSUME NEW d \in BOOLEAN, NEW c \in BOOLEAN, Ticking(d, c), Asking(d, c), spi.state \in 6..9,
           NEW n \in Nat, NEW s \in Nat, NEW b \in Byte, Way(Command(d), n),
           Going(Command(d), n, s, b), ~Last
    PROVE  /\ Asking(d, c)' /\ Going(Command(d), n, s, b)'
           /\ spi'.state = spi.state /\ spi'.din_valid /\ ~din_ready
           /\ spi'.din_ddr = d /\ (spi'.din_rd <=> spi.din_rd)
           /\ flash'.addr = flash.addr /\ (flash'.enhance <=> flash.enhance)
<1>1. /\ TypeInv /\ XferInv /\ Xfer /\ Flash /\ Spi(TRUE) /\ ~softreset /\ ~jump /\ config_en
      /\ d = cfg.ddr
  BY DEF Ticking
<1>2. /\ valid /\ ~spi.rd_valid /\ ~spi.rd_inc /\ ~xfer.rd /\ xfer.tag = 0
      /\ (flash.enhance => d /\ c) /\ xfer.csb = 0 /\ xfer.count > 0 /\ xfer.dspi = d
      /\ spi.xfer_resetn /\ spi.din_ddr = d
  BY DEF Asking, Busy
<1>3. ~ready /\ port' = port /\ valid'
  BY <1>2, Unanswered
<1>4. BufferFits /\ ~spi'.rd_valid /\ ~spi'.rd_inc
  BY <1>2, NoAnswer
<1>5. ~din_ready
  BY <1>1, <1>2, Ready
<1>6. /\ spi'.xfer_resetn /\ spi'.din_ddr = spi.din_ddr /\ (spi'.din_rd <=> spi.din_rd)
      /\ spi'.din_valid /\ spi'.state = spi.state
  <2>1. CASE spi.state = 6
    BY <1>1, <1>4, <1>5, <2>1, SpiIs DEF Sends
  <2>2. CASE spi.state = 7
    BY <1>1, <1>4, <1>5, <2>2, SpiIs DEF Sends
  <2>3. CASE spi.state = 8
    BY <1>1, <1>4, <1>5, <2>3, SpiIs DEF Sends
  <2>4. CASE spi.state = 9
    BY <1>1, <1>4, <1>5, <2>4, SpiIs DEF Sends
  <2> QED
    BY <2>1, <2>2, <2>3, <2>4
<1>7. /\ xfer'.csb = 0 /\ xfer'.count > 0 /\ xfer'.obuffer = Left(b, 8 - xfer'.count)
      /\ Becomes(n + (IF xfer.dspi THEN (8 - xfer'.count) \div 2 ELSE 8 - xfer'.count),
                 Behind(s, b, 8 - xfer'.count) % 2^24, Command(d), flash.addr, flash.enhance)
      /\ SameWay
  BY <1>1, <1>2, GoesOn, Zenon
<1>8. xfer'.dspi = d /\ xfer'.tag = 0 /\ ~xfer'.rd /\ xfer'.dspi = xfer.dspi
  BY <1>2, <1>7 DEF SameWay, SameByte
<1>9. Going(Command(d), n, s, b)'
  BY <1>7, <1>8 DEF Going, Sent, Ticks, Becomes
<1>10. flash'.addr = flash.addr /\ (flash'.enhance <=> flash.enhance)
  BY <1>7 DEF Becomes
<1>11. Asking(d, c)'
  BY <1>2, <1>3, <1>4, <1>6, <1>7, <1>8, <1>10 DEF Asking, Busy
<1> QED
  BY <1>2, <1>5, <1>6, <1>9, <1>10, <1>11

\* It has gone, and the next is taken.
LEMMA AskEnds ==
    ASSUME NEW d \in BOOLEAN, NEW c \in BOOLEAN, Ticking(d, c), Asking(d, c), spi.state \in 6..9, Last
    PROVE  /\ din_ready /\ Loads /\ spi.din_valid /\ spi.xfer_resetn /\ Busy(d)'
           /\ valid' /\ port' = port /\ ~spi'.rd_valid /\ ~spi'.rd_inc /\ ~spi'.din_valid
           /\ spi'.xfer_resetn /\ spi'.din_ddr = d
           /\ spi'.din_rd <=> spi.din_rd \/ spi.state = 8
           /\ spi'.state = IF spi.state = 6 THEN 7
                           ELSE IF spi.state = 7 THEN (IF d THEN 8 ELSE 9)
                           ELSE IF spi.state = 8 THEN 9 ELSE 10
<1>1. /\ TypeInv /\ XferInv /\ Xfer /\ Spi(TRUE) /\ ~softreset /\ ~jump /\ d = cfg.ddr
      /\ InState(spi.state, d, c)
  BY DEF Ticking
<1>2. /\ valid /\ ~spi.rd_valid /\ ~spi.rd_inc /\ xfer.tag = 0
      /\ xfer.dspi = d /\ spi.xfer_resetn /\ spi.din_ddr = d /\ (spi.din_valid \/ First)
  BY DEF Asking, Busy
<1>3. ~ready /\ port' = port /\ valid'
  BY <1>2, Unanswered
<1>4. BufferFits /\ ~spi'.rd_valid /\ ~spi'.rd_inc
  BY <1>2, NoAnswer
<1>5. din_ready /\ spi.din_valid
  BY <1>1, <1>2, Ready
<1>6. /\ spi'.xfer_resetn /\ spi'.din_ddr = d /\ ~spi'.din_valid
      /\ spi'.din_rd <=> spi.din_rd \/ spi.state = 8
      /\ spi'.state = IF spi.state = 6 THEN 7
                      ELSE IF spi.state = 7 THEN (IF d THEN 8 ELSE 9)
                      ELSE IF spi.state = 8 THEN 9 ELSE 10
  <2>1. CASE spi.state = 6
    BY <1>1, <1>2, <1>4, <1>5, <2>1, SpiIs DEF Sends
  <2>2. CASE spi.state = 7
    BY <1>1, <1>2, <1>4, <1>5, <2>2, SpiIs DEF Sends
  <2>3. CASE spi.state = 8
    BY <1>1, <1>2, <1>4, <1>5, <2>3, SpiIs DEF Sends
  <2>4. CASE spi.state = 9
    BY <1>1, <1>2, <1>4, <1>5, <2>4, SpiIs DEF Sends
  <2> QED
    BY <2>1, <2>2, <2>3, <2>4
<1>7. Loads
  BY <1>1, <1>5, MovesIs
<1>8. Busy(d)'
  <2>1. First' /\ xfer'.csb = 0 /\ xfer'.count > 0 /\ xfer'.dspi = d
    BY <1>2, <1>7 DEF Loads, First
  <2> QED
    BY <1>6, <2>1 DEF Busy
<1> QED
  BY <1>2, <1>3, <1>4, <1>5, <1>6, <1>7, <1>8

\* State 6: the first byte of the address goes.
LEMMA At6 ==
    ASSUME NEW d \in BOOLEAN, NEW c \in BOOLEAN, Ticking(d, c), spi.state = 6
    PROVE  InState(spi.state, d, c)'
<1>1. /\ TypeInv /\ XferInv /\ Xfer /\ Flash /\ Spi(TRUE) /\ ~softreset /\ ~jump /\ config_en
      /\ High(d, c)
  BY Being DEF Ticking
<1>2. /\ Asking(d, c) /\ Going(Command(d), 8, Before(d), AddrByte(2))
      /\ Offer(AddrByte(1), 0, d, FALSE) /\ ~spi.din_rd
  BY <1>1 DEF High
<1>3. spi.state \in 6..9
  OBVIOUS
<1>4. valid /\ ~spi.rd_valid /\ xfer.dspi = d /\ ~xfer.rd /\ (flash.enhance => d /\ c)
  BY <1>2 DEF Asking, Busy
<1>5. /\ AddrByte(1)' = AddrByte(1) /\ AddrByte(2)' = AddrByte(2) /\ ~ready
      /\ AddrByte(0)' = AddrByte(0)
  BY <1>4, Unanswered
<1>6. PICK b \in Byte : b = AddrByte(2)
  BY <1>1, AddrBytes
<1>7. PICK s \in Nat : s = Before(d)
  BY DEF Before, Command
<1>8. PICK n \in Nat : n = 8
  OBVIOUS
<1>9. Way(Command(d), n) /\ Going(Command(d), n, s, b)
  BY <1>2, <1>4, <1>6, <1>7, <1>8 DEF Way, Command
<1>10. CASE ~Last
  <2>1. /\ Asking(d, c)' /\ Going(Command(d), n, s, b)' /\ spi'.state = spi.state
        /\ spi'.din_valid /\ ~din_ready /\ spi'.din_ddr = d /\ (spi'.din_rd <=> spi.din_rd)
        /\ (flash'.enhance <=> flash.enhance)
    BY <1>3, <1>2, <1>9, <1>10, AskGoes, Zenon
  <2>2. Before(d)' = Before(d)
    BY <2>1 DEF Before
  <2>3. Sends(spi', 0, AddrByte(1), 7)
    BY <1>1, <1>4, NoAnswer, SpiIs
  <2>4. Offer(AddrByte(1), 0, d, FALSE)'
    BY <1>2, <1>5, <2>1, <2>3 DEF Offer, Sends
  <2>5. Going(Command(d), 8, Before(d), AddrByte(2))'
    BY <1>5, <1>6, <1>7, <1>8, <2>1, <2>2 DEF Going
  <2>6. High(d, c)'
    BY <1>2, <2>1, <2>4, <2>5, Zenon DEF High
  <2> QED
    BY <2>1, <2>6, Enters
<1>11. CASE Last
  <2>1. /\ Loads /\ spi.din_valid /\ spi.xfer_resetn /\ Busy(d)'
        /\ valid' /\ port' = port /\ ~spi'.rd_valid /\ ~spi'.rd_inc /\ ~spi'.din_valid
        /\ (spi'.din_rd <=> spi.din_rd) /\ spi'.state = 7
    BY <1>3, <1>2, <1>11, AskEnds
  <2>2. /\ spi.din_data = AddrByte(1) /\ spi.din_tag = 0
    BY <1>2, <2>1 DEF Offer
  <2>3. PICK t : t = Behind(s, b, 8) % 2^24
    OBVIOUS
  <2>4. Becomes(n + Clocks(d), t, Command(d), flash.addr, flash.enhance)
    <3>1. /\ Command(d) = 3 => Becomes(n + 8, t, 3, flash.addr, flash.enhance)
          /\ Command(d) = 187 => Becomes(n + 4, t, 187, flash.addr, flash.enhance)
      BY <1>1, <1>8, <1>9, <1>11, <2>3, GoesOut
    <3> QED
      BY <3>1 DEF Command, Clocks
  <2>5. PICK r \in Nat : r = 256 * s + b
    BY DEF Byte
  <2>6. t = r % 2^24 /\ n + Clocks(d) \in Int
    BY <1>8, <2>3, <2>5 DEF Behind, Clocks
  <2>7. PICK v : v = AddrByte(1)
    OBVIOUS
  <2>8. Going(Command(d), n + Clocks(d), r, v)'
    BY <2>1, <2>2, <2>4, <2>6, <2>7, StartsAt, Zenon
  <2>9. (flash'.enhance <=> flash.enhance) /\ Before(d)' = Before(d)
    BY <2>4 DEF Becomes, Before
  <2>10. Going(Command(d), 8 + Clocks(d), OneGone(d), AddrByte(1))'
    <3>1. OneGone(d)' = r /\ AddrByte(1)' = v
      BY <1>5, <1>6, <1>7, <2>5, <2>7, <2>9 DEF OneGone
    <3> QED
      BY <1>8, <2>8, <3>1 DEF Going
  <2>11. ~xfer'.rd /\ xfer'.tag = 0
    BY <1>2, <2>1, <2>2 DEF Loads
  <2>12. Asking(d, c)'
    BY <1>4, <2>1, <2>9, <2>11 DEF Asking
  <2>13. Offer(AddrByte(0), 0, d, FALSE)'
    BY <2>1 DEF Offer
  <2>14. Middle(d, c)'
    BY <1>2, <2>1, <2>10, <2>12, <2>13 DEF Middle
  <2> QED
    BY <2>1, <2>14, Enters
<1> QED
  BY <1>10, <1>11

\* State 7: the second byte goes.
LEMMA At7 ==
    ASSUME NEW d \in BOOLEAN, NEW c \in BOOLEAN, Ticking(d, c), spi.state = 7
    PROVE  InState(spi.state, d, c)'
<1>1. spi.state \in 6..9
  OBVIOUS
<1>2. /\ TypeInv /\ XferInv /\ Xfer /\ Flash /\ Spi(TRUE) /\ ~softreset /\ ~jump /\ config_en
      /\ Middle(d, c)
  BY Being DEF Ticking
<1>3. /\ Asking(d, c) /\ ~spi.din_rd /\ Offer(AddrByte(0), 0, d, FALSE)
      /\ Going(Command(d), 8 + Clocks(d), OneGone(d), AddrByte(1))
  BY <1>2 DEF Middle
<1>4. valid /\ ~spi.rd_valid /\ xfer.dspi = d /\ ~xfer.rd /\ (flash.enhance => d /\ c)
  BY <1>3 DEF Asking, Busy
<1>5. /\ AddrByte(1)' = AddrByte(1) /\ AddrByte(2)' = AddrByte(2) /\ ~ready
      /\ AddrByte(0)' = AddrByte(0) /\ port' = port
  BY <1>4, Unanswered
<1>6. PICK b \in Byte : b = AddrByte(1)
  BY <1>2, AddrBytes
<1>7. OneGone(d) \in Nat
  <2>1. AddrByte(2) \in Byte
    BY <1>2, AddrBytes
  <2> QED
    BY <2>1 DEF Before, Command, Byte, OneGone
<1>8. PICK s \in Nat : s = OneGone(d)
  BY <1>7
<1>9. PICK n \in Nat : n = 8 + Clocks(d)
  BY DEF Clocks
<1>10. Way(Command(d), n) /\ Going(Command(d), n, s, b)
  BY <1>3, <1>4, <1>6, <1>8, <1>9 DEF Way, Command, Clocks
<1>11. CASE ~Last
  <2>1. /\ Asking(d, c)' /\ Going(Command(d), n, s, b)' /\ spi'.state = spi.state
        /\ spi'.din_valid /\ ~din_ready /\ spi'.din_ddr = d /\ (spi'.din_rd <=> spi.din_rd)
        /\ (flash'.enhance <=> flash.enhance)
    BY <1>1, <1>3, <1>10, <1>11, AskGoes, Zenon
  <2>2. OneGone(d)' = OneGone(d)
    BY <1>5, <2>1 DEF Before, OneGone
  <2>3. spi'.din_tag = 0 /\ spi'.din_data = AddrByte(0)
    BY <1>2, <1>4, <2>1, NoAnswer, SpiIs DEF Sends
  <2>4. Offer(AddrByte(0), 0, d, FALSE)'
    BY <1>3, <1>5, <2>1, <2>3 DEF Offer
  <2>5. Going(Command(d), 8 + Clocks(d), OneGone(d), AddrByte(1))'
    BY <1>5, <1>6, <1>8, <1>9, <2>1, <2>2 DEF Going
  <2>6. Middle(d, c)'
    BY <1>3, <2>1, <2>4, <2>5, Zenon DEF Middle
  <2> QED
    BY <2>1, <2>6, Enters
<1>12. CASE Last
  <2>1. /\ Loads /\ spi.din_valid /\ spi.xfer_resetn /\ Busy(d)'
        /\ valid' /\ port' = port /\ ~spi'.rd_valid /\ ~spi'.rd_inc /\ ~spi'.din_valid
        /\ (spi'.din_rd <=> spi.din_rd) /\ spi'.state = IF d THEN 8 ELSE 9
    BY <1>1, <1>3, <1>12, AskEnds
  <2>2. /\ spi.din_data = AddrByte(0) /\ spi.din_tag = 0
    BY <1>3, <2>1 DEF Offer
  <2>3. PICK t : t = Behind(s, b, 8) % 2^24
    OBVIOUS
  <2>4. Becomes(n + Clocks(d), t, Command(d), flash.addr, flash.enhance)
    <3>1. /\ Command(d) = 3 => Becomes(n + 8, t, 3, flash.addr, flash.enhance)
          /\ Command(d) = 187 => Becomes(n + 4, t, 187, flash.addr, flash.enhance)
      BY <1>2, <1>9, <1>10, <1>12, <2>3, GoesOut DEF Clocks, Command
    <3> QED
      BY <3>1 DEF Command, Clocks
  <2>5. PICK r \in Nat : r = 256 * s + b
    BY DEF Byte
  <2>6. t = r % 2^24 /\ n + Clocks(d) \in Int
    BY <1>9, <2>3, <2>5 DEF Behind, Clocks
  <2>7. PICK v : v = AddrByte(0)
    OBVIOUS
  <2>8. Going(Command(d), n + Clocks(d), r, v)'
    BY <2>1, <2>2, <2>4, <2>6, <2>7, StartsAt, Zenon
  <2>9. (flash'.enhance <=> flash.enhance) /\ OneGone(d)' = OneGone(d)
    BY <1>5, <2>4 DEF Becomes, Before, OneGone
  <2>10. r = TwoGone(d)' /\ v = AddrByte(0)'
    BY <1>5, <1>6, <1>8, <2>5, <2>7, <2>9 DEF TwoGone
  <2>11. Going(Command(d), n + Clocks(d), TwoGone(d), AddrByte(0))'
    BY <2>8, <2>10 DEF Going
  <2>12. ~xfer'.rd /\ xfer'.tag = 0
    BY <1>3, <2>1, <2>2 DEF Loads
  <2>13. Asking(d, c)'
    BY <1>4, <2>1, <2>9, <2>12 DEF Asking
  <2>14. CASE d
    <3>1. Offer(ModeOf(c), 0, d, FALSE)'
      BY <2>1 DEF Offer
    <3>2. Command(d) = 187 /\ n + Clocks(d) = 16
      BY <1>9, <2>14 DEF Command, Clocks
    <3>3. Going(187, 16, TwoGone(d), AddrByte(0))'
      BY <2>11, <3>2
    <3>4. Low(d, c)'
      BY <1>3, <2>1, <2>13, <2>14, <3>1, <3>3 DEF Low
    <3> QED
      BY <2>1, <2>14, <3>4, Enters
  <2>15. CASE ~d
    <3>1. Going(3, 24, TwoGone(d), AddrByte(0))'
      BY <1>9, <2>11, <2>15 DEF Command, Clocks
    <3>2. Final(d, c)'
      BY <1>3, <2>1, <2>13, <2>15, <3>1 DEF Final
    <3> QED
      BY <2>1, <2>12, <2>15, <3>2, Enters
  <2> QED
    BY <2>14, <2>15
<1> QED
  BY <1>11, <1>12

\* What has gone, and the third byte, end in the address.
LEMMA Reads ==
    ASSUME TypeInv, NEW d \in BOOLEAN
    PROVE  /\ TwoGone(d) \in Nat /\ port.addr \in FlashAddr
           /\ (256 * TwoGone(d) + AddrByte(0)) % 2^24 = port.addr
<1>1. port.addr \in FlashAddr
  BY DEF TypeInv, PortType
<1>2. Before(d) \in Nat
  BY DEF Before, Command
<1>3. /\ AddrByte(2) \in Byte /\ AddrByte(1) \in Byte /\ AddrByte(0) \in Byte
      /\ 256 * AddrByte(2) + AddrByte(1) = port.addr \div 256
      /\ 256 * (port.addr \div 256) + AddrByte(0) = port.addr
  BY AddrBytes
<1>4. TwoGone(d) = 256 * (256 * Before(d)) + port.addr \div 256 /\ TwoGone(d) \in Nat
  <2>1. \A x \in Nat, y, z \in Byte : /\ 256 * (256 * x + y) + z = 256 * (256 * x) + (256 * y + z)
                                     /\ 256 * (256 * x + y) + z \in Nat
    BY DEF Byte
  <2> QED
    BY <1>2, <1>3, <2>1 DEF TwoGone, OneGone
<1>5. 256 * TwoGone(d) + AddrByte(0) = 256 * (256 * (256 * Before(d))) + port.addr
  BY <1>1, <1>2, <1>3, <1>4 DEF Byte, FlashAddr
<1>6. \A x \in Nat, y \in FlashAddr : (256 * (256 * (256 * x)) + y) % 2^24 = y
  BY DEF FlashAddr
<1> QED
  BY <1>1, <1>2, <1>4, <1>5, <1>6

\* State 8: the third byte goes, the mode after it.
LEMMA At8 ==
    ASSUME NEW d \in BOOLEAN, NEW c \in BOOLEAN, Ticking(d, c), spi.state = 8
    PROVE  InState(spi.state, d, c)'
<1>1. spi.state \in 6..9
  OBVIOUS
<1>2. /\ TypeInv /\ XferInv /\ Xfer /\ Flash /\ Spi(TRUE) /\ ~softreset /\ ~jump /\ config_en
      /\ Low(d, c) /\ c = cfg.cont
  BY Being DEF Ticking
<1>3. /\ Asking(d, c) /\ ~spi.din_rd /\ Offer(ModeOf(c), 0, d, FALSE) /\ d
      /\ Going(187, 16, TwoGone(d), AddrByte(0))
  BY <1>2 DEF Low
<1>4. valid /\ ~spi.rd_valid /\ xfer.dspi = d /\ ~xfer.rd /\ (flash.enhance => d /\ c)
  BY <1>3 DEF Asking, Busy
<1>5. /\ AddrByte(0)' = AddrByte(0) /\ AddrByte(1)' = AddrByte(1)
      /\ AddrByte(2)' = AddrByte(2) /\ port' = port /\ ~ready
  BY <1>4, Unanswered
<1>6. PICK b \in Byte : b = AddrByte(0)
  BY <1>2, AddrBytes
<1>7. TwoGone(d) \in Nat /\ port.addr \in FlashAddr
      /\ (256 * TwoGone(d) + AddrByte(0)) % 2^24 = port.addr
  BY <1>2, Reads
<1>8. PICK s \in Nat : s = TwoGone(d)
  BY <1>7
<1>9. PICK n \in Nat : n = 16
  OBVIOUS
<1>10. Way(Command(d), n) /\ Going(Command(d), n, s, b)
  BY <1>3, <1>4, <1>6, <1>8, <1>9 DEF Way, Command
<1>11. CASE ~Last
  <2>1. /\ Asking(d, c)' /\ Going(Command(d), n, s, b)' /\ spi'.state = spi.state
        /\ spi'.din_valid /\ ~din_ready /\ spi'.din_ddr = d /\ (spi'.din_rd <=> spi.din_rd)
        /\ (flash'.enhance <=> flash.enhance)
    BY <1>1, <1>3, <1>10, <1>11, AskGoes, Zenon
  <2>2. TwoGone(d)' = TwoGone(d)
    BY <1>5, <2>1 DEF Before, OneGone, TwoGone
  <2>3. spi'.din_tag = 0 /\ spi'.din_data = ModeOf(c)
    BY <1>2, <1>4, <2>1, NoAnswer, SpiIs DEF Sends
  <2>4. Offer(ModeOf(c), 0, d, FALSE)'
    BY <1>3, <2>1, <2>3 DEF Offer
  <2>5. Going(187, 16, TwoGone(d), AddrByte(0))'
    <3>1. Command(d) = 187
      BY <1>3 DEF Command
    <3> QED
      BY <1>5, <1>6, <1>8, <1>9, <2>1, <2>2, <3>1 DEF Going
  <2>6. Low(d, c)'
    BY <1>3, <2>1, <2>4, <2>5 DEF Low
  <2> QED
    BY <2>1, <2>6, Enters
<1>12. CASE Last
  <2>1. /\ Loads /\ spi.din_valid /\ spi.xfer_resetn /\ Busy(d)'
        /\ valid' /\ port' = port /\ ~spi'.rd_valid /\ ~spi'.rd_inc /\ ~spi'.din_valid
        /\ spi'.din_rd /\ spi'.state = 9
    BY <1>1, <1>3, <1>12, AskEnds
  <2>2. /\ spi.din_data = ModeOf(c) /\ spi.din_tag = 0
    BY <1>3, <2>1 DEF Offer
  <2>3. PICK t : t = Behind(s, b, 8) % 2^24
    OBVIOUS
  <2>4. Becomes(20, t, 187, t % 2^22, flash.enhance)
    <3>1. Command(d) = 187
      BY <1>3 DEF Command
    <3> QED
      BY <1>2, <1>9, <1>10, <1>12, <2>3, <3>1, GoesOut
  <2>5. t = port.addr /\ t % 2^22 = port.addr
    <3>1. Behind(s, b, 8) = 256 * s + b
      BY DEF Behind
    <3>2. t = port.addr
      BY <1>6, <1>7, <1>8, <2>3, <3>1
    <3>3. \A y \in FlashAddr : y % 2^22 = y /\ y % 2^24 = y
      BY DEF FlashAddr
    <3> QED
      BY <1>7, <3>2, <3>3
  <2>6. PICK r \in Nat : r = port.addr
    BY <1>7 DEF FlashAddr
  <2>7. t = r % 2^24
    BY <1>7, <2>5, <2>6 DEF FlashAddr
  <2>8. PICK v : v = ModeOf(c)
    OBVIOUS
  <2>9. Going(187, 20, r, v)'
    <3>1. PICK k, m : k = 187 /\ m = 20 /\ m \in Int
      OBVIOUS
    <3>2. Becomes(m, t, k, t % 2^22, flash.enhance)
      BY <2>4, <3>1
    <3>3. m \in Int
      BY <3>1
    <3>4. Going(k, m, r, v)'
      BY <2>1, <2>2, <2>7, <2>8, <3>2, <3>3, StartsAt, Zenon
    <3> QED
      BY <3>1, <3>4
  <2>10. (flash'.enhance <=> flash.enhance) /\ flash'.addr = port'.addr
    BY <1>5, <2>4, <2>5 DEF Becomes
  <2>11. Going(187, 20, port.addr, ModeOf(c))'
    BY <1>5, <2>6, <2>8, <2>9 DEF Going
  <2>12. ~xfer'.rd /\ xfer'.tag = 0
    BY <1>3, <2>1, <2>2 DEF Loads
  <2>13. Asking(d, c)'
    BY <1>4, <2>1, <2>10, <2>12 DEF Asking
  <2>14. Final(d, c)'
    BY <1>3, <2>1, <2>10, <2>11, <2>13 DEF Final
  <2> QED
    BY <2>1, <2>12, <2>14, Enters
<1> QED
  BY <1>11, <1>12

\* The last byte before the data, and what the flash makes of it.
LEMMA LastByte ==
    ASSUME NEW d \in BOOLEAN, NEW c \in BOOLEAN, TypeInv, XferInv, Flash, config_en, Final(d, c)
    PROVE  \E n \in Nat, s \in Nat, b \in Byte :
             /\ n = (IF d THEN 20 ELSE 24)
             /\ s = (IF d THEN port.addr ELSE TwoGone(d))
             /\ b = (IF d THEN ModeOf(c) ELSE AddrByte(0))
             /\ Way(Command(d), n) /\ Going(Command(d), n, s, b)
             /\ Last => /\ flash'.cmd = Command(d) /\ flash'.n = (IF d THEN 24 ELSE 32)
                        /\ flash'.addr = port.addr /\ (flash'.enhance <=> c /\ d)
<1>1. xfer.dspi = d /\ ~xfer.rd /\ (flash.enhance => d /\ c) /\ flash.enhance \in BOOLEAN
  BY DEF Final, Asking, Busy, TypeInv, FlashType
<1>2. CASE d
  <2>1. Going(187, 20, port.addr, ModeOf(c)) /\ flash.addr = port.addr
    BY <1>2 DEF Final
  <2>2. PICK s \in Nat : s = port.addr
    BY Reads DEF FlashAddr
  <2>3. PICK b \in Byte : b = ModeOf(c)
    BY DEF ModeOf, Byte
  <2>4. Way(187, 20) /\ Going(187, 20, s, b)
    BY <1>1, <1>2, <2>1, <2>2, <2>3 DEF Way
  <2>5. ASSUME Last
        PROVE  /\ flash'.cmd = 187 /\ flash'.n = 24 /\ flash'.addr = port.addr
               /\ (flash'.enhance <=> c)
    <3>1. PICK t : t = Behind(s, b, 8) % 2^24
      OBVIOUS
    <3>2. Becomes(24, 0, 187, flash.addr, (t \div 16) % 4 = 2)
      BY <2>4, <2>5, <3>1, GoesOut
    <3>3. (t \div 16) % 4 = 2 <=> c
      <4>1. t = (256 * s + b) % 2^24
        BY <3>1 DEF Behind
      <4>2. \A y \in Nat : (y % 2^24) % 256 = y % 256 /\ y % 2^24 \in Nat
        OBVIOUS
      <4>3. t \in Nat /\ t % 256 = b
        BY <4>1, <4>2 DEF Byte
      <4>4. (t \div 16) % 4 = (b \div 16) % 4
        BY <4>3
      <4>5. (165 \div 16) % 4 = 2 /\ (255 \div 16) % 4 = 3
        OBVIOUS
      <4> QED
        BY <2>3, <4>4, <4>5 DEF ModeOf
    <3> QED
      BY <2>1, <3>2, <3>3 DEF Becomes
  <2>6. Command(d) = 187
    BY <1>2 DEF Command
  <2>7. WITNESS 20 \in Nat, s \in Nat, b \in Byte
  <2> QED
    BY <1>2, <2>2, <2>3, <2>4, <2>5, <2>6
<1>3. CASE ~d
  <2>1. Going(3, 24, TwoGone(d), AddrByte(0))
    BY <1>3 DEF Final
  <2>2. TwoGone(d) \in Nat /\ port.addr \in FlashAddr
        /\ (256 * TwoGone(d) + AddrByte(0)) % 2^24 = port.addr
    BY Reads
  <2>3. PICK s \in Nat : s = TwoGone(d)
    BY <2>2
  <2>4. PICK b \in Byte : b = AddrByte(0)
    BY AddrBytes
  <2>5. Way(3, 24) /\ Going(3, 24, s, b)
    BY <1>1, <1>3, <2>1, <2>3, <2>4 DEF Way
  <2>6. ASSUME Last
        PROVE  /\ flash'.cmd = 3 /\ flash'.n = 32 /\ flash'.addr = port.addr
               /\ ~flash'.enhance
    <3>1. PICK t : t = Behind(s, b, 8) % 2^24
      OBVIOUS
    <3>2. Becomes(32, 0, 3, t % 2^22, flash.enhance)
      BY <2>5, <2>6, <3>1, GoesOut
    <3>3. t = port.addr
      BY <2>2, <2>3, <2>4, <3>1 DEF Behind
    <3>4. \A y \in FlashAddr : y % 2^22 = y
      BY DEF FlashAddr
    <3> QED
      BY <1>1, <1>3, <2>2, <3>2, <3>3, <3>4 DEF Becomes
  <2>7. Command(d) = 3
    BY <1>3 DEF Command
  <2>8. WITNESS 24 \in Nat, s \in Nat, b \in Byte
  <2> QED
    BY <1>3, <2>3, <2>4, <2>5, <2>6, <2>7
<1> QED
  BY <1>2, <1>3

\* State 9, before the data: it goes, and the data begins.
LEMMA At9Final ==
    ASSUME NEW d \in BOOLEAN, NEW c \in BOOLEAN, Ticking(d, c), spi.state = 9, xfer.tag = 0
    PROVE  InState(spi.state, d, c)' /\ ~Takes(4)
<1>1. spi.state \in 6..9
  OBVIOUS
<1>2. /\ TypeInv /\ XferInv /\ Xfer /\ Flash /\ Spi(TRUE) /\ ~softreset /\ ~jump /\ config_en
      /\ Final(d, c)
  BY Being DEF Ticking
<1>3. Asking(d, c) /\ (spi.din_rd <=> d) /\ (spi.din_valid => spi.din_tag = 1)
  BY <1>2 DEF Final
<1>4. valid /\ ~spi.rd_valid /\ ~spi.rd_inc
  BY <1>3 DEF Asking
<1>5. /\ AddrByte(0)' = AddrByte(0) /\ AddrByte(1)' = AddrByte(1)
      /\ AddrByte(2)' = AddrByte(2) /\ port' = port /\ ~ready
  BY <1>4, Unanswered
<1>6. BufferFits /\ ~Takes(4) /\ spi'.buffer = spi.buffer
  <2>1. 4 \in 1..4
    OBVIOUS
  <2> QED
    BY <2>1, NoAnswer
<1>7. PICK n \in Nat, s \in Nat, b \in Byte :
        /\ n = (IF d THEN 20 ELSE 24)
        /\ s = (IF d THEN port.addr ELSE TwoGone(d))
        /\ b = (IF d THEN ModeOf(c) ELSE AddrByte(0))
        /\ Way(Command(d), n) /\ Going(Command(d), n, s, b)
        /\ Last => /\ flash'.cmd = Command(d) /\ flash'.n = (IF d THEN 24 ELSE 32)
                   /\ flash'.addr = port.addr /\ (flash'.enhance <=> c /\ d)
  BY <1>2, LastByte, Zenon
<1>8. CASE ~Last
  <2>1. /\ Asking(d, c)' /\ Going(Command(d), n, s, b)' /\ spi'.state = spi.state
        /\ spi'.din_valid /\ ~din_ready /\ spi'.din_ddr = d /\ (spi'.din_rd <=> spi.din_rd)
        /\ flash'.addr = flash.addr /\ (flash'.enhance <=> flash.enhance)
    BY <1>1, <1>3, <1>7, <1>8, AskGoes, ZenonT(40)
  <2>2. TwoGone(d)' = TwoGone(d)
    BY <1>5, <2>1 DEF Before, OneGone, TwoGone
  <2>3. spi'.din_tag = 1
    BY <1>2, <1>6, SpiIs DEF Sends
  <2>4. Final(d, c)'
    <3>1. CASE d
      <4>1. Going(187, 20, port.addr, ModeOf(c))' /\ flash'.addr = port'.addr
        <5>1. Command(d) = 187 /\ flash.addr = port.addr
          BY <1>2, <3>1 DEF Command, Final
        <5> QED
          BY <1>5, <1>7, <2>1, <3>1, <5>1, ZenonT(40) DEF Going
      <4> QED
        BY <1>3, <2>1, <2>3, <3>1, <4>1 DEF Final
    <3>2. CASE ~d
      <4>1. Going(3, 24, TwoGone(d), AddrByte(0))'
        <5>1. Command(d) = 3
          BY <3>2 DEF Command
        <5> QED
          BY <1>5, <1>7, <2>1, <2>2, <3>2, <5>1 DEF Going
      <4> QED
        BY <1>3, <2>1, <2>3, <3>2, <4>1 DEF Final
    <3> QED
      BY <3>1, <3>2
  <2>5. xfer'.tag = 0
    BY <2>1 DEF Asking
  <2> QED
    BY <1>6, <2>1, <2>4, <2>5, Enters
<1>9. CASE Last
  <2>1. /\ Loads /\ spi.din_valid /\ spi.xfer_resetn /\ Busy(d)'
        /\ valid' /\ port' = port /\ ~spi'.rd_valid /\ ~spi'.rd_inc /\ ~spi'.din_valid
        /\ (spi'.din_rd <=> spi.din_rd) /\ spi'.state = 10
        /\ spi'.xfer_resetn /\ spi'.din_ddr = d
    BY <1>1, <1>3, <1>9, AskEnds
  <2>2. /\ flash'.cmd = Command(d) /\ flash'.n = (IF d THEN 24 ELSE 32)
        /\ flash'.addr = port.addr /\ (flash'.enhance <=> c /\ d)
    BY <1>7, <1>9
  <2>3. /\ xfer'.csb = 0 /\ xfer'.count = 8 /\ xfer'.clk = 0 /\ xfer'.tag = 1
        /\ xfer'.dspi = d /\ (d => xfer'.rd)
    BY <1>3, <2>1 DEF Loads, Busy
  <2>4. Reading(d)'
    BY <2>2, <2>3 DEF Reading, Command
  <2>5. Sent' = 0 /\ Ticks' = 0 /\ Sampled' = 0 /\ Coming' = port.addr
    BY <1>5, <2>1, <2>3 DEF Sent, Ticks, Sampled, Coming
  <2>6. port.addr \in FlashAddr /\ \A y \in FlashAddr : (y + 0) % 2^22 = y
    <3>1. port.addr \in FlashAddr
      BY <1>2, Reads
    <3>2. \A y \in FlashAddr : (y + 0) % 2^22 = y
      BY DEF FlashAddr
    <3> QED
      BY <3>1, <3>2
  <2>7. /\ flash'.n = (IF d THEN 24 ELSE 32) + Ticks' /\ flash'.addr = (Coming' + 0) % 2^22
        /\ Begins(xfer.ibuffer, ByteAt(Coming + 0), Sampled)' /\ Got(0)'
    BY <2>2, <2>5, <2>6 DEF Begins, Got
  <2>8. /\ spi'.rd_inc <=> spi'.rd_valid
        /\ spi'.din_rd <=> d
        /\ xfer'.tag = 0 + 1 /\ xfer'.count > 0
    BY <1>3, <2>1, <2>3
  <2>9. Fetching(0, d, c)'
    BY <2>1, <2>2, <2>3, <2>4, <2>7, <2>8 DEF Fetching
  <2>10. Streaming(0, d, c)'
    BY <2>1, <2>9 DEF Streaming
  <2> QED
    BY <1>6, <2>1, <2>10, Enters
<1> QED
  BY <1>8, <1>9

-----------------------------------------------------------------------------
(* The bytes of a word. *)

StateOf(p) == IF p = 3 THEN 9 ELSE 10 + p
NextOf(p)  == IF p = 3 THEN 10 ELSE IF p = 2 THEN 9 ELSE 11 + p
From(d)    == IF d THEN 24 ELSE 32

\* The byte p comes, and the third waits for the CPU where it must.
Comes(p, d, c) ==
    /\ Ticking(d, c) /\ Fetching(p, d, c) /\ spi.state = StateOf(p)
    /\ p = 2 /\ spi.din_valid => ~spi.rd_wait

\* The word that is coming.
LEMMA ComingIs ==
    ASSUME TypeInv
    PROVE  Coming \in Nat
<1>1. spi.rd_addr \in Nat /\ port.addr \in Nat
  <2>1. port.addr \in FlashAddr /\ spi.rd_addr \in Register24
    BY Reads DEF TypeInv, SpiType
  <2> QED
    BY <2>1 DEF FlashAddr, Register24
<1> QED
  BY <1>1 DEF Coming

\* What stays in a clock of a fetch.
LEMMA FetchKeeps ==
    ASSUME NEW d \in BOOLEAN, NEW c \in BOOLEAN, NEW p \in 0..3, Comes(p, d, c)
    PROVE  /\ spi'.xfer_resetn /\ spi'.din_ddr = d /\ (spi'.din_rd <=> d)
           /\ spi'.rd_inc <=> spi'.rd_valid
           /\ spi'.rd_valid <=> Takes(4) \/ spi.rd_valid
           /\ ~spi'.rd_valid => valid'
           /\ spi'.state = IF din_ready THEN NextOf(p) ELSE StateOf(p)
           /\ spi'.din_valid => ~din_ready /\ spi'.din_tag = IF p = 3 THEN 1 ELSE p + 2
           /\ p # 2 => (spi'.din_valid <=> ~din_ready)
           /\ p = 2 /\ spi'.din_valid => ~spi'.rd_wait
<1>1. /\ TypeInv /\ XferInv /\ Spi(TRUE) /\ ~softreset /\ ~jump /\ InState(spi.state, d, c)
      /\ spi.state = StateOf(p)
  BY DEF Comes, Ticking
<1>2. /\ spi.xfer_resetn /\ (spi.rd_inc <=> spi.rd_valid) /\ (~spi.rd_valid => valid)
      /\ spi.din_ddr = d /\ (spi.din_rd <=> d)
  BY DEF Comes, Fetching
<1>3. BufferFits
  BY <1>1, AnswersIn
<1>4. spi.state \in 9..12 /\ (spi.state = 12 <=> p = 2)
  BY <1>1 DEF StateOf
<1>5. /\ spi'.xfer_resetn /\ spi'.din_ddr = spi.din_ddr /\ (spi'.din_rd <=> spi.din_rd)
      /\ spi'.rd_inc <=> Takes(4) \/ spi.rd_inc
      /\ spi'.rd_valid <=> Takes(4) \/ spi.rd_valid
  BY <1>1, <1>3, <1>4, SpiIs
<1>6. ~spi'.rd_valid => valid'
  <2>1. ~spi.rd_valid => valid'
    BY <1>2, Unanswered DEF Comes
  <2> QED
    BY <1>5, <2>1
<1>7. /\ spi'.state = IF din_ready THEN NextOf(p) ELSE StateOf(p)
      /\ spi'.din_valid => ~din_ready /\ spi'.din_tag = IF p = 3 THEN 1 ELSE p + 2
      /\ p # 2 => (spi'.din_valid <=> ~din_ready)
      /\ p = 2 /\ spi'.din_valid => ~spi'.rd_wait
  <2>1. CASE p = 0
    <3>1. Sends(spi', 2, spi'.din_data, 11)
      BY <1>1, <1>3, <2>1, SpiIs DEF StateOf
    <3> QED
      BY <1>1, <2>1, <3>1 DEF Sends, StateOf, NextOf
  <2>2. CASE p = 1
    <3>1. Sends(spi', 3, spi'.din_data, 12)
      BY <1>1, <1>3, <2>2, SpiIs DEF StateOf
    <3> QED
      BY <1>1, <2>2, <3>1 DEF Sends, StateOf, NextOf
  <2>3. CASE p = 3
    <3>1. Sends(spi', 1, spi'.din_data, 10)
      BY <1>1, <1>3, <2>3, SpiIs DEF StateOf
    <3> QED
      BY <1>1, <2>3, <3>1 DEF Sends, StateOf, NextOf
  <2>4. CASE p = 2
    <3>1. spi.state = 12
      BY <1>1, <2>4 DEF StateOf
    <3>2. IF ~spi.rd_wait \/ valid THEN Sends(spi', 4, spi'.din_data, 9) ELSE Stays(spi', 12)
      BY <1>1, <1>3, <3>1, SpiIs
    <3>3. spi'.rd_wait => spi.rd_wait /\ ~valid
      <4>1. ~Takes(4)
        <5>1. ASSUME Takes(4) PROVE FALSE
          <6>1. 4 \in 1..4
            OBVIOUS
          <6>2. spi.state = IF 4 = 4 THEN 9 ELSE 9 + 4
            BY <1>1, <5>1, <6>1, AnswersIn, Zenon
          <6> QED
            BY <3>1, <6>2
        <5> QED
          BY <5>1
      <4> QED
        BY <1>1, <1>3, <4>1, SpiIs
    <3>4. din_ready => ~spi.rd_wait
      BY <2>4 DEF Comes, din_ready
    <3> QED
      BY <1>1, <2>4, <3>1, <3>2, <3>3, <3>4 DEF Sends, Stays, StateOf, NextOf
  <2> QED
    BY <2>1, <2>2, <2>3, <2>4
<1> QED
  BY <1>2, <1>5, <1>6, <1>7

\* The word stays the same until its last byte has come.
LEMMA SameWord ==
    ASSUME NEW d \in BOOLEAN, NEW c \in BOOLEAN, NEW p \in 0..3, Comes(p, d, c), ~Takes(4)
    PROVE  /\ Coming' = Coming /\ Coming \in Nat
           /\ \A a \in Int : ByteAt(a)' = ByteAt(a)
<1>1. /\ TypeInv /\ XferInv /\ Spi(TRUE) /\ ~softreset /\ ~jump /\ InState(spi.state, d, c)
      /\ spi.state = StateOf(p) /\ version' = version
  BY DEF Comes, Ticking
<1>2. (spi.rd_inc <=> spi.rd_valid) /\ (~spi.rd_valid => valid)
  BY DEF Comes, Fetching
<1>3. (spi'.rd_inc <=> spi'.rd_valid) /\ (spi'.rd_valid <=> spi.rd_valid)
  BY FetchKeeps
<1>4. spi'.rd_addr = spi.rd_addr
  BY <1>1, AnswersIn, SpiIs
<1>5. ~spi.rd_valid => port' = port
  BY <1>2, Unanswered DEF Comes
<1> QED
  BY <1>1, <1>2, <1>3, <1>4, <1>5, ComingIs DEF Coming, ByteAt

\* The flash sends on; Clocks(d) of its clocks are a byte.
LEMMA FlashSends ==
    ASSUME NEW d \in BOOLEAN, NEW c \in BOOLEAN, NEW p \in 0..3, Comes(p, d, c)
    PROVE  /\ flash'.cmd = Command(d) /\ flash'.n >= From(d) /\ (flash'.enhance <=> c /\ d)
           /\ xfer.count = 0 => flash'.n = From(d) /\ flash'.addr = (Coming + p + 1) % 2^22
           /\ Last => flash'.n = From(d) /\ flash'.addr = (Coming + p + 1) % 2^22
           /\ xfer.count > 0 /\ ~Last =>
                /\ flash'.n = From(d) + Ticks + (IF xfer.clk = 1 THEN 1 ELSE 0)
                /\ flash'.addr = (Coming + p) % 2^22
<1>1. /\ TypeInv /\ XferInv /\ Flash /\ config_en
  BY DEF Comes, Ticking
<1>2. /\ xfer.csb = 0 /\ Reading(d) /\ (flash.enhance <=> c /\ d)
      /\ xfer.dspi = d /\ flash.cmd = Command(d)
      /\ xfer.count > 0 => flash.n = From(d) + Ticks /\ flash.addr = (Coming + p) % 2^22
      /\ ~(xfer.count > 0) => flash.n = From(d) /\ flash.addr = (Coming + p + 1) % 2^22
  BY DEF Comes, Fetching, Reading, Command, From
<1>3. /\ xfer.count \in 0..8 /\ xfer.clk \in 0..1 /\ (xfer.count = 0 => xfer.clk = 0)
      /\ (xfer.dspi => xfer.count \in {0, 2, 4, 6, 8}) /\ Coming \in Nat
  BY <1>1, ComingIs DEF TypeInv, XferType, XferInv
<1>4. flash_csb = 0
  BY <1>1, <1>2 DEF flash_csb
<1>5. PICK m : m = flash.n + 1
  OBVIOUS
<1>6. PICK from \in Nat : from = From(d)
  BY DEF From
<1>7. /\ flash'.cmd = flash.cmd /\ (flash'.enhance <=> flash.enhance) /\ flash'.n >= from
      /\ xfer.clk # 1 => flash'.n = flash.n /\ flash'.addr = flash.addr
      /\ xfer.clk = 1 /\ m < from + Clocks(d) => flash'.n = m /\ flash'.addr = flash.addr
      /\ xfer.clk = 1 /\ m = from + Clocks(d) =>
           flash'.n = from /\ flash'.addr = (flash.addr + 1) % 2^22
  BY <1>1, <1>2, <1>4, <1>5, <1>6, ReadsOn DEF From
<1>8. CASE xfer.count = 0
  BY <1>2, <1>3, <1>6, <1>7, <1>8, <1>1, Ready
<1>9. CASE xfer.count > 0
  <2>1. /\ Ticks \in 0..(Clocks(d) - 1)
        /\ Last <=> xfer.clk = 1 /\ Ticks = Clocks(d) - 1
    <3>1. CASE d
      BY <1>2, <1>3, <1>9, <3>1 DEF Ticks, Sent, Clocks, Last, Width
    <3>2. CASE ~d
      BY <1>2, <1>3, <1>9, <3>2 DEF Ticks, Sent, Clocks, Last, Width
    <3> QED
      BY <3>1, <3>2
  <2>2. \A x \in Nat : ((x % 2^22) + 1) % 2^22 = (x + 1) % 2^22
    OBVIOUS
  <2>3. (flash.addr + 1) % 2^22 = (Coming + p + 1) % 2^22
    BY <1>2, <1>3, <1>9, <2>2
  <2>4. Clocks(d) \in {4, 8}
    BY DEF Clocks
  <2>5. m = from + Ticks + 1
    BY <1>2, <1>5, <1>6, <1>9
  <2>6. CASE Last
    BY <1>2, <1>6, <1>7, <1>9, <2>1, <2>3, <2>4, <2>5, <2>6
  <2>7. CASE ~Last /\ xfer.clk = 1
    BY <1>2, <1>6, <1>7, <1>9, <2>1, <2>4, <2>5, <2>7
  <2>8. CASE ~Last /\ xfer.clk = 0
    BY <1>2, <1>6, <1>7, <1>9, <2>1, <2>4, <2>5, <2>8
  <2> QED
    BY <1>3, <2>6, <2>7, <2>8
<1> QED
  BY <1>3, <1>8, <1>9

\* A byte goes on coming.
LEMMA FetchOn ==
    ASSUME NEW d \in BOOLEAN, NEW c \in BOOLEAN, NEW p \in 0..3, Comes(p, d, c),
           xfer.count > 0, ~Last
    PROVE  /\ Fetching(p, d, c)' /\ spi'.state = spi.state /\ ~Takes(4)
           /\ xfer'.csb = 0 /\ xfer'.count > 0 /\ xfer'.dspi = d
           /\ p # 2 => spi'.din_valid
           /\ p = 2 /\ spi'.din_valid => ~spi'.rd_wait
<1>1. /\ TypeInv /\ XferInv /\ Xfer /\ Flash /\ Spi(TRUE) /\ config_en /\ ~softreset /\ ~jump
      /\ InState(spi.state, d, c) /\ spi.state = StateOf(p)
  BY DEF Comes, Ticking
<1>2. /\ xfer.csb = 0 /\ spi.xfer_resetn /\ Reading(d) /\ (d => xfer.rd) /\ xfer.dspi = d
      /\ xfer.tag = p + 1
      /\ flash.n = From(d) + Ticks /\ flash.addr = (Coming + p) % 2^22
      /\ Begins(xfer.ibuffer, ByteAt(Coming + p), Sampled) /\ Got(p)
  BY DEF Comes, Fetching, Reading, From
<1>3. /\ xfer.count \in 1..8 /\ xfer.clk \in 0..1 /\ (xfer.dspi => xfer.count \in {2, 4, 6, 8})
  BY <1>1 DEF TypeInv, XferType, XferInv
<1>4. ~din_ready /\ ~Takes(4) /\ (\A k \in 1..3 : ~Takes(k)) /\ ~dout_valid
  BY <1>1, Ready DEF Takes
<1>5. Coming' = Coming /\ Coming \in Nat /\ \A a \in Int : ByteAt(a)' = ByteAt(a)
  BY <1>4, SameWord
<1>6. PICK w \in Nat : w = Coming
  BY <1>5
<1>7. ByteAt(w + p)' = ByteAt(w + p) /\ Coming' = w /\ w + p \in Int
  BY <1>5, <1>6
<1>8. ByteAt(w + p) = Content(version, flash.addr)
  BY <1>2, <1>6 DEF ByteAt
<1>9. /\ xfer'.csb = 0 /\ xfer'.count > 0 /\ xfer'.dspi = d /\ (d => xfer'.rd) /\ xfer'.tag = p + 1
      /\ xfer.clk = 0 => Rises
      /\ xfer.clk = 1 => Falls
      /\ Ticks' = Ticks + (IF xfer.clk = 1 THEN 1 ELSE 0)
  <2>1. (xfer.clk = 0 => Rises) /\ (xfer.clk = 1 => Falls)
    BY <1>1, <1>2, MovesIs
  <2>2. CASE xfer.clk = 0
    BY <1>2, <1>3, <2>1, <2>2 DEF Rises, SameWay, SameByte, Ticks, Sent
  <2>3. CASE xfer.clk = 1
    <3>1. xfer'.count = xfer.count - Width /\ xfer.count - Width > 0
      BY <1>2, <1>3, <2>1, <2>3 DEF Falls, Last, Width
    <3>2. Ticks' = Ticks + 1
      BY <1>2, <1>3, <2>1, <2>3, <3>1 DEF Falls, SameWay, SameByte, Ticks, Sent, Width
    <3> QED
      BY <1>2, <1>3, <2>1, <2>3, <3>1, <3>2 DEF Falls, SameWay, SameByte
  <2> QED
    BY <1>3, <2>1, <2>2, <2>3
<1>10. Begins(xfer.ibuffer, ByteAt(Coming + p), Sampled)'
  <2>1. PICK b : b = ByteAt(w + p)
    OBVIOUS
  <2>2. Begins(xfer'.ibuffer, b, Sampled')
    <3>1. CASE xfer.clk = 0
      <4>1. Begins(xfer.ibuffer, b, Sent) /\ Rises
        BY <1>2, <1>6, <1>9, <2>1, <3>1 DEF Sampled
      <4>2. Begins(Shl(xfer.dspi, xfer.ibuffer) % 256, b, Sent + Width)
        <5>1. flash.n = (IF d THEN 24 ELSE 32) + Ticks
          BY <1>2 DEF From
        <5>2. b = Content(version, flash.addr)
          BY <1>8, <2>1
        <5> QED
          BY <1>1, <1>2, <4>1, <5>1, <5>2, Samples
      <4>3. Sampled' = Sent + Width
        BY <1>3, <1>9, <4>1 DEF Rises, SameWay, SameByte, Sampled, Sent, Width
      <4> QED
        BY <4>1, <4>2, <4>3 DEF Rises
    <3>2. CASE xfer.clk = 1
      <4>1. Begins(xfer.ibuffer, b, Sent + Width) /\ Falls
        BY <1>2, <1>6, <1>9, <2>1, <3>2 DEF Sampled
      <4>2. Sampled' = Sent + Width /\ xfer'.ibuffer = xfer.ibuffer
        BY <1>2, <1>3, <4>1 DEF Falls, SameWay, SameByte, Sampled, Sent, Width
      <4> QED
        BY <4>1, <4>2
    <3> QED
      BY <1>3, <3>1, <3>2
  <2>3. ByteAt(Coming + p)' = b
    BY <1>7, <2>1 DEF ByteAt
  <2> QED
    BY <2>2, <2>3
<1>11. Got(p)'
  <2>1. spi'.buffer = spi.buffer
    BY <1>1, <1>4, AnswersIn, SpiIs
  <2>2. ASSUME NEW k \in 1..p PROVE ByteAt(Coming + k - 1)' = ByteAt(Coming + k - 1)
    <3>1. w + k - 1 \in Int
      OBVIOUS
    <3>2. ByteAt(w + k - 1)' = ByteAt(w + k - 1)
      BY <1>5, <3>1
    <3> QED
      BY <1>6, <1>7, <3>2 DEF ByteAt
  <2> QED
    BY <1>2, <2>1, <2>2 DEF Got
<1>12. /\ flash'.cmd = Command(d) /\ flash'.n >= From(d) /\ (flash'.enhance <=> c /\ d)
       /\ flash'.n = From(d) + Ticks + (IF xfer.clk = 1 THEN 1 ELSE 0)
       /\ flash'.addr = (Coming + p) % 2^22
  BY <1>3, FlashSends
<1>13. Ticks \in Nat /\ From(d) \in Nat
  BY <1>2, <1>3 DEF Ticks, Sent, From
<1>14. flash'.n = (IF d THEN 24 ELSE 32) + Ticks' /\ flash'.addr = (Coming' + p) % 2^22
  BY <1>5, <1>9, <1>12, <1>13 DEF From
<1>15. Reading(d)'
  BY <1>9, <1>12 DEF Reading, Command, From
<1>16. /\ spi'.xfer_resetn /\ spi'.din_ddr = d /\ (spi'.din_rd <=> d)
       /\ spi'.rd_inc <=> spi'.rd_valid
       /\ ~spi'.rd_valid => valid'
       /\ spi'.state = StateOf(p)
       /\ spi'.din_valid => spi'.din_tag = IF p = 3 THEN 1 ELSE p + 2
       /\ p # 2 => spi'.din_valid
       /\ p = 2 /\ spi'.din_valid => ~spi'.rd_wait
  BY <1>4, FetchKeeps
<1>17. Fetching(p, d, c)'
  BY <1>9, <1>10, <1>11, <1>12, <1>14, <1>15, <1>16 DEF Fetching
<1> QED
  BY <1>1, <1>4, <1>9, <1>16, <1>17

\* The byte has come; the fourth completes the word.
LEMMA FetchEnds ==
    ASSUME NEW d \in BOOLEAN, NEW c \in BOOLEAN, NEW p \in 0..3, Comes(p, d, c), Last
    PROVE  /\ xfer.ibuffer = ByteAt(Coming + p)
           /\ p # 3 => ~Takes(4) /\ Got(p + 1)'
           /\ p = 3 => /\ Takes(4) /\ Len(spi'.rdata) = 4
                       /\ \A k \in 1..4 : spi'.rdata[k] = ByteAt(Coming + k - 1)
                       /\ spi'.rd_addr = IF spi.rd_inc THEN (spi.rd_addr + 4) % 2^24
                                         ELSE port.addr
<1>1. /\ TypeInv /\ XferInv /\ Spi(TRUE) /\ ~softreset /\ ~jump
      /\ InState(spi.state, d, c) /\ spi.state = StateOf(p)
  BY DEF Comes, Ticking
<1>2. xfer.count > 0 /\ ~First /\ xfer.clk = 1 /\ xfer.count = Width
  BY <1>1, Ready DEF Last
<1>3. /\ spi.xfer_resetn /\ xfer.tag = p + 1
      /\ Begins(xfer.ibuffer, ByteAt(Coming + p), Sampled) /\ Got(p)
  BY <1>2 DEF Comes, Fetching
<1>4. xfer.tag_q = p + 1 /\ dout_valid
  BY <1>1, <1>2, <1>3, Ready DEF XferInv
<1>5. Coming \in Nat /\ spi.buffer \in Seq(Byte) /\ xfer.ibuffer \in Byte /\ BufferFits
  BY <1>1, ComingIs, AnswersIn DEF TypeInv, SpiType, XferType
<1>6. xfer.ibuffer = ByteAt(Coming + p)
  <2>1. xfer.count \in Nat
    BY <1>1 DEF TypeInv, XferType
  <2>2. Sampled = 8
    BY <1>2, <2>1 DEF Sampled, Sent
  <2> QED
    BY <1>3, <2>2 DEF Begins
<1>7. CASE p # 3
  <2>1. p + 1 \in 1..3 /\ Takes(p + 1) /\ ~Takes(4)
    BY <1>4, <1>7 DEF Takes
  <2>2. spi'.buffer = Append(SubSeq(spi.buffer, 1, p), xfer.ibuffer)
    <3>1. \A k \in 1..3 : Takes(k) =>
            spi'.buffer = Append(SubSeq(spi.buffer, 1, k - 1), xfer.ibuffer)
      BY <1>1, <1>5, SpiIs
    <3>2. (p + 1) - 1 = p
      OBVIOUS
    <3> QED
      BY <2>1, <3>1, <3>2
  <2>3. p > 0 => Len(spi.buffer) = p
    BY <1>3 DEF Got
  <2>4. \A k \in 1..p : spi.buffer[k] = ByteAt(Coming + k - 1)
    BY <1>3 DEF Got
  <2>5. PICK q : q = SubSeq(spi.buffer, 1, p)
    OBVIOUS
  <2>6. q \in Seq(Byte) /\ Len(q) = p /\ \A k \in 1..p : q[k] = spi.buffer[k]
    <3>1. \A i \in 1..p : spi.buffer[i] \in Byte
      BY <1>5, <2>3
    <3>2. /\ q \in Seq(Byte) /\ Len(q) = IF 1 <= p THEN p - 1 + 1 ELSE 0
          /\ \A i \in 1..(p - 1 + 1) : q[i] = spi.buffer[1 + i - 1]
      BY <2>5, <3>1, SubSeqProperties
    <3> QED
      BY <3>2
  <2>7. /\ Len(spi'.buffer) = p + 1 /\ spi'.buffer[p + 1] = xfer.ibuffer
        /\ \A k \in 1..p : spi'.buffer[k] = spi.buffer[k]
    BY <1>5, <2>2, <2>5, <2>6
  <2>8. Coming' = Coming /\ \A a \in Int : ByteAt(a)' = ByteAt(a)
    BY <2>1, SameWord
  <2>9. ASSUME NEW k \in 1..(p + 1) PROVE spi'.buffer[k] = ByteAt(Coming + k - 1)'
    <3>1. PICK a \in Int : a = Coming + k - 1
      BY <1>5
    <3>2. spi'.buffer[k] = ByteAt(a)
      <4>1. CASE k \in 1..p
        BY <2>4, <2>7, <3>1, <4>1
      <4>2. CASE k = p + 1
        <5>1. a = Coming + p
          BY <1>5, <3>1, <4>2
        <5> QED
          BY <1>6, <2>7, <4>2, <5>1
      <4> QED
        BY <4>1, <4>2
    <3>3. ByteAt(a)' = ByteAt(a) /\ Coming' + k - 1 = a
      BY <2>8, <3>1
    <3> QED
      BY <3>2, <3>3 DEF ByteAt
  <2>10. Got(p + 1)'
    BY <2>7, <2>9 DEF Got
  <2> QED
    BY <1>6, <1>7, <2>1, <2>10
<1>8. CASE p = 3
  <2>1. Takes(4)
    BY <1>4, <1>8 DEF Takes
  <2>2. /\ spi'.rdata = Append(spi.buffer, xfer.ibuffer)
        /\ spi'.rd_addr = IF spi.rd_inc THEN (spi.rd_addr + 4) % 2^24 ELSE port.addr
    BY <1>1, <1>5, <2>1, SpiIs
  <2>3. Len(spi.buffer) = 3 /\ \A k \in 1..3 : spi.buffer[k] = ByteAt(Coming + k - 1)
    BY <1>3, <1>8 DEF Got
  <2>4. /\ Len(spi'.rdata) = 4 /\ spi'.rdata[4] = xfer.ibuffer
        /\ \A k \in 1..3 : spi'.rdata[k] = spi.buffer[k]
    <3>1. PICK b \in Seq(Byte), x \in Byte : b = spi.buffer /\ x = xfer.ibuffer
      BY <1>5
    <3>2. /\ Len(Append(b, x)) = Len(b) + 1 /\ Append(b, x)[Len(b) + 1] = x
          /\ \A k \in 1..Len(b) : Append(b, x)[k] = b[k]
      OBVIOUS
    <3>3. Len(spi.buffer) = 3
      BY <2>3
    <3> QED
      BY <2>2, <3>1, <3>2, <3>3
  <2>5. ASSUME NEW k \in 1..4 PROVE spi'.rdata[k] = ByteAt(Coming + k - 1)
    <3>1. CASE k \in 1..3
      BY <2>3, <2>4, <3>1
    <3>2. CASE k = 4
      <4>1. Coming + k - 1 = Coming + p
        BY <1>5, <1>8, <3>2
      <4> QED
        BY <1>6, <2>4, <3>2, <4>1
    <3> QED
      BY <3>1, <3>2
  <2> QED
    BY <1>6, <1>8, <2>1, <2>2, <2>4, <2>5
<1> QED
  BY <1>7, <1>8

\* The byte has come, and the next begins.
LEMMA FetchNext ==
    ASSUME NEW d \in BOOLEAN, NEW c \in BOOLEAN, NEW p \in 0..3, Comes(p, d, c), din_ready
    PROVE  /\ Streaming(IF p = 3 THEN 0 ELSE p + 1, d, c)' /\ spi'.state = NextOf(p)
           /\ ~spi'.din_valid /\ xfer'.tag # 0
<1>1. /\ TypeInv /\ XferInv /\ Xfer /\ Flash /\ Spi(TRUE) /\ config_en /\ ~softreset /\ ~jump
      /\ InState(spi.state, d, c) /\ spi.state = StateOf(p)
  BY DEF Comes, Ticking
<1>2. /\ spi.xfer_resetn /\ spi.din_ddr = d /\ (spi.din_rd <=> d)
      /\ spi.din_valid => spi.din_tag = IF p = 3 THEN 1 ELSE p + 2
      /\ spi.rd_inc <=> spi.rd_valid
      /\ ~spi.rd_valid => valid
      /\ ~(xfer.count > 0) => Got(p + 1)
      /\ xfer.tag = p + 1
  BY DEF Comes, Fetching
<1>3. spi.din_valid /\ (xfer.count = 0 \/ Last) /\ Coming \in Nat /\ xfer.count \in 0..8
      /\ (Last => xfer.count > 0)
  BY <1>1, Ready, ComingIs DEF TypeInv, XferType
<1>4. PICK q \in 0..3 : q = IF p = 3 THEN 0 ELSE p + 1
  OBVIOUS
<1>5. Loads
  BY <1>1, MovesIs
<1>6. /\ xfer'.csb = 0 /\ xfer'.count = 8 /\ xfer'.clk = 0 /\ xfer'.dspi = d /\ (d => xfer'.rd)
      /\ xfer'.tag = q + 1
  BY <1>2, <1>3, <1>4, <1>5 DEF Loads
<1>7. /\ spi'.xfer_resetn /\ spi'.din_ddr = d /\ (spi'.din_rd <=> d)
      /\ spi'.rd_inc <=> spi'.rd_valid
      /\ spi'.rd_valid <=> Takes(4) \/ spi.rd_valid
      /\ ~spi'.rd_valid => valid'
      /\ spi'.state = NextOf(p)
      /\ ~spi'.din_valid
  BY FetchKeeps
<1>8. /\ flash'.cmd = Command(d) /\ flash'.n >= From(d) /\ (flash'.enhance <=> c /\ d)
      /\ flash'.n = From(d) /\ flash'.addr = (Coming + p + 1) % 2^22
  BY <1>3, FlashSends
<1>9. Sent' = 0 /\ Ticks' = 0 /\ Sampled' = 0 /\ First'
  BY <1>6 DEF Sent, Ticks, Sampled, First
<1>10. flash'.addr = (Coming' + q) % 2^22 /\ Got(q)'
  <2>1. CASE p = 3
    <3>1. xfer.count # 0
      <4>1. ~(xfer.count = 0)
        <5>1. spi.state = 9 /\ xfer.tag # 0
          BY <1>1, <1>2, <2>1 DEF StateOf
        <5>2. Busy(d)
          BY <1>1, <5>1, Being DEF Streaming
        <5> QED
          BY <5>2 DEF Busy
      <4> QED
        BY <4>1
    <3>2. Last
      BY <1>3, <3>1
    <3>3. Takes(4) /\ spi'.rd_addr = IF spi.rd_inc THEN (spi.rd_addr + 4) % 2^24 ELSE port.addr
      BY <2>1, <3>2, FetchEnds
    <3>4. Coming' = spi'.rd_addr + 4
      BY <1>7, <3>3 DEF Coming
    <3>5. spi'.rd_addr = Coming \/ spi'.rd_addr = Coming % 2^24
      BY <3>3 DEF Coming
    <3>6. \A x \in Nat : ((x % 2^24) + 4) % 2^22 = (x + 4) % 2^22
      OBVIOUS
    <3>7. (Coming' + 0) % 2^22 = (Coming + 4) % 2^22
      BY <1>3, <3>4, <3>5, <3>6
    <3> QED
      BY <1>3, <1>4, <1>8, <2>1, <3>7 DEF Got
  <2>2. CASE p # 3
    <3>1. ~Takes(4) /\ Got(p + 1)'
      <4>1. CASE Last
        BY <2>2, <4>1, FetchEnds
      <4>2. CASE ~Last
        <5>1. ~Takes(4) /\ \A k \in 1..3 : ~Takes(k)
          BY <1>1, <4>2, Ready DEF Takes
        <5>2. spi'.buffer = spi.buffer
          BY <1>1, <5>1, AnswersIn, SpiIs
        <5>3. Coming' = Coming /\ \A a \in Int : ByteAt(a)' = ByteAt(a)
          BY <5>1, SameWord
        <5>4. Got(p + 1)
          BY <1>2, <1>3, <4>2
        <5>5. ASSUME NEW k \in 1..(p + 1) PROVE ByteAt(Coming + k - 1)' = ByteAt(Coming + k - 1)
          <6>1. PICK a \in Int : a = Coming + k - 1
            BY <1>3
          <6>2. ByteAt(a)' = ByteAt(a) /\ Coming' + k - 1 = a
            BY <5>3, <6>1
          <6> QED
            BY <6>1, <6>2 DEF ByteAt
        <5> QED
          BY <5>1, <5>2, <5>4, <5>5 DEF Got
      <4> QED
        BY <4>1, <4>2
    <3>2. Coming' = Coming
      BY <3>1, SameWord
    <3>3. (Coming + p + 1) % 2^22 = (Coming' + q) % 2^22
      BY <1>3, <1>4, <2>2, <3>2
    <3> QED
      BY <1>4, <1>8, <2>2, <3>1, <3>3
  <2> QED
    BY <2>1, <2>2
<1>11. Reading(d)'
  BY <1>6, <1>8 DEF Reading, Command, From
<1>12. /\ flash'.n = (IF d THEN 24 ELSE 32) + Ticks'
       /\ Begins(xfer.ibuffer, ByteAt(Coming + q), Sampled)' /\ xfer'.count > 0
  BY <1>6, <1>8, <1>9 DEF Begins, From
<1>13. Fetching(q, d, c)'
  BY <1>6, <1>7, <1>8, <1>10, <1>11, <1>12 DEF Fetching
<1>14. Busy(d)'
  BY <1>6, <1>7, <1>9, <1>12 DEF Busy
<1>15. Streaming(q, d, c)'
  BY <1>13, <1>14 DEF Streaming
<1> QED
  BY <1>4, <1>6, <1>7, <1>15

\* The third byte has come, and the fourth is not asked for yet.
LEMMA FetchWaits ==
    ASSUME NEW d \in BOOLEAN, NEW c \in BOOLEAN, Comes(2, d, c), ~din_ready,
           xfer.count = 0 \/ Last
    PROVE  Third(d, c)' /\ spi'.state = 12
<1>1. /\ TypeInv /\ XferInv /\ Xfer /\ Spi(TRUE) /\ ~softreset /\ ~jump
      /\ InState(spi.state, d, c) /\ spi.state = StateOf(2)
  BY DEF Comes, Ticking
<1>2. /\ xfer.csb = 0 /\ spi.xfer_resetn /\ (d => xfer.rd) /\ xfer.dspi = d /\ xfer.tag = 3
      /\ ~(xfer.count > 0) => Got(3)
  BY DEF Comes, Fetching, Reading
<1>3. Coming \in Nat /\ xfer.count \in 0..8 /\ 2 \in 0..3
  BY <1>1, ComingIs DEF TypeInv, XferType
<1>4. xfer'.csb = 0 /\ xfer'.dspi = d /\ (d => xfer'.rd) /\ xfer'.tag = 3 /\ xfer'.count = 0
  <2>1. Rests \/ Ends
    BY <1>1, <1>2, MovesIs
  <2> QED
    BY <1>2, <2>1 DEF Rests, Ends, SameWay, SameByte
<1>5. ~Takes(4)
  BY <1>2, <1>3, <1>1, FetchEnds, Ready DEF Takes
<1>6. Coming' = Coming /\ \A a \in Int : ByteAt(a)' = ByteAt(a)
  BY <1>3, <1>5, SameWord
<1>7. Got(3)'
  <2>1. CASE Last
    <3>1. 2 # 3 => Got(2 + 1)'
      BY <1>3, <2>1, FetchEnds, Zenon
    <3> QED
      BY <3>1
  <2>2. CASE ~Last
    <3>1. ~Takes(4) /\ \A k \in 1..3 : ~Takes(k)
      BY <1>1, <2>2, Ready DEF Takes
    <3>2. spi'.buffer = spi.buffer
      BY <1>1, <3>1, AnswersIn, SpiIs
    <3>3. Got(3)
      BY <1>2, <2>2
    <3>4. ASSUME NEW k \in 1..3 PROVE ByteAt(Coming + k - 1)' = ByteAt(Coming + k - 1)
      <4>1. PICK a \in Int : a = Coming + k - 1
        BY <1>3
      <4>2. ByteAt(a)' = ByteAt(a) /\ Coming' + k - 1 = a
        BY <1>6, <4>1
      <4> QED
        BY <4>1, <4>2 DEF ByteAt
    <3> QED
      BY <3>2, <3>3, <3>4 DEF Got
  <2> QED
    BY <2>1, <2>2
<1>8. /\ flash'.cmd = Command(d) /\ flash'.n >= From(d) /\ (flash'.enhance <=> c /\ d)
      /\ flash'.n = From(d) /\ flash'.addr = (Coming + 2 + 1) % 2^22
  BY <1>3, FlashSends
<1>9. /\ spi'.xfer_resetn /\ spi'.din_ddr = d /\ (spi'.din_rd <=> d)
      /\ spi'.rd_inc <=> spi'.rd_valid
      /\ ~spi'.rd_valid => valid'
      /\ spi'.state = StateOf(2)
      /\ spi'.din_valid => spi'.din_tag = 4
      /\ spi'.din_valid => ~spi'.rd_wait
  BY <1>3, FetchKeeps
<1>10. Reading(d)'
  BY <1>4, <1>8 DEF Reading, Command, From
<1>11. /\ flash'.n = (IF d THEN 24 ELSE 32) /\ flash'.addr = (Coming' + 2 + 1) % 2^22
       /\ ~(xfer'.count > 0) /\ xfer'.tag = 2 + 1 /\ Got(2 + 1)'
  BY <1>4, <1>6, <1>7, <1>8 DEF From
<1>12. Fetching(2, d, c)'
  BY <1>4, <1>8, <1>9, <1>10, <1>11 DEF Fetching
<1> QED
  BY <1>9, <1>12 DEF Third, StateOf

\* A byte that the next one waits for.
LEMMA Streams ==
    ASSUME NEW d \in BOOLEAN, NEW c \in BOOLEAN, NEW p \in {0, 1, 3}, Comes(p, d, c), Busy(d)
    PROVE  \/ Streaming(p, d, c)' /\ spi'.state = StateOf(p)
           \/ Streaming(IF p = 3 THEN 0 ELSE p + 1, d, c)' /\ spi'.state = NextOf(p) /\ ~spi'.din_valid
<1>1. TypeInv /\ XferInv /\ spi.state = StateOf(p) /\ p \in 0..3
  BY DEF Comes, Ticking
<1>2. /\ xfer.count > 0 /\ spi.xfer_resetn /\ (spi.din_valid \/ First)
  BY DEF Busy
<1>3. CASE ~Last
  <2>1. /\ Fetching(p, d, c)' /\ spi'.state = spi.state
        /\ xfer'.csb = 0 /\ xfer'.count > 0 /\ xfer'.dspi = d /\ spi'.din_valid
    BY <1>1, <1>2, <1>3, FetchOn
  <2>2. Busy(d)'
    BY <2>1 DEF Busy, Fetching
  <2> QED
    BY <1>1, <2>1, <2>2 DEF Streaming
<1>4. CASE Last
  <2>1. din_ready
    BY <1>1, <1>2, <1>4, Ready
  <2> QED
    BY <1>1, <2>1, FetchNext
<1> QED
  BY <1>3, <1>4

\* States 9 to 11: a byte of the data comes.
LEMMA At9To11 ==
    ASSUME NEW d \in BOOLEAN, NEW c \in BOOLEAN, Ticking(d, c), NEW p \in {0, 1, 3},
           spi.state = StateOf(p), p = 3 => xfer.tag # 0
    PROVE  InState(spi.state, d, c)'
<1>1. Streaming(p, d, c)
  BY Being DEF Ticking, StateOf
<1>2. Comes(p, d, c) /\ Busy(d)
  BY <1>1 DEF Comes, Streaming
<1>3. CASE Streaming(p, d, c)' /\ spi'.state = StateOf(p)
  <2>1. p = 3 => xfer'.tag # 0
    BY <1>3 DEF Streaming, Fetching
  <2>2. CASE p = 0
    BY <1>3, <2>2, Enters DEF StateOf
  <2>3. CASE p = 1
    BY <1>3, <2>3, Enters DEF StateOf
  <2>4. CASE p = 3
    BY <1>3, <2>1, <2>4, Enters DEF StateOf
  <2> QED
    BY <2>2, <2>3, <2>4
<1>4. CASE Streaming(IF p = 3 THEN 0 ELSE p + 1, d, c)' /\ spi'.state = NextOf(p) /\ ~spi'.din_valid
  <2>1. CASE p = 0
    <3>1. Streaming(1, d, c)' /\ spi'.state = 11
      BY <1>4, <2>1 DEF NextOf
    <3> QED
      BY <3>1, Enters
  <2>2. CASE p = 1
    <3>1. Streaming(2, d, c)' /\ spi'.state = 12
      BY <1>4, <2>2 DEF NextOf
    <3>2. Third(d, c)'
      BY <1>4, <3>1 DEF Streaming, Third
    <3> QED
      BY <3>1, <3>2, Enters
  <2>3. CASE p = 3
    <3>1. Streaming(0, d, c)' /\ spi'.state = 10
      BY <1>4, <2>3 DEF NextOf
    <3> QED
      BY <3>1, Enters
  <2> QED
    BY <2>1, <2>2, <2>3
<1> QED
  BY <1>2, <1>3, <1>4, Streams

\* State 12: the third comes, or has come and the CPU has not asked on.
LEMMA At12 ==
    ASSUME NEW d \in BOOLEAN, NEW c \in BOOLEAN, Ticking(d, c), spi.state = 12
    PROVE  InState(spi.state, d, c)'
<1>1. Third(d, c) /\ TypeInv /\ XferInv /\ 2 \in 0..3
  BY Being DEF Ticking
<1>2. Comes(2, d, c)
  BY <1>1 DEF Comes, Third, StateOf
<1>3. CASE xfer.count > 0 /\ ~Last
  <2>1. Fetching(2, d, c)' /\ spi'.state = spi.state /\ (spi'.din_valid => ~spi'.rd_wait)
    BY <1>1, <1>2, <1>3, FetchOn
  <2> QED
    BY <2>1, Enters DEF Third
<1>4. CASE ~din_ready /\ ~(xfer.count > 0 /\ ~Last)
  <2>1. xfer.count = 0 \/ Last
    BY <1>1, <1>4 DEF TypeInv, XferType
  <2> QED
    BY <1>2, <1>4, <2>1, FetchWaits, Enters
<1>5. CASE din_ready
  <2>1. Streaming(3, d, c)' /\ spi'.state = 9 /\ xfer'.tag # 0
    <3>1. /\ Streaming(IF 2 = 3 THEN 0 ELSE 2 + 1, d, c)' /\ spi'.state = NextOf(2)
          /\ xfer'.tag # 0
      BY <1>1, <1>2, <1>5, FetchNext
    <3> QED
      BY <3>1 DEF NextOf
  <2> QED
    BY <2>1, Enters
<1> QED
  BY <1>3, <1>4, <1>5

\* Every state, without a reset and without a jump.
LEMMA TickKeeps ==
    ASSUME NEW d \in BOOLEAN, NEW c \in BOOLEAN, Ticking(d, c)
    PROVE  InState(spi.state, d, c)'
<1>1. spi.state \in 0..15
  BY DEF Ticking, TypeInv, SpiType
<1>2. CASE spi.state = 9
  <2>1. CASE xfer.tag = 0
    BY <1>2, <2>1, At9Final
  <2>2. CASE xfer.tag # 0
    BY <1>2, <2>2, At9To11 DEF StateOf
  <2> QED
    BY <2>1, <2>2
<1>3. CASE spi.state = 10
  <2>1. 0 \in {0, 1, 3} /\ spi.state = StateOf(0) /\ (0 = 3 => xfer.tag # 0)
    BY <1>3 DEF StateOf
  <2> QED
    BY <2>1, At9To11
<1>4. CASE spi.state = 11
  <2>1. 1 \in {0, 1, 3} /\ spi.state = StateOf(1) /\ (1 = 3 => xfer.tag # 0)
    BY <1>4 DEF StateOf
  <2> QED
    BY <2>1, At9To11
<1>5. spi.state \in {0, 1, 2, 3, 4} => InState(spi.state, d, c)'
  BY At0, At1, At2, At3, At4
<1>6. spi.state \in {5, 6, 7, 8, 12} => InState(spi.state, d, c)'
  BY At5, At6, At7, At8, At12
<1>7. spi.state \in {13, 14, 15} => InState(spi.state, d, c)'
  BY At13, At14, At15
<1> QED
  BY <1>1, <1>2, <1>3, <1>4, <1>5, <1>6, <1>7

\* The word held stays, or the one that has come is held.
LEMMA TickHolds ==
    ASSUME NEW d \in BOOLEAN, NEW c \in BOOLEAN, Ticking(d, c), HeldWord
    PROVE  HeldWord'
<1>1. /\ TypeInv /\ XferInv /\ Spi(TRUE) /\ ~softreset /\ ~jump
      /\ InState(spi.state, d, c) /\ version' = version
  BY DEF Ticking
<1>2. BufferFits /\ spi.rd_addr \in Register24
  BY <1>1, AnswersIn DEF TypeInv, SpiType
<1>3. CASE ~Takes(4)
  <2>1. spi'.rdata = spi.rdata /\ spi'.rd_addr = spi.rd_addr /\ (spi'.rd_valid <=> spi.rd_valid)
    BY <1>1, <1>2, <1>3, SpiIs
  <2> QED
    BY <1>1, <2>1 DEF HeldWord, ByteAt
<1>4. CASE Takes(4)
  <2>1. Last /\ xfer.tag = 4 /\ Fetching(3, d, c) /\ spi.state = 9
    <3>1. 4 \in 1..4
      OBVIOUS
    <3>2. /\ Last /\ xfer.tag = 4 /\ Fetching(4 - 1, d, c)
          /\ spi.state = IF 4 = 4 THEN 9 ELSE 9 + 4
      BY <1>1, <1>4, <3>1, AnswersIn
    <3> QED
      BY <3>2
  <2>2. Comes(3, d, c) /\ 3 \in 0..3
    BY <2>1 DEF Comes, StateOf
  <2>3. /\ Len(spi'.rdata) = 4
        /\ \A k \in 1..4 : spi'.rdata[k] = ByteAt(Coming + k - 1)
        /\ spi'.rd_addr = IF spi.rd_inc THEN (spi.rd_addr + 4) % 2^24 ELSE port.addr
    BY <2>1, <2>2, FetchEnds
  <2>4. spi'.rd_addr = Coming \/ spi'.rd_addr = Coming % 2^24
    BY <2>3 DEF Coming
  <2>5. \A x \in Nat, k \in 1..4 : ((x % 2^24) + k - 1) % 2^22 = (x + k - 1) % 2^22
    OBVIOUS
  <2>6. ASSUME NEW k \in 1..4 PROVE (spi'.rd_addr + k - 1) % 2^22 = (Coming + k - 1) % 2^22
    BY <1>1, <2>4, <2>5, ComingIs
  <2>7. ASSUME NEW k \in 1..4 PROVE spi'.rdata[k] = ByteAt(spi.rd_addr + k - 1)'
    BY <1>1, <2>3, <2>6 DEF ByteAt
  <2> QED
    BY <2>3, <2>7 DEF HeldWord
<1> QED
  BY <1>3, <1>4

-----------------------------------------------------------------------------
(* Jumps and resets. *)

\* A word is held only in the states that fetch.
LEMMA HeldIn ==
    ASSUME NEW d \in BOOLEAN, NEW c \in BOOLEAN, TypeInv, InState(spi.state, d, c), spi.rd_valid
    PROVE  spi.state \in 9..12 /\ \E p \in 0..3 : Fetching(p, d, c)
<1>1. spi.state \in 0..15
  BY DEF TypeInv, SpiType
<1>2. ~Plain /\ ~Asking(d, c) /\ ~Addressing(d, c)
  BY DEF Plain, Asking, Addressing
<1>3. spi.state \notin {0, 1, 2, 3, 4}
  BY <1>2, Being DEF Begin, Ones, Recalling, Releasing, Commanding, Wakes
<1>4. spi.state \notin {5, 6, 7, 8}
  <2>1. (High(d, c) => Asking(d, c)) /\ (Middle(d, c) => Asking(d, c)) /\ (Low(d, c) => Asking(d, c))
    BY DEF High, Middle, Low
  <2> QED
    BY <1>2, <2>1, Being
<1>5. spi.state \notin {13, 14, 15}
  BY <1>2, Being DEF Resting, Half, MoreOnes, Wakes
<1>6. spi.state \in 9..12
  BY <1>1, <1>3, <1>4, <1>5
<1>7. spi.state = 9 => Fetching(3, d, c)
  <2>1. ~Final(d, c)
    BY <1>2 DEF Final
  <2>2. spi.state = 9 => IF xfer.tag = 0 THEN Final(d, c) ELSE Streaming(3, d, c)
    BY Being
  <2> QED
    BY <2>1, <2>2 DEF Streaming
<1>8. /\ spi.state = 10 => Fetching(0, d, c)
      /\ spi.state = 11 => Fetching(1, d, c)
      /\ spi.state = 12 => Fetching(2, d, c)
  BY Being DEF Streaming, Third
<1> QED
  BY <1>6, <1>7, <1>8

\* A clock with a jump.
LEMMA JumpKeeps ==
    ASSUME NEW d \in BOOLEAN, NEW c \in BOOLEAN, TypeInv, XferInv, config_en, ~softreset, jump,
           d = cfg.ddr, c = cfg.cont, InState(spi.state, d, c), Xfer, Flash, Spi(TRUE), Cpu(TRUE)
    PROVE  /\ spi' \in SpiType /\ InState(spi.state, d, c)' /\ ~spi'.rd_valid
           /\ spi'.state \in {4, 5}
<1>1. valid /\ ~ready /\ spi.rd_valid
  BY DEF jump
<1>2. spi.state \in 9..12
  BY <1>1, HeldIn
<1>3. PICK p \in 0..3 : Fetching(p, d, c)
  BY <1>1, HeldIn
<1>4. /\ xfer.csb = 0 /\ spi.xfer_resetn /\ Reading(d) /\ (flash.enhance <=> c /\ d)
      /\ spi.din_ddr = d /\ (spi.din_rd <=> d) /\ xfer.dspi = d /\ (d => xfer.rd)
  BY <1>3 DEF Fetching, Reading
<1>5. PICK q \in SpiType : q = Step(Taken)
  <2>1. BufferFits
    BY AnswersIn
  <2>2. /\ Taken \in SpiType /\ Taken.state = spi.state /\ Taken.xfer_resetn /\ ~Taken.din_valid
    BY <2>1, TakenIs
  <2> QED
    BY <1>2, <2>2, FetchIs
<1>6. /\ spi' \in SpiType /\ ~spi'.rd_inc /\ ~spi'.rd_valid /\ ~spi'.xfer_resetn /\ ~spi'.din_rd
      /\ spi'.state = (IF c /\ d THEN 5 ELSE 4) /\ (~(c /\ d) => ~spi'.din_ddr)
  <2> DEFINE s == IF cfg.cont /\ cfg.ddr THEN 5 ELSE 4
             w == q.din_ddr /\ cfg.cont /\ cfg.ddr
             r == [q EXCEPT !.rd_inc = FALSE, !.rd_valid = FALSE, !.xfer_resetn = FALSE,
                            !.state = s, !.din_ddr = w, !.din_rd = FALSE]
  <2>1. spi' = r
    BY <1>5 DEF Spi, Jump, Taken
  <2>2. s \in 0..15 /\ w \in BOOLEAN /\ s = (IF c /\ d THEN 5 ELSE 4) /\ (~(c /\ d) => ~w)
    OBVIOUS
  <2> HIDE DEF s, w
  <2>3. r \in SpiType
    BY <2>2, ZenonT(40) DEF SpiType
  <2>4. /\ ~r.rd_inc /\ ~r.rd_valid /\ ~r.xfer_resetn /\ ~r.din_rd /\ r.state = s
        /\ (r.din_ddr <=> w)
    BY <1>5, <2>2 DEF SpiType
  <2> HIDE DEF r
  <2> QED
    BY <2>1, <2>2, <2>3, <2>4
<1>7. port' = port /\ valid'
  BY <1>1, ReadStands
<1>8. flash'.cmd = flash.cmd /\ (flash'.enhance <=> flash.enhance) /\ flash'.n >= (IF d THEN 24 ELSE 32)
  <2>1. flash_csb = 0
    BY <1>4 DEF flash_csb
  <2> QED
    BY <1>4, <2>1, ReadsOn
<1>9. xfer'.csb = 0 /\ xfer'.dspi = d /\ (d => xfer'.rd)
  <2>1. CASE din_ready
    BY <1>4, <2>1, MovesIs DEF Loads
  <2>2. CASE ~din_ready
    <3>1. Rests \/ Ends \/ Rises \/ Falls
      <4>1. xfer.count \in 0..8 /\ xfer.clk \in 0..1
        BY DEF TypeInv, XferType
      <4> QED
        BY <1>4, <2>2, <4>1, MovesIs
    <3> QED
      BY <1>4, <3>1 DEF Rests, Ends, Rises, Falls, SameWay, SameByte
  <2> QED
    BY <2>1, <2>2
<1>10. Reading(d)'
  BY <1>4, <1>8, <1>9 DEF Reading
<1>11. \A b, tag, dual, rd : Offer(b, tag, dual, rd)'
  BY <1>6 DEF Offer
<1>12. CASE c /\ d
  <2>1. Addressing(d, c)'
    <3>1. flash'.enhance /\ ~spi'.xfer_resetn /\ Offer(AddrByte(2), 0, d, FALSE)'
      BY <1>4, <1>6, <1>8, <1>12 DEF Offer
    <3> QED
      BY <1>6, <1>7, <1>9, <1>10, <1>12, <3>1, Zenon DEF Addressing
  <2> QED
    BY <1>6, <1>12, <2>1, Enters
<1>13. CASE ~(c /\ d)
  <2>1. Commanding(d)'
    <3>1. ~flash'.enhance /\ Offer(Command(d), 0, FALSE, FALSE)'
      BY <1>4, <1>6, <1>8, <1>13 DEF Offer
    <3> QED
      BY <1>6, <1>9, <1>10, <1>13, <3>1 DEF Commanding, Begin, Plain
  <2> QED
    BY <1>6, <1>13, <2>1, Enters
<1> QED
  BY <1>6, <1>12, <1>13

\* A reset, of the board or by a write of the configuration register.
LEMMA ResetKeeps ==
    ASSUME NEW r \in BOOLEAN, TypeInv, Spi(r), ~r \/ softreset
    PROVE  /\ spi' \in SpiType /\ spi'.state = 0 /\ ~spi'.rd_valid /\ ~spi'.xfer_resetn
           /\ \A d, c \in BOOLEAN : InState(spi.state, d, c)'
<1>1. spi' = SpiReset(spi) /\ spi \in SpiType
  BY DEF Spi, TypeInv
<1>2. 0 \in 0..15 /\ 0 \in Nat /\ 0 \in 0..4
  OBVIOUS
<1>3. spi' \in SpiType
  BY <1>1, <1>2, Zenon DEF SpiReset, SpiType
<1>4. /\ spi'.state = 0 /\ ~spi'.rd_valid /\ ~spi'.xfer_resetn /\ ~spi'.din_ddr /\ ~spi'.din_rd
  BY <1>1 DEF SpiReset, SpiType
<1>5. Begin(255)'
  BY <1>4 DEF Begin, Offer, Plain
<1> QED
  BY <1>3, <1>4, <1>5, Enters

\* A clock of the read FSM.
LEMMA FsmKeeps ==
    ASSUME NEW r \in BOOLEAN, IInv, Edge(r)
    PROVE  /\ spi' \in SpiType /\ Running' /\ HeldWord'
           /\ ~r \/ softreset => ~spi'.xfer_resetn
           /\ r /\ ~softreset =>
                /\ \E d, c \in BOOLEAN : d = cfg.ddr /\ InState(spi.state, d, c)'
                /\ spi.state \in 4..12 => spi'.state \in 4..12
<1>1. /\ TypeInv /\ XferInv /\ Running /\ HeldWord /\ Calm
      /\ Spi(r) /\ Xfer /\ Config(r) /\ Cpu(r) /\ Flash /\ Program
  BY DEF IInv, Edge
<1>2. cfg' \in [ddr : BOOLEAN, cont : BOOLEAN]
  <2>1. /\ cfg \in [ddr : BOOLEAN, cont : BOOLEAN] /\ port.ddr \in BOOLEAN /\ port.cont \in BOOLEAN
    BY <1>1 DEF TypeInv, PortType
  <2>2. cfg' = IF ~r THEN [ddr |-> FALSE, cont |-> FALSE]
               ELSE IF port.kind = "mode" THEN [ddr |-> port.ddr, cont |-> port.cont] ELSE cfg
    BY <1>1 DEF Config
  <2> QED
    BY <2>1, <2>2
<1>3. CASE ~r \/ softreset
  <2>1. /\ spi' \in SpiType /\ spi'.state = 0 /\ ~spi'.rd_valid /\ ~spi'.xfer_resetn
        /\ \A d, c \in BOOLEAN : InState(spi.state, d, c)'
    BY <1>1, <1>3, ResetKeeps
  <2>2. HeldWord'
    BY <2>1 DEF HeldWord
  <2>3. PICK d \in BOOLEAN, c \in BOOLEAN : d = cfg'.ddr /\ c = cfg'.cont
    BY <1>2
  <2>4. InState(spi.state, d, c)'
    BY <2>1
  <2>5. Running'
    BY <2>3, <2>4 DEF Running
  <2> QED
    BY <1>3, <2>1, <2>2, <2>5
<1>4. CASE r /\ ~softreset
  <2>1. PICK d \in BOOLEAN, c \in BOOLEAN : InState(spi.state, d, c) /\ d = cfg.ddr /\ c = cfg.cont
    BY <1>1, <1>4 DEF Running
  <2>2. r = TRUE
    BY <1>4
  <2>3. config_en /\ port.kind \notin {"on", "program"}
    BY <1>1, <1>4 DEF Calm, config_en
  <2>4. version' = version
    BY <1>1, <2>3 DEF Program
  <2>5. Spi(TRUE) /\ Cpu(TRUE)
    BY <1>1, <2>2
  <2>6. ~softreset' => cfg' = cfg
    BY <1>1, <1>4 DEF Config, cfgreg_we
  <2>7. CASE jump
    <3>1. /\ spi' \in SpiType /\ InState(spi.state, d, c)' /\ ~spi'.rd_valid
          /\ spi'.state \in {4, 5}
      BY <1>1, <1>4, <2>1, <2>3, <2>5, <2>7, JumpKeeps
    <3>2. Running'
      BY <2>1, <2>6, <3>1 DEF Running
    <3> QED
      BY <1>4, <2>1, <3>1, <3>2 DEF HeldWord
  <2>8. CASE ~jump
    <3>1. Ticking(d, c)
      BY <1>1, <1>4, <2>1, <2>3, <2>4, <2>5, <2>8 DEF Ticking
    <3>2. InState(spi.state, d, c)' /\ HeldWord'
      BY <1>1, <3>1, TickKeeps, TickHolds
    <3>3. BufferFits
      BY <1>1, <2>1, AnswersIn
    <3>4. spi' \in SpiType
      BY <1>1, <1>4, <2>5, <2>8, <3>3, SpiIs
    <3>5. spi.state \in 4..12 => spi'.state \in 4..12
      <4>1. CASE spi.state \in 4..8
        BY <1>1, <1>4, <2>5, <2>8, <3>3, <4>1, SpiIs DEF Sends, Stays
      <4>2. CASE spi.state \in 9..12
        BY <1>1, <1>4, <2>5, <2>8, <3>3, <4>2, SpiIs DEF Sends, Stays
      <4> QED
        BY <4>1, <4>2
    <3>6. Running'
      BY <2>1, <2>6, <3>2 DEF Running
    <3> QED
      BY <1>4, <2>1, <3>2, <3>4, <3>5, <3>6
  <2> QED
    BY <2>7, <2>8
<1> QED
  BY <1>3, <1>4
-----------------------------------------------------------------------------
(* The pins, and the whole. *)

\* See Being.
LEMMA Entered ==
    ASSUME NEW d, NEW c, InState(spi.state, d, c)'
    PROVE  /\ spi'.state = 0 => Begin(255)'
           /\ spi'.state = 1 => Ones'
           /\ spi'.state = 14 => Half'
           /\ spi'.state = 15 => MoreOnes'
           /\ spi'.state = 2 => Recalling'
           /\ spi'.state = 3 => Releasing'
           /\ spi'.state = 13 => Resting'
           /\ spi'.state = 4 => Commanding(d)'
           /\ spi'.state = 5 => Addressing(d, c)'
           /\ spi'.state = 6 => High(d, c)'
           /\ spi'.state = 7 => Middle(d, c)'
           /\ spi'.state = 8 => Low(d, c)'
           /\ spi'.state = 10 => Streaming(0, d, c)'
           /\ spi'.state = 11 => Streaming(1, d, c)'
           /\ spi'.state = 12 => Third(d, c)'
           /\ spi'.state = 9 => IF xfer'.tag = 0 THEN Final(d, c)' ELSE Streaming(3, d, c)'
<1>1. spi'.state = 0 => Begin(255)'
  BY DEF InState
<1>2. spi'.state = 1 => Ones'
  BY DEF InState
<1>3. spi'.state = 14 => Half'
  BY DEF InState
<1>4. spi'.state = 15 => MoreOnes'
  BY DEF InState
<1>5. spi'.state = 2 => Recalling'
  BY DEF InState
<1>6. spi'.state = 3 => Releasing'
  BY DEF InState
<1>7. spi'.state = 13 => Resting'
  BY DEF InState
<1>8. spi'.state = 4 => Commanding(d)'
  BY DEF InState
<1>9. spi'.state = 5 => Addressing(d, c)'
  BY DEF InState
<1>10. spi'.state = 6 => High(d, c)'
  BY DEF InState
<1>11. spi'.state = 7 => Middle(d, c)'
  BY DEF InState
<1>12. spi'.state = 8 => Low(d, c)'
  BY DEF InState
<1>13. spi'.state = 10 => Streaming(0, d, c)'
  BY DEF InState
<1>14. spi'.state = 11 => Streaming(1, d, c)'
  BY DEF InState
<1>15. spi'.state = 12 => Third(d, c)'
  BY DEF InState
<1>16. spi'.state = 9 => IF xfer'.tag = 0 THEN Final(d, c)' ELSE Streaming(3, d, c)'
  BY DEF InState
<1> QED
  BY <1>1, <1>2, <1>3, <1>4, <1>5, <1>6, <1>7, <1>8, <1>9, <1>10, <1>11, <1>12, <1>13, <1>14, <1>15, <1>16

\* In the plain mode the flash is in no dual read, but for one cut off.
LEMMA QuietIn ==
    ASSUME NEW c \in BOOLEAN, spi' \in SpiType, InState(spi.state, FALSE, c)'
    PROVE  /\ spi'.xfer_resetn /\ xfer'.csb = 0 /\ ~flash'.enhance => flash'.cmd # 187
           /\ spi'.state \in 4..12 =>
                ~flash'.enhance /\ (xfer'.csb = 0 => flash'.cmd # 187)
<1> DEFINE s == spi'.state
           Silent == spi'.xfer_resetn /\ xfer'.csb = 0 /\ ~flash'.enhance => flash'.cmd # 187
           Plainly == ~flash'.enhance /\ (xfer'.csb = 0 => flash'.cmd # 187)
<1>1. s \in 0..15
  BY DEF SpiType
<1>2. CASE s \in {0, 2, 13}
  <2>1. Begin(255)' \/ Recalling' \/ Resting'
    BY <1>2, Entered
  <2>2. spi'.xfer_resetn => xfer'.csb = 1
    BY <2>1 DEF Begin, Recalling, Resting, Idle
  <2> QED
    BY <1>2, <2>2
<1>3. CASE s \in {1, 14, 15}
  <2>1. Ones' \/ Half' \/ MoreOnes'
    BY <1>3, Entered
  <2>2. (\E n : Mending(n))'
    BY <2>1 DEF Ones, Half, MoreOnes
  <2>3. ~flash'.enhance => flash'.cmd # 187
    BY <2>2 DEF Mending
  <2> QED
    BY <1>3, <2>3
<1>4. CASE s = 3
  <2>1. Releasing'
    BY <1>4, Entered
  <2>2. flash'.cmd # 187
    BY <2>1 DEF Releasing, Going
  <2> QED
    BY <1>4, <2>2
<1>5. CASE s = 4
  <2>1. Commanding(FALSE)'
    BY <1>5, Entered
  <2>2. Plainly
    BY <2>1 DEF Commanding, Begin, Idle, Reading
  <2> QED
    BY <2>2
<1>6. CASE s = 5
  <2>1. Addressing(FALSE, c)'
    BY <1>6, Entered
  <2>2. Plainly
    BY <2>1 DEF Addressing, Going, Command
  <2> QED
    BY <2>2
<1>7. CASE s \in {6, 7, 8}
  <2>1. High(FALSE, c)' \/ Middle(FALSE, c)' \/ Low(FALSE, c)'
    BY <1>7, Entered
  <2>2. Asking(FALSE, c)' /\ flash'.cmd = 3
    <3>1. ~Low(FALSE, c)'
      BY DEF Low
    <3>2. flash'.cmd = Command(FALSE)
      BY <2>1, <3>1, Zenon DEF High, Middle, Going
    <3>3. Asking(FALSE, c)'
      BY <2>1, <3>1, Zenon DEF High, Middle
    <3>4. Command(FALSE) = 3
      BY DEF Command
    <3> QED
      BY <3>2, <3>3, <3>4
  <2>3. ~flash'.enhance
    BY <2>2 DEF Asking
  <2> QED
    BY <2>2, <2>3
<1>8. CASE s \in {9, 10, 11, 12}
  <2>1. \/ Final(FALSE, c)'
        \/ Fetching(0, FALSE, c)' \/ Fetching(1, FALSE, c)' \/ Fetching(2, FALSE, c)'
        \/ Fetching(3, FALSE, c)'
    <3>1. \/ Final(FALSE, c)' \/ Streaming(3, FALSE, c)'
          \/ Streaming(0, FALSE, c)' \/ Streaming(1, FALSE, c)' \/ Third(FALSE, c)'
      BY <1>8, Entered
    <3> QED
      BY <3>1 DEF Streaming, Third
  <2>2. Final(FALSE, c)' => Plainly
    BY DEF Final, Asking, Going
  <2>3. ASSUME NEW p, Fetching(p, FALSE, c)'
        PROVE  Plainly
    BY <2>3 DEF Fetching, Reading
  <2> HIDE DEF Plainly
  <2>4. Plainly
    BY <2>1, <2>2, <2>3, Zenon
  <2> QED
    BY <2>4 DEF Plainly
<1> QED
  BY <1>1, <1>2, <1>3, <1>4, <1>5, <1>6, <1>7, <1>8

\* A flash that takes commands takes them still, but for a mode byte.
LEMMA FlashCalm ==
    ASSUME TypeInv, Flash, ~flash.enhance, flash_csb = 0 /\ flash.cmd = 187 => flash.n = 8
    PROVE  /\ ~flash'.enhance
           /\ flash_csb = 1 => flash'.cmd = 0
           /\ flash.cmd # 187 /\ flash'.cmd = 187 => flash'.n = 8
<1>1. flash \in FlashType /\ flash.n \in Nat /\ flash_csb \in {0, 1}
  BY DEF TypeInv, FlashType, XferType, flash_csb
<1>2. CASE flash_csb = 1
  <2>1. Becomes(0, 0, 0, 0, FALSE)
    BY <1>2, Deselected
  <2> QED
    BY <1>2, <2>1 DEF Becomes
<1>3. CASE flash_csb = 0 /\ xfer.clk # 1
  BY <1>3 DEF Flash
<1>4. CASE flash_csb = 0 /\ xfer.clk = 1
  <2>1. PICK n, s : n = flash.n + 1 /\ s = ShiftedIn
    OBVIOUS
  <2>2. /\ n < 8 => Becomes(n, s, flash.cmd, flash.addr, flash.enhance)
        /\ n = 8 => Becomes(n, s, s % 256, flash.addr, flash.enhance)
        /\ n > 8 /\ flash.cmd \notin {3, 187} => flash' = flash
        /\ n > 8 /\ Dual => (n < 24 /\ n # 20 => Becomes(n, s, 187, flash.addr, flash.enhance))
        /\ n > 8 /\ flash.cmd = 3 =>
             /\ n < 32 => Becomes(n, s, 3, flash.addr, flash.enhance)
             /\ n = 32 => Becomes(n, 0, 3, s % 2^22, flash.enhance)
             /\ n \in 33..39 => Becomes(n, flash.sr, 3, flash.addr, flash.enhance)
             /\ n = 40 => Becomes(32, flash.sr, 3, (flash.addr + 1) % 2^22, flash.enhance)
    BY <1>4, <2>1, ClockedIs
  <2>3. n \in Nat /\ (Dual => n = 9) /\ (Dual <=> flash.cmd = 187)
    BY <1>1, <1>4, <2>1 DEF Dual
  <2>4. flash.cmd = 3 => n <= 40
    BY <1>1, <2>1 DEF TypeInv, FlashEnds, Dual
  <2>5. CASE flash.cmd = 187
    BY <1>4, <2>2, <2>3, <2>5 DEF Becomes
  <2>6. CASE flash.cmd # 187 /\ n <= 8
    BY <1>4, <2>2, <2>3, <2>6 DEF Becomes
  <2>7. CASE flash.cmd = 3 /\ n > 8
    <3>1. n < 32 \/ n = 32 \/ n \in 33..39 \/ n = 40
      BY <2>3, <2>4, <2>7
    <3> QED
      BY <1>4, <2>2, <2>7, <3>1 DEF Becomes
  <2>8. CASE flash.cmd \notin {3, 187} /\ n > 8
    BY <1>4, <2>2, <2>8
  <2> QED
    BY <2>3, <2>5, <2>6, <2>7, <2>8
<1> QED
  BY <1>1, <1>2, <1>3, <1>4

\* What the programs may ask for.
LEMMA RequestIs ==
    ASSUME TypeInv, NEW q \in Requests
    PROVE  /\ q \in PortType /\ q.addr % 4 = 0
           /\ \/ q.kind = "none"
              \/ prog = "xip" /\ q.kind \in {"read", "mode"}
              \/ prog = "xip" /\ q.kind = "pins" /\ Settled /\ ~cfg.ddr
              \/ prog = "pins" /\ q.kind = "off"
              \/ prog = "manual" /\ q.kind \in {"program", "on"}
<1> DEFINE R(k) == [NoRequest EXCEPT !.kind = k]
           reads == [kind : {"read"}, addr : Addrs, ddr : {FALSE}, cont : {FALSE}]
           modes == [kind : {"mode"}, addr : {0}, ddr : BOOLEAN, cont : BOOLEAN]
<1>1. 0 \in FlashAddr /\ 0 % 4 = 0 /\ \A a \in Addrs : a \in FlashAddr /\ a % 4 = 0
  <2>1. 0 \in FlashAddr
    BY DEF FlashAddr
  <2>2. 0 % 4 = 0
    OBVIOUS
  <2>3. \A a \in Addrs : a \in FlashAddr /\ a % 4 = 0
    BY SpiXipAssumption, Zenon DEF FlashAddr
  <2> QED
    BY <2>1, <2>2, <2>3
<1>2. CASE q = R("none")
  BY <1>1, <1>2 DEF NoRequest, PortType
<1>3. CASE q = R("pins") /\ prog = "xip" /\ Settled /\ ~cfg.ddr
  BY <1>1, <1>3 DEF NoRequest, PortType
<1>4. CASE q = R("off") /\ prog = "pins"
  BY <1>1, <1>4 DEF NoRequest, PortType
<1>5. CASE (q = R("on") \/ q = R("program")) /\ prog = "manual"
  BY <1>1, <1>5 DEF NoRequest, PortType
<1>6. CASE q \in reads /\ prog = "xip"
  BY <1>1, <1>6 DEF PortType
<1>7. CASE q \in modes /\ prog = "xip"
  BY <1>1, <1>7 DEF PortType
<1>8. \/ q = R("none")
      \/ prog = "xip" /\ (q \in reads \/ q \in modes)
      \/ prog = "xip" /\ Settled /\ ~cfg.ddr /\ q = R("pins")
      \/ prog = "pins" /\ q = R("off")
      \/ prog = "manual" /\ (q = R("program") \/ q = R("on"))
  <2> DEFINE some == CASE prog = "held"   -> {}
                       [] prog = "xip"    -> reads \cup (IF spi.rd_valid THEN modes ELSE {})
                                             \cup (IF Settled /\ ~cfg.ddr THEN {R("pins")} ELSE {})
                       [] prog = "pins"   -> {R("off")}
                       [] prog = "manual" -> {R("program"), R("on")}
  <2>1. q \in {R("none")} \cup some
    BY DEF Requests
  <2>2. prog \in {"held", "xip", "pins", "manual"}
    BY DEF TypeInv
  <2> HIDE DEF R, reads, modes
  <2> QED
    BY <2>1, <2>2
<1> HIDE DEF R, reads, modes
<1> QED
  BY <1>2, <1>3, <1>4, <1>5, <1>6, <1>7, <1>8

\* The CPU's request.
LEMMA CpuIs ==
    ASSUME NEW r \in BOOLEAN, TypeInv, Cpu(r)
    PROVE  /\ port' \in PortType /\ port'.addr % 4 = 0
           /\ port'.kind # "none" =>
                /\ r
                /\ \/ valid /\ port' = port
                   \/ /\ port.kind = "none"
                      /\ \/ prog = "xip" /\ port'.kind \in {"read", "mode"}
                         \/ prog = "xip" /\ port'.kind = "pins" /\ Settled /\ ~cfg.ddr
                         \/ prog = "pins" /\ port'.kind = "off"
                         \/ prog = "manual" /\ port'.kind \in {"program", "on"}
<1>1. NoRequest \in PortType /\ NoRequest.addr % 4 = 0 /\ NoRequest.kind = "none"
  <2>1. 0 \in FlashAddr /\ 0 % 4 = 0
    BY DEF FlashAddr
  <2> QED
    BY <2>1 DEF NoRequest, PortType
<1>2. port \in PortType /\ port.addr % 4 = 0
  BY DEF TypeInv
<1>3. CASE port' = NoRequest
  BY <1>1, <1>3
<1>4. CASE r /\ valid /\ ~ready
  BY <1>2, <1>4 DEF Cpu
<1>5. CASE port' # NoRequest /\ ~(r /\ valid /\ ~ready)
  <2>1. r /\ port.kind = "none" /\ port' \in Requests
    BY <1>5 DEF Cpu
  <2> QED
    BY <2>1, RequestIs
<1> QED
  BY <1>3, <1>4, <1>5

\* Who has the pins next, and whether the read FSM is reset for it.
LEMMA ConfigIs ==
    ASSUME NEW r \in BOOLEAN, TypeInv, Calm, Config(r)
    PROVE  /\ prog' \in {"held", "xip", "pins", "manual"} /\ softreset' \in BOOLEAN
           /\ cfg' \in [ddr : BOOLEAN, cont : BOOLEAN]
           /\ prog' \in {"pins", "manual"} =>
                r /\ (port.kind = "pins" \/ prog \in {"pins", "manual"}) /\ cfg' = cfg
           /\ prog' = "manual" => softreset'
           /\ r /\ port.kind \in {"none", "read"} /\ prog # "held" => prog' = prog
           /\ r /\ port.kind = "none" /\ prog = "xip" => ~softreset' /\ cfg' = cfg
<1>1. /\ prog \in {"held", "xip", "pins", "manual"} /\ port \in PortType
      /\ cfg \in [ddr : BOOLEAN, cont : BOOLEAN]
  BY DEF TypeInv
<1>2. port.ddr \in BOOLEAN /\ port.cont \in BOOLEAN
  BY <1>1 DEF PortType
<1>3. softreset' = (~r \/ ~config_en \/ cfgreg_we)
  BY DEF Config
<1>4. cfg' = IF ~r THEN [ddr |-> FALSE, cont |-> FALSE]
             ELSE IF port.kind = "mode" THEN [ddr |-> port.ddr, cont |-> port.cont] ELSE cfg
  BY DEF Config
<1>5. prog' = IF ~r \/ (prog = "held" /\ ~Settled) THEN "held"
              ELSE CASE port.kind = "pins" -> "pins"
                     [] port.kind = "off"  -> "manual"
                     [] port.kind = "on"   -> "xip"
                     [] OTHER              -> IF prog = "held" THEN "xip" ELSE prog
  BY DEF Config
<1>6. prog' \in {"held", "xip", "pins", "manual"}
  BY <1>1, <1>5
<1>7. cfg' \in [ddr : BOOLEAN, cont : BOOLEAN]
  BY <1>1, <1>2, <1>4
<1>8. /\ port.kind = "off" => prog = "pins"
      /\ port.kind \in {"mode", "pins", "read"} => prog = "xip"
  BY DEF Calm
<1>9. ASSUME prog' \in {"pins", "manual"}
      PROVE  /\ r /\ (port.kind = "pins" \/ prog \in {"pins", "manual"}) /\ cfg' = cfg
             /\ prog' = "manual" => softreset'
  <2>1. r /\ (port.kind = "pins" \/ prog \in {"pins", "manual"})
    BY <1>5, <1>8, <1>9
  <2>2. cfg' = cfg
    BY <1>4, <1>8, <2>1
  <2>3. prog' = "manual" => port.kind = "off" \/ prog = "manual"
    BY <1>5, <1>9
  <2> QED
    BY <1>3, <2>1, <2>2, <2>3 DEF cfgreg_we, config_en
<1>10. r /\ port.kind \in {"none", "read"} /\ prog # "held" => prog' = prog
  BY <1>5
<1>11. r /\ port.kind = "none" /\ prog = "xip" => ~softreset' /\ cfg' = cfg
  BY <1>3, <1>4 DEF cfgreg_we, config_en
<1> QED
  BY <1>3, <1>6, <1>7, <1>9, <1>10, <1>11

\* The boot ROM has the pins.
LEMMA PinsCalm ==
    ASSUME NEW r \in BOOLEAN, IInv, Edge(r), prog' \in {"pins", "manual"}
    PROVE  /\ ~flash'.enhance /\ ~cfg'.ddr
           /\ xfer'.csb = 0 /\ flash'.cmd = 187 => flash'.n = 8 /\ ~spi'.xfer_resetn
<1>1. /\ TypeInv /\ XferInv /\ Calm /\ Config(r) /\ Flash /\ Xfer
  BY DEF IInv, Edge
<1>2. r /\ (port.kind = "pins" \/ prog \in {"pins", "manual"}) /\ cfg' = cfg
  BY <1>1, ConfigIs
<1>3. spi' \in SpiType
  BY FsmKeeps
<1>4. ~cfg.ddr
  BY <1>1, <1>2 DEF Calm
<1>5. cfg.ddr = FALSE
  BY <1>1, <1>4 DEF TypeInv
<1>6. ~softreset => \E c \in BOOLEAN : InState(spi.state, FALSE, c)'
  BY <1>2, <1>5, FsmKeeps
<1>7. CASE port.kind = "pins"
  <2>1. ~softreset /\ spi'.state \in 4..12
    BY <1>1, <1>2, <1>7, FsmKeeps DEF Calm
  <2>2. PICK c \in BOOLEAN : InState(spi.state, FALSE, c)'
    BY <1>6, <2>1
  <2>3. ~flash'.enhance /\ (xfer'.csb = 0 => flash'.cmd # 187)
    BY <1>3, <2>1, <2>2, QuietIn
  <2> QED
    BY <1>2, <1>4, <2>3
<1>8. CASE prog \in {"pins", "manual"}
  <2>1. /\ ~flash.enhance
        /\ xfer.csb = 0 /\ flash.cmd = 187 => flash.n = 8 /\ ~spi.xfer_resetn
        /\ prog = "manual" => softreset
    BY <1>1, <1>8 DEF Calm
  <2>2. flash_csb = 0 => xfer.csb = 0 /\ config_en
    BY DEF flash_csb
  <2>3. /\ ~flash'.enhance
        /\ flash_csb = 1 => flash'.cmd = 0
        /\ flash.cmd # 187 /\ flash'.cmd = 187 => flash'.n = 8
    BY <1>1, <2>1, <2>2, FlashCalm
  <2>4. ASSUME xfer'.csb = 0, flash'.cmd = 187
        PROVE  flash'.n = 8 /\ ~spi'.xfer_resetn
    <3>1. flash_csb # 1
      BY <2>3, <2>4
    <3>2. flash_csb = 0
      <4>1. xfer.csb \in 0..1
        BY <1>1 DEF TypeInv, XferType
      <4> QED
        BY <3>1, <4>1 DEF flash_csb
    <3>3. flash.cmd # 187
      <4>1. ~spi.xfer_resetn => xfer'.csb = 1
        BY <1>1, MovesIs DEF Drops
      <4> QED
        BY <2>1, <2>2, <2>4, <3>2, <4>1
    <3>4. ~spi'.xfer_resetn
      <4>1. CASE softreset
        BY <4>1, FsmKeeps
      <4>2. CASE ~softreset
        <5>1. PICK c \in BOOLEAN : InState(spi.state, FALSE, c)'
          BY <1>6, <4>2
        <5> QED
          BY <1>3, <2>3, <2>4, <5>1, QuietIn
      <4> QED
        BY <4>1, <4>2
    <3> QED
      BY <2>3, <2>4, <3>3, <3>4
  <2> QED
    BY <1>2, <1>4, <2>3, <2>4
<1> QED
  BY <1>2, <1>7, <1>8

\* A clock edge, with or without a reset.
LEMMA EdgeKeeps ==
    ASSUME NEW r \in BOOLEAN, IInv, Edge(r)
    PROVE  IInv'
<1>1. /\ TypeInv /\ XferInv /\ Calm
      /\ Xfer /\ Config(r) /\ Cpu(r) /\ Flash /\ Program
  BY DEF IInv, Edge
<1>2. /\ spi' \in SpiType /\ Running' /\ HeldWord'
      /\ r /\ ~softreset /\ spi.state \in 4..12 => spi'.state \in 4..12
  BY FsmKeeps
<1>3. TypeInv'
  <2>1. xfer' \in XferType
    BY <1>1, XferTyped
  <2>2. flash' \in FlashType /\ FlashEnds'
    BY <1>1, FlashTyped
  <2>3. port' \in PortType /\ port'.addr % 4 = 0
    BY <1>1, CpuIs
  <2>4. /\ prog' \in {"held", "xip", "pins", "manual"} /\ softreset' \in BOOLEAN
        /\ cfg' \in [ddr : BOOLEAN, cont : BOOLEAN]
    BY <1>1, ConfigIs
  <2>5. version' \in Versions
    BY <1>1 DEF Program, TypeInv
  <2> QED
    BY <1>2, <2>1, <2>2, <2>3, <2>4, <2>5 DEF TypeInv
<1>4. XferInv'
  BY <1>1, MovesIs
<1>5. Calm'
  <2>1. prog' \in {"pins", "manual"} =>
          /\ ~flash'.enhance /\ ~cfg'.ddr
          /\ xfer'.csb = 0 /\ flash'.cmd = 187 => flash'.n = 8 /\ ~spi'.xfer_resetn
    BY PinsCalm
  <2>2. prog' = "manual" => softreset'
    BY <1>1, ConfigIs
  <2>3. CASE port'.kind = "none"
    BY <2>1, <2>2, <2>3 DEF Calm
  <2>4. CASE port'.kind # "none"
    <3>1. /\ r
          /\ \/ valid /\ port' = port
             \/ /\ port.kind = "none"
                /\ \/ prog = "xip" /\ port'.kind \in {"read", "mode"}
                   \/ prog = "xip" /\ port'.kind = "pins" /\ Settled /\ ~cfg.ddr
                   \/ prog = "pins" /\ port'.kind = "off"
                   \/ prog = "manual" /\ port'.kind \in {"program", "on"}
      BY <1>1, <2>4, CpuIs
    <3>2. /\ r /\ port.kind \in {"none", "read"} /\ prog # "held" => prog' = prog
          /\ r /\ port.kind = "none" /\ prog = "xip" => ~softreset' /\ cfg' = cfg
      BY <1>1, ConfigIs
    <3>3. CASE valid /\ port' = port
      <4>1. port.kind = "read" /\ prog = "xip"
        BY <1>1, <3>3 DEF valid, Calm
      <4> QED
        BY <2>1, <2>2, <3>1, <3>2, <3>3, <4>1 DEF Calm
    <3>4. CASE ~(valid /\ port' = port)
      <4>1. port.kind = "none" /\ prog' = prog /\ prog # "held"
        BY <3>1, <3>2, <3>4
      <4>2. port'.kind = "pins" => ~softreset' /\ spi'.state \in 4..12 /\ ~cfg'.ddr
        BY <1>2, <3>1, <3>2, <3>4 DEF Settled
      <4> QED
        BY <2>1, <2>2, <3>1, <3>4, <4>1, <4>2 DEF Calm
    <3> QED
      BY <3>3, <3>4
  <2> QED
    BY <2>3, <2>4
<1> QED
  BY <1>2, <1>3, <1>4, <1>5 DEF IInv

\* The reset.
LEMMA InitHolds ==
    ASSUME Init
    PROVE  IInv
<1>1. /\ 0 \in FlashAddr /\ 0 \in Register24 /\ 0 \in Byte /\ 0 \in 0..15 /\ 0 \in 0..4
      /\ 0 \in 0..1 /\ 1 \in 0..1 /\ 0 \in 0..8 /\ 0 \in Nat /\ 0 % 4 = 0
  BY DEF FlashAddr, Register24, Byte
<1>2. port \in PortType /\ port.addr % 4 = 0 /\ port.kind = "none"
  BY <1>1 DEF Init, NoRequest, PortType
<1>3. spi \in SpiType
  <2>1. <<>> \in Seq(Byte) /\ <<0, 0, 0, 0>> \in Seq(Byte)
    BY <1>1
  <2> QED
    BY <1>1, <2>1 DEF Init, SpiType
<1>4. xfer \in XferType
  BY <1>1 DEF Init, XferType
<1>5. flash \in FlashType /\ FlashEnds
  BY <1>1 DEF Init, FlashType, FlashEnds, Dual
<1>6. cfg \in [ddr : BOOLEAN, cont : BOOLEAN] /\ version \in Versions /\ prog = "held" /\ softreset = TRUE
  BY DEF Init
<1>7. TypeInv
  BY <1>2, <1>3, <1>4, <1>5, <1>6 DEF TypeInv
<1>8. XferInv
  BY DEF Init, XferInv, First
<1>9. Running
  <2>1. Begin(255)
    BY DEF Init, Begin, Offer, Plain
  <2>2. spi.state = 0
    BY DEF Init
  <2>3. InState(spi.state, FALSE, FALSE)
    BY <2>1, <2>2 DEF InState
  <2> QED
    BY <1>6, <2>3 DEF Running
<1>10. HeldWord
  BY DEF Init, HeldWord
<1>11. Calm
  BY <1>2, <1>6 DEF Calm
<1> QED
  BY <1>7, <1>8, <1>9, <1>10, <1>11 DEF IInv

\* Nothing happens.
LEMMA StutterKeeps ==
    ASSUME IInv, UNCHANGED vars
    PROVE  IInv'
<1>1. /\ port' = port /\ prog' = prog /\ cfg' = cfg /\ softreset' = softreset /\ spi' = spi
      /\ xfer' = xfer /\ flash' = flash /\ version' = version
  BY DEF vars
<1>2. TypeInv'
  BY <1>1 DEF IInv, TypeInv, FlashEnds, Dual
<1>3. XferInv'
  BY <1>1 DEF IInv, XferInv, First
<1>4. HeldWord'
  BY <1>1 DEF IInv, HeldWord, ByteAt
<1>5. Calm'
  BY <1>1 DEF IInv, Calm
<1>6. ASSUME NEW d \in BOOLEAN, NEW c \in BOOLEAN, InState(spi.state, d, c)
      PROVE  InState(spi.state, d, c)'
  <2>1. /\ valid' = valid /\ Sent' = Sent /\ Ticks' = Ticks /\ Sampled' = Sampled
        /\ First' = First /\ Idle' = Idle /\ Plain' = Plain /\ Wakes' = Wakes
        /\ Coming' = Coming /\ Before(d)' = Before(d) /\ OneGone(d)' = OneGone(d)
        /\ TwoGone(d)' = TwoGone(d) /\ Reading(d)' = Reading(d)
        /\ \A k : AddrByte(k)' = AddrByte(k) /\ ByteAt(k)' = ByteAt(k)
    BY <1>1 DEF valid, Sent, Ticks, Sampled, Width, First, Idle, Plain, Wakes, Coming, Before,
                OneGone, TwoGone, Reading, AddrByte, ByteAt
  <2>2. \A b, tag, dual, rd : Offer(b, tag, dual, rd)' = Offer(b, tag, dual, rd)
    BY <1>1 DEF Offer
  <2>3. \A e, n, s, b : Going(e, n, s, b)' = Going(e, n, s, b)
    BY <1>1, <2>1 DEF Going
  <2>4. \A b : Begin(b)' = Begin(b)
    BY <1>1, <2>1, <2>2, Zenon DEF Begin
  <2>5. \A n : Mending(n)' = Mending(n)
    BY <1>1, <2>1, ZenonT(40) DEF Mending
  <2>6. Asking(d, c)' = Asking(d, c) /\ Busy(d)' = Busy(d)
    BY <1>1, <2>1, Zenon DEF Asking, Busy
  <2>7. /\ Ones' = Ones /\ Half' = Half /\ MoreOnes' = MoreOnes /\ Recalling' = Recalling
        /\ Releasing' = Releasing /\ Resting' = Resting /\ Commanding(d)' = Commanding(d)
    BY <1>1, <2>1, <2>2, <2>3, <2>4, <2>5, ZenonT(40)
       DEF Ones, Half, MoreOnes, Recalling, Releasing, Resting, Commanding
  <2>8. /\ Addressing(d, c)' = Addressing(d, c) /\ High(d, c)' = High(d, c)
        /\ Middle(d, c)' = Middle(d, c) /\ Low(d, c)' = Low(d, c) /\ Final(d, c)' = Final(d, c)
    BY <1>1, <2>1, <2>2, <2>3, <2>6, ZenonT(40) DEF Addressing, High, Middle, Low, Final
  <2>9. \A m : Got(m)' = Got(m)
    BY <1>1, <2>1, Zenon DEF Got
  <2>10. \A p : Fetching(p, d, c)' = Fetching(p, d, c)
    BY <1>1, <2>1, <2>9, Zenon DEF Fetching
  <2>11. /\ \A p : Streaming(p, d, c)' = Streaming(p, d, c)
         /\ Third(d, c)' = Third(d, c)
    BY <1>1, <2>6, <2>10, Zenon DEF Streaming, Third
  <2>12. /\ Begin(255)' = Begin(255) /\ Streaming(0, d, c)' = Streaming(0, d, c)
         /\ Streaming(1, d, c)' = Streaming(1, d, c) /\ Streaming(3, d, c)' = Streaming(3, d, c)
    BY <2>4, <2>11
  <2> QED
    BY <1>1, <1>6, <2>7, <2>8, <2>11, <2>12 DEF InState
<1>7. Running'
  BY <1>1, <1>6 DEF IInv, Running
<1> QED
  BY <1>2, <1>3, <1>4, <1>5, <1>7 DEF IInv

-----------------------------------------------------------------------------
(* The theorems. *)

\* Every clock, press of the button and clock of the reset keeps the invariant.
THEOREM XipInvariant == Spec => []IInv
<1>1. Init => IInv
  BY InitHolds
<1>2. IInv /\ [Next]_vars => IInv'
  <2> SUFFICES ASSUME IInv, [Next]_vars
               PROVE  IInv'
    OBVIOUS
  <2>1. CASE Clock
    BY <2>1, EdgeKeeps DEF Clock
  <2>2. CASE Press
    BY <2>2, EdgeKeeps DEF Press
  <2>3. CASE Hold
    BY <2>3, EdgeKeeps DEF Hold
  <2>4. CASE UNCHANGED vars
    BY <2>4, StutterKeeps
  <2> QED
    BY <2>1, <2>2, <2>3, <2>4 DEF Next
<1> QED
  BY <1>1, <1>2, PTL DEF Spec

\* What the CPU reads is the word the flash holds, whatever was prefetched,
\* cut off or programmed before, in every mode (spimemio_puya.v:71).
THEOREM XipReads == Spec => []XipFaithful
<1>1. IInv => XipFaithful
  <2> SUFFICES ASSUME IInv, ready
               PROVE  spi.rdata = Word(port.addr)
    BY DEF XipFaithful
  <2>1. /\ spi.rd_valid /\ spi.rd_addr = port.addr /\ spi.rdata \in Seq(Byte)
        /\ port.addr \in FlashAddr /\ port.addr % 4 = 0
    BY DEF ready, IInv, TypeInv, SpiType, PortType
  <2>2. Len(spi.rdata) = 4 /\ \A k \in 1..4 : spi.rdata[k] = ByteAt(port.addr + k - 1)
    BY <2>1 DEF IInv, HeldWord
  <2>3. \A k \in 1..4 : ByteAt(port.addr + k - 1) = Content(version, port.addr + k - 1)
    <3>1. \A a \in FlashAddr : a % 4 = 0 => \A k \in 1..4 : a + k - 1 \in FlashAddr
      BY DEF FlashAddr
    <3>2. \A a \in FlashAddr : a % 2^22 = a
      BY DEF FlashAddr
    <3>3. \A k \in 1..4 : (port.addr + k - 1) % 2^22 = port.addr + k - 1
      BY <2>1, <3>1, <3>2
    <3> QED
      BY <3>3 DEF ByteAt
  <2>4. spi.rdata = [k \in 1..4 |-> spi.rdata[k]]
    BY <2>1, <2>2
  <2>5. \A k \in 1..4 : spi.rdata[k] = Content(version, port.addr + k - 1)
    BY <2>2, <2>3
  <2> QED
    BY <2>4, <2>5, Zenon DEF Word
<1> QED
  BY <1>1, XipInvariant, PTL

\* When 0xAB is sent, and whenever the boot ROM has the pins, the flash takes
\* commands (spimemio_puya.v:381).
THEOREM FlashIsRecovered == Spec => []Recovered
<1>1. IInv => Recovered
  <2> SUFFICES ASSUME IInv
               PROVE  Recovered
    OBVIOUS
  <2>1. PICK d \in BOOLEAN, c \in BOOLEAN : InState(spi.state, d, c)
    BY DEF IInv, Running
  <2>2. spi.state \in {3, 13} => Releasing \/ Resting
    BY <2>1, Being
  <2>3. spi.state \in {3, 13} => ~flash.enhance
    BY <2>2 DEF Releasing, Resting
  <2>4. prog = "manual" => ~flash.enhance
    BY DEF IInv, Calm
  <2> QED
    BY <2>3, <2>4 DEF Recovered
<1> QED
  BY <1>1, XipInvariant, PTL

\* In a state of a read nobody but the flash drives the pins it drives.
LEMMA PinsAreFree ==
    ASSUME NEW d \in BOOLEAN, NEW c \in BOOLEAN, TypeInv, InState(spi.state, d, c),
           FlashOut, spi.state \in 4..12
    PROVE  ~io1_oe /\ (Dual => ~io0_oe)
<1>1. config_en /\ xfer.csb = 0 /\ flash.cmd \in {3, 187} /\ flash.n >= DataFrom
  BY DEF FlashOut, flash_csb
<1>2. DataFrom = (IF flash.cmd = 187 THEN 24 ELSE 32) /\ flash.n \in Nat
  BY DEF DataFrom, Dual, TypeInv, FlashType
<1>3. ~Idle
  BY <1>1 DEF Idle
<1>4. Reading(d) => ~io1_oe /\ (Dual => ~io0_oe)
  BY DEF Reading, io1_oe, io0_oe, Dual
<1>5. xfer.count \in 0..8 /\ xfer.dspi \in BOOLEAN
  BY DEF TypeInv, XferType
<1>6. xfer.count > 0 => Ticks \in 0..(IF xfer.dspi THEN 3 ELSE 7)
  BY <1>5 DEF Ticks, Sent
<1>7. ASSUME NEW n \in Nat, NEW e, NEW s, NEW b, Going(e, n, s, b)
      PROVE  n + (IF xfer.dspi THEN 3 ELSE 7) >= (IF e = 187 THEN 24 ELSE 32)
  BY <1>1, <1>2, <1>5, <1>6, <1>7 DEF Going
<1>8. CASE spi.state = 4
  <2>1. Commanding(d)
    BY <1>8, Being
  <2>2. Reading(d)
    BY <1>3, <2>1 DEF Commanding, Begin
  <2> QED
    BY <1>4, <2>2
<1>9. CASE spi.state = 5
  <2>1. Addressing(d, c)
    BY <1>9, Being
  <2>2. Reading(d)
    <3>1. CASE ~spi.xfer_resetn
      BY <2>1, <3>1 DEF Addressing
    <3>2. CASE spi.xfer_resetn
      <4>1. IF xfer.count > 0 THEN Going(0, 0, 0, Command(d)) ELSE flash.n = 8
        BY <1>1, <2>1, <3>2 DEF Addressing
      <4> QED
        BY <1>1, <1>2, <1>7, <4>1
    <3> QED
      BY <3>1, <3>2
  <2> QED
    BY <1>4, <2>2
<1>10. CASE spi.state \in 6..8
  <2>1. High(d, c) \/ Middle(d, c) \/ Low(d, c)
    BY <1>10, Being
  <2>2. xfer.dspi = d /\ (Command(d) = 187 <=> d) /\ Clocks(d) = (IF d THEN 4 ELSE 8)
    <3>1. Asking(d, c)
      BY <2>1 DEF High, Middle, Low
    <3> QED
      BY <3>1 DEF Asking, Busy, Command, Clocks
  <2>3. \A s, b : /\ ~Going(Command(d), 8, s, b)
                  /\ ~Going(Command(d), 8 + Clocks(d), s, b)
    BY <1>7, <2>2
  <2>4. \A s, b : d => ~Going(187, 16, s, b)
    BY <1>7, <2>2
  <2> QED
    BY <2>1, <2>3, <2>4 DEF High, Middle, Low
<1>11. CASE spi.state \in 9..12
  <2>1. \/ Final(d, c)
        \/ Fetching(0, d, c) \/ Fetching(1, d, c) \/ Fetching(2, d, c) \/ Fetching(3, d, c)
    BY <1>11, Being DEF Streaming, Third
  <2>2. ~Final(d, c)
    <3> SUFFICES ASSUME Final(d, c)
                 PROVE  FALSE
      OBVIOUS
    <3>1. xfer.dspi = d
      BY DEF Final, Asking, Busy
    <3>2. \A s, b : (d => ~Going(187, 20, s, b)) /\ (~d => ~Going(3, 24, s, b))
      BY <1>7, <3>1
    <3> QED
      BY <3>2 DEF Final
  <2>3. \A p : Fetching(p, d, c) => Reading(d)
    BY DEF Fetching
  <2> QED
    BY <1>4, <2>1, <2>2, <2>3
<1> QED
  BY <1>8, <1>9, <1>10, <1>11

\* The controller has let go of the data pins before the flash drives them
\* (spimemio_puya.v:391).
THEOREM PinsNeverContend == Spec => []NoContention
<1>1. IInv => NoContention
  <2> SUFFICES ASSUME IInv, FlashOut, spi.state \in 4..12
               PROVE  ~io1_oe /\ (Dual => ~io0_oe)
    BY DEF NoContention
  <2>1. PICK d \in BOOLEAN, c \in BOOLEAN : InState(spi.state, d, c)
    BY DEF IInv, Running
  <2> QED
    BY <2>1, PinsAreFree DEF IInv
<1> QED
  BY <1>1, XipInvariant, PTL
===============================================================================
