---------------------------- MODULE ProgramProofs ----------------------------
(***************************************************************************)
(* Theorems about the programs that talk to each other over the UART, and  *)
(* about the UART between them: the addresses the host sends, both         *)
(* directions of the line, the command line and the flash mode of the      *)
(* demonstration program, and the interrupts of the interrupt test.        *)
(***************************************************************************)
EXTENDS IspAddress, SimpleUart, FlashFirmware, IrqTest, SequenceTheorems, TLAPS

-----------------------------------------------------------------------------
(* The addresses of an ISP session, for programs of every size.            *)

\* The three bytes of WPAG decode to the page's address.
LEMMA WpagExact ==
  ASSUME NEW a \in Nat, a % 256 = 0, a < LIMIT
  PROVE  Decoded(WpagBytes(a)) = a
<1> DEFINE q == a \div 65536
           p == (a \div 256) % 256
<1>1. a = 65536 * q + 256 * p /\ q \in 0..255 /\ p \in 0..255
  BY SMT DEF LIMIT
<1>2. a \div 65535 = q
  BY <1>1, SMT DEF LIMIT
<1> QED BY <1>1, <1>2 DEF Decoded, WpagBytes

\* The three bytes of ESEC decode to the start of the sector of the address.
LEMMA EsecExact ==
  ASSUME NEW a \in Nat, a % 256 = 0, a < LIMIT
  PROVE  Decoded(EsecBytes(a)) \div SECTOR = a \div SECTOR
<1> DEFINE q == a \div 65536
           p == (a \div 256) % 256
<1>1. a = 65536 * q + 256 * p /\ q \in 0..255 /\ p \in 0..255
  BY SMT DEF LIMIT
<1>2. a \div 65535 = q
  BY <1>1, SMT DEF LIMIT
<1>3. Decoded(EsecBytes(a)) = 65536 * q + 256 * ((p \div 16) * 16)
  BY <1>1, <1>2 DEF Decoded, EsecBytes
<1> QED BY <1>1, <1>3, SMTT(40) DEF SECTOR

\* The loops and the flash: while page j of sector i is next, everything before
\* it and nothing else has been programmed, in sectors erased before.
IInv ==
  /\ rembyte \in Lengths /\ i \in Nat /\ j \in 0..15
  /\ phase \in {"esec", "wpag", "done"}
  /\ curraddr \in Nat /\ erased \in Int
  /\ phase = "esec" =>
       16 * i < pagereq /\ curraddr = 4096 * i /\ top = curraddr /\ erased = i - 1
  /\ phase = "wpag" =>
       /\ 16 * i + j < pagereq
       /\ curraddr = 4096 * i + 256 * j /\ top = curraddr /\ erased = i
  /\ phase = "done" => top = pagereq * PAGE

\* The size of a program, without the limit's digits, which are no help in the
\* steps below.
LEMMA Sizes ==
  ASSUME rembyte \in Lengths
  PROVE  rembyte \in Nat /\ rembyte >= 1 /\ rembyte <= LIMIT
<1>1. LIMIT \in Nat
  BY SMT DEF LIMIT
<1> QED BY <1>1, LengthsAssumption

\* The sectors needed are those of the pages needed.
LEMMA Requirements ==
  ASSUME rembyte \in Nat, rembyte >= 1, rembyte <= LIMIT
  PROVE  /\ pagereq \in Nat /\ sectreq \in Nat
         /\ sectreq = (pagereq - 1) \div 16 + 1
         /\ 256 * pagereq <= LIMIT /\ pagereq >= 1
<1>1. LIMIT \in Nat /\ LIMIT = 16776960
  BY SMT DEF LIMIT
<1>2. PICK m \in Nat : m = rembyte - 1
  BY SMT
<1>3. pagereq = m \div 256 + 1 /\ sectreq = m \div 4096 + 1
  BY <1>2, SMT DEF pagereq, sectreq
<1>4. m \div 256 \in Nat /\ m \div 256 <= 65534 /\ m \div 4096 \in Nat
  BY <1>1, <1>2, SMT
<1>5. m \div 4096 = (m \div 256) \div 16
  BY <1>2
<1> QED BY <1>1, <1>3, <1>4, <1>5, SMT

\* The address of a page in the loops is a multiple of the page size, below the
\* limit.
LEMMA InRange ==
  ASSUME NEW a \in Nat, NEW k \in Nat, NEW n \in Nat,
         a = 256 * k, k < n, 256 * n <= LIMIT
  PROVE  a % 256 = 0 /\ a < LIMIT
  BY SMT DEF LIMIT

\* The loops begin with the first sector, nothing erased.
LEMMA InitIInv == AddressInit => IInv
<1> SUFFICES ASSUME AddressInit PROVE IInv
  OBVIOUS
<1>1. rembyte \in Nat /\ rembyte >= 1 /\ rembyte <= LIMIT
  BY Sizes DEF AddressInit
<1>2. pagereq >= 1 /\ pagereq \in Nat
  BY <1>1, Requirements
<1> QED BY <1>2 DEF AddressInit, IInv

\* ESEC erases the sector that begins where the data programmed so far ends.
LEMMA EraseStep ==
  ASSUME IInv, EraseSector PROVE IInv' /\ erased' * SECTOR = top /\ phase = "esec"
<1>1. rembyte \in Nat /\ rembyte >= 1 /\ rembyte <= LIMIT
  BY Sizes DEF IInv
<1>2. pagereq \in Nat /\ 256 * pagereq <= LIMIT
  BY <1>1, Requirements
<1>3. i \in Nat /\ 16 * i < pagereq /\ curraddr = 4096 * i /\ top = curraddr /\ erased = i - 1
  BY DEF IInv, EraseSector
<1>4. curraddr % 256 = 0 /\ curraddr < LIMIT /\ curraddr \in Nat
  <2>1. curraddr = 256 * (16 * i) /\ 16 * i \in Nat /\ curraddr \in Nat
    BY <1>3
  <2> QED BY <1>2, <1>3, <2>1, InRange
<1>5. erased' = i
  BY <1>3, <1>4, EsecExact DEF EraseSector, SECTOR
<1>6. pagereq' = pagereq
  BY DEF EraseSector, pagereq
<1> QED BY <1>3, <1>5, <1>6 DEF EraseSector, IInv, SECTOR

\* WPAG programs the next page, in the sector erased last, and the loops go on to the right place.
LEMMA ProgramStep ==
  ASSUME IInv, ProgramPage
  PROVE  IInv' /\ top' = top + PAGE /\ top \div SECTOR = erased /\ phase = "wpag"
<1>1. rembyte \in Nat /\ rembyte >= 1 /\ rembyte <= LIMIT
  BY Sizes DEF IInv
<1>2. /\ pagereq \in Nat /\ 256 * pagereq <= LIMIT /\ sectreq \in Nat
      /\ sectreq = (pagereq - 1) \div 16 + 1 /\ pagereq >= 1
  BY <1>1, Requirements
<1>3. /\ i \in Nat /\ j \in 0..15 /\ 16 * i + j < pagereq
      /\ curraddr = 4096 * i + 256 * j /\ top = curraddr /\ erased = i
  BY DEF IInv, ProgramPage
<1>4. curraddr % 256 = 0 /\ curraddr < LIMIT /\ curraddr \in Nat
  <2>1. curraddr = 256 * (16 * i + j) /\ 16 * i + j \in Nat /\ curraddr \in Nat
    BY <1>3
  <2> QED BY <1>2, <1>3, <2>1, InRange
<1>5. top' = curraddr + 256
  BY <1>4, WpagExact DEF ProgramPage, PAGE
<1>6. pagereq' = pagereq /\ sectreq' = sectreq
  BY DEF ProgramPage, pagereq, sectreq
<1>7. top \div SECTOR = erased
  BY <1>3 DEF SECTOR
<1>8. curraddr' = 4096 * i + 256 * (j + 1)
  BY <1>3 DEF ProgramPage, PAGE
<1>9. IInv'
  <2>1. CASE ~LastPage /\ j' = j + 1 /\ UNCHANGED <<i, phase>>
    BY <1>2, <1>3, <1>5, <1>6, <1>8, <2>1 DEF LastPage, ProgramPage, IInv
  <2>2. CASE LastPage /\ i + 1 < sectreq /\ i' = i + 1 /\ phase' = "esec" /\ UNCHANGED j
    <3>1. 16 * (i + 1) < pagereq /\ j = 15
      BY <1>2, <1>3, <2>2 DEF LastPage
    <3> QED BY <1>3, <1>5, <1>6, <1>8, <2>2, <3>1 DEF ProgramPage, IInv
  <2>3. CASE LastPage /\ i + 1 = sectreq /\ phase' = "done" /\ UNCHANGED <<i, j>>
    <3>1. pagereq = 16 * i + j + 1
      BY <1>2, <1>3, <2>3 DEF LastPage
    <3>2. top' = pagereq * 256
      BY <1>2, <1>3, <1>5, <3>1
    <3> QED BY <1>3, <1>6, <1>8, <2>3, <3>2 DEF ProgramPage, IInv, PAGE
  <2> QED BY <2>1, <2>2, <2>3 DEF ProgramPage
<1> QED BY <1>3, <1>5, <1>7, <1>9 DEF ProgramPage, PAGE

\* The invariant is inductive.
LEMMA StepIInv == IInv /\ [AddressNext]_addressVars => IInv'
<1> SUFFICES ASSUME IInv, [AddressNext]_addressVars PROVE IInv'
  OBVIOUS
<1>1. CASE EraseSector
  BY <1>1, EraseStep
<1>2. CASE ProgramPage
  BY <1>2, ProgramStep
<1>3. CASE UNCHANGED addressVars
  BY <1>3 DEF addressVars, IInv, pagereq
<1> QED BY <1>1, <1>2, <1>3 DEF AddressNext

\* pico-programmer.py:154-202: for a program of any size up to 0xFFFF00 bytes,
\* the loops end with its pages in the flash and none besides.
THEOREM EveryPage == AddressSpec => []AllPages
<1>1. IInv => AllPages
  BY DEF IInv, AllPages
<1> QED BY <1>1, InitIInv, StepIInv, PTL DEF AddressSpec

\* pico-programmer.py:20-62, isp_flasher.c:183-219: and on the way each page is
\* programmed once, in order, in the sector erased last.
THEOREM Ordered == AddressSpec => PagesInOrder
<1>1. IInv /\ [AddressNext]_addressVars =>
        [/\ phase = "wpag" => top' = top + PAGE /\ top \div SECTOR = erased
         /\ phase = "esec" => erased' * SECTOR = top]_addressVars
  <2> SUFFICES ASSUME IInv, AddressNext
      PROVE /\ phase = "wpag" => top' = top + PAGE /\ top \div SECTOR = erased
            /\ phase = "esec" => erased' * SECTOR = top
    OBVIOUS
  <2>1. CASE EraseSector
    BY <2>1, EraseStep
  <2>2. CASE ProgramPage
    BY <2>2, ProgramStep
  <2> QED BY <2>1, <2>2 DEF AddressNext
<1> QED BY <1>1, InitIInv, StepIInv, PTL DEF AddressSpec, PagesInOrder

-----------------------------------------------------------------------------
(* Both directions of the UART, for every divider, every pair of rates     *)
(* that match it, all bytes, and any number of them.                       *)
(*                                                                         *)
(* A frame has an age, the clocks since its start bit.  The controller     *)
(* counts it in bits and clocks of a bit, the peer on its own clock: the   *)
(* invariants say that the two agree, and where in the byte both are.      *)

\* The clocks of k bits.
Clocks(k) == k * BitTime

RateOf == {r \in (Nat \ {0}) \X (Nat \ {0}) : RateMatches(r)}
-----------------------------------------------------------------------------
(* The operators. *)

\* Times of the bits.
LEMMA BitTimes ==
    /\ Divider \in Nat \ {0} /\ BitTime \in Nat /\ BitTime = Divider + 2
    /\ HalfTime \in Nat /\ HalfTime = 2 + Divider \div 2
<1>1. Divider \in Nat \ {0}
  BY UartAssumption
<1> QED
  BY <1>1 DEF BitTime, HalfTime

\* Bits follow one another without a gap.
LEMMA ClocksIs ==
    /\ \A k \in Nat : Clocks(k) \in Nat /\ Clocks(k + 1) = Clocks(k) + BitTime
    /\ Clocks(0) = 0
    /\ \A u, k \in Nat : u < k => Clocks(u) + BitTime <= Clocks(k)
<1>1. BitTime \in Nat
  BY BitTimes
<1>2. \A k \in Nat : k * BitTime \in Nat /\ (k + 1) * BitTime = k * BitTime + BitTime
  BY <1>1
<1>3. 0 * BitTime = 0
  BY <1>1
<1>4. \A u, k \in Nat : u < k => u * BitTime + BitTime <= k * BitTime
  <2> SUFFICES ASSUME NEW u \in Nat, NEW k \in Nat, u < k
               PROVE  u * BitTime + BitTime <= k * BitTime
    OBVIOUS
  <2>1. \A x, y, b \in Nat : x <= y => x * b <= y * b
    OBVIOUS
  <2>2. (u + 1) * BitTime <= k * BitTime
    BY <1>1, <2>1
  <2> QED
    BY <1>2, <2>2
<1> QED
  BY <1>2, <1>3, <1>4 DEF Clocks

\* A clock is in one bit only.
LEMMA OneBit ==
    ASSUME NEW u \in Nat, NEW k \in Nat, NEW d \in 0..(BitTime - 1), NEW e \in 0..(BitTime - 1),
           Clocks(u) + d = Clocks(k) + e
    PROVE  u = k /\ d = e
<1>1. Clocks(u) \in Nat /\ Clocks(k) \in Nat /\ BitTime \in Nat
  BY ClocksIs, BitTimes
<1>2. ~(u < k)
  BY <1>1, ClocksIs
<1>3. ~(k < u)
  BY <1>1, ClocksIs
<1>4. u = k
  BY <1>2, <1>3
<1> QED
  BY <1>1, <1>4

\* Powers of two up to the length of a frame.
LEMMA Powers ==
    /\ 2^0 = 1 /\ 2^1 = 2 /\ 2^2 = 4 /\ 2^3 = 8 /\ 2^4 = 16 /\ 2^5 = 32
    /\ 2^6 = 64 /\ 2^7 = 128 /\ 2^8 = 256 /\ 2^9 = 512 /\ 2^10 = 1024
OBVIOUS

\* What is left of a frame after k bits, the ones that follow it in front.
Left(b, k) == 1024 - 2^(10 - k) + Frame(b) \div 2^k

\* The frame's first k bits, where the peer's shift register has them.
TakenOn(b, k) == (Frame(b) % 2^k) * 2^(10 - k)

\* The register that sends, a bit at a time.
LEMMA SendBit ==
    ASSUME NEW b \in Byte, NEW k \in 0..9
    PROVE  /\ Left(b, 0) = Frame(b) /\ Left(b, k) \in 0..1023
           /\ Left(b, k) % 2 = Bit(Frame(b), k)
           /\ Left(b, k + 1) = 512 + Left(b, k) \div 2
           /\ k = 9 => Left(b, k) = 1023
<1> USE Powers DEF Left, Frame, Bit, Byte
<1>0. CASE k = 0 BY <1>0
<1>1. CASE k = 1 BY <1>1
<1>2. CASE k = 2 BY <1>2
<1>3. CASE k = 3 BY <1>3
<1>4. CASE k = 4 BY <1>4
<1>5. CASE k = 5 BY <1>5
<1>6. CASE k = 6 BY <1>6
<1>7. CASE k = 7 BY <1>7
<1>8. CASE k = 8 BY <1>8
<1>9. CASE k = 9 BY <1>9
<1> HIDE Powers DEF Left, Frame, Bit, Byte
<1> QED
  BY <1>0, <1>1, <1>2, <1>3, <1>4, <1>5, <1>6, <1>7, <1>8, <1>9

\* The register of the peer.
LEMMA TakeBit ==
    ASSUME NEW b \in Byte, NEW k \in 0..9
    PROVE  /\ TakenOn(b, 0) = 0 /\ TakenOn(b, 10) = Frame(b)
           /\ TakenOn(b, k + 1) = 512 * Bit(Frame(b), k) + TakenOn(b, k) \div 2
           /\ TakenOn(b, k) \in Nat
<1> USE Powers DEF TakenOn, Frame, Bit, Byte
<1>0. CASE k = 0 BY <1>0
<1>1. CASE k = 1 BY <1>1
<1>2. CASE k = 2 BY <1>2
<1>3. CASE k = 3 BY <1>3
<1>4. CASE k = 4 BY <1>4
<1>5. CASE k = 5 BY <1>5
<1>6. CASE k = 6 BY <1>6
<1>7. CASE k = 7 BY <1>7
<1>8. CASE k = 8 BY <1>8
<1>9. CASE k = 9 BY <1>9
<1> HIDE Powers DEF TakenOn, Frame, Bit, Byte
<1> QED
  BY <1>0, <1>1, <1>2, <1>3, <1>4, <1>5, <1>6, <1>7, <1>8, <1>9

\* x \div y = k says between which multiples x is.
LEMMA DivIs ==
    ASSUME NEW x \in Nat, NEW y \in Nat \ {0}, NEW k \in Nat
    PROVE  /\ x \div y \in Nat
           /\ x \div y = k => k * y <= x /\ x < k * y + y
OBVIOUS

\* The peer takes each bit of a frame in the clocks of that bit, none at once.
LEMMA SamplesIn ==
    ASSUME rate \in RateOf
    PROVE  /\ \A k \in 0..9 : /\ SampleTime(k) \in Nat
                              /\ Clocks(k) <= SampleTime(k)
                              /\ SampleTime(k) < Clocks(k) + BitTime
           /\ SampleTime(0) >= 1
<1>1. rate[1] \in Nat \ {0} /\ rate[2] \in Nat \ {0} /\ RateMatches(rate)
  BY DEF RateOf
<1>2. BitTime \in Nat \ {0} /\ BitTime >= 3
  BY BitTimes
<1>3. ASSUME NEW k \in 0..9
      PROVE  /\ SampleTime(k) \in Nat
             /\ Clocks(k) <= SampleTime(k)
             /\ SampleTime(k) < Clocks(k) + BitTime
  <2>1. (((2*k + 1) * rate[1]) \div (2 * rate[2])) \div BitTime = k
    BY <1>1 DEF RateMatches
  <2>2. SampleTime(k) \div BitTime = k
    BY <2>1 DEF SampleTime
  <2>3. (2*k + 1) * rate[1] \in Nat /\ 2 * rate[2] \in Nat \ {0}
    <3>1. \A x, y \in Nat : x * y \in Nat
      OBVIOUS
    <3>2. 2*k + 1 \in Nat
      OBVIOUS
    <3> QED
      BY <1>1, <3>1, <3>2
  <2>4. SampleTime(k) \in Nat
    BY <2>3, DivIs DEF SampleTime
  <2> QED
    BY <1>2, <2>2, <2>4, DivIs DEF Clocks
<1>4. SampleTime(0) >= 1
  <2> DEFINE x == rate[1]
             y == 2 * rate[2]
  <2>1. x \in Nat /\ y \in Nat \ {0} /\ SampleTime(0) = x \div y /\ SampleTime(1) = (3 * x) \div y
    <3>1. (2*0 + 1) * x = x /\ (2*1 + 1) * x = 3 * x
      BY <1>1
    <3> QED
      BY <1>1, <3>1 DEF SampleTime
  <2>2. SampleTime(1) >= 3
    BY <1>2, <1>3, ClocksIs DEF Clocks
  <2> HIDE DEF x, y
  <2>3. 3 * y <= 3 * x
    <3>1. (3 * x) \div y \in Nat /\ ((3 * x) \div y) * y <= 3 * x
      BY <2>1, DivIs
    <3>2. \A m, n, z \in Nat : m <= n => m * z <= n * z
      OBVIOUS
    <3>3. 3 * y <= ((3 * x) \div y) * y
      BY <2>1, <2>2, <3>1, <3>2
    <3> QED
      BY <2>1, <3>1, <3>3
  <2>4. y <= x
    BY <2>1, <2>3
  <2> QED
    BY <2>1, <2>4
<1> QED
  BY <1>3, <1>4
-----------------------------------------------------------------------------
(* The program. *)

PortType ==
    /\ cfg_divider \in Nat /\ divs \in Nat
    /\ port \in [op : {"none", "div", "get", "put"}, byte : Byte]
    /\ rate \in RateOf

\* The divider is the program's before anything is sent, either way.
DividerInv ==
    /\ divs = 0 => port.op = "none"
    /\ divs > 0 => cfg_divider = Divider \/ port.op = "div"
    /\ port.op \in {"get", "put"} => cfg_divider = Divider

\* What the bus does in a clock.
LEMMA PortNext ==
    ASSUME PortType, DividerInv, Next
    PROVE  /\ PortType' /\ DividerInv'
           /\ cfg_divider = Divider \/ divs > 0 => cfg_divider' = Divider
           /\ divs' >= divs
<1>1. Divider \in Nat
  BY BitTimes
<1>2. PutBytes \subseteq Byte /\ 0 \in Byte
  BY UartAssumption DEF Byte
<1>3. Cpu /\ rate' = rate
  BY DEF Next
<1>4. cfg_divider' = IF port.op = "div" THEN Divider ELSE cfg_divider
  BY <1>3 DEF Cpu, reg_div_we
<1>5. CASE Request
  BY <1>1, <1>2, <1>3, <1>4, <1>5 DEF Request, PortType, DividerInv, NoRequest
<1>6. CASE Held
  BY <1>1, <1>3, <1>4, <1>6 DEF Cpu, Request, Held, PortType, DividerInv, NoRequest,
                               reg_dat_wait, reg_dat_we
<1>7. CASE Answered
  BY <1>1, <1>2, <1>3, <1>4, <1>7 DEF Cpu, Request, Answered, PortType, DividerInv, NoRequest
<1> QED
  BY <1>3, <1>5, <1>6, <1>7 DEF Cpu
-----------------------------------------------------------------------------
(* From the program to the peer. *)

SendType ==
    /\ send_pattern \in 0..1023 /\ send_bitcnt \in 0..15 /\ send_divcnt \in Nat
    /\ send_dummy \in BOOLEAN
    /\ puts \in Seq(Byte) /\ heard \in Seq(Nat)
    /\ hear \in [on : BOOLEAN, t : Nat, k : 0..9, bits : Nat]

\* The peer has heard the first n bytes.
HeardAre(n) == Len(heard) = n /\ \A c \in 1..n : heard[c] = Frame(puts[c])

\* Ones on the line, and nothing owed.
Quiet == send_pattern = 1023 /\ hear = Deaf /\ HeardAre(Len(puts))

\* The frame on the line, its age on the controller's clock, and where the peer
\* is with it on its own.
LastPut == puts[Len(puts)]
Age  == Clocks(10 - send_bitcnt) + send_divcnt

Busy ==
    /\ puts # <<>> /\ cfg_divider = Divider
    /\ send_bitcnt \in 1..10 /\ send_divcnt \in 0..(BitTime - 1)
    /\ send_pattern = Left(LastPut, 10 - send_bitcnt)
    /\ HeardAre(Len(puts) - 1)
    /\ Age = 0 => hear = Deaf
    /\ Age > 0 => /\ hear.on /\ hear.t = Age /\ hear.bits = TakenOn(LastPut, hear.k)
                  /\ Age <= SampleTime(hear.k)

TxInv == SendType /\ (Quiet \/ Busy)

\* Nothing is accepted but when the last frame is over.
LEMMA PutsNext ==
    ASSUME Next, SendType, PortType
    PROVE  /\ puts' \in Seq(Byte)
           /\ send_bitcnt # 0 \/ send_dummy \/ port.op # "put" => puts' = puts
           /\ send_bitcnt = 0 /\ ~send_dummy /\ port.op = "put" =>
                 puts' = Append(puts, port.byte)
<1>1. puts' = IF reg_dat_we /\ ~reg_dat_wait THEN Append(puts, port.byte) ELSE puts
  BY DEF Next, Cpu
<1>2. port.byte \in Byte /\ puts \in Seq(Byte)
  BY DEF SendType, PortType
<1> QED
  BY <1>1, <1>2 DEF reg_dat_we, reg_dat_wait

\* On a quiet line the peer hears nothing.
LEMMA QuietHears ==
    ASSUME Quiet, PeerHears
    PROVE  hear' = Deaf /\ heard' = heard
<1>1. ser_tx = 1 /\ ~hear.on
  BY DEF Quiet, ser_tx, Deaf
<1> QED
  BY <1>1 DEF PeerHears

\* The line stays quiet, or a frame begins.
LEMMA QuietNext ==
    ASSUME TxInv, PortType, DividerInv, Next, Quiet
    PROVE  TxInv'
<1>1. /\ SendType /\ PeerHears /\ Transmitter
  BY DEF TxInv, Next
<1>2. hear' = Deaf /\ heard' = heard
  BY <1>1, QuietHears
<1>3. Deaf \in [on : BOOLEAN, t : Nat, k : 0..9, bits : Nat]
  BY DEF Deaf
<1>4. CASE TxLoad
  <2>1. /\ ~send_dummy /\ send_bitcnt = 0 /\ port.op = "put" /\ send_dummy' = send_dummy
        /\ send_pattern' = Frame(port.byte) /\ send_bitcnt' = 10 /\ send_divcnt' = 0
    BY <1>4 DEF TxLoad, reg_dat_we
  <2>2. puts' = Append(puts, port.byte) /\ port.byte \in Byte /\ puts \in Seq(Byte)
    BY <1>1, <2>1, PutsNext DEF SendType, PortType
  <2>3. /\ puts' \in Seq(Byte) /\ puts' # <<>> /\ Len(puts') = Len(puts) + 1
        /\ LastPut' = port.byte /\ \A c \in 1..Len(puts) : puts'[c] = puts[c]
    BY <2>2 DEF LastPut
  <2>4. HeardAre(Len(puts) - 1)'
    <3> DEFINE n == Len(puts)
    <3>1. n \in Nat /\ Len(puts') - 1 = n /\ \A c \in 1..n : puts'[c] = puts[c]
      BY <2>2, <2>3
    <3>2. Len(heard) = n /\ \A c \in 1..n : heard[c] = Frame(puts[c])
      BY DEF Quiet, HeardAre
    <3> HIDE DEF n
    <3>3. Len(heard') = n /\ \A c \in 1..n : heard'[c] = Frame(puts'[c])
      BY <1>2, <3>1, <3>2
    <3> QED
      BY <3>1, <3>3 DEF HeardAre
  <2>5. cfg_divider' = Divider
    BY <2>1, PortNext DEF DividerInv
  <2>6. Age' = 0
    <3>1. 10 - send_bitcnt' = 0
      BY <2>1
    <3>2. Age' = Clocks(0) + 0
      BY <2>1, <3>1 DEF Age
    <3> QED
      BY <3>2, ClocksIs
  <2>7. send_pattern' = Left(LastPut', 10 - send_bitcnt') /\ send_pattern' \in 0..1023
    <3>1. 10 - send_bitcnt' = 0
      BY <2>1
    <3>2. Frame(port.byte) = Left(port.byte, 0) /\ Left(port.byte, 0) \in 0..1023
      BY <2>2, SendBit
    <3> QED
      BY <2>1, <2>3, <3>1, <3>2
  <2>8. Busy'
    BY <1>2, <2>1, <2>3, <2>4, <2>5, <2>6, <2>7, BitTimes DEF Busy
  <2> QED
    BY <1>1, <1>2, <1>3, <2>1, <2>3, <2>7, <2>8 DEF TxInv, SendType
<1>5. CASE TxDummy \/ TxShift \/ TxIdle
  <2>1. puts' = puts
    BY <1>1, <1>5, PutsNext DEF TxDummy, TxShift, TxIdle, reg_dat_we
  <2>2. Quiet'
    <3>1. send_pattern' = 1023
      BY <1>5 DEF TxDummy, TxShift, TxIdle, Quiet
    <3> QED
      BY <1>2, <2>1, <3>1 DEF Quiet, HeardAre
  <2>3. send_bitcnt' \in 0..15 /\ send_divcnt' \in Nat
    <3>1. CASE TxDummy \/ TxIdle
      BY <1>1, <3>1 DEF TxDummy, TxIdle, SendType
    <3>2. CASE TxShift
      <4>1. send_bitcnt # 0 /\ (\/ send_bitcnt' = send_bitcnt - 1 /\ send_divcnt' = 0
                                \/ send_bitcnt' = send_bitcnt /\ send_divcnt' = send_divcnt + 1)
        BY <3>2 DEF TxShift
      <4>2. send_bitcnt \in 0..15 /\ send_divcnt \in Nat
        BY <1>1 DEF SendType
      <4> QED
        BY <4>1, <4>2
    <3> QED
      BY <1>5, <3>1, <3>2
  <2>4. send_dummy' \in BOOLEAN
    BY <1>1, <1>5, ZenonT(40) DEF TxDummy, TxShift, TxIdle, SendType, reg_div_we
  <2>5. send_pattern' \in 0..1023
    BY <2>2 DEF Quiet
  <2> QED
    BY <1>1, <1>2, <1>3, <2>1, <2>2, <2>3, <2>4, <2>5 DEF TxInv, SendType
<1> QED
  BY <1>1, <1>4, <1>5 DEF Transmitter

\* While a frame is on the line the controller shifts; the bit on the line is the
\* one of the frame's age.
LEMMA BusyShifts ==
    ASSUME SendType, PortType, DividerInv, Busy, Next
    PROVE  /\ puts' = puts /\ LastPut \in Byte /\ cfg_divider' = Divider
           /\ ser_tx = Bit(Frame(LastPut), 10 - send_bitcnt)
           /\ IF send_divcnt = BitTime - 1
              THEN send_bitcnt' = send_bitcnt - 1 /\ send_divcnt' = 0
              ELSE send_bitcnt' = send_bitcnt /\ send_divcnt' = send_divcnt + 1
           /\ send_bitcnt' \in 0..10 /\ send_divcnt' \in 0..(BitTime - 1)
           /\ send_pattern' = Left(LastPut, 10 - send_bitcnt') /\ send_pattern' \in 0..1023
           /\ Age' = Age + 1 /\ Age \in Nat
           /\ send_dummy' \in BOOLEAN
<1> DEFINE u == 10 - send_bitcnt
<1>1. /\ send_bitcnt \in 1..10 /\ send_divcnt \in 0..(BitTime - 1) /\ cfg_divider = Divider
      /\ u \in 0..9 /\ puts # <<>> /\ puts \in Seq(Byte) /\ send_pattern = Left(LastPut, u)
      /\ send_pattern \in 0..1023 /\ send_dummy \in BOOLEAN
  BY DEF Busy, SendType
<1>0. send_bitcnt = 10 - u /\ (10 - send_bitcnt = u)
  BY <1>1
<1> HIDE DEF u
<1>2. LastPut \in Byte
  BY <1>1 DEF LastPut
<1>3. puts' = puts
  BY <1>1, PutsNext
<1>4. TxShift
  BY <1>1 DEF Next, Transmitter, TxDummy, TxLoad, TxIdle
<1>5. send_dummy' \in BOOLEAN
  BY <1>1, <1>4, Zenon DEF TxShift, reg_div_we
<1>6. /\ BitTime \in Nat /\ BitTime = Divider + 2 /\ Divider \in Nat
      /\ Clocks(u) \in Nat /\ Clocks(u + 1) = Clocks(u) + BitTime
  <2>1. u \in Nat
    BY <1>1
  <2> QED
    BY <2>1, BitTimes, ClocksIs
<1>12. \A x \in 0..1023 : 512 + x \div 2 \in 0..1023
  OBVIOUS
<1>7. IF send_divcnt = BitTime - 1
      THEN /\ send_bitcnt' = send_bitcnt - 1 /\ send_divcnt' = 0
           /\ send_pattern' = 512 + send_pattern \div 2
      ELSE /\ send_bitcnt' = send_bitcnt /\ send_divcnt' = send_divcnt + 1
           /\ send_pattern' = send_pattern
  <2>1. IF send_divcnt > Divider
        THEN /\ send_bitcnt' = send_bitcnt - 1 /\ send_divcnt' = 0
             /\ send_pattern' = 512 + send_pattern \div 2
        ELSE /\ send_bitcnt' = send_bitcnt /\ send_divcnt' = send_divcnt + 1
             /\ send_pattern' = send_pattern
    BY <1>1, <1>4 DEF TxShift
  <2>2. send_divcnt > Divider <=> send_divcnt = BitTime - 1
    BY <1>1, <1>6
  <2> QED
    BY <2>1, <2>2
<1>8. /\ Left(LastPut, u) % 2 = Bit(Frame(LastPut), u)
      /\ Left(LastPut, u + 1) = 512 + Left(LastPut, u) \div 2
      /\ Left(LastPut, u) \in 0..1023
  BY <1>1, <1>2, SendBit, SMTT(40)
<1>9. Age = Clocks(u) + send_divcnt /\ Age' = Clocks(10 - send_bitcnt') + send_divcnt'
  BY <1>0 DEF Age
<1>10. CASE send_divcnt = BitTime - 1
  <2>1. 10 - send_bitcnt' = u + 1 /\ send_bitcnt' \in 0..10
    BY <1>0, <1>1, <1>7, <1>10
  <2>3. Age' = Age + 1 /\ Age \in Nat
    BY <1>1, <1>6, <1>7, <1>9, <1>10, <2>1
  <2>4. send_pattern' = Left(LastPut, 10 - send_bitcnt') /\ send_pattern' \in 0..1023
    <3>0. send_pattern' = 512 + send_pattern \div 2
      BY <1>7, <1>10, Zenon
    <3>1. send_pattern' \in 0..1023
      BY <1>1, <1>12, <3>0, ZenonT(40)
    <3>2. send_pattern' = Left(LastPut, u + 1)
      BY <1>1, <1>8, <3>0, Zenon
    <3> QED
      BY <2>1, <3>1, <3>2, Zenon
  <2>5. ser_tx = Bit(Frame(LastPut), u)
    BY <1>1, <1>8 DEF ser_tx
  <2> QED
    <3>1. cfg_divider' = Divider
      BY <1>1, PortNext
    <3>2. send_bitcnt' \in 0..10 /\ send_divcnt' \in 0..(BitTime - 1)
      BY <1>6, <1>7, <1>10, <2>1
    <3> QED
      BY <1>0, <1>2, <1>3, <1>5, <1>7, <1>10, <2>3, <2>4, <2>5, <3>1, <3>2
<1>11. CASE send_divcnt # BitTime - 1
  <2>1. 10 - send_bitcnt' = u
    BY <1>0, <1>1, <1>7, <1>11
  <2>3. Age' = Age + 1 /\ Age \in Nat /\ send_divcnt' \in 0..(BitTime - 1)
    BY <1>1, <1>6, <1>7, <1>9, <1>11, <2>1
  <2>4. send_pattern' = Left(LastPut, 10 - send_bitcnt') /\ send_pattern' \in 0..1023
    BY <1>1, <1>7, <1>8, <1>11, <2>1
  <2>5. ser_tx = Bit(Frame(LastPut), u)
    BY <1>1, <1>8 DEF ser_tx
  <2> QED
    <3>1. cfg_divider' = Divider
      BY <1>1, PortNext
    <3>2. send_bitcnt' \in 0..10
      BY <1>1, <1>7, <1>11
    <3> QED
      BY <1>0, <1>2, <1>3, <1>5, <1>7, <1>11, <2>3, <2>4, <2>5, <3>1, <3>2
<1> QED
  BY <1>10, <1>11

\* The peer, while a frame is on the line: it takes the bit of the frame's age, in
\* the clock its sample is due, and the frame is heard with its last bit.
LEMMA BusyHears ==
    ASSUME SendType, PortType, DividerInv, Busy, Next
    PROVE  \/ /\ heard' = heard /\ hear' \in [on : BOOLEAN, t : Nat, k : 0..9, bits : Nat]
              /\ hear'.on /\ hear'.t = Age + 1 /\ hear'.bits = TakenOn(LastPut, hear'.k)
              /\ Age + 1 <= SampleTime(hear'.k)
           \/ /\ heard' = Append(heard, Frame(LastPut)) /\ hear' = Deaf
              /\ send_bitcnt = 1 /\ send_pattern = 1023
<1> DEFINE u == 10 - send_bitcnt
<1>1. /\ send_bitcnt \in 1..10 /\ send_divcnt \in 0..(BitTime - 1) /\ u \in 0..9
      /\ LastPut \in Byte /\ ser_tx = Bit(Frame(LastPut), u) /\ Age \in Nat
      /\ Age = Clocks(u) + send_divcnt /\ send_pattern = Left(LastPut, u)
  BY BusyShifts DEF Busy, Age
<1>2. /\ Age = 0 => hear = Deaf
      /\ Age > 0 => /\ hear.on /\ hear.t = Age /\ hear.bits = TakenOn(LastPut, hear.k)
                    /\ Age <= SampleTime(hear.k)
      /\ hear \in [on : BOOLEAN, t : Nat, k : 0..9, bits : Nat]
  BY DEF Busy, SendType
<1>3. PeerHears
  BY DEF Next
<1>4. \A k \in 0..9 : /\ SampleTime(k) \in Nat
                      /\ Clocks(k) <= SampleTime(k)
                      /\ SampleTime(k) < Clocks(k) + BitTime
                      /\ Clocks(k) \in Nat /\ Clocks(k + 1) = Clocks(k) + BitTime
  <2>1. \A k \in 0..9 : k \in Nat
    OBVIOUS
  <2>2. \A k \in 0..9 : Clocks(k) \in Nat /\ Clocks(k + 1) = Clocks(k) + BitTime
    BY <2>1, ClocksIs
  <2> QED
    BY <2>2, SamplesIn DEF PortType
<1>5. BitTime \in Nat
  BY BitTimes
<1>6. CASE Age = 0
  <2>1. hear = Deaf /\ ~hear.on
    BY <1>2, <1>6 DEF Deaf
  <2>2. u = 0
    <3> HIDE DEF u
    <3>1. Clocks(u) \in Nat /\ Clocks(u) = 0 /\ BitTime >= 1
      BY <1>1, <1>4, <1>6, BitTimes
    <3>2. 0 < u => Clocks(0) + BitTime <= Clocks(u)
      BY <1>1, ClocksIs
    <3>3. u \in Nat /\ Clocks(0) = 0
      BY <1>1, ClocksIs
    <3> QED
      BY <1>5, <3>1, <3>2, <3>3
  <2>3. ser_tx = 0
    <3>1. ser_tx = Bit(Frame(LastPut), 0)
      BY <1>1, <2>2
    <3> QED
      BY <1>1, <3>1, Powers DEF Bit, Frame, Byte
  <2>4. hear' = [Deaf EXCEPT !.on = TRUE, !.t = 1] /\ heard' = heard
    BY <1>3, <2>1, <2>3 DEF PeerHears
  <2>5. hear' = [on |-> TRUE, t |-> 1, k |-> 0, bits |-> 0]
    BY <2>4 DEF Deaf
  <2>6. TakenOn(LastPut, 0) = 0 /\ SampleTime(0) >= 1
    BY <1>1, TakeBit, SamplesIn DEF PortType
  <2>7. /\ hear'.on /\ hear'.t = 1 /\ hear'.k = 0 /\ hear'.bits = 0
        /\ hear' \in [on : BOOLEAN, t : Nat, k : 0..9, bits : Nat]
    BY <2>5
  <2> QED
    BY <1>6, <2>4, <2>6, <2>7
<1>7. CASE Age > 0 /\ hear.t # SampleTime(hear.k)
  <2>1. hear' = [hear EXCEPT !.t = @ + 1] /\ heard' = heard
    BY <1>2, <1>3, <1>7 DEF PeerHears
  <2>2. /\ hear' \in [on : BOOLEAN, t : Nat, k : 0..9, bits : Nat]
        /\ hear'.on /\ hear'.t = Age + 1 /\ hear'.bits = hear.bits /\ hear'.k = hear.k
    BY <1>2, <1>7, <2>1
  <2>3. Age + 1 <= SampleTime(hear.k)
    BY <1>1, <1>2, <1>4, <1>7
  <2> QED
    BY <1>2, <1>7, <2>1, <2>2, <2>3
<1>8. CASE Age > 0 /\ hear.t = SampleTime(hear.k)
  <2> DEFINE k == hear.k
             bits == 512 * ser_tx + hear.bits \div 2
  <2>1. k \in 0..9 /\ k \in Nat /\ u \in Nat /\ Age = SampleTime(k)
    BY <1>1, <1>2, <1>8
  <2>2. k = u
    <3> HIDE DEF u, k
    <3> DEFINE e == SampleTime(k) - Clocks(k)
    <3>1. e \in 0..(BitTime - 1) /\ Clocks(k) + e = Clocks(u) + send_divcnt
      BY <1>1, <1>4, <1>5, <2>1
    <3> HIDE DEF e
    <3> QED
      BY <1>1, <2>1, <3>1, OneBit
  <2>3. bits = TakenOn(LastPut, k + 1) /\ bits \in Nat
    <3> HIDE DEF u, k
    <3>1. TakenOn(LastPut, k + 1) = 512 * Bit(Frame(LastPut), k) + TakenOn(LastPut, k) \div 2
      BY <1>1, <2>1, TakeBit
    <3>2. bits = TakenOn(LastPut, k + 1)
      BY <1>1, <1>2, <1>8, <2>2, <3>1, ZenonT(40) DEF k
    <3>3. CASE k = 9
      BY <1>1, <3>2, <3>3, TakeBit, Powers DEF Frame, Byte
    <3>4. CASE k # 9
      <4>1. k + 1 \in 0..9
        BY <2>1, <3>4
      <4> QED
        BY <1>1, <3>2, <4>1, TakeBit
    <3> QED
      BY <3>2, <3>3, <3>4
  <2>4. IF k = 9 THEN hear' = Deaf /\ heard' = Append(heard, bits)
        ELSE hear' = [hear EXCEPT !.t = @ + 1, !.k = @ + 1, !.bits = bits] /\ heard' = heard
    BY <1>2, <1>3, <1>8 DEF PeerHears
  <2>5. CASE k = 9
    <3>1. bits = Frame(LastPut)
      BY <1>1, <2>3, <2>5, TakeBit
    <3>2. send_bitcnt = 1
      BY <1>1, <2>2, <2>5
    <3>3. send_pattern = 1023
      <4>1. u = 9
        BY <2>2, <2>5
      <4> QED
        BY <1>1, <4>1, SendBit
    <3> QED
      BY <2>4, <2>5, <3>1, <3>2, <3>3
  <2>6. CASE k # 9
    <3>1. k + 1 \in 0..9
      BY <2>1, <2>6
    <3>2. Age + 1 <= SampleTime(k + 1)
      <4> HIDE DEF k
      <4>1. Clocks(k + 1) = Clocks(k) + BitTime /\ Clocks(k + 1) <= SampleTime(k + 1)
            /\ SampleTime(k + 1) \in Nat /\ SampleTime(k) < Clocks(k) + BitTime
            /\ Clocks(k) \in Nat /\ SampleTime(k) \in Nat
        BY <1>4, <2>1, <3>1
      <4> QED
        BY <1>5, <2>1, <4>1
    <3> HIDE DEF bits
    <3>3. hear' = [hear EXCEPT !.t = @ + 1, !.k = @ + 1, !.bits = bits] /\ heard' = heard
      BY <2>4, <2>6
    <3>4. /\ hear' \in [on : BOOLEAN, t : Nat, k : 0..9, bits : Nat]
          /\ hear'.on /\ hear'.t = Age + 1 /\ hear'.bits = bits /\ hear'.k = k + 1
      <4>1. /\ hear'.on = hear.on /\ hear'.t = hear.t + 1 /\ hear'.bits = bits
            /\ hear'.k = hear.k + 1
            /\ hear' = [on |-> hear.on, t |-> hear.t + 1, k |-> hear.k + 1, bits |-> bits]
        BY <1>2, <3>3
      <4> QED
        BY <1>2, <1>8, <2>1, <2>3, <3>1, <4>1
    <3> QED
      BY <2>3, <3>2, <3>3, <3>4
  <2> QED
    BY <2>5, <2>6
<1> QED
  BY <1>1, <1>6, <1>7, <1>8

\* The frame goes on, or has been heard and the line is quiet.
LEMMA BusyNext ==
    ASSUME TxInv, PortType, DividerInv, Next, Busy
    PROVE  TxInv'
<1>1. SendType
  BY DEF TxInv
<1>2. /\ puts' = puts /\ LastPut \in Byte /\ LastPut' = LastPut /\ cfg_divider' = Divider
      /\ send_bitcnt' \in 0..10 /\ send_divcnt' \in 0..(BitTime - 1)
      /\ send_pattern' = Left(LastPut, 10 - send_bitcnt') /\ send_pattern' \in 0..1023
      /\ Age' = Age + 1 /\ Age \in Nat /\ send_dummy' \in BOOLEAN
      /\ IF send_divcnt = BitTime - 1
         THEN send_bitcnt' = send_bitcnt - 1 /\ send_divcnt' = 0
         ELSE send_bitcnt' = send_bitcnt /\ send_divcnt' = send_divcnt + 1
  BY <1>1, BusyShifts DEF LastPut
<1>3. /\ puts # <<>> /\ puts \in Seq(Byte) /\ heard \in Seq(Nat) /\ Len(heard) = Len(puts) - 1
      /\ \A c \in 1..(Len(puts) - 1) : heard[c] = Frame(puts[c])
      /\ send_bitcnt \in 1..10
  BY <1>1 DEF Busy, SendType, HeardAre
<1>4. send_bitcnt' \in 0..15 /\ send_divcnt' \in Nat
  BY <1>2, BitTimes
<1>5. CASE /\ heard' = heard /\ hear' \in [on : BOOLEAN, t : Nat, k : 0..9, bits : Nat]
           /\ hear'.on /\ hear'.t = Age + 1 /\ hear'.bits = TakenOn(LastPut, hear'.k)
           /\ Age + 1 <= SampleTime(hear'.k)
  <2>1. SendType'
    BY <1>2, <1>3, <1>4, <1>5 DEF SendType
  <2>2. HeardAre(Len(puts) - 1)'
    BY <1>2, <1>3, <1>5 DEF HeardAre
  <2>3. SampleTime(hear.k)' = SampleTime(hear'.k)
    BY DEF Next, SampleTime
  <2>4. send_bitcnt' # 0
    <3> SUFFICES ASSUME send_bitcnt' = 0 PROVE FALSE
      OBVIOUS
    <3>1. Age' = Clocks(10)
      <4>1. send_divcnt' = 0 /\ 10 - send_bitcnt' = 10
        BY <1>2, <1>3
      <4>2. Age' = Clocks(10) + 0
        BY <4>1 DEF Age
      <4> QED
        BY <4>2, ClocksIs
    <3> DEFINE k == hear'.k
    <3>2. k \in 0..9 /\ SampleTime(k) < Clocks(k) + BitTime /\ Clocks(k) + BitTime <= Clocks(10)
          /\ SampleTime(k) \in Nat /\ Clocks(k) \in Nat /\ Clocks(10) \in Nat
      <4>1. k \in 0..9
        BY <1>5
      <4>2. k \in Nat /\ k < 10 /\ 10 \in Nat
        BY <4>1
      <4> HIDE DEF k
      <4> QED
        BY <4>1, <4>2, SamplesIn, ClocksIs DEF PortType
    <3>3. Age + 1 <= SampleTime(k) /\ Age + 1 = Clocks(10)
      BY <1>2, <1>5, <3>1
    <3> HIDE DEF k
    <3> QED
      BY <1>2, <3>2, <3>3, BitTimes
  <2>5. Age' > 0 /\ send_bitcnt' \in 1..10
    BY <1>2, <2>4
  <2>6. hear'.t = Age' /\ Age' <= SampleTime(hear'.k)
    BY <1>2, <1>5
  <2>7. Busy'
    BY <1>2, <1>3, <1>5, <2>2, <2>3, <2>5, <2>6 DEF Busy
  <2> QED
    BY <2>1, <2>7 DEF TxInv
<1>6. CASE /\ heard' = Append(heard, Frame(LastPut)) /\ hear' = Deaf
           /\ send_bitcnt = 1 /\ send_pattern = 1023
  <2>1. send_pattern' = 1023
    <3>1. LastPut \in Byte
      BY <1>2
    <3>2. CASE send_bitcnt' = 1
      <4>1. 10 - send_bitcnt' = 9
        BY <3>2
      <4>2. Left(LastPut, 9) = 1023
        BY <3>1, SendBit
      <4> QED
        BY <1>2, <4>1, <4>2, ZenonT(40)
    <3>3. CASE send_bitcnt' = 0
      <4>1. 10 - send_bitcnt' = 10
        BY <3>3
      <4>2. Left(LastPut, 10) = 1023
        BY <3>1, Powers DEF Left, Frame, Byte
      <4> QED
        BY <1>2, <4>1, <4>2, ZenonT(40)
    <3> QED
      BY <1>2, <1>6, <3>2, <3>3
  <2>2. Frame(LastPut) \in Nat
    BY <1>2 DEF Frame, Byte
  <2>3. HeardAre(Len(puts))'
    <3> DEFINE n == Len(puts)
               v == Frame(LastPut)
    <3>1. n \in Nat /\ Len(heard) = n - 1 /\ v = Frame(puts[n])
      BY <1>3 DEF LastPut
    <3> HIDE DEF n, v
    <3>2. Len(heard') = n /\ heard'[n] = v /\ \A c \in 1..(n - 1) : heard'[c] = heard[c]
      BY <1>3, <1>6, <2>2, <3>1 DEF v
    <3>3. \A c \in 1..n : heard'[c] = Frame(puts[c])
      BY <1>3, <3>1, <3>2 DEF n
    <3> QED
      BY <1>2, <3>2, <3>3 DEF HeardAre, n
  <2>4. hear' \in [on : BOOLEAN, t : Nat, k : 0..9, bits : Nat] /\ heard' \in Seq(Nat)
    BY <1>3, <1>6, <2>2 DEF Deaf
  <2>5. SendType'
    BY <1>2, <1>3, <1>4, <2>4 DEF SendType
  <2>6. Quiet'
    BY <1>6, <2>1, <2>3 DEF Quiet
  <2> QED
    BY <2>5, <2>6 DEF TxInv
<1> QED
  BY <1>1, <1>5, <1>6, BusyHears

\* simpleuart.v:107-136 and the peer: every frame is heard as it was put, in order
\* and once, for every divider, matching rate, sequence of bytes and writes of
\* CLKDIV, and when the transmitter is idle all of them have been heard.
THEOREM PutsAreHeard == Spec => []TxFaithful
<1>1. Init => PortType /\ DividerInv /\ TxInv
  <2> SUFFICES ASSUME Init PROVE PortType /\ DividerInv /\ TxInv
    OBVIOUS
  <2>1. rate \in RateOf
    BY UartAssumption DEF Init, RateOf
  <2>2. PortType /\ DividerInv
    BY <2>1 DEF Init, PortType, DividerInv, NoRequest, Byte
  <2>3. /\ puts = <<>> /\ puts \in Seq(Byte) /\ heard = <<>> /\ heard \in Seq(Nat)
        /\ Len(puts) = 0 /\ Len(heard) = 0
    BY DEF Init
  <2>4. hear \in [on : BOOLEAN, t : Nat, k : 0..9, bits : Nat] /\ send_dummy \in BOOLEAN
    BY DEF Init, Deaf
  <2>5. SendType
    BY <2>3, <2>4 DEF Init, SendType
  <2>6. Quiet
    BY <2>3 DEF Init, Quiet, HeardAre
  <2> QED
    BY <2>2, <2>5, <2>6 DEF TxInv
<1>2. PortType /\ DividerInv /\ TxInv /\ [Next]_vars => (PortType /\ DividerInv /\ TxInv)'
  <2> SUFFICES ASSUME PortType, DividerInv, TxInv, [Next]_vars
               PROVE  (PortType /\ DividerInv /\ TxInv)'
    OBVIOUS
  <2>1. CASE Next
    BY <2>1, PortNext, QuietNext, BusyNext DEF TxInv
  <2>2. CASE UNCHANGED vars
    BY <2>2 DEF vars, send, PortType, DividerInv, TxInv, SendType, Quiet, Busy, HeardAre, LastPut,
                Age, SampleTime
  <2> QED
    BY <2>1, <2>2
<1>3. TxInv /\ PortType => TxFaithful
  <2> SUFFICES ASSUME TxInv, PortType PROVE TxFaithful
    OBVIOUS
  <2> DEFINE due == [c \in 1..Len(puts) |-> Frame(puts[c])]
  <2>1. /\ puts \in Seq(Byte) /\ heard \in Seq(Nat) /\ Len(puts) \in Nat
    BY DEF TxInv, SendType
  <2>2. due \in Seq(Nat) /\ Len(due) = Len(puts) /\ \A c \in 1..Len(puts) : due[c] = Frame(puts[c])
    <3>1. \A c \in 1..Len(puts) : Frame(puts[c]) \in Nat
      <4>1. \A b \in Byte : Frame(b) \in Nat
        BY DEF Frame, Byte
      <4> QED
        BY <2>1, <4>1
    <3> QED
      BY <2>1, <3>1
  <2>3. /\ Len(heard) <= Len(puts)
        /\ \A c \in 1..Len(heard) : heard[c] = Frame(puts[c])
        /\ send_bitcnt = 0 => Len(heard) = Len(puts)
    BY <2>1 DEF TxInv, Quiet, Busy, HeardAre
  <2> HIDE DEF due
  <2>4. IsPrefix(heard, due)
    BY <2>1, <2>2, <2>3 DEF IsPrefix
  <2>5. send_bitcnt = 0 => heard = due
    BY <2>1, <2>2, <2>3, SeqEqual
  <2> QED
    BY <2>4, <2>5 DEF TxFaithful, due
<1> QED
  BY <1>1, <1>2, <1>3, PTL DEF Spec
-----------------------------------------------------------------------------
(* From the peer to the program: the line. *)

\* The clock of a frame in which the receiver samples its bit k.
SampledAt(k) == HalfTime + Clocks(k)

\* A division grows with what it divides.
LEMMA DivGrows ==
    ASSUME NEW x \in Nat, NEW y \in Nat, NEW d \in Nat \ {0}, x <= y
    PROVE  x \div d <= y \div d
OBVIOUS

\* The bits of a frame come one after another, none of them within a clock, and
\* each is on the line when the receiver takes it.
LEMMA BitAtIs ==
    ASSUME rate \in RateOf, NEW f \in 0..(rate[2] - 1)
    PROVE  /\ \A t \in Nat : BitAt(rate, t, f) \in Nat
           /\ \A g, t \in Nat : g <= t => BitAt(rate, g, f) <= BitAt(rate, t, f)
           /\ \A t \in Nat : BitAt(rate, t + 1, f) <= BitAt(rate, t, f) + 1
           /\ BitAt(rate, 0, f) = 0
           /\ \A k \in 1..9 : SampledAt(k) \in Nat /\ BitAt(rate, SampledAt(k), f) = k
<1> DEFINE x == rate[1]
           y == rate[2]
           At(t) == t * y + f
<1>1. x \in Nat \ {0} /\ y \in Nat \ {0} /\ RateMatches(rate) /\ f \in 0..(y - 1)
  BY DEF RateOf
<1>2. \A t \in Nat : BitAt(rate, t, f) = At(t) \div x
  BY DEF BitAt
<1>3. \A k \in 1..9 : SampledAt(k) \in Nat /\ BitAt(rate, SampledAt(k), f) = k
  <2>1. \A k \in 1..9 : BitAt(rate, HalfTime + k * BitTime, f) = k
    BY <1>1, Zenon DEF RateMatches
  <2>2. HalfTime \in Nat /\ \A k \in 1..9 : Clocks(k) \in Nat
    <3>1. \A k \in 1..9 : k \in Nat
      OBVIOUS
    <3> QED
      BY <3>1, BitTimes, ClocksIs
  <2> SUFFICES ASSUME NEW k \in 1..9
               PROVE  SampledAt(k) \in Nat /\ BitAt(rate, SampledAt(k), f) = k
    OBVIOUS
  <2>3. SampledAt(k) \in Nat
    BY <2>2 DEF SampledAt
  <2>4. SampledAt(k) = HalfTime + k * BitTime
    BY DEF SampledAt, Clocks
  <2> QED
    BY <2>1, <2>3, <2>4
<1> HIDE DEF x, y
<1>4. \A t \in Nat : At(t) \in Nat
  <2>1. \A t \in Nat : t * y \in Nat
    BY <1>1
  <2> QED
    BY <1>1, <2>1
<1>5. \A g, t \in Nat : g <= t => At(g) <= At(t)
  <2>1. \A g, t \in Nat : g <= t => g * y <= t * y
    BY <1>1
  <2>2. \A t \in Nat : t * y \in Nat
    BY <1>1
  <2> QED
    BY <1>1, <2>1, <2>2
<1>6. \A t \in Nat : At(t + 1) = At(t) + y
  <2>1. \A t \in Nat : (t + 1) * y = t * y + y /\ t * y \in Nat
    BY <1>1
  <2> QED
    BY <1>1, <2>1
<1>7. At(0) = f
  <2>1. 0 * y = 0
    BY <1>1
  <2> QED
    BY <1>1, <2>1
<1>8. y < x
  <2>1. SampledAt(1) \in Nat /\ SampledAt(1) >= 5
    <3>1. Clocks(1) = Clocks(0) + BitTime /\ Clocks(0) = 0
      <4>1. 0 \in Nat /\ 0 + 1 = 1
        OBVIOUS
      <4> QED
        BY <4>1, ClocksIs
    <3>2. HalfTime >= 2 /\ HalfTime \in Nat /\ BitTime >= 3 /\ BitTime \in Nat
      BY BitTimes
    <3> QED
      BY <3>1, <3>2 DEF SampledAt
  <2> DEFINE t == SampledAt(1)
  <2>2. t \in Nat /\ t >= 5 /\ At(t) \div x = 1
    BY <1>2, <1>3, <2>1
  <2> HIDE DEF t
  <2>3. At(t) \in Nat /\ At(t) < 1 * x + x
    BY <1>1, <1>4, <2>2, DivIs
  <2>4. 5 * y <= t * y /\ t * y \in Nat
    BY <1>1, <2>2
  <2> QED
    BY <1>1, <2>3, <2>4
<1>9. \A t \in Nat : BitAt(rate, t, f) \in Nat
  <2> HIDE DEF At
  <2> QED
    BY <1>1, <1>2, <1>4, DivIs
<1>10. \A g, t \in Nat : g <= t => BitAt(rate, g, f) <= BitAt(rate, t, f)
  <2> HIDE DEF At
  <2> QED
    BY <1>1, <1>2, <1>4, <1>5, DivGrows
<1>11. \A t \in Nat : BitAt(rate, t + 1, f) <= BitAt(rate, t, f) + 1
  <2> SUFFICES ASSUME NEW t \in Nat PROVE BitAt(rate, t + 1, f) <= BitAt(rate, t, f) + 1
    OBVIOUS
  <2> HIDE DEF At
  <2>0. /\ At(t) \in Nat /\ At(t + 1) \in Nat /\ At(t) + x \in Nat
        /\ At(t + 1) <= At(t) + x
    <3>1. t + 1 \in Nat
      OBVIOUS
    <3> QED
      BY <1>1, <1>4, <1>6, <1>8, <3>1
  <2>1. At(t + 1) \div x <= (At(t) + x) \div x
    BY <1>1, <2>0, DivGrows
  <2>2. \A a \in Nat, d \in Nat \ {0} : (a + d) \div d = a \div d + 1
    OBVIOUS
  <2>3. t + 1 \in Nat
    OBVIOUS
  <2> QED
    BY <1>1, <1>2, <1>4, <2>1, <2>2, <2>3
<1>12. BitAt(rate, 0, f) = 0
  <2>1. BitAt(rate, 0, f) = f \div x
    BY <1>2, <1>7
  <2>2. \A a, d \in Nat : a < d => a \div d = 0
    OBVIOUS
  <2> QED
    BY <1>1, <1>8, <2>1, <2>2
<1> QED
  BY <1>3, <1>9, <1>10, <1>11, <1>12

\* The receiver's register, a bit at a time.
LEMMA ReceiveBit ==
    ASSUME NEW b \in Byte, NEW p \in Byte, NEW k \in 0..7, p \div 2^(8 - k) = b % 2^k
    PROVE  /\ 128 * Bit(Frame(b), k + 1) + p \div 2 \in Byte
           /\ (128 * Bit(Frame(b), k + 1) + p \div 2) \div 2^(8 - (k + 1)) = b % 2^(k + 1)
<1> USE Powers DEF Frame, Bit, Byte
<1>0. CASE k = 0 BY <1>0
<1>1. CASE k = 1 BY <1>1, SMTT(40)
<1>2. CASE k = 2 BY <1>2, SMTT(40)
<1>3. CASE k = 3 BY <1>3, SMTT(90)
<1>4. CASE k = 4 BY <1>4, SMTT(60)
<1>5. CASE k = 5 BY <1>5, SMTT(40)
<1>6. CASE k = 6 BY <1>6, SMTT(40)
<1>7. CASE k = 7 BY <1>7
<1> HIDE Powers DEF Frame, Bit, Byte
<1> QED
  BY <1>0, <1>1, <1>2, <1>3, <1>4, <1>5, <1>6, <1>7
-----------------------------------------------------------------------------
(* From the peer to the program: the receiver. *)

RecvType ==
    /\ recv_state \in 0..10 /\ recv_divcnt \in Nat /\ recv_pattern \in Byte
    /\ recv_buf_data \in Byte /\ recv_buf_valid \in BOOLEAN /\ overrun \in BOOLEAN
    /\ peer \in [on : BOOLEAN, byte : Byte, t : Nat, f : Nat]
    /\ sent \in Seq(Byte) /\ got \in Seq(Byte)

\* Where the receiver is in the bits of a byte, and what it has of it.
InBits ==
    /\ peer.on /\ recv_divcnt <= BitTime - 1
    /\ peer.t = SampledAt(recv_state - 2) + 1 + recv_divcnt
    /\ recv_pattern \div 2^(10 - recv_state) = peer.byte % 2^(recv_state - 2)

\* Where it is in the peer's frame.
RxPos ==
    /\ peer.on => /\ cfg_divider = Divider /\ peer.f \in 0..(rate[2] - 1)
                  /\ BitAt(rate, peer.t, peer.f) <= 9
    /\ recv_state = 0 /\ peer.on => peer.t = 0 \/ peer.t > SampledAt(9)
    /\ recv_state = 1 =>
          peer.on /\ peer.t = 1 + recv_divcnt /\ recv_divcnt <= 1 + Divider \div 2
    /\ recv_state \in 2..10 => InBits

\* A byte sent and not yet taken in.
Pending  == peer.on /\ (recv_state # 0 \/ peer.t = 0)
Buffered == got \o reg_dat_do

RxData == ~overrun => sent = IF Pending THEN Append(Buffered, peer.byte) ELSE Buffered

RxInv == RecvType /\ RxPos /\ RxData

\* A frame is over only when the stop bit has been sampled.
LEMMA OverIsLate ==
    ASSUME RecvType, RxPos, PortType, peer.on
    PROVE  /\ FrameOver => peer.t >= SampledAt(9)
           /\ ~FrameOver => BitAt(rate, peer.t + 1, peer.f) <= 9
           /\ SampledAt(9) \in Nat
<1>1. peer.t \in Nat /\ peer.t + 1 \in Nat /\ peer.f \in 0..(rate[2] - 1) /\ rate \in RateOf
      /\ BitAt(rate, peer.t, peer.f) <= 9
  BY DEF RecvType, RxPos, PortType
<1> DEFINE t == peer.t
           B(x) == BitAt(rate, x, peer.f)
<1>2. /\ B(t) \in Nat /\ B(t + 1) \in Nat /\ B(t + 1) <= B(t) + 1
      /\ SampledAt(9) \in Nat /\ B(SampledAt(9)) = 9
      /\ t + 1 <= SampledAt(9) => B(t + 1) <= B(SampledAt(9))
  <2>1. t \in Nat /\ t + 1 \in Nat /\ 9 \in 1..9 /\ peer.f \in 0..(rate[2] - 1)
    BY <1>1
  <2>2. SampledAt(9) \in Nat /\ BitAt(rate, SampledAt(9), peer.f) = 9
    BY <1>1, <2>1, BitAtIs
  <2>3. BitAt(rate, t, peer.f) \in Nat /\ BitAt(rate, t + 1, peer.f) \in Nat
    BY <1>1, <2>1, BitAtIs
  <2>4. BitAt(rate, t + 1, peer.f) <= BitAt(rate, t, peer.f) + 1
    BY <1>1, <2>1, BitAtIs
  <2>5. t + 1 <= SampledAt(9)
           => BitAt(rate, t + 1, peer.f) <= BitAt(rate, SampledAt(9), peer.f)
    <3> HIDE DEF t
    <3> QED
      BY <1>1, <2>1, <2>2, BitAtIs
  <2> QED
    BY <2>2, <2>3, <2>4, <2>5
<1>3. FrameOver <=> B(t + 1) = 10
  BY DEF FrameOver
<1>4. t \in Nat /\ B(t) <= 9
  BY <1>1
<1> HIDE DEF t, B
<1>5. /\ B(t + 1) = 10 => t >= SampledAt(9)
      /\ B(t + 1) # 10 => B(t + 1) <= 9
  BY <1>2, <1>4
<1> QED
  BY <1>2, <1>3, <1>5 DEF t, B

\* What the peer does in a clock.
LEMMA PeerNext ==
    ASSUME Next, RecvType, RxPos, PortType, DividerInv
    PROVE  /\ peer' \in [on : BOOLEAN, byte : Byte, t : Nat, f : Nat]
           /\ sent' \in Seq(Byte)
           /\ peer'.on => /\ cfg_divider' = Divider /\ peer'.f \in 0..(rate[2] - 1)
                          /\ BitAt(rate, peer'.t, peer'.f) <= 9
           /\ \/ /\ peer.on /\ peer'.on /\ peer'.byte = peer.byte /\ peer'.t = peer.t + 1
                 /\ peer'.f = peer.f /\ sent' = sent
              \/ /\ peer.on => peer.t >= SampledAt(9)
                 /\ \/ ~peer'.on /\ sent' = sent
                    \/ peer'.on /\ peer'.t = 0 /\ sent' = Append(sent, peer'.byte)
<1>1. PeerSends
  BY DEF Next
<1>2. peer \in [on : BOOLEAN, byte : Byte, t : Nat, f : Nat] /\ sent \in Seq(Byte)
      /\ rate \in RateOf
  BY DEF RecvType, PortType
<1>3. PeerBytes \subseteq Byte
  BY UartAssumption
<1>4. CASE ~FrameOver /\ peer' = [peer EXCEPT !.t = @ + 1] /\ UNCHANGED sent
  <2>1. peer.on
    BY <1>4 DEF FrameOver
  <2>2. /\ peer' \in [on : BOOLEAN, byte : Byte, t : Nat, f : Nat]
        /\ peer'.on /\ peer'.byte = peer.byte /\ peer'.t = peer.t + 1 /\ peer'.f = peer.f
    BY <1>2, <1>4, <2>1
  <2>3. cfg_divider' = Divider
    BY <2>1, PortNext DEF RxPos
  <2>4. BitAt(rate, peer'.t, peer'.f) <= 9 /\ peer'.f \in 0..(rate[2] - 1)
    BY <1>4, <2>1, <2>2, OverIsLate DEF RxPos
  <2> QED
    BY <1>2, <1>4, <2>1, <2>2, <2>3, <2>4
<1>5. FrameOver => (peer.on => peer.t >= SampledAt(9))
  BY OverIsLate
<1>6. CASE FrameOver /\ peer' = Silent /\ UNCHANGED sent
  <2>1. peer' \in [on : BOOLEAN, byte : Byte, t : Nat, f : Nat] /\ ~peer'.on
    BY <1>6 DEF Silent, Byte
  <2> QED
    BY <1>2, <1>5, <1>6, <2>1
<1>7. CASE /\ FrameOver /\ divs > 0 /\ Len(sent) < MaxSends
           /\ \E b \in PeerBytes : \E f \in 0..(rate[2] - 1) :
                /\ peer' = [on |-> TRUE, byte |-> b, t |-> 0, f |-> f]
                /\ sent' = Append(sent, b)
  <2>1. PICK b \in PeerBytes, f \in 0..(rate[2] - 1) :
            peer' = [on |-> TRUE, byte |-> b, t |-> 0, f |-> f] /\ sent' = Append(sent, b)
    BY <1>7
  <2>2. b \in Byte /\ f \in Nat
    BY <1>2, <1>3 DEF RateOf
  <2>3. /\ peer' \in [on : BOOLEAN, byte : Byte, t : Nat, f : Nat]
        /\ peer'.on /\ peer'.t = 0 /\ peer'.f = f /\ peer'.byte = b
    BY <2>1, <2>2
  <2>4. BitAt(rate, 0, f) = 0
    BY <1>2, BitAtIs
  <2>5. cfg_divider' = Divider
    BY <1>7, PortNext
  <2>6. sent' \in Seq(Byte)
    BY <1>2, <2>1, <2>2
  <2> QED
    BY <1>5, <1>7, <2>1, <2>3, <2>4, <2>5, <2>6
<1> QED
  BY <1>1, <1>4, <1>6, <1>7 DEF PeerSends

\* A clock in which no byte arrives leaves the program and the buffer with the
\* same bytes together, whether the buffer is read or not.
LEMMA BufferKept ==
    ASSUME Next, RecvType, KeepBuffer
    PROVE  /\ Buffered' = Buffered /\ got' \in Seq(Byte) /\ overrun' = overrun
           /\ recv_buf_data' \in Byte /\ recv_buf_valid' \in BOOLEAN
<1>1. /\ got' = IF reg_dat_re THEN got \o reg_dat_do ELSE got
      /\ recv_buf_valid' = (recv_buf_valid /\ ~reg_dat_re)
      /\ recv_buf_data' = recv_buf_data /\ overrun' = overrun
  BY DEF Next, Cpu, KeepBuffer
<1>2. got \in Seq(Byte) /\ recv_buf_data \in Byte /\ reg_dat_do \in Seq(Byte)
  BY DEF RecvType, reg_dat_do
<1>3. recv_buf_valid' \in BOOLEAN
  BY <1>1, Zenon
<1>4. \A g \in Seq(Byte) : g \o <<>> = g
  OBVIOUS
<1>5. got \o reg_dat_do \in Seq(Byte)
  BY <1>2
<1>6. CASE reg_dat_re
  <2>1. reg_dat_do' = <<>>
    BY <1>1, <1>6 DEF reg_dat_do
  <2> QED
    BY <1>1, <1>2, <1>3, <1>4, <1>5, <1>6, <2>1 DEF Buffered
<1>7. CASE ~reg_dat_re
  <2>1. reg_dat_do' = reg_dat_do
    BY <1>1, <1>7 DEF reg_dat_do
  <2> QED
    BY <1>1, <1>2, <1>3, <1>7, <2>1 DEF Buffered
<1> QED
  BY <1>6, <1>7

\* A byte arrives, read or not what was there before, unless it was lost.
LEMMA BufferTaken ==
    ASSUME Next, RecvType, recv_buf_data' = recv_pattern, recv_buf_valid' = TRUE,
           overrun' = (overrun \/ (recv_buf_valid /\ ~reg_dat_re))
    PROVE  /\ ~overrun' => ~overrun /\ Buffered' = Append(Buffered, recv_pattern)
           /\ got' \in Seq(Byte) /\ overrun' \in BOOLEAN
<1>1. got' = IF reg_dat_re THEN got \o reg_dat_do ELSE got
  BY DEF Next, Cpu
<1>2. /\ got \in Seq(Byte) /\ reg_dat_do \in Seq(Byte) /\ recv_pattern \in Byte
      /\ got \o reg_dat_do \in Seq(Byte)
  BY DEF RecvType, reg_dat_do
<1>3. overrun' \in BOOLEAN /\ (~overrun' => ~overrun /\ (~recv_buf_valid \/ reg_dat_re))
  BY Zenon
<1>4. reg_dat_do' = <<recv_pattern>>
  BY DEF reg_dat_do
<1>5. got' \in Seq(Byte)
  BY <1>1, <1>2
<1>6. \A q \in Seq(Byte) : q \o <<recv_pattern>> = Append(q, recv_pattern)
  BY <1>2
<1>7. ~overrun' => got' = Buffered
  <2>1. \A q \in Seq(Byte) : q \o <<>> = q
    OBVIOUS
  <2>2. ~recv_buf_valid => reg_dat_do = <<>>
    BY DEF reg_dat_do
  <2> QED
    BY <1>1, <1>2, <1>3, <2>1, <2>2 DEF Buffered
<1> QED
  BY <1>2, <1>3, <1>4, <1>5, <1>6, <1>7 DEF Buffered

\* What is on the line where the receiver looks at it.
LEMMA LineIs ==
    ASSUME RecvType, RxPos, PortType
    PROVE  /\ recv_state = 0 => ser_rx = IF peer.on /\ peer.t = 0 THEN 0 ELSE 1
           /\ recv_state \in 2..9 /\ recv_divcnt = BitTime - 1 =>
                 ser_rx = Bit(Frame(peer.byte), recv_state - 1)
<1>1. peer.byte \in Byte /\ peer.t \in Nat /\ rate \in RateOf /\ recv_state \in 0..10
  BY DEF RecvType, PortType
<1>2. \A b \in Byte : Bit(Frame(b), 0) = 0 /\ Bit(Frame(b), 9) = 1
  BY Powers DEF Frame, Bit, Byte
<1>3. CASE ~peer.on
  BY <1>3 DEF ser_rx, RxPos, InBits
<1>4. CASE peer.on
  <2>1. peer.f \in 0..(rate[2] - 1) /\ BitAt(rate, peer.t, peer.f) <= 9
    BY <1>4 DEF RxPos
  <2>2. ser_rx = Bit(Frame(peer.byte), BitAt(rate, peer.t, peer.f))
    BY <1>4 DEF ser_rx
  <2>3. BitAt(rate, 0, peer.f) = 0
    BY <1>1, <2>1, BitAtIs
  <2>4. \A k \in 1..9 : SampledAt(k) \in Nat /\ BitAt(rate, SampledAt(k), peer.f) = k
    BY <1>1, <2>1, BitAtIs
  <2>5. CASE recv_state = 0 /\ peer.t = 0
    BY <1>1, <1>2, <1>4, <2>2, <2>3, <2>5
  <2>6. CASE recv_state = 0 /\ peer.t # 0
    <3>1. peer.t > SampledAt(9)
      BY <1>4, <2>6 DEF RxPos
    <3>2. SampledAt(9) \in Nat /\ BitAt(rate, SampledAt(9), peer.f) = 9
      <4>1. 9 \in 1..9
        OBVIOUS
      <4> QED
        BY <2>4, <4>1
    <3>3. SampledAt(9) <= peer.t
      BY <1>1, <3>1, <3>2
    <3>4. BitAt(rate, SampledAt(9), peer.f) <= BitAt(rate, peer.t, peer.f)
      BY <1>1, <2>1, <3>2, <3>3, BitAtIs
    <3>5. BitAt(rate, peer.t, peer.f) \in Nat
      BY <1>1, <2>1, BitAtIs
    <3>6. BitAt(rate, peer.t, peer.f) = 9
      BY <2>1, <3>2, <3>4, <3>5
    <3> QED
      BY <1>1, <1>2, <2>2, <2>6, <3>6
  <2>7. CASE recv_state \in 2..9 /\ recv_divcnt = BitTime - 1
    <3>1. peer.t = SampledAt(recv_state - 2) + 1 + recv_divcnt
      BY <2>7 DEF RxPos, InBits
    <3> DEFINE k == recv_state - 2
    <3>2. k \in Nat /\ k + 1 \in 1..9 /\ k + 1 = recv_state - 1
      BY <2>7
    <3> HIDE DEF k
    <3>3. /\ Clocks(k) \in Nat /\ Clocks(k + 1) = Clocks(k) + BitTime
          /\ HalfTime \in Nat /\ BitTime \in Nat
      BY <3>2, ClocksIs, BitTimes
    <3>4. peer.t = HalfTime + Clocks(k) + 1 + recv_divcnt
      BY <3>1 DEF SampledAt, k
    <3>5. peer.t = SampledAt(k + 1)
      BY <2>7, <3>3, <3>4 DEF SampledAt
    <3> QED
      BY <2>2, <2>4, <2>7, <3>2, <3>5
  <2> QED
    BY <1>1, <2>5, <2>6, <2>7
<1> QED
  BY <1>3, <1>4

\* While the receiver takes a frame in, the peer is sending it.
LEMMA FrameLasts ==
    ASSUME Next, RecvType, RxPos, PortType, DividerInv, recv_state # 0
    PROVE  /\ peer.on /\ peer.t <= SampledAt(9) /\ SampledAt(9) \in Nat
           /\ recv_state # 10 \/ recv_divcnt # BitTime - 1 => peer.t < SampledAt(9)
           /\ recv_state = 10 /\ recv_divcnt = BitTime - 1 => peer.t = SampledAt(9)
<1>1. BitTime \in Nat /\ BitTime > 0 /\ HalfTime \in Nat
  BY BitTimes
<1>2. recv_state \in 0..10 /\ recv_divcnt \in Nat /\ peer.t \in Nat
  BY DEF RecvType
<1>3. Clocks(0) = 0 /\ Clocks(9) \in Nat /\ Clocks(0) + BitTime <= Clocks(9)
  <2>1. 0 \in Nat /\ 9 \in Nat /\ 0 < 9
    OBVIOUS
  <2> QED
    BY <2>1, ClocksIs
<1>4. SampledAt(9) \in Nat /\ SampledAt(9) = HalfTime + Clocks(9)
  BY <1>1, <1>3 DEF SampledAt
<1>5. CASE recv_state = 1
  <2>1. peer.on /\ peer.t = 1 + recv_divcnt /\ recv_divcnt <= 1 + Divider \div 2
    BY <1>5 DEF RxPos
  <2>2. peer.t <= HalfTime
    <3>1. Divider \div 2 \in Nat /\ HalfTime = 2 + Divider \div 2
      BY BitTimes
    <3> QED
      BY <1>2, <2>1, <3>1
  <2> QED
    BY <1>1, <1>2, <1>3, <1>4, <1>5, <2>1, <2>2
<1>6. CASE recv_state \in 2..10
  <2> DEFINE k == recv_state - 2
  <2>1. peer.on /\ recv_divcnt <= BitTime - 1 /\ peer.t = SampledAt(k) + 1 + recv_divcnt
    BY <1>6 DEF RxPos, InBits
  <2>2. k \in 0..8 /\ k \in Nat /\ (k = 8 <=> recv_state = 10)
    BY <1>6
  <2> HIDE DEF k
  <2>3. Clocks(k) \in Nat /\ Clocks(k) + BitTime <= Clocks(9)
    BY <2>2, ClocksIs
  <2>4. peer.t = HalfTime + Clocks(k) + 1 + recv_divcnt
    BY <2>1 DEF SampledAt
  <2>5. peer.t <= SampledAt(9) /\ (recv_divcnt # BitTime - 1 => peer.t < SampledAt(9))
    BY <1>1, <1>2, <1>3, <1>4, <2>1, <2>3, <2>4
  <2>6. CASE k = 8
    <3>1. Clocks(9) = Clocks(8) + BitTime
      <4>1. 8 \in Nat /\ 8 + 1 = 9
        OBVIOUS
      <4> QED
        BY <4>1, ClocksIs
    <3> QED
      BY <1>1, <1>2, <1>3, <1>4, <2>1, <2>2, <2>3, <2>4, <2>5, <2>6, <3>1
  <2>7. CASE k < 8
    <3>1. Clocks(8) \in Nat /\ Clocks(k) + BitTime <= Clocks(8) /\ Clocks(8) + BitTime <= Clocks(9)
      <4>1. 8 \in Nat /\ 9 \in Nat /\ 8 < 9
        OBVIOUS
      <4> QED
        BY <2>2, <2>7, <4>1, ClocksIs
    <3>2. peer.t < SampledAt(9)
      BY <1>1, <1>2, <1>3, <1>4, <2>1, <2>3, <2>4, <3>1
    <3>3. recv_state # 10
      BY <2>2, <2>7
    <3> QED
      BY <1>4, <2>1, <2>5, <3>2, <3>3
  <2> QED
    BY <2>2, <2>6, <2>7
<1> QED
  BY <1>2, <1>5, <1>6

\* The peer's next clock is the frame's next one.
LEMMA FrameGoesOn ==
    ASSUME Next, RecvType, RxPos, RxData, PortType, DividerInv, recv_state # 0,
           recv_state # 10 \/ recv_divcnt # BitTime - 1, KeepBuffer,
           recv_state' \in 1..10, recv_divcnt' \in Nat, recv_pattern' \in Byte
    PROVE  /\ RecvType' /\ RxData'
           /\ cfg_divider = Divider /\ cfg_divider' = Divider
           /\ peer'.on /\ peer'.t = peer.t + 1 /\ peer'.byte = peer.byte
           /\ peer'.f \in 0..(rate[2] - 1) /\ BitAt(rate, peer'.t, peer'.f) <= 9
           /\ rate' = rate
<1>1. peer.on /\ peer.t < SampledAt(9) /\ SampledAt(9) \in Nat /\ peer.t \in Nat
  BY FrameLasts DEF RecvType
<1>2. ~(peer.t >= SampledAt(9))
  BY <1>1
<1>3. /\ peer'.on /\ peer'.byte = peer.byte /\ peer'.t = peer.t + 1 /\ peer'.f = peer.f
      /\ sent' = sent /\ peer' \in [on : BOOLEAN, byte : Byte, t : Nat, f : Nat]
      /\ sent' \in Seq(Byte)
  BY <1>1, <1>2, PeerNext
<1>4. /\ cfg_divider' = Divider /\ peer'.f \in 0..(rate[2] - 1)
      /\ BitAt(rate, peer'.t, peer'.f) <= 9
  BY <1>3, PeerNext
<1>5. /\ Buffered' = Buffered /\ got' \in Seq(Byte) /\ overrun' = overrun
      /\ recv_buf_data' \in Byte /\ recv_buf_valid' \in BOOLEAN
  BY BufferKept
<1>6. RecvType'
  BY <1>3, <1>5 DEF RecvType
<1>7. Pending /\ Pending'
  BY <1>1, <1>3 DEF Pending
<1>8. RxData'
  BY <1>3, <1>5, <1>7 DEF RxData
<1>9. cfg_divider = Divider /\ rate' = rate
  BY <1>1 DEF RxPos, Next
<1> QED
  BY <1>3, <1>4, <1>6, <1>8, <1>9

\* The receiver looks for a start bit.
LEMMA RxIdleNext ==
    ASSUME Next, RxInv, PortType, DividerInv, recv_state = 0
    PROVE  RxInv'
<1>1. RecvType /\ RxPos /\ RxData
  BY DEF RxInv
<1>2. /\ recv_state' = 1 - ser_rx /\ recv_divcnt' = 0 /\ recv_pattern' = recv_pattern
      /\ KeepBuffer /\ rate' = rate
  BY DEF Next, Receiver, RxIdle, RxStart, RxBit, RxStop
<1>3. ser_rx = IF peer.on /\ peer.t = 0 THEN 0 ELSE 1
  BY <1>1, LineIs
<1>4. /\ Buffered' = Buffered /\ got' \in Seq(Byte) /\ overrun' = overrun
      /\ recv_buf_data' \in Byte /\ recv_buf_valid' \in BOOLEAN
  BY <1>1, <1>2, BufferKept
<1>5. /\ peer' \in [on : BOOLEAN, byte : Byte, t : Nat, f : Nat]
      /\ sent' \in Seq(Byte)
      /\ peer'.on => /\ cfg_divider' = Divider /\ peer'.f \in 0..(rate[2] - 1)
                     /\ BitAt(rate, peer'.t, peer'.f) <= 9
  BY <1>1, PeerNext
<1>6. \/ /\ peer.on /\ peer'.on /\ peer'.byte = peer.byte /\ peer'.t = peer.t + 1
         /\ peer'.f = peer.f /\ sent' = sent
      \/ /\ peer.on => peer.t >= SampledAt(9)
         /\ \/ ~peer'.on /\ sent' = sent
            \/ peer'.on /\ peer'.t = 0 /\ sent' = Append(sent, peer'.byte)
  BY <1>1, PeerNext
<1>7. recv_state' \in 0..10 /\ recv_divcnt' \in Nat /\ recv_pattern' \in Byte
  BY <1>1, <1>2, <1>3 DEF RecvType
<1>8. RecvType'
  BY <1>1, <1>4, <1>5, <1>7 DEF RecvType
<1>9. peer.t \in Nat /\ SampledAt(9) \in Nat /\ SampledAt(9) > 0
  <2>1. HalfTime \in Nat /\ HalfTime > 0
    <3>1. Divider \div 2 \in Nat
      BY BitTimes
    <3> QED
      BY <3>1, BitTimes
  <2>2. 9 \in Nat
    OBVIOUS
  <2>3. Clocks(9) \in Nat
    BY <2>2, ClocksIs
  <2> QED
    BY <1>1, <2>1, <2>3 DEF SampledAt, RecvType
<1>10. CASE peer.on /\ peer.t = 0
  <2>1. /\ recv_state' = 1 /\ peer'.on /\ peer'.byte = peer.byte /\ peer'.t = 1 /\ sent' = sent
    BY <1>2, <1>3, <1>6, <1>9, <1>10
  <2>2. 0 <= 1 + Divider \div 2
    <3>1. Divider \div 2 \in Nat
      BY BitTimes
    <3> QED
      BY <3>1
  <2>3. RxPos'
    BY <1>2, <1>5, <2>1, <2>2 DEF RxPos
  <2>4. Pending /\ Pending'
    BY <1>10, <2>1 DEF Pending
  <2>5. RxData'
    BY <1>1, <1>4, <2>1, <2>4 DEF RxData
  <2> QED
    BY <1>8, <2>3, <2>5 DEF RxInv
<1>11. CASE ~(peer.on /\ peer.t = 0)
  <2>1. recv_state' = 0 /\ ~Pending
    BY <1>2, <1>3, <1>11 DEF Pending
  <2>2. peer.on => peer.t > SampledAt(9)
    BY <1>1, <1>11 DEF RxPos
  <2>3. peer'.on => peer'.t = 0 \/ peer'.t > SampledAt(9)
    BY <1>6, <1>9, <2>2
  <2>4. SampledAt(9)' = SampledAt(9)
    BY DEF SampledAt, Clocks
  <2>5. RxPos'
    BY <1>2, <1>5, <2>1, <2>3, <2>4 DEF RxPos
  <2>6. Pending' = (peer'.on /\ peer'.t = 0)
    BY <2>1 DEF Pending
  <2>7. RxData'
    <3>1. CASE peer'.on /\ peer'.t = 0
      <4>1. sent' = Append(sent, peer'.byte)
        BY <1>6, <1>9, <3>1
      <4> QED
        BY <1>1, <1>4, <2>1, <2>6, <3>1, <4>1 DEF RxData
    <3>2. CASE ~(peer'.on /\ peer'.t = 0)
      <4>1. sent' = sent
        BY <1>6, <3>2
      <4> QED
        BY <1>1, <1>4, <2>1, <2>6, <3>2, <4>1 DEF RxData
    <3> QED
      BY <3>1, <3>2
  <2> QED
    BY <1>8, <2>5, <2>7 DEF RxInv
<1> QED
  BY <1>10, <1>11

\* It waits for the middle of the start bit.
LEMMA RxStartNext ==
    ASSUME Next, RxInv, PortType, DividerInv, recv_state = 1
    PROVE  RxInv'
<1>1. RecvType /\ RxPos /\ RxData
  BY DEF RxInv
<1>2. /\ IF 2 * recv_divcnt > cfg_divider
         THEN recv_state' = 2 /\ recv_divcnt' = 0
         ELSE recv_divcnt' = recv_divcnt + 1 /\ recv_state' = recv_state
      /\ KeepBuffer /\ recv_pattern' = recv_pattern
  BY DEF Next, Receiver, RxIdle, RxStart, RxBit, RxStop
<1>3. recv_divcnt \in Nat /\ recv_pattern \in Byte /\ peer.byte \in Byte /\ peer.t \in Nat
  BY <1>1 DEF RecvType
<1>4. recv_state' \in 1..2 /\ recv_divcnt' \in Nat /\ recv_pattern' \in Byte
  BY <1>2, <1>3
<1>5. /\ RecvType' /\ RxData'
      /\ cfg_divider = Divider /\ cfg_divider' = Divider
      /\ peer'.on /\ peer'.t = peer.t + 1 /\ peer'.byte = peer.byte
      /\ peer'.f \in 0..(rate[2] - 1) /\ BitAt(rate, peer'.t, peer'.f) <= 9
      /\ rate' = rate
  <2>1. recv_state' \in 1..10
    BY <1>4
  <2> QED
    BY <1>1, <1>2, <1>4, <2>1, FrameGoesOn
<1>6. peer.t = 1 + recv_divcnt /\ recv_divcnt <= 1 + Divider \div 2
  BY <1>1 DEF RxPos
<1>7. /\ Divider \div 2 \in Nat /\ HalfTime = 2 + Divider \div 2 /\ HalfTime \in Nat
      /\ 2 * recv_divcnt > Divider <=> recv_divcnt > Divider \div 2
  <2>1. \A d, n \in Nat : d \div 2 \in Nat /\ (2 * n > d <=> n > d \div 2)
    OBVIOUS
  <2> QED
    BY <1>3, <2>1, BitTimes
<1>8. CASE 2 * recv_divcnt > cfg_divider
  <2>1. recv_state' = 2 /\ recv_divcnt' = 0 /\ peer.t = HalfTime
    BY <1>2, <1>3, <1>5, <1>6, <1>7, <1>8
  <2>2. SampledAt(0) = HalfTime
    <3>1. Clocks(0) = 0
      BY ClocksIs
    <3> QED
      BY <1>7, <3>1 DEF SampledAt
  <2>3. recv_pattern \div 2^8 = peer.byte % 2^0
    <3>1. \A b \in Byte : b \div 2^8 = 0 /\ b % 2^0 = 0
      BY Powers DEF Byte
    <3> QED
      BY <1>3, <3>1
  <2>4. recv_state' - 2 = 0 /\ 10 - recv_state' = 8
    BY <2>1
  <2>5. 0 <= BitTime - 1
    BY BitTimes
  <2>6. peer'.t = SampledAt(0)' + 1 + recv_divcnt'
    <3>1. SampledAt(0)' = SampledAt(0)
      BY DEF SampledAt, Clocks
    <3> QED
      BY <1>5, <1>7, <2>1, <2>2, <3>1
  <2>7. InBits'
    BY <1>2, <1>5, <2>1, <2>3, <2>4, <2>5, <2>6 DEF InBits
  <2>8. RxPos'
    BY <1>5, <2>1, <2>7 DEF RxPos
  <2> QED
    BY <1>5, <2>8 DEF RxInv
<1>9. CASE ~(2 * recv_divcnt > cfg_divider)
  <2>1. recv_state' = 1 /\ recv_divcnt' = recv_divcnt + 1 /\ recv_divcnt' <= 1 + Divider \div 2
    BY <1>2, <1>3, <1>5, <1>7, <1>9
  <2>2. RxPos'
    BY <1>3, <1>5, <1>6, <2>1 DEF RxPos
  <2> QED
    BY <1>5, <2>2 DEF RxInv
<1> QED
  BY <1>8, <1>9

\* It takes the bits of the byte.
LEMMA RxBitNext ==
    ASSUME Next, RxInv, PortType, DividerInv, recv_state \in 2..9
    PROVE  RxInv'
<1>1. RecvType /\ RxPos /\ RxData /\ recv_state # 0 /\ recv_state # 10
  BY DEF RxInv
<1>2. /\ IF recv_divcnt > cfg_divider
         THEN /\ recv_pattern' = 128 * ser_rx + recv_pattern \div 2
              /\ recv_state' = recv_state + 1 /\ recv_divcnt' = 0
         ELSE /\ recv_divcnt' = recv_divcnt + 1 /\ recv_state' = recv_state
              /\ recv_pattern' = recv_pattern
      /\ KeepBuffer
  BY DEF Next, Receiver, RxIdle, RxStart, RxBit, RxStop
<1>3. recv_divcnt \in Nat /\ recv_pattern \in Byte /\ peer.byte \in Byte /\ peer.t \in Nat
  BY <1>1 DEF RecvType
<1> DEFINE k == recv_state - 2
<1>4. /\ k \in 0..7 /\ k \in Nat /\ recv_state = k + 2 /\ recv_state - 1 = k + 1
      /\ 10 - recv_state = 8 - k
  OBVIOUS
<1>5. /\ recv_divcnt <= BitTime - 1 /\ peer.t = SampledAt(k) + 1 + recv_divcnt
      /\ recv_pattern \div 2^(8 - k) = peer.byte % 2^k
  BY <1>1, <1>4 DEF RxPos, InBits
<1>6. cfg_divider = Divider /\ BitTime = Divider + 2 /\ Divider \in Nat /\ BitTime \in Nat
  BY <1>1, FrameLasts, BitTimes DEF RxPos
<1>7. SampledAt(k + 1) = SampledAt(k) + BitTime /\ SampledAt(k) \in Nat
  <2> HIDE DEF k
  <2>1. Clocks(k) \in Nat /\ Clocks(k + 1) = Clocks(k) + BitTime /\ HalfTime \in Nat
    BY <1>4, ClocksIs, BitTimes
  <2> QED
    BY <1>6, <2>1 DEF SampledAt
<1>8. CASE recv_divcnt > cfg_divider
  <2>1. recv_divcnt = BitTime - 1 /\ recv_state' = recv_state + 1 /\ recv_divcnt' = 0
    BY <1>2, <1>3, <1>5, <1>6, <1>8
  <2>2. recv_pattern' = 128 * Bit(Frame(peer.byte), k + 1) + recv_pattern \div 2
    <3>1. ser_rx = Bit(Frame(peer.byte), k + 1)
      BY <1>1, <1>4, <2>1, LineIs
    <3> QED
      BY <1>2, <1>8, <3>1
  <2>3. recv_pattern' \in Byte /\ recv_pattern' \div 2^(8 - (k + 1)) = peer.byte % 2^(k + 1)
    <3> HIDE DEF k
    <3> QED
      BY <1>3, <1>4, <1>5, <2>2, ReceiveBit
  <2>4. recv_state' \in 1..10 /\ recv_divcnt' \in Nat /\ recv_state' \in 2..10
    BY <2>1
  <2>5. /\ RecvType' /\ RxData'
        /\ cfg_divider = Divider /\ cfg_divider' = Divider
        /\ peer'.on /\ peer'.t = peer.t + 1 /\ peer'.byte = peer.byte
        /\ peer'.f \in 0..(rate[2] - 1) /\ BitAt(rate, peer'.t, peer'.f) <= 9
        /\ rate' = rate
    BY <1>1, <1>2, <2>3, <2>4, FrameGoesOn
  <2>6. recv_state' - 2 = k + 1 /\ 10 - recv_state' = 8 - (k + 1)
    BY <2>1
  <2>7. peer'.t = SampledAt(recv_state' - 2) + 1 + recv_divcnt'
    <3> HIDE DEF k
    <3>1. peer.t = SampledAt(k + 1)
      BY <1>5, <1>6, <1>7, <2>1
    <3> QED
      BY <1>3, <2>1, <2>5, <2>6, <3>1
  <2>8. recv_pattern' \div 2^(10 - recv_state') = peer'.byte % 2^(recv_state' - 2)
    BY <2>3, <2>5, <2>6
  <2>9. recv_divcnt' <= BitTime - 1
    BY <1>6, <2>1
  <2>10. SampledAt(recv_state - 2)' = SampledAt(recv_state' - 2) /\ BitTime' = BitTime
    BY DEF SampledAt, Clocks, BitTime
  <2> HIDE DEF k
  <2>11. InBits'
    BY <2>5, <2>7, <2>8, <2>9, <2>10 DEF InBits
  <2>12. RxPos'
    BY <2>4, <2>5, <2>11 DEF RxPos
  <2> QED
    BY <2>5, <2>12 DEF RxInv
<1>9. CASE ~(recv_divcnt > cfg_divider)
  <2>1. recv_divcnt' = recv_divcnt + 1 /\ recv_state' = recv_state /\ recv_pattern' = recv_pattern
    BY <1>2, <1>9
  <2>2. recv_state' \in 1..10 /\ recv_state' \in 2..10 /\ recv_divcnt' \in Nat
        /\ recv_pattern' \in Byte /\ recv_divcnt' <= BitTime - 1
    BY <1>3, <1>6, <1>9, <2>1
  <2>3. /\ RecvType' /\ RxData'
        /\ cfg_divider = Divider /\ cfg_divider' = Divider
        /\ peer'.on /\ peer'.t = peer.t + 1 /\ peer'.byte = peer.byte
        /\ peer'.f \in 0..(rate[2] - 1) /\ BitAt(rate, peer'.t, peer'.f) <= 9
        /\ rate' = rate
    BY <1>1, <1>2, <2>2, FrameGoesOn
  <2>4. peer'.t = SampledAt(recv_state' - 2) + 1 + recv_divcnt'
    <3> HIDE DEF k
    <3>1. recv_state - 2 = k
      BY DEF k
    <3> QED
      BY <1>3, <1>5, <1>7, <2>1, <2>3, <3>1
  <2>5. recv_pattern' \div 2^(10 - recv_state') = peer'.byte % 2^(recv_state' - 2)
    BY <1>4, <1>5, <2>1, <2>3
  <2>6. SampledAt(recv_state - 2)' = SampledAt(recv_state' - 2) /\ BitTime' = BitTime
    BY DEF SampledAt, Clocks, BitTime
  <2> HIDE DEF k
  <2>7. InBits'
    BY <2>2, <2>3, <2>4, <2>5, <2>6 DEF InBits
  <2>8. RxPos'
    BY <2>2, <2>3, <2>7 DEF RxPos
  <2> QED
    BY <2>3, <2>8 DEF RxInv
<1> QED
  BY <1>8, <1>9

\* The byte is in the buffer in the middle of the stop bit.
LEMMA RxStopNext ==
    ASSUME Next, RxInv, PortType, DividerInv, recv_state = 10
    PROVE  RxInv'
<1>1. RecvType /\ RxPos /\ RxData /\ recv_state # 0 /\ recv_state \in 2..10
  BY DEF RxInv
<1>2. /\ IF recv_divcnt > cfg_divider
         THEN /\ recv_buf_data' = recv_pattern /\ recv_buf_valid' = TRUE
              /\ overrun' = (overrun \/ (recv_buf_valid /\ ~reg_dat_re))
              /\ recv_state' = 0 /\ recv_divcnt' = 0
         ELSE recv_divcnt' = recv_divcnt + 1 /\ recv_state' = recv_state /\ KeepBuffer
      /\ recv_pattern' = recv_pattern
  BY DEF Next, Receiver, RxIdle, RxStart, RxBit, RxStop
<1>3. recv_divcnt \in Nat /\ recv_pattern \in Byte /\ peer.byte \in Byte /\ peer.t \in Nat
  BY <1>1 DEF RecvType
<1>4. /\ recv_divcnt <= BitTime - 1 /\ peer.t = SampledAt(recv_state - 2) + 1 + recv_divcnt
      /\ recv_pattern \div 2^(10 - recv_state) = peer.byte % 2^(recv_state - 2)
  BY <1>1 DEF RxPos, InBits
<1>5. cfg_divider = Divider /\ BitTime = Divider + 2 /\ Divider \in Nat /\ BitTime \in Nat
      /\ peer.on /\ peer.t <= SampledAt(9) /\ SampledAt(9) \in Nat
  BY <1>1, FrameLasts, BitTimes DEF RxPos
<1>6. CASE recv_divcnt > cfg_divider
  <2>1. recv_divcnt = BitTime - 1 /\ recv_state' = 0 /\ recv_divcnt' = 0
        /\ recv_buf_data' = recv_pattern /\ recv_buf_valid' = TRUE
        /\ overrun' = (overrun \/ (recv_buf_valid /\ ~reg_dat_re))
    BY <1>2, <1>3, <1>4, <1>5, <1>6
  <2>2. peer.t = SampledAt(9)
    BY <1>1, <2>1, FrameLasts
  <2>3. recv_pattern = peer.byte
    <3>1. 10 - recv_state = 0 /\ recv_state - 2 = 8
      OBVIOUS
    <3>2. \A p, b \in Byte : p \div 2^0 = b % 2^8 => p = b
      BY Powers, SMTT(40) DEF Byte
    <3> QED
      BY <1>3, <1>4, <3>1, <3>2
  <2>4. /\ ~overrun' => ~overrun /\ Buffered' = Append(Buffered, recv_pattern)
        /\ got' \in Seq(Byte) /\ overrun' \in BOOLEAN
    BY <1>1, <2>1, BufferTaken
  <2>5. /\ peer' \in [on : BOOLEAN, byte : Byte, t : Nat, f : Nat]
        /\ sent' \in Seq(Byte)
        /\ peer'.on => /\ cfg_divider' = Divider /\ peer'.f \in 0..(rate[2] - 1)
                       /\ BitAt(rate, peer'.t, peer'.f) <= 9
    BY <1>1, PeerNext
  <2>6. \/ /\ peer.on /\ peer'.on /\ peer'.byte = peer.byte /\ peer'.t = peer.t + 1
           /\ peer'.f = peer.f /\ sent' = sent
        \/ /\ peer.on => peer.t >= SampledAt(9)
           /\ \/ ~peer'.on /\ sent' = sent
              \/ peer'.on /\ peer'.t = 0 /\ sent' = Append(sent, peer'.byte)
    BY <1>1, PeerNext
  <2>7. recv_state' \in 0..10 /\ recv_divcnt' \in Nat /\ recv_pattern' \in Byte
        /\ recv_buf_data' \in Byte /\ recv_buf_valid' \in BOOLEAN
    BY <1>2, <1>3, <2>1
  <2>8. RecvType'
    BY <2>4, <2>5, <2>7 DEF RecvType
  <2>9. peer'.on => peer'.t = 0 \/ peer'.t > SampledAt(9)
    BY <1>3, <1>5, <2>2, <2>6
  <2>10. SampledAt(9)' = SampledAt(9) /\ rate' = rate
    BY DEF SampledAt, Clocks, Next
  <2>11. RxPos'
    BY <2>1, <2>5, <2>9, <2>10 DEF RxPos
  <2>12. Pending /\ Pending' = (peer'.on /\ peer'.t = 0)
    BY <1>1, <1>5, <2>1 DEF Pending
  <2>13. ~overrun' => sent = Buffered'
    BY <1>1, <2>3, <2>4, <2>12 DEF RxData
  <2>14. RxData'
    <3>1. CASE peer'.on /\ peer'.t = 0
      <4>1. sent' = Append(sent, peer'.byte)
        BY <1>3, <2>6, <3>1
      <4> QED
        BY <2>12, <2>13, <3>1, <4>1 DEF RxData
    <3>2. CASE ~(peer'.on /\ peer'.t = 0)
      <4>1. sent' = sent
        BY <2>6, <3>2
      <4> QED
        BY <2>12, <2>13, <3>2, <4>1 DEF RxData
    <3> QED
      BY <3>1, <3>2
  <2> QED
    BY <2>8, <2>11, <2>14 DEF RxInv
<1>7. CASE ~(recv_divcnt > cfg_divider)
  <2>1. recv_divcnt' = recv_divcnt + 1 /\ recv_state' = recv_state /\ recv_pattern' = recv_pattern
        /\ KeepBuffer
    BY <1>2, <1>7
  <2>2. recv_state' \in 1..10 /\ recv_state' \in 2..10 /\ recv_divcnt' \in Nat
        /\ recv_pattern' \in Byte /\ recv_divcnt' <= BitTime - 1 /\ recv_divcnt # BitTime - 1
    BY <1>3, <1>5, <1>7, <2>1
  <2>3. /\ RecvType' /\ RxData'
        /\ cfg_divider = Divider /\ cfg_divider' = Divider
        /\ peer'.on /\ peer'.t = peer.t + 1 /\ peer'.byte = peer.byte
        /\ peer'.f \in 0..(rate[2] - 1) /\ BitAt(rate, peer'.t, peer'.f) <= 9
        /\ rate' = rate
    BY <1>1, <2>1, <2>2, FrameGoesOn
  <2>4. peer'.t = SampledAt(recv_state' - 2) + 1 + recv_divcnt'
    <3>1. SampledAt(8) \in Nat /\ recv_state - 2 = 8
      <4>1. 8 \in Nat
        OBVIOUS
      <4> QED
        BY <4>1, ClocksIs, BitTimes, SMTT(40) DEF SampledAt
    <3> QED
      BY <1>3, <1>4, <2>1, <2>3, <3>1
  <2>5. recv_pattern' \div 2^(10 - recv_state') = peer'.byte % 2^(recv_state' - 2)
    BY <1>4, <2>1, <2>3
  <2>6. SampledAt(recv_state - 2)' = SampledAt(recv_state' - 2) /\ BitTime' = BitTime
    BY DEF SampledAt, Clocks, BitTime
  <2>7. InBits'
    BY <2>2, <2>3, <2>4, <2>5, <2>6 DEF InBits
  <2>8. RxPos'
    BY <2>2, <2>3, <2>7 DEF RxPos
  <2> QED
    BY <2>3, <2>8 DEF RxInv
<1> QED
  BY <1>6, <1>7

\* simpleuart.v:66-105 and the peer: as long as no unread byte was replaced the
\* program reads what the peer sends, in order, each byte once, for every divider,
\* matching rate, phase, sequence of bytes and of reads; at most the byte on the
\* line is missing.
THEOREM BytesAreRead == Spec => []RxComplete
<1>1. Init => PortType /\ DividerInv /\ RxInv
  <2> SUFFICES ASSUME Init PROVE PortType /\ DividerInv /\ RxInv
    OBVIOUS
  <2>1. rate \in RateOf
    BY UartAssumption DEF Init, RateOf
  <2>2. PortType /\ DividerInv
    BY <2>1 DEF Init, PortType, DividerInv, NoRequest, Byte
  <2>3. RecvType
    <3>1. peer \in [on : BOOLEAN, byte : Byte, t : Nat, f : Nat]
      BY DEF Init, Silent, Byte
    <3>2. sent \in Seq(Byte) /\ got \in Seq(Byte)
      BY DEF Init
    <3>3. /\ recv_state \in 0..10 /\ recv_divcnt \in Nat /\ recv_pattern \in Byte
          /\ recv_buf_data \in Byte
      BY DEF Init, Byte
    <3>4. recv_buf_valid \in BOOLEAN /\ overrun \in BOOLEAN
      BY DEF Init
    <3> QED
      BY <3>1, <3>2, <3>3, <3>4 DEF RecvType
  <2>4. RxPos
    BY DEF Init, Silent, RxPos
  <2>5. RxData
    BY DEF Init, Silent, RxData, Pending, Buffered, reg_dat_do
  <2> QED
    BY <2>2, <2>3, <2>4, <2>5 DEF RxInv
<1>2. PortType /\ DividerInv /\ RxInv /\ [Next]_vars => (PortType /\ DividerInv /\ RxInv)'
  <2> SUFFICES ASSUME PortType, DividerInv, RxInv, [Next]_vars
               PROVE  (PortType /\ DividerInv /\ RxInv)'
    OBVIOUS
  <2>1. CASE Next
    <3>1. recv_state \in 0..10
      BY DEF RxInv, RecvType
    <3>2. recv_state = 0 \/ recv_state = 1 \/ recv_state \in 2..9 \/ recv_state = 10
      BY <3>1
    <3> QED
      BY <2>1, <3>2, PortNext, RxIdleNext, RxStartNext, RxBitNext, RxStopNext
  <2>2. CASE UNCHANGED vars
    <3>1. PortType' /\ DividerInv'
      BY <2>2 DEF vars, PortType, DividerInv
    <3>2. /\ recv_state' = recv_state /\ recv_divcnt' = recv_divcnt
          /\ recv_pattern' = recv_pattern /\ recv_buf_data' = recv_buf_data
          /\ recv_buf_valid' = recv_buf_valid /\ peer' = peer /\ rate' = rate
          /\ sent' = sent /\ got' = got /\ overrun' = overrun /\ cfg_divider' = cfg_divider
      BY <2>2 DEF vars, recv
    <3>3. RecvType'
      BY <3>2 DEF RxInv, RecvType
    <3>4. RxData'
      <4>1. Buffered' = Buffered /\ Pending' = Pending
        BY <3>2 DEF Pending, Buffered, reg_dat_do
      <4> QED
        BY <3>2, <4>1 DEF RxInv, RxData
    <3>5. InBits' = InBits
      BY <3>2 DEF InBits, SampledAt, Clocks
    <3>6. SampledAt(9)' = SampledAt(9)
          /\ BitAt(rate, peer.t, peer.f)' = BitAt(rate, peer.t, peer.f)
      BY <3>2 DEF SampledAt, Clocks, BitAt
    <3>7. RxPos'
      BY <3>2, <3>5, <3>6 DEF RxInv, RxPos
    <3> QED
      BY <3>1, <3>3, <3>4, <3>7 DEF RxInv
  <2> QED
    BY <2>1, <2>2
<1>3. RxInv => RxComplete
  <2> SUFFICES ASSUME RxInv, ~overrun
               PROVE  /\ IsPrefix(Buffered, sent) /\ Len(sent) - Len(Buffered) <= 1
                      /\ ~peer.on => Buffered = sent
    BY DEF RxComplete, Buffered
  <2>1. /\ peer.byte \in Byte /\ sent \in Seq(Byte) /\ Buffered \in Seq(Byte)
        /\ sent = IF Pending THEN Append(Buffered, peer.byte) ELSE Buffered
    BY DEF RxInv, RecvType, RxData, Buffered, reg_dat_do
  <2>2. Len(Buffered) \in Nat
    BY <2>1
  <2>3. CASE Pending
    BY <2>1, <2>2, <2>3 DEF IsPrefix, Pending
  <2>4. CASE ~Pending
    BY <2>1, <2>2, <2>4 DEF IsPrefix
  <2> QED
    BY <2>3, <2>4
<1> QED
  BY <1>1, <1>2, <1>3, PTL DEF Spec
-----------------------------------------------------------------------------
(* gets of lib.c, for a buffer of any size and any keys: GetsFaithful is   *)
(* an invariant.  By itself it says nothing while a line is being typed;   *)
(* LineInv adds that s and len share the buffer, that it holds what was    *)
(* typed so far, and that there is room for one more and the final zero.   *)

Chars == Keys \cup {"NUL"}
Glyphs == Keys \cup {">", " "}

LineInv ==
  fwPc \in {"gets", "main"} =>
    /\ line \in Seq(Keys) /\ s = Len(line)
    /\ len \in Nat /\ s + len = LineMax
    /\ fwPc = "gets" => len >= 2
    /\ fwPc = "main" => len >= 1 /\ cmds[s] = "NUL"
    /\ cmds \in [0 .. LineMax - 1 -> Chars]
    /\ \A x \in 0 .. s - 1 : cmds[x] = line[x + 1]
    /\ blank \in BOOLEAN
    /\ ~blank => screen = Prompt \o line

(* What the terminal shows of a character.                                 *)
LEMMA DisplayedIs ==
  ASSUME NEW text, NEW c
  PROVE  /\ c = "BS" => Displayed(text, c) = Erased(text)
         /\ c \in {"CR", "NL"} => Displayed(text, c) = text
         /\ c \notin {"BS", "CR", "NL"} => Displayed(text, c) = Append(text, c)
<1>1. putchar("BS") = <<"BS", " ", "BS">>
  BY DEF putchar
<1>2. c \in {"CR", "NL"} => putchar(c) # <<"BS", " ", "BS">>
  BY DEF putchar
<1>3. c \notin {"BS", "CR", "NL"} => putchar(c) # <<"BS", " ", "BS">>
  BY DEF putchar
<1>q. QED
  BY <1>1, <1>2, <1>3 DEF Displayed

(* A backspace takes off the last character.                                *)
LEMMA ErasedIs ==
  ASSUME NEW S, NEW txt \in Seq(S), txt # << >>
  PROVE  /\ Erased(txt) \in Seq(S)
         /\ Len(Erased(txt)) = Len(txt) - 1
         /\ \A x \in 1 .. Len(txt) - 1 : Erased(txt)[x] = txt[x]
<1> DEFINE n == Len(txt) - 1
<1>1. Len(txt) \in Nat /\ n \in Nat /\ n \in Int /\ 1 \in Int
  BY EmptySeq
<1>2. Erased(txt) = SubSeq(txt, 1, n)
  BY DEF Erased, Front1
<1>3. \A x \in 1 .. n : txt[x] \in S
  <2> TAKE x \in 1 .. n
  <2>1. x \in 1 .. Len(txt)
    BY <1>1
  <2>q. QED
    BY <2>1, ElementOfSeq
<1> HIDE DEF n
<1>4. /\ SubSeq(txt, 1, n) \in Seq(S)
      /\ Len(SubSeq(txt, 1, n)) = IF 1 <= n THEN n - 1 + 1 ELSE 0
      /\ \A x \in 1 .. n - 1 + 1 : SubSeq(txt, 1, n)[x] = txt[1 + x - 1]
  BY <1>1, <1>3, SubSeqProperties
<1>5. /\ Len(SubSeq(txt, 1, n)) = n
      /\ \A x \in 1 .. n : SubSeq(txt, 1, n)[x] = txt[x]
  BY <1>1, <1>4
<1>q. QED
  BY <1>2, <1>4, <1>5 DEF n

(* A sequence of one kind of characters is one of more kinds.              *)
LEMMA MoreGlyphs ==
  ASSUME NEW txt \in Seq(Keys)
  PROVE  txt \in Seq(Glyphs)
BY SeqMonotonic DEF Glyphs

(* The prompt is two characters of the terminal.                           *)
LEMMA PromptIs == Prompt \in Seq(Glyphs) /\ Len(Prompt) = 2
BY DEF Prompt, Glyphs

(* Behind the prompt the last character is the line's.                     *)
LEMMA ErasedBehind ==
  ASSUME NEW txt \in Seq(Keys), txt # << >>
  PROVE  Erased(Prompt \o txt) = Prompt \o Erased(txt)
<1> DEFINE n == Len(txt)
           whole == Prompt \o txt
           short == Erased(txt)
           l == Erased(whole)
           r == Prompt \o short
<1>1. n \in Nat \ {0} /\ txt \in Seq(Glyphs)
  BY EmptySeq, MoreGlyphs
<1>2. /\ short \in Seq(Glyphs) /\ Len(short) = n - 1
      /\ \A x \in 1 .. n - 1 : short[x] = txt[x]
  BY <1>1, ErasedIs
<1>3. /\ whole \in Seq(Glyphs) /\ Len(whole) = Len(Prompt) + n
      /\ \A x \in 1 .. Len(Prompt) + n :
           whole[x] = IF x <= Len(Prompt) THEN Prompt[x] ELSE txt[x - Len(Prompt)]
  BY <1>1, PromptIs, ConcatProperties, Zenon
<1> HIDE DEF whole
<1>4. whole # << >>
  BY <1>1, <1>3, PromptIs, EmptySeq
<1>5. /\ l \in Seq(Glyphs) /\ Len(l) = Len(whole) - 1
      /\ \A x \in 1 .. Len(whole) - 1 : l[x] = whole[x]
  BY <1>3, <1>4, ErasedIs, Zenon
<1> HIDE DEF short, l
<1>6. /\ r \in Seq(Glyphs) /\ Len(r) = Len(Prompt) + Len(short)
      /\ \A x \in 1 .. Len(Prompt) + Len(short) :
           r[x] = IF x <= Len(Prompt) THEN Prompt[x] ELSE short[x - Len(Prompt)]
  BY <1>2, PromptIs, ConcatProperties, Zenon
<1> HIDE DEF r, n
<1>7. Len(l) = n + 1 /\ Len(r) = n + 1
  BY <1>1, <1>2, <1>3, <1>5, <1>6, PromptIs
<1>8. \A x \in 1 .. Len(l) : l[x] = r[x]
  <2> TAKE x \in 1 .. Len(l)
  <2>1. x \in 1 .. n + 1
    BY <1>7
  <2>2. l[x] = whole[x]
    BY <2>1, <1>1, <1>3, <1>5, PromptIs
  <2>3. CASE x <= 2
    BY <2>1, <2>2, <2>3, <1>1, <1>2, <1>3, <1>6, PromptIs, SMTT(40)
  <2>4. CASE x > 2
    <3>1. x - 2 \in 1 .. n - 1
      BY <2>1, <2>4, <1>1
    <3>2. whole[x] = txt[x - 2] /\ r[x] = short[x - 2]
      BY <2>1, <2>4, <1>1, <1>2, <1>3, <1>6, PromptIs, SMTT(40)
    <3>q. QED
      BY <3>1, <3>2, <2>2, <1>2
  <2>q. QED
    BY <2>1, <2>3, <2>4, <1>1
<1>9. l = r
  BY <1>5, <1>6, <1>7, <1>8, SeqEqual
<1>q. QED
  BY <1>9 DEF l, r, whole, short

(* Behind the prompt a character is added to the line.                     *)
LEMMA AppendBehind ==
  ASSUME NEW txt \in Seq(Keys), NEW c \in Keys
  PROVE  Append(Prompt \o txt, c) = Prompt \o Append(txt, c)
<1>1. txt \in Seq(Glyphs) /\ c \in Glyphs
  BY MoreGlyphs DEF Glyphs
<1>2. <<c>> \in Seq(Glyphs) /\ Prompt \o txt \in Seq(Glyphs)
  BY <1>1, PromptIs, ConcatProperties
<1>3. Append(Prompt \o txt, c) = (Prompt \o txt) \o <<c>>
  BY <1>1, <1>2, AppendIsConcat
<1>4. Append(txt, c) = txt \o <<c>>
  BY <1>1, AppendIsConcat
<1>q. QED
  BY <1>1, <1>2, <1>3, <1>4, PromptIs, ConcatAssociative, SMTT(40)
--------------------------------------------------------------------------------
(* The three branches of gets, with a character of the keyboard.           *)
LEMMA EnterKeeps ==
  ASSUME LineInv, fwPc = "gets", NEW c \in Keys, GetsEnter(c), screen' = Displayed(screen, c)
  PROVE  LineInv'
<1>1. /\ line \in Seq(Keys) /\ s = Len(line) /\ len \in Nat /\ s + len = LineMax /\ len >= 2
      /\ cmds \in [0 .. LineMax - 1 -> Chars]
      /\ \A x \in 0 .. s - 1 : cmds[x] = line[x + 1]
      /\ blank \in BOOLEAN
  BY DEF LineInv
<1>2. s \in Nat /\ s \in 0 .. LineMax - 1
  BY <1>1, LenProperties
<1>3. /\ cmds' = [cmds EXCEPT ![s] = "NUL"] /\ fwPc' = "main"
      /\ s' = s /\ len' = len /\ line' = line /\ blank' = blank
  BY DEF GetsEnter, Ended
<1>4. /\ cmds' \in [0 .. LineMax - 1 -> Chars] /\ cmds'[s] = "NUL"
      /\ \A x \in 0 .. s - 1 : cmds'[x] = cmds[x]
  BY <1>1, <1>2, <1>3 DEF Chars
<1>5. screen' = screen
  BY DisplayedIs DEF GetsEnter
<1>6. ~blank => screen = Prompt \o line
  BY DEF LineInv
<1>q. QED
  BY <1>1, <1>2, <1>3, <1>4, <1>5, <1>6 DEF LineInv

(* A backspace, with a line and without one.                               *)
LEMMA BackspaceKeeps ==
  ASSUME LineInv, fwPc = "gets", NEW c \in Keys, GetsBackspace(c), screen' = Displayed(screen, c)
  PROVE  LineInv'
<1>1. /\ line \in Seq(Keys) /\ s = Len(line) /\ len \in Nat /\ s + len = LineMax /\ len >= 2
      /\ cmds \in [0 .. LineMax - 1 -> Chars]
      /\ \A x \in 0 .. s - 1 : cmds[x] = line[x + 1]
      /\ blank \in BOOLEAN
  BY DEF LineInv
<1>2. s \in Nat /\ s \in 0 .. LineMax - 1 /\ (s = 0 <=> line = << >>)
  BY <1>1, LenProperties, EmptySeq
<1>3. /\ cmds' = [cmds EXCEPT ![s] = "NUL"] /\ fwPc' = "gets"
      /\ line' = Erased(line) /\ blank' = (blank \/ line = << >>)
      /\ IF s > 0 THEN s' = s - 1 /\ len' = len + 1 ELSE s' = s /\ len' = len
  BY DEF GetsBackspace, Ended
<1>4. /\ cmds' \in [0 .. LineMax - 1 -> Chars]
      /\ \A x \in 0 .. s - 1 : cmds'[x] = cmds[x]
  BY <1>1, <1>2, <1>3 DEF Chars
<1>5. screen' = Erased(screen)
  BY DisplayedIs DEF GetsBackspace
<1>6. ~blank => screen = Prompt \o line
  BY DEF LineInv
<1>7. CASE line = << >>
  <2>1. line' = << >> /\ s' = 0 /\ s = 0 /\ len' = len
    BY <1>2, <1>3, <1>7 DEF Erased
  <2>2. blank' = TRUE
    BY <1>3, <1>7
  <2>q. QED
    <3>1. line' \in Seq(Keys) /\ Len(line') = 0
      BY <2>1, EmptySeq
    <3>2. blank' \in BOOLEAN /\ ~(~blank')
      BY <2>2
    <3>q. QED
      BY <1>1, <1>2, <1>3, <1>4, <2>1, <3>1, <3>2 DEF LineInv
<1>8. CASE line # << >>
  <2>1. /\ line' \in Seq(Keys) /\ Len(line') = s - 1
        /\ \A x \in 1 .. s - 1 : line'[x] = line[x]
    BY <1>1, <1>3, <1>8, ErasedIs
  <2>2. s' = s - 1 /\ s > 0 /\ len' = len + 1 /\ blank' = blank
    BY <1>1, <1>2, <1>3, <1>8
  <2>3. \A x \in 0 .. s' - 1 : cmds'[x] = line'[x + 1]
    <3> TAKE x \in 0 .. s' - 1
    <3>1. x \in 0 .. s - 1 /\ x + 1 \in 1 .. s - 1
      BY <2>2, <1>2
    <3>q. QED
      BY <3>1, <2>1, <1>1, <1>4
  <2>4. ~blank' => screen' = Prompt \o line'
    BY <1>1, <1>3, <1>5, <1>6, <1>8, <2>2, ErasedBehind
  <2>5. len' \in Nat /\ s' + len' = LineMax /\ len' >= 2 /\ s' = Len(line')
    BY <1>1, <1>2, <2>1, <2>2
  <2>q. QED
    BY <1>1, <1>3, <1>4, <2>1, <2>2, <2>3, <2>4, <2>5 DEF LineInv
<1>q. QED
  BY <1>7, <1>8

(* Any other character, up to the last place of the buffer.                *)
LEMMA OtherKeeps ==
  ASSUME LineInv, fwPc = "gets", NEW c \in Keys, GetsOther(c), screen' = Displayed(screen, c)
  PROVE  LineInv'
<1>1. /\ line \in Seq(Keys) /\ s = Len(line) /\ len \in Nat /\ s + len = LineMax /\ len >= 2
      /\ cmds \in [0 .. LineMax - 1 -> Chars]
      /\ \A x \in 0 .. s - 1 : cmds[x] = line[x + 1]
      /\ blank \in BOOLEAN
  BY DEF LineInv
<1>2. /\ s \in Nat /\ s \in 0 .. LineMax - 1 /\ s + 1 \in 0 .. LineMax - 1
      /\ c \in Chars /\ "NUL" \in Chars
  BY <1>1, LenProperties DEF Chars
<1>3. /\ cmds' = IF len = 2 THEN [cmds EXCEPT ![s] = c, ![s + 1] = "NUL"]
                          ELSE [cmds EXCEPT ![s] = c]
      /\ s' = s + 1 /\ len' = len - 1
      /\ fwPc' = IF len = 2 THEN "main" ELSE fwPc
      /\ line' = Append(line, c) /\ blank' = blank
  BY DEF GetsOther
<1>4. /\ cmds' \in [0 .. LineMax - 1 -> Chars] /\ cmds'[s] = c
      /\ \A x \in 0 .. s - 1 : cmds'[x] = cmds[x]
      /\ len = 2 => cmds'[s + 1] = "NUL"
  BY <1>1, <1>2, <1>3, SMTT(40)
<1>5. screen' = Append(screen, c)
  BY DisplayedIs DEF GetsOther
<1>6. ~blank => screen = Prompt \o line
  BY DEF LineInv
<1>7. /\ line' \in Seq(Keys) /\ Len(line') = s + 1 /\ line'[s + 1] = c
      /\ \A x \in 1 .. s : line'[x] = line[x]
  BY <1>1, <1>3, AppendProperties
<1>8. \A x \in 0 .. s' - 1 : cmds'[x] = line'[x + 1]
  <2> TAKE x \in 0 .. s' - 1
  <2>1. CASE x = s
    BY <2>1, <1>4, <1>7
  <2>2. CASE x # s
    <3>1. x \in 0 .. s - 1 /\ x + 1 \in 1 .. s
      BY <2>2, <1>2, <1>3
    <3>q. QED
      BY <3>1, <1>1, <1>4, <1>7
  <2>q. QED
    BY <2>1, <2>2
<1>9. ~blank' => screen' = Prompt \o line'
  BY <1>1, <1>3, <1>5, <1>6, AppendBehind
<1>10. /\ len' \in Nat /\ s' + len' = LineMax /\ s' = Len(line') /\ blank' \in BOOLEAN
       /\ fwPc' = "gets" => len' >= 2
       /\ fwPc' = "main" => len' >= 1 /\ cmds'[s'] = "NUL"
  BY <1>1, <1>2, <1>3, <1>4, <1>7
<1>q. QED
  BY <1>4, <1>7, <1>8, <1>9, <1>10 DEF LineInv
--------------------------------------------------------------------------------
(* Before the first prompt there is nothing on the screen.                 *)
LEMMA InitLine == FirmwareInit => LineInv
BY DEF FirmwareInit, LineInv

(* Every step of the firmware keeps the invariant.                         *)
LEMMA NextLine == LineInv /\ [FirmwareNext]_fwVars => LineInv'
<1> SUFFICES ASSUME LineInv, [FirmwareNext]_fwVars PROVE LineInv'
  OBVIOUS
<1>1. CASE gets
  <2>1. PICK c \in Keys : /\ GetsEnter(c) \/ GetsBackspace(c) \/ GetsOther(c)
                          /\ screen' = Displayed(screen, c)
    BY <1>1 DEF gets
  <2>2. fwPc = "gets"
    BY <1>1 DEF gets
  <2>q. QED
    BY <2>1, <2>2, EnterKeeps, BackspaceKeeps, OtherKeeps
<1>2. CASE Access
  BY <1>2 DEF Access, LineInv
<1>3. CASE Ready
  <2>1. /\ fwPc' = "gets" /\ cmds' = [x \in 0 .. LineMax - 1 |-> "NUL"]
        /\ s' = 0 /\ len' = LineMax /\ line' = << >> /\ screen' = Prompt /\ blank' = FALSE
    BY <1>3 DEF Ready
  <2>2. LineMax \in Nat /\ LineMax >= 2
    BY FlashAssumption
  <2>3. << >> \in Seq(Keys) /\ Len(<< >>) = 0 /\ Prompt \o << >> = Prompt
    BY EmptySeq, PromptIs, ConcatEmptySeq
  <2>4. cmds' \in [0 .. LineMax - 1 -> Chars]
    BY <2>1 DEF Chars
  <2>5. /\ line' \in Seq(Keys) /\ s' = Len(line') /\ len' \in Nat /\ s' + len' = LineMax
        /\ len' >= 2
    BY <2>1, <2>2, <2>3
  <2>6. \A x \in 0 .. s' - 1 : cmds'[x] = line'[x + 1]
    BY <2>1
  <2>7. screen' = Prompt \o line'
    BY <2>1, <2>3
  <2>8. blank' \in BOOLEAN
    BY <2>1
  <2>q. QED
    BY <2>1, <2>4, <2>5, <2>6, <2>7, <2>8 DEF LineInv
<1>4. CASE Select
  BY <1>4 DEF Select, LineInv
<1>5. CASE FirmwareReset
  BY <1>5 DEF FirmwareReset, LineInv
<1>6. CASE UNCHANGED fwVars
  BY <1>6 DEF fwVars, LineInv
<1>q. QED
  BY <1>1, <1>2, <1>3, <1>4, <1>5, <1>6 DEF FirmwareNext

(* The invariant is strong enough.                                         *)
LEMMA LineFaithful == LineInv => GetsFaithful
<1> SUFFICES ASSUME LineInv, fwPc = "main" PROVE GetsFaithful
  BY DEF GetsFaithful
<1>1. line \in Seq(Keys) /\ s = Len(line) /\ len \in Nat /\ s + len = LineMax /\ len >= 1
  BY DEF LineInv
<1>2. s \in Nat /\ s < LineMax
  BY <1>1, LenProperties
<1>q. QED
  BY <1>1, <1>2 DEF LineInv, GetsFaithful

(* lib.c, gets: whatever is typed, with however many backspaces, and       *)
(* whenever the button is pressed, the command line main gets is the line  *)
(* as edited, ends inside cmds, and is what the terminal shows.            *)
THEOREM LineAsTyped == FirmwareSpec => []GetsFaithful
<1>1. FirmwareInit => LineInv
  BY InitLine
<1>2. LineInv /\ [FirmwareNext]_fwVars => LineInv'
  BY NextLine
<1>3. LineInv => GetsFaithful
  BY LineFaithful
<1>q. QED
  BY <1>1, <1>2, <1>3, PTL DEF FirmwareSpec
-----------------------------------------------------------------------------
(* The flash's mode, for any keys, flash IDs and moments of the reset.     *)
(* ModeAsAsked speaks of the end of a command; Doing says of each access   *)
(* a command still makes what the mode is before it.                       *)

RightId(digits) ==
  \A x \in 1 .. 3 : digits[x] = <<Digit[flashId[x][1] + 1], Digit[flashId[x][2] + 1]>>

InMode == qspi.en /\ qspi.dspi = asked.dspi /\ qspi.crm = asked.crm
Both == asked.dspi /\ asked.crm

(* The accesses of a switch from here on, in a mode that leads to the one  *)
(* asked for.                                                              *)
Switching ==
  \/ todo = <<Reg("leds", TRUE), Reg("crm", TRUE), Reg("dspi", TRUE)>> /\ Both
  \/ todo = <<Reg("crm", TRUE), Reg("dspi", TRUE)>> /\ Both
  \/ todo = <<Reg("crm", FALSE), Reg("dspi", TRUE)>> /\ asked.dspi /\ ~asked.crm
  \/ todo = <<Reg("dspi", TRUE)>> /\ asked.dspi /\ qspi.crm = asked.crm
  \/ todo = <<Reg("dspi", FALSE), Reg("crm", FALSE)>> /\ ~asked.dspi /\ ~asked.crm
  \/ todo = <<Reg("crm", FALSE)>> /\ ~asked.dspi /\ ~asked.crm /\ ~qspi.dspi
  \/ todo = <<Reg("dspi", FALSE), Reg("crm", FALSE), Reg("dspi", TRUE), Reg("crm", TRUE)>> /\ Both
  \/ todo = <<Reg("crm", FALSE), Reg("dspi", TRUE), Reg("crm", TRUE)>> /\ Both
  \/ todo = <<Reg("dspi", TRUE), Reg("crm", TRUE)>> /\ Both
  \/ todo = <<Reg("crm", TRUE)>> /\ Both /\ qspi.dspi

(* Those of the command that reads the ID: the mode it has to restore is   *)
(* remembered, and the flash listens when it is spoken to.                  *)
Identifying ==
  LET kept == pre_dspi = asked.dspi /\ qspi.crm = asked.crm IN
  \/ /\ kept /\ qspi.en
     /\ todo = <<Reg("dspi", FALSE), Reg("en", FALSE), Reg("transfer", TRUE), Reg("en", TRUE),
                 Reg("restore", TRUE)>>
  \/ /\ kept /\ qspi.en /\ ~qspi.dspi
     /\ todo = <<Reg("en", FALSE), Reg("transfer", TRUE), Reg("en", TRUE), Reg("restore", TRUE)>>
  \/ /\ kept /\ ~qspi.en /\ ~qspi.dspi
     /\ todo = <<Reg("transfer", TRUE), Reg("en", TRUE), Reg("restore", TRUE)>>
  \/ kept /\ ~qspi.en /\ ~qspi.dspi /\ todo = <<Reg("en", TRUE), Reg("restore", TRUE)>>
  \/ kept /\ qspi.en /\ ~qspi.dspi /\ todo = <<Reg("restore", TRUE)>>

Doing ==
  \/ todo = << >> /\ InMode
  \/ (\E c \in DOMAIN Led : todo = <<Reg("toggle", c)>>) /\ InMode
  \/ /\ InMode
     /\ todo = <<Reg("get_dspi", TRUE), Reg("dspi", FALSE), Reg("en", FALSE),
                 Reg("transfer", TRUE), Reg("en", TRUE), Reg("restore", TRUE)>>
  \/ Switching /\ qspi.en
  \/ Identifying

ModeType ==
  /\ qspi \in [dspi : BOOLEAN, crm : BOOLEAN, en : BOOLEAN]
  /\ asked \in [dspi : BOOLEAN, crm : BOOLEAN]
  /\ pre_dspi \in BOOLEAN /\ enhance \in BOOLEAN
  /\ enhance => qspi.dspi /\ qspi.crm
  /\ flashId \in FlashIds /\ (shown # << >> => RightId(shown))

ModeInv ==
  /\ ModeType
  /\ fwPc \in {"gets", "main"} => InMode
  /\ fwPc = "do" => Doing

(* Two digits are printed of a byte, also where the first is a zero.       *)
LEMMA TwoDigits ==
  ASSUME NEW b \in (0 .. 15) \X (0 .. 15)
  PROVE  print_hex(AsWord(b), 2) = <<Digit[b[1] + 1], Digit[b[2] + 1]>>
<1> DEFINE v == AsWord(b)
           Shown(k) == k > 8 - 2 \/ \E y \in 1 .. k : v[y] # 0
           First(k) == (k = 9 \/ Shown(k)) /\ \A y \in 1 .. k - 1 : ~Shown(y)
           from == CHOOSE k \in 1 .. 9 : First(k)
<1>2. /\ \A y \in 1 .. 6 : v[y] = 0
      /\ v[7] = b[1] /\ v[8] = b[2]
  <2>1. b = <<b[1], b[2]>> /\ b[1] \in 0 .. 15 /\ b[2] \in 0 .. 15
    OBVIOUS
  <2> DEFINE zeros == <<0, 0, 0, 0, 0, 0>>
             d == <<b[1], b[2]>>
  <2>2. /\ zeros \in Seq(0 .. 15) /\ Len(zeros) = 6 /\ \A y \in 1 .. 6 : zeros[y] = 0
        /\ d \in Seq(0 .. 15) /\ Len(d) = 2 /\ d[1] = b[1] /\ d[2] = b[2]
    BY <2>1
  <2>3. v = zeros \o d
    BY <2>1 DEF AsWord
  <2> HIDE DEF zeros, d, v
  <2>4. \A x \in 1 .. Len(zeros) + Len(d) :
           v[x] = IF x <= Len(zeros) THEN zeros[x] ELSE d[x - Len(zeros)]
    BY <2>2, <2>3, ConcatProperties
  <2>5. \A x \in 1 .. 8 : v[x] = IF x <= 6 THEN zeros[x] ELSE d[x - 6]
    <3>1. Len(zeros) = 6 /\ Len(zeros) + Len(d) = 8
      BY <2>2
    <3> QED
      BY <2>4, <3>1, Zenon
  <2>6. v[7] = d[7 - 6] /\ v[8] = d[8 - 6] /\ \A y \in 1 .. 6 : v[y] = zeros[y]
    BY <2>5
  <2>7. 7 - 6 = 1 /\ 8 - 6 = 2
    OBVIOUS
  <2> QED
    BY <2>2, <2>6, <2>7
<1> HIDE DEF v
<1>3. Shown(7) /\ \A y \in 1 .. 6 : ~Shown(y)
  BY <1>2
<1>4. First(7) /\ \A k \in 1 .. 9 : First(k) => k = 7
  <2> HIDE DEF Shown
  <2>1. First(7)
    BY <1>3
  <2>2. ASSUME NEW k \in 1 .. 9, First(k) PROVE k = 7
    <3>1. k \notin 1 .. 6
      <4>1. \A y \in 1 .. 6 : y # 9
        OBVIOUS
      <4> QED
        BY <1>3, <2>2, <4>1
    <3>2. 7 \notin 1 .. k - 1
      BY <1>3, <2>2
    <3> QED
      BY <3>1, <3>2
  <2> QED
    BY <2>1, <2>2
<1> HIDE DEF First
<1>5. from = 7
  <2>1. 7 \in 1 .. 9
    OBVIOUS
  <2> QED
    BY <1>4, <2>1, Zenon
<1>6. print_hex(v, 2) = [k \in 1 .. 9 - from |-> Digit[v[from + k - 1] + 1]]
  BY Zenon DEF print_hex, from, First, Shown
<1> HIDE DEF from
<1> DEFINE p == [k \in 1 .. 2 |-> Digit[v[7 + k - 1] + 1]]
<1>7. print_hex(v, 2) = p
  BY <1>5, <1>6
<1>8. p = <<Digit[b[1] + 1], Digit[b[2] + 1]>>
  <2>1. p[1] = Digit[b[1] + 1] /\ p[2] = Digit[b[2] + 1]
    BY <1>2
  <2>2. p = <<p[1], p[2]>>
    OBVIOUS
  <2> QED
    BY <2>1, <2>2
<1> QED
  BY <1>7, <1>8 DEF v

(* An access to a mode bit, with the accesses after it.                    *)
LEMMA BitWritten ==
  ASSUME Access, ModeType, NEW on \in BOOLEAN, NEW what \in {"dspi", "crm", "en"},
         Head(todo) = Reg(what, on), qspi.en \/ what = "en"
  PROVE  /\ todo' = Tail(todo) /\ asked' = asked /\ pre_dspi' = pre_dspi /\ fwPc' = "do"
         /\ qspi' \in [dspi : BOOLEAN, crm : BOOLEAN, en : BOOLEAN]
         /\ qspi'.dspi = (IF what = "dspi" THEN on ELSE qspi.dspi)
         /\ qspi'.crm = (IF what = "crm" THEN on ELSE qspi.crm)
         /\ qspi'.en = (IF what = "en" THEN on ELSE qspi.en)
         /\ ModeType'
<1>1. /\ todo' = Tail(todo) /\ asked' = asked /\ fwPc' = fwPc /\ fwPc = "do"
      /\ flashId' = flashId
  BY DEF Access, board
<1>2. Head(todo).op = what /\ Head(todo).on = on
  BY DEF Reg
<1>3. pre_dspi' = pre_dspi /\ shown' = shown
  BY <1>2, Zenon DEF Access
<1>4. qspi' = [qspi EXCEPT ![what] = on] /\ enhance' = Fetched(qspi')
  <2>1. CASE what = "dspi"
    BY <1>2, <2>1, Zenon DEF Access, Written
  <2>2. CASE what = "crm"
    BY <1>2, <2>2, Zenon DEF Access, Written
  <2>3. CASE what = "en"
    BY <1>2, <2>3, Zenon DEF Access, Written
  <2> QED
    BY <2>1, <2>2, <2>3
<1>5. /\ qspi' \in [dspi : BOOLEAN, crm : BOOLEAN, en : BOOLEAN]
      /\ qspi'.dspi = (IF what = "dspi" THEN on ELSE qspi.dspi)
      /\ qspi'.crm = (IF what = "crm" THEN on ELSE qspi.crm)
      /\ qspi'.en = (IF what = "en" THEN on ELSE qspi.en)
  BY <1>4 DEF ModeType
<1>6. enhance' \in BOOLEAN /\ (enhance' => qspi'.dspi /\ qspi'.crm)
  <2>1. CASE qspi'.en
    BY <1>4, <1>5, <2>1, Zenon DEF Fetched
  <2>2. CASE ~qspi'.en
    <3>1. enhance' = enhance
      BY <1>4, <2>2, Zenon DEF Fetched
    <3>2. what = "en"
      BY <1>5, <2>2
    <3> QED
      BY <1>5, <3>1, <3>2 DEF ModeType
  <2> QED
    BY <2>1, <2>2
<1>7. RightId(shown)' = RightId(shown)
  BY <1>1, <1>3 DEF RightId
<1>8. ModeType'
  BY <1>1, <1>3, <1>5, <1>6, <1>7 DEF ModeType
<1> QED
  BY <1>1, <1>3, <1>5, <1>8

(* A list that begins like one and goes on like another is the two joined. *)
LEMMA JoinedIs ==
  ASSUME NEW S, NEW p \in Seq(S), NEW q \in Seq(S), NEW w \in Seq(S),
         Len(w) = Len(p) + Len(q),
         \A x \in 1 .. Len(p) : w[x] = p[x],
         \A x \in 1 .. Len(q) : w[Len(p) + x] = q[x]
  PROVE  p \o q = w
<1> DEFINE r == p \o q
<1>1. /\ r \in Seq(S) /\ Len(r) = Len(p) + Len(q)
      /\ \A x \in 1 .. Len(p) + Len(q) : r[x] = IF x <= Len(p) THEN p[x] ELSE q[x - Len(p)]
  BY ConcatProperties
<1> HIDE DEF r
<1>2. ASSUME NEW x \in 1 .. Len(r) PROVE r[x] = w[x]
  <2>1. CASE x <= Len(p)
    BY <1>1, <2>1
  <2>2. CASE ~(x <= Len(p))
    <3> DEFINE y == x - Len(p)
    <3>1. y \in 1 .. Len(q) /\ x = Len(p) + y
      BY <1>1, <2>2
    <3>2. r[x] = q[y]
      BY <1>1, <2>2
    <3> HIDE DEF y
    <3> QED
      BY <3>1, <3>2
  <2> QED
    BY <2>1, <2>2
<1> QED
  BY <1>1, <1>2, SeqEqual DEF r

(* Accesses joined to a list, of two.                                    *)
LEMMA JoinedTwo ==
  \A a, b : <<a>> \o <<b>> = <<a, b>>
<1> TAKE a, b
<1> DEFINE S == {a, b}
           p == <<a>>
           q == <<b>>
           w == <<a, b>>
<1>1. /\ p \in Seq(S) /\ q \in Seq(S) /\ w \in Seq(S) /\ Len(w) = Len(p) + Len(q)
      /\ \A x \in 1 .. Len(p) : w[x] = p[x]
      /\ \A x \in 1 .. Len(q) : w[Len(p) + x] = q[x]
  <2>1. p \in Seq(S) /\ q \in Seq(S) /\ w \in Seq(S) /\ Len(p) = 1 /\ Len(q) = 1 /\ Len(w) = 2
    OBVIOUS
  <2>2. w[1] = p[1] /\ w[1 + 1] = q[1]
    OBVIOUS
  <2> HIDE DEF S, p, q, w
  <2> QED
    BY <2>1, <2>2
<1> HIDE DEF S, p, q, w
<1>2. p \o q = w
  BY <1>1, JoinedIs
<1> QED
  BY <1>2 DEF p, q, w

(* Accesses joined to a list, of three.                                  *)
LEMMA JoinedThree ==
  \A a, b, c : <<a, b>> \o <<c>> = <<a, b, c>>
<1> TAKE a, b, c
<1> DEFINE S == {a, b, c}
           p == <<a, b>>
           q == <<c>>
           w == <<a, b, c>>
<1>1. /\ p \in Seq(S) /\ q \in Seq(S) /\ w \in Seq(S) /\ Len(w) = Len(p) + Len(q)
      /\ \A x \in 1 .. Len(p) : w[x] = p[x]
      /\ \A x \in 1 .. Len(q) : w[Len(p) + x] = q[x]
  OBVIOUS
<1> HIDE DEF S, p, q, w
<1>2. p \o q = w
  BY <1>1, JoinedIs
<1> QED
  BY <1>2 DEF p, q, w

(* Accesses joined to a list, of four.                                   *)
LEMMA JoinedFour ==
  \A a, b, c, d : <<a, b, c>> \o <<d>> = <<a, b, c, d>>
<1> TAKE a, b, c, d
<1> DEFINE S == {a, b, c, d}
           p == <<a, b, c>>
           q == <<d>>
           w == <<a, b, c, d>>
<1>1. /\ p \in Seq(S) /\ q \in Seq(S) /\ w \in Seq(S) /\ Len(w) = Len(p) + Len(q)
      /\ \A x \in 1 .. Len(p) : w[x] = p[x]
      /\ \A x \in 1 .. Len(q) : w[Len(p) + x] = q[x]
  OBVIOUS
<1> HIDE DEF S, p, q, w
<1>2. p \o q = w
  BY <1>1, JoinedIs
<1> QED
  BY <1>2 DEF p, q, w

(* Accesses joined to a list, of two and three.                          *)
LEMMA JoinedFive ==
  \A a, b, c, d, e : <<a, b>> \o <<c, d, e>> = <<a, b, c, d, e>>
<1> TAKE a, b, c, d, e
<1> DEFINE S == {a, b, c, d, e}
           p == <<a, b>>
           q == <<c, d, e>>
           w == <<a, b, c, d, e>>
<1>1. /\ p \in Seq(S) /\ q \in Seq(S) /\ w \in Seq(S) /\ Len(w) = Len(p) + Len(q)
      /\ \A x \in 1 .. Len(p) : w[x] = p[x]
      /\ \A x \in 1 .. Len(q) : w[Len(p) + x] = q[x]
  OBVIOUS
<1> HIDE DEF S, p, q, w
<1>2. p \o q = w
  BY <1>1, JoinedIs
<1> QED
  BY <1>2 DEF p, q, w

(* Accesses joined to a list, of six.                                    *)
LEMMA JoinedSix ==
  \A a, b, c, d, e, f : <<a, b, c, d, e>> \o <<f>> = <<a, b, c, d, e, f>>
<1> TAKE a, b, c, d, e, f
<1> DEFINE S == {a, b, c, d, e, f}
           p == <<a, b, c, d, e>>
           q == <<f>>
           w == <<a, b, c, d, e, f>>
<1>1. /\ p \in Seq(S) /\ q \in Seq(S) /\ w \in Seq(S) /\ Len(w) = Len(p) + Len(q)
      /\ \A x \in 1 .. Len(p) : w[x] = p[x]
      /\ \A x \in 1 .. Len(q) : w[Len(p) + x] = q[x]
  OBVIOUS
<1> HIDE DEF S, p, q, w
<1>2. p \o q = w
  BY <1>1, JoinedIs
<1> QED
  BY <1>2 DEF p, q, w

(* The first of a list, of one.                                          *)
LEMMA FirstOf1 == \A a : Head(<<a>>) = a /\ Tail(<<a>>) = << >>
OBVIOUS

(* The first of a list, of two.                                          *)
LEMMA FirstOf2 == \A a, b : Head(<<a, b>>) = a /\ Tail(<<a, b>>) = <<b>>
OBVIOUS

(* The first of a list, of three.                                        *)
LEMMA FirstOf3 == \A a, b, c : Head(<<a, b, c>>) = a /\ Tail(<<a, b, c>>) = <<b, c>>
OBVIOUS

(* The first of a list, of four.                                         *)
LEMMA FirstOf4 == \A a, b, c, d : Head(<<a, b, c, d>>) = a /\ Tail(<<a, b, c, d>>) = <<b, c, d>>
OBVIOUS

(* The first of a list, of five.                                         *)
LEMMA FirstOf5 ==
  \A a, b, c, d, e : Head(<<a, b, c, d, e>>) = a /\ Tail(<<a, b, c, d, e>>) = <<b, c, d, e>>
OBVIOUS

(* The first of a list, of six.                                          *)
LEMMA FirstOf6 ==
  \A a, b, c, d, e, f :
    Head(<<a, b, c, d, e, f>>) = a /\ Tail(<<a, b, c, d, e, f>>) = <<b, c, d, e, f>>
OBVIOUS

(* The accesses that change no mode.                                        *)
LEMMA OtherAccess ==
  ASSUME Access, ModeType, NEW on, NEW what \in {"leds", "toggle", "get_dspi"},
         Head(todo) = Reg(what, on)
  PROVE  /\ todo' = Tail(todo) /\ asked' = asked /\ fwPc' = "do" /\ qspi' = qspi
         /\ pre_dspi' = (IF what = "get_dspi" THEN qspi.dspi ELSE pre_dspi)
         /\ ModeType'
<1>1. /\ todo' = Tail(todo) /\ asked' = asked /\ fwPc' = fwPc /\ fwPc = "do"
      /\ flashId' = flashId
  BY DEF Access, board
<1>2. Head(todo).op = what
  BY DEF Reg
<1>3. shown' = shown /\ pre_dspi' = (IF what = "get_dspi" THEN qspi.dspi ELSE pre_dspi)
  BY <1>2, Zenon DEF Access
<1>4. qspi' = qspi /\ enhance' = enhance
  <2>1. what \notin {"dspi", "crm", "en", "restore"}
    OBVIOUS
  <2> QED
    BY <1>2, <2>1, Zenon DEF Access
<1>5. RightId(shown)' = RightId(shown)
  BY <1>1, <1>3 DEF RightId
<1>6. pre_dspi' \in BOOLEAN
  BY <1>3 DEF ModeType
<1>7. ModeType'
  BY <1>1, <1>3, <1>4, <1>5, <1>6 DEF ModeType
<1> QED
  BY <1>1, <1>3, <1>4, <1>7

(* A switch of the mode goes on as it began.                                *)
LEMMA SwitchGoesOn ==
  ASSUME Access, ModeType, Switching, qspi.en
  PROVE  ModeType' /\ Doing'
<1>1. CASE todo = <<Reg("leds", TRUE), Reg("crm", TRUE), Reg("dspi", TRUE)>> /\ Both
  <2>1. /\ Head(todo) = Reg("leds", TRUE)
        /\ Tail(todo) = <<Reg("crm", TRUE), Reg("dspi", TRUE)>>
    BY <1>1, FirstOf3, Zenon
  <2>2. todo' = Tail(todo) /\ asked' = asked /\ qspi' = qspi /\ ModeType'
    BY <2>1, OtherAccess
  <2>3. Switching'
    BY <1>1, <2>1, <2>2 DEF Switching, Both
  <2> QED
    BY <2>2, <2>3 DEF Doing
<1>2. CASE /\ Both
           /\ todo = <<Reg("crm", TRUE), Reg("dspi", TRUE)>>
  <2>1. /\ Head(todo) = Reg("crm", TRUE)
        /\ Tail(todo) = <<Reg("dspi", TRUE)>>
    BY <1>2, FirstOf2, Zenon
  <2>2. /\ todo' = Tail(todo) /\ asked' = asked /\ ModeType'
        /\ qspi'.crm = TRUE /\ qspi'.dspi = qspi.dspi /\ qspi'.en = qspi.en
    BY <2>1, BitWritten
  <2>3. Switching'
    BY <1>2, <2>1, <2>2 DEF Switching, Both, ModeType
  <2> QED
    BY <2>2, <2>3 DEF Doing
<1>3. CASE /\ asked.dspi /\ ~asked.crm
           /\ todo = <<Reg("crm", FALSE), Reg("dspi", TRUE)>>
  <2>1. /\ Head(todo) = Reg("crm", FALSE)
        /\ Tail(todo) = <<Reg("dspi", TRUE)>>
    BY <1>3, FirstOf2, Zenon
  <2>2. /\ todo' = Tail(todo) /\ asked' = asked /\ ModeType'
        /\ qspi'.crm = FALSE /\ qspi'.dspi = qspi.dspi /\ qspi'.en = qspi.en
    BY <2>1, BitWritten
  <2>3. Switching'
    BY <1>3, <2>1, <2>2 DEF Switching, Both, ModeType
  <2> QED
    BY <2>2, <2>3 DEF Doing
<1>4. CASE /\ asked.dspi /\ qspi.crm = asked.crm
           /\ todo = <<Reg("dspi", TRUE)>>
  <2>1. /\ Head(todo) = Reg("dspi", TRUE)
        /\ Tail(todo) = << >>
    BY <1>4, FirstOf1, Zenon
  <2>2. /\ todo' = Tail(todo) /\ asked' = asked /\ ModeType'
        /\ qspi'.dspi = TRUE /\ qspi'.crm = qspi.crm /\ qspi'.en = qspi.en
    BY <2>1, BitWritten
  <2>3. InMode'
    BY <1>4, <2>2 DEF InMode, Both, ModeType
  <2> QED
    BY <2>1, <2>2, <2>3 DEF Doing
<1>5. CASE /\ ~asked.dspi /\ ~asked.crm
           /\ todo = <<Reg("dspi", FALSE), Reg("crm", FALSE)>>
  <2>1. /\ Head(todo) = Reg("dspi", FALSE)
        /\ Tail(todo) = <<Reg("crm", FALSE)>>
    BY <1>5, FirstOf2, Zenon
  <2>2. /\ todo' = Tail(todo) /\ asked' = asked /\ ModeType'
        /\ qspi'.dspi = FALSE /\ qspi'.crm = qspi.crm /\ qspi'.en = qspi.en
    BY <2>1, BitWritten
  <2>3. Switching'
    BY <1>5, <2>1, <2>2 DEF Switching, Both, ModeType
  <2> QED
    BY <2>2, <2>3 DEF Doing
<1>6. CASE /\ ~asked.dspi /\ ~asked.crm /\ ~qspi.dspi
           /\ todo = <<Reg("crm", FALSE)>>
  <2>1. /\ Head(todo) = Reg("crm", FALSE)
        /\ Tail(todo) = << >>
    BY <1>6, FirstOf1, Zenon
  <2>2. /\ todo' = Tail(todo) /\ asked' = asked /\ ModeType'
        /\ qspi'.crm = FALSE /\ qspi'.dspi = qspi.dspi /\ qspi'.en = qspi.en
    BY <2>1, BitWritten
  <2>3. InMode'
    BY <1>6, <2>2 DEF InMode, Both, ModeType
  <2> QED
    BY <2>1, <2>2, <2>3 DEF Doing
<1>7. CASE /\ Both
           /\ todo = <<Reg("dspi", FALSE), Reg("crm", FALSE), Reg("dspi", TRUE), Reg("crm", TRUE)>>
  <2>1. /\ Head(todo) = Reg("dspi", FALSE)
        /\ Tail(todo) = <<Reg("crm", FALSE), Reg("dspi", TRUE), Reg("crm", TRUE)>>
    BY <1>7, FirstOf4, Zenon
  <2>2. /\ todo' = Tail(todo) /\ asked' = asked /\ ModeType'
        /\ qspi'.dspi = FALSE /\ qspi'.crm = qspi.crm /\ qspi'.en = qspi.en
    BY <2>1, BitWritten
  <2>3. Switching'
    BY <1>7, <2>1, <2>2 DEF Switching, Both, ModeType
  <2> QED
    BY <2>2, <2>3 DEF Doing
<1>8. CASE /\ Both
           /\ todo = <<Reg("crm", FALSE), Reg("dspi", TRUE), Reg("crm", TRUE)>>
  <2>1. /\ Head(todo) = Reg("crm", FALSE)
        /\ Tail(todo) = <<Reg("dspi", TRUE), Reg("crm", TRUE)>>
    BY <1>8, FirstOf3, Zenon
  <2>2. /\ todo' = Tail(todo) /\ asked' = asked /\ ModeType'
        /\ qspi'.crm = FALSE /\ qspi'.dspi = qspi.dspi /\ qspi'.en = qspi.en
    BY <2>1, BitWritten
  <2>3. Switching'
    BY <1>8, <2>1, <2>2 DEF Switching, Both, ModeType
  <2> QED
    BY <2>2, <2>3 DEF Doing
<1>9. CASE /\ Both
           /\ todo = <<Reg("dspi", TRUE), Reg("crm", TRUE)>>
  <2>1. /\ Head(todo) = Reg("dspi", TRUE)
        /\ Tail(todo) = <<Reg("crm", TRUE)>>
    BY <1>9, FirstOf2, Zenon
  <2>2. /\ todo' = Tail(todo) /\ asked' = asked /\ ModeType'
        /\ qspi'.dspi = TRUE /\ qspi'.crm = qspi.crm /\ qspi'.en = qspi.en
    BY <2>1, BitWritten
  <2>3. Switching'
    BY <1>9, <2>1, <2>2 DEF Switching, Both, ModeType
  <2> QED
    BY <2>2, <2>3 DEF Doing
<1>10. CASE /\ Both /\ qspi.dspi
           /\ todo = <<Reg("crm", TRUE)>>
  <2>1. /\ Head(todo) = Reg("crm", TRUE)
        /\ Tail(todo) = << >>
    BY <1>10, FirstOf1, Zenon
  <2>2. /\ todo' = Tail(todo) /\ asked' = asked /\ ModeType'
        /\ qspi'.crm = TRUE /\ qspi'.dspi = qspi.dspi /\ qspi'.en = qspi.en
    BY <2>1, BitWritten
  <2>3. InMode'
    BY <1>10, <2>2 DEF InMode, Both, ModeType
  <2> QED
    BY <2>1, <2>2, <2>3 DEF Doing
<1> QED
  BY <1>1, <1>2, <1>3, <1>4, <1>5, <1>6, <1>7, <1>8, <1>9, <1>10 DEF Switching

(* What is printed when the flash is spoken to outside continuous read.    *)
LEMMA Transferred ==
  ASSUME Access, ModeType, Head(todo) = Reg("transfer", TRUE), ~enhance
  PROVE  /\ todo' = Tail(todo) /\ asked' = asked /\ fwPc' = "do" /\ qspi' = qspi
         /\ pre_dspi' = pre_dspi /\ ModeType'
<1>1. /\ todo' = Tail(todo) /\ asked' = asked /\ fwPc' = fwPc /\ fwPc = "do"
      /\ flashId' = flashId
  BY DEF Access, board
<1>2. Head(todo).op = "transfer"
  BY DEF Reg
<1>3. qspi' = qspi /\ enhance' = enhance /\ pre_dspi' = pre_dspi
  BY <1>2, Zenon DEF Access
<1>4. shown' = [x \in 1 .. 3 |->
                  print_hex(AsWord(IF enhance THEN <<15, 15>> ELSE flashId[x]), 2)]
  BY <1>2, Zenon DEF Access
<1>5. \A x \in 1 .. 3 : flashId[x] \in (0 .. 15) \X (0 .. 15)
  BY FlashAssumption DEF ModeType
<1>6. RightId(shown)'
  <2> SUFFICES ASSUME NEW x \in 1 .. 3
               PROVE  shown'[x] = <<Digit[flashId[x][1] + 1], Digit[flashId[x][2] + 1]>>
    BY <1>1, Zenon DEF RightId
  <2>1. shown'[x] = print_hex(AsWord(flashId[x]), 2)
    BY <1>4, Zenon
  <2> QED
    BY <1>5, <2>1, TwoDigits
<1>7. ModeType'
  BY <1>1, <1>3, <1>6 DEF ModeType
<1> QED
  BY <1>1, <1>3, <1>7

(* The mode that was remembered is put back.                                *)
LEMMA Restored ==
  ASSUME Access, ModeType, Head(todo) = Reg("restore", TRUE), qspi.en
  PROVE  /\ todo' = Tail(todo) /\ asked' = asked /\ fwPc' = "do"
         /\ qspi'.dspi = pre_dspi /\ qspi'.crm = qspi.crm /\ qspi'.en /\ ModeType'
<1>1. /\ todo' = Tail(todo) /\ asked' = asked /\ fwPc' = fwPc /\ fwPc = "do"
      /\ flashId' = flashId
  BY DEF Access, board
<1>2. Head(todo).op = "restore"
  BY DEF Reg
<1>3. /\ qspi' = [qspi EXCEPT !.dspi = pre_dspi] /\ enhance' = Fetched(qspi')
      /\ pre_dspi' = pre_dspi /\ shown' = shown
  BY <1>2, Zenon DEF Access, Written
<1>4. /\ qspi' \in [dspi : BOOLEAN, crm : BOOLEAN, en : BOOLEAN]
      /\ qspi'.dspi = pre_dspi /\ qspi'.crm = qspi.crm /\ qspi'.en
  BY <1>3 DEF ModeType
<1>5. enhance' \in BOOLEAN /\ (enhance' => qspi'.dspi /\ qspi'.crm)
  BY <1>3, <1>4, Zenon DEF Fetched
<1>6. RightId(shown)' = RightId(shown)
  BY <1>1, <1>3 DEF RightId
<1>7. ModeType'
  BY <1>1, <1>3, <1>4, <1>5, <1>6 DEF ModeType
<1> QED
  BY <1>1, <1>4, <1>7

(* The command that reads the ID goes on to the end.                       *)
LEMMA IdentifyGoesOn ==
  ASSUME Access, ModeType, Identifying
  PROVE  ModeType' /\ Doing'
<1> DEFINE kept == pre_dspi = asked.dspi /\ qspi.crm = asked.crm
<1>1. CASE /\ kept /\ qspi.en
           /\ todo = <<Reg("dspi", FALSE), Reg("en", FALSE), Reg("transfer", TRUE),
                       Reg("en", TRUE), Reg("restore", TRUE)>>
  <2>1. /\ Head(todo) = Reg("dspi", FALSE)
        /\ Tail(todo) = <<Reg("en", FALSE), Reg("transfer", TRUE), Reg("en", TRUE),
                          Reg("restore", TRUE)>>
    <3> DEFINE a == Reg("dspi", FALSE)
               b == Reg("en", FALSE)
               c == Reg("transfer", TRUE)
               d == Reg("en", TRUE)
               e == Reg("restore", TRUE)
    <3>1. todo = <<a, b, c, d, e>>
      BY <1>1
    <3> HIDE DEF a, b, c, d, e
    <3>2. Head(todo) = a /\ Tail(todo) = <<b, c, d, e>>
      BY <3>1, FirstOf5
    <3> QED
      BY <3>2 DEF a, b, c, d, e
  <2>2. /\ todo' = Tail(todo) /\ asked' = asked /\ pre_dspi' = pre_dspi /\ ModeType'
        /\ qspi'.dspi = FALSE /\ qspi'.crm = qspi.crm /\ qspi'.en = qspi.en
    BY <1>1, <2>1, BitWritten
  <2>3. Identifying'
    BY <1>1, <2>1, <2>2 DEF Identifying
  <2> QED
    BY <2>2, <2>3 DEF Doing
<1>2. CASE /\ kept /\ qspi.en /\ ~qspi.dspi
           /\ todo = <<Reg("en", FALSE), Reg("transfer", TRUE), Reg("en", TRUE),
                       Reg("restore", TRUE)>>
  <2>1. /\ Head(todo) = Reg("en", FALSE)
        /\ Tail(todo) = <<Reg("transfer", TRUE), Reg("en", TRUE), Reg("restore", TRUE)>>
    BY <1>2, FirstOf4, Zenon
  <2>2. /\ todo' = Tail(todo) /\ asked' = asked /\ pre_dspi' = pre_dspi /\ ModeType'
        /\ qspi'.dspi = qspi.dspi /\ qspi'.crm = qspi.crm /\ qspi'.en = FALSE
    BY <1>2, <2>1, BitWritten
  <2>3. Identifying'
    BY <1>2, <2>1, <2>2 DEF Identifying
  <2> QED
    BY <2>2, <2>3 DEF Doing
<1>3. CASE /\ kept /\ ~qspi.en /\ ~qspi.dspi
           /\ todo = <<Reg("transfer", TRUE), Reg("en", TRUE), Reg("restore", TRUE)>>
  <2>1. /\ Head(todo) = Reg("transfer", TRUE)
        /\ Tail(todo) = <<Reg("en", TRUE), Reg("restore", TRUE)>>
    BY <1>3, FirstOf3, Zenon
  <2>2. ~enhance
    BY <1>3 DEF ModeType
  <2>3. /\ todo' = Tail(todo) /\ asked' = asked /\ pre_dspi' = pre_dspi /\ ModeType'
        /\ qspi' = qspi
    BY <2>1, <2>2, Transferred
  <2>4. Identifying'
    BY <1>3, <2>1, <2>3 DEF Identifying
  <2> QED
    BY <2>3, <2>4 DEF Doing
<1>4. CASE kept /\ ~qspi.en /\ ~qspi.dspi /\ todo = <<Reg("en", TRUE), Reg("restore", TRUE)>>
  <2>1. Head(todo) = Reg("en", TRUE) /\ Tail(todo) = <<Reg("restore", TRUE)>>
    BY <1>4, FirstOf2, Zenon
  <2>2. /\ todo' = Tail(todo) /\ asked' = asked /\ pre_dspi' = pre_dspi /\ ModeType'
        /\ qspi'.dspi = qspi.dspi /\ qspi'.crm = qspi.crm /\ qspi'.en = TRUE
    BY <1>4, <2>1, BitWritten
  <2>3. Identifying'
    BY <1>4, <2>1, <2>2 DEF Identifying
  <2> QED
    BY <2>2, <2>3 DEF Doing
<1>5. CASE kept /\ qspi.en /\ ~qspi.dspi /\ todo = <<Reg("restore", TRUE)>>
  <2>1. Head(todo) = Reg("restore", TRUE) /\ Tail(todo) = << >>
    BY <1>5, FirstOf1, Zenon
  <2>2. /\ todo' = Tail(todo) /\ asked' = asked /\ ModeType'
        /\ qspi'.dspi = pre_dspi /\ qspi'.crm = qspi.crm /\ qspi'.en
    BY <1>5, <2>1, Restored
  <2>3. InMode'
    BY <1>5, <2>2 DEF InMode
  <2> QED
    BY <2>1, <2>2, <2>3 DEF Doing
<1> QED
  BY <1>1, <1>2, <1>3, <1>4, <1>5 DEF Identifying

(* Each access of a command brings it nearer to the mode asked for.        *)
LEMMA AccessGoesOn ==
  ASSUME Access, ModeType, Doing
  PROVE  ModeType' /\ Doing'
<1>1. CASE (\E c \in DOMAIN Led : todo = <<Reg("toggle", c)>>) /\ InMode
  <2>1. PICK c \in DOMAIN Led : todo = <<Reg("toggle", c)>>
    BY <1>1
  <2>2. Head(todo) = Reg("toggle", c) /\ Tail(todo) = << >>
    BY <2>1, FirstOf1, Zenon
  <2>3. todo' = Tail(todo) /\ asked' = asked /\ qspi' = qspi /\ ModeType'
    BY <2>2, OtherAccess
  <2>4. InMode'
    BY <1>1, <2>3 DEF InMode
  <2> QED
    BY <2>2, <2>3, <2>4 DEF Doing
<1>2. CASE /\ InMode
           /\ todo = <<Reg("get_dspi", TRUE), Reg("dspi", FALSE), Reg("en", FALSE),
                       Reg("transfer", TRUE), Reg("en", TRUE), Reg("restore", TRUE)>>
  <2>1. /\ Head(todo) = Reg("get_dspi", TRUE)
        /\ Tail(todo) = <<Reg("dspi", FALSE), Reg("en", FALSE), Reg("transfer", TRUE),
                          Reg("en", TRUE), Reg("restore", TRUE)>>
    <3> DEFINE a == Reg("get_dspi", TRUE)
               b == Reg("dspi", FALSE)
               c == Reg("en", FALSE)
               d == Reg("transfer", TRUE)
               e == Reg("en", TRUE)
               f == Reg("restore", TRUE)
    <3>1. todo = <<a, b, c, d, e, f>>
      BY <1>2
    <3> HIDE DEF a, b, c, d, e, f
    <3>2. Head(todo) = a /\ Tail(todo) = <<b, c, d, e, f>>
      BY <3>1, FirstOf6
    <3> QED
      BY <3>2 DEF a, b, c, d, e, f
  <2>2. /\ todo' = Tail(todo) /\ asked' = asked /\ qspi' = qspi /\ ModeType'
        /\ pre_dspi' = qspi.dspi
    BY <2>1, OtherAccess
  <2>3. Identifying'
    BY <1>2, <2>1, <2>2 DEF Identifying, InMode
  <2> QED
    BY <2>2, <2>3 DEF Doing
<1>3. CASE Switching /\ qspi.en
  BY <1>3, SwitchGoesOn
<1>4. CASE Identifying
  BY <1>4, IdentifyGoesOn
<1>5. todo # << >>
  BY DEF Access
<1> QED
  BY <1>1, <1>2, <1>3, <1>4, <1>5 DEF Doing

(* The command of a letter, and the mode it asks for.                      *)
LEMMA CommandIs ==
  ASSUME NEW c
  PROVE  /\ c \in {"I", "i"} =>
              /\ Command(c) = cmd_read_flash_id
              /\ Mode(c) = asked
         /\ c \in {"S", "s"} =>
              /\ Command(c) = cmd_set_dspi(FALSE) \o cmd_set_crm(FALSE)
              /\ Mode(c) = [dspi |-> FALSE, crm |-> FALSE]
         /\ c \in {"D", "d"} =>
              /\ Command(c) = cmd_set_crm(FALSE) \o cmd_set_dspi(TRUE)
              /\ Mode(c) = [dspi |-> TRUE, crm |-> FALSE]
         /\ c \in {"C", "c"} =>
              /\ Command(c) = cmd_set_crm(TRUE) \o cmd_set_dspi(TRUE)
              /\ Mode(c) = [dspi |-> TRUE, crm |-> TRUE]
         /\ c \in {"A", "a"} =>
              /\ Command(c) = cmd_benchmark_all
              /\ Mode(c) = [dspi |-> TRUE, crm |-> TRUE]
         /\ c \notin {"I", "i", "S", "s", "D", "d", "C", "c", "A", "a"} =>
              /\ Command(c) = IF c \in DOMAIN Led THEN <<Reg("toggle", c)>> ELSE << >>
              /\ Mode(c) = asked
<1>0. DOMAIN Led = {"1", "2", "3", "4", "5", "6"}
  BY DEF Led
<1>1. ASSUME c \in {"I", "i"}
      PROVE  Command(c) = cmd_read_flash_id /\ Mode(c) = asked
  <2>1. /\ c \notin {"S", "s"} /\ c \notin {"D", "d"} /\ c \notin {"C", "c"} /\ c \notin {"A", "a"}
        /\ c \notin {"C", "c", "A", "a"} /\ c \notin DOMAIN Led
    BY <1>0, <1>1
  <2> QED
    BY <1>1, <2>1, Zenon DEF Command, Mode
<1>2. ASSUME c \in {"S", "s"}
      PROVE  /\ Command(c) = cmd_set_dspi(FALSE) \o cmd_set_crm(FALSE)
             /\ Mode(c) = [dspi |-> FALSE, crm |-> FALSE]
  <2>1. /\ c \notin {"I", "i"} /\ c \notin {"D", "d"} /\ c \notin {"C", "c"} /\ c \notin {"A", "a"}
        /\ c \notin {"C", "c", "A", "a"} /\ c \notin DOMAIN Led
    BY <1>0, <1>2
  <2> QED
    BY <1>2, <2>1, Zenon DEF Command, Mode
<1>3. ASSUME c \in {"D", "d"}
      PROVE  /\ Command(c) = cmd_set_crm(FALSE) \o cmd_set_dspi(TRUE)
             /\ Mode(c) = [dspi |-> TRUE, crm |-> FALSE]
  <2>1. /\ c \notin {"I", "i"} /\ c \notin {"S", "s"} /\ c \notin {"C", "c"} /\ c \notin {"A", "a"}
        /\ c \notin {"C", "c", "A", "a"} /\ c \notin DOMAIN Led
    BY <1>0, <1>3
  <2> QED
    BY <1>3, <2>1, Zenon DEF Command, Mode
<1>4. ASSUME c \in {"C", "c"}
      PROVE  /\ Command(c) = cmd_set_crm(TRUE) \o cmd_set_dspi(TRUE)
             /\ Mode(c) = [dspi |-> TRUE, crm |-> TRUE]
  <2>1. /\ c \notin {"I", "i"} /\ c \notin {"S", "s"} /\ c \notin {"D", "d"} /\ c \notin {"A", "a"}
        /\ c \in {"C", "c", "A", "a"} /\ c \notin DOMAIN Led
    BY <1>0, <1>4
  <2> QED
    BY <1>4, <2>1, Zenon DEF Command, Mode
<1>5. ASSUME c \in {"A", "a"}
      PROVE  /\ Command(c) = cmd_benchmark_all
             /\ Mode(c) = [dspi |-> TRUE, crm |-> TRUE]
  <2>1. /\ c \notin {"I", "i"} /\ c \notin {"S", "s"} /\ c \notin {"D", "d"} /\ c \notin {"C", "c"}
        /\ c \in {"C", "c", "A", "a"} /\ c \notin DOMAIN Led
    BY <1>0, <1>5
  <2> QED
    BY <1>5, <2>1, Zenon DEF Command, Mode
<1>6. ASSUME c \notin {"I", "i", "S", "s", "D", "d", "C", "c", "A", "a"}
      PROVE  /\ Command(c) = IF c \in DOMAIN Led THEN <<Reg("toggle", c)>> ELSE << >>
             /\ Mode(c) = asked
  <2>1. /\ c \notin {"I", "i"} /\ c \notin {"S", "s"} /\ c \notin {"D", "d"} /\ c \notin {"C", "c"}
        /\ c \notin {"A", "a"} /\ c \notin {"C", "c", "A", "a"}
    BY <1>6
  <2> QED
    BY <2>1, Zenon DEF Command, Mode
<1> QED
  BY <1>1, <1>2, <1>3, <1>4, <1>5, <1>6, Zenon

(* The accesses of the command that reads the ID.                          *)
LEMMA IdListIs ==
  cmd_read_flash_id =
    <<Reg("get_dspi", TRUE), Reg("dspi", FALSE), Reg("en", FALSE), Reg("transfer", TRUE),
      Reg("en", TRUE), Reg("restore", TRUE)>>
<1> DEFINE a == Reg("get_dspi", TRUE)
           b == Reg("dspi", FALSE)
           c == Reg("en", FALSE)
           d == Reg("transfer", TRUE)
           e == Reg("en", TRUE)
           f == Reg("restore", TRUE)
<1>1. cmd_read_flash_id = <<a>> \o <<b>> \o <<c, d, e>> \o <<f>>
  BY DEF cmd_read_flash_id, cmd_set_dspi, spi_flashio
<1> HIDE DEF a, b, c, d, e, f
<1>2. <<a>> \o <<b>> \o <<c, d, e>> = <<a, b, c, d, e>>
  <2>1. <<a>> \o <<b>> = <<a, b>>
    BY JoinedTwo, Zenon
  <2>2. <<a, b>> \o <<c, d, e>> = <<a, b, c, d, e>>
    BY JoinedFive
  <2> QED
    BY <2>1, <2>2, Zenon
<1>3. <<a, b, c, d, e>> \o <<f>> = <<a, b, c, d, e, f>>
  BY JoinedSix, Zenon
<1>4. cmd_read_flash_id = <<a, b, c, d, e, f>>
  BY <1>1, <1>2, <1>3, Zenon
<1> QED
  BY <1>4 DEF a, b, c, d, e, f

(* Those of the benchmark of all modes.                                     *)
LEMMA BenchmarkListIs ==
  cmd_benchmark_all =
    <<Reg("dspi", FALSE), Reg("crm", FALSE), Reg("dspi", TRUE), Reg("crm", TRUE)>>
<1> DEFINE a == Reg("dspi", FALSE)
           b == Reg("crm", FALSE)
           c == Reg("dspi", TRUE)
           d == Reg("crm", TRUE)
<1>1. cmd_benchmark_all = <<a>> \o <<b>> \o <<c>> \o <<d>>
  BY DEF cmd_benchmark_all, cmd_set_dspi, cmd_set_crm
<1> HIDE DEF a, b, c, d
<1>2. <<a>> \o <<b>> \o <<c>> = <<a, b, c>>
  <2>1. <<a>> \o <<b>> = <<a, b>>
    BY JoinedTwo, Zenon
  <2>2. <<a, b>> \o <<c>> = <<a, b, c>>
    BY JoinedThree, Zenon
  <2> QED
    BY <2>1, <2>2, Zenon
<1>3. cmd_benchmark_all = <<a, b, c, d>>
  BY <1>1, <1>2, JoinedFour, Zenon
<1> QED
  BY <1>3 DEF a, b, c, d

(* A command line selects the accesses that lead to what it asks for.       *)
LEMMA SelectStarts ==
  ASSUME Select, ModeType, InMode
  PROVE  ModeType' /\ Doing'
<1> DEFINE c == cmds[0]
           a == asked'
<1>1. /\ todo' = Command(c) /\ a = Mode(c) /\ qspi' = qspi /\ pre_dspi' = pre_dspi
      /\ enhance' = enhance /\ shown' = shown /\ flashId' = flashId
  BY Zenon DEF Select, board
<1>2. RightId(shown)' = RightId(shown)
  BY <1>1 DEF RightId
<1>3. DOMAIN Led = {"1", "2", "3", "4", "5", "6"}
  BY DEF Led
<1> HIDE DEF c
<1>4. CASE c \in {"I", "i"}
  <2>1. Command(c) = cmd_read_flash_id /\ Mode(c) = asked
    BY <1>4, CommandIs, Zenon
  <2>2. cmd_read_flash_id =
          <<Reg("get_dspi", TRUE), Reg("dspi", FALSE), Reg("en", FALSE), Reg("transfer", TRUE),
            Reg("en", TRUE), Reg("restore", TRUE)>>
    BY IdListIs
  <2>3. asked' = asked
    BY <1>1, <2>1
  <2>4. ModeType'
    BY <1>1, <1>2, <2>3 DEF ModeType
  <2>5. InMode'
    BY <1>1, <2>3 DEF InMode
  <2> QED
    BY <1>1, <2>1, <2>2, <2>4, <2>5 DEF Doing
<1>5. CASE c \in {"S", "s"}
  <2>1. /\ Command(c) = cmd_set_dspi(FALSE) \o cmd_set_crm(FALSE)
              /\ Mode(c) = [dspi |-> FALSE, crm |-> FALSE]
    BY <1>5, CommandIs, Zenon
  <2>2. todo' = <<Reg("dspi", FALSE), Reg("crm", FALSE)>>
    BY <1>1, <2>1, JoinedTwo, Zenon DEF cmd_set_dspi, cmd_set_crm
  <2>3. asked' = [dspi |-> FALSE, crm |-> FALSE]
    BY <1>1, <2>1
  <2>4. ModeType'
    BY <1>1, <1>2, <2>3 DEF ModeType
  <2>5. Switching' /\ (qspi.en)'
    BY <1>1, <2>2, <2>3 DEF Switching, InMode
  <2> QED
    BY <2>4, <2>5 DEF Doing
<1>6. CASE c \in {"D", "d"}
  <2>1. /\ Command(c) = cmd_set_crm(FALSE) \o cmd_set_dspi(TRUE)
              /\ Mode(c) = [dspi |-> TRUE, crm |-> FALSE]
    BY <1>6, CommandIs, Zenon
  <2>2. todo' = <<Reg("crm", FALSE), Reg("dspi", TRUE)>>
    BY <1>1, <2>1, JoinedTwo, Zenon DEF cmd_set_dspi, cmd_set_crm
  <2>3. asked' = [dspi |-> TRUE, crm |-> FALSE]
    BY <1>1, <2>1
  <2>4. ModeType'
    BY <1>1, <1>2, <2>3 DEF ModeType
  <2>5. Switching' /\ (qspi.en)'
    BY <1>1, <2>2, <2>3 DEF Switching, InMode
  <2> QED
    BY <2>4, <2>5 DEF Doing
<1>7. CASE c \in {"C", "c", "A", "a"}
  <2>1. /\ \/ Command(c) = cmd_set_crm(TRUE) \o cmd_set_dspi(TRUE)
           \/ Command(c) = cmd_benchmark_all
        /\ Mode(c) = [dspi |-> TRUE, crm |-> TRUE]
    <3>1. c \in {"C", "c"} \/ c \in {"A", "a"}
      BY <1>7
    <3> QED
      BY <3>1, CommandIs, Zenon
  <2>2. \/ todo' = <<Reg("crm", TRUE), Reg("dspi", TRUE)>>
        \/ todo' = <<Reg("dspi", FALSE), Reg("crm", FALSE), Reg("dspi", TRUE), Reg("crm", TRUE)>>
    BY <1>1, <2>1, BenchmarkListIs, JoinedTwo, Zenon DEF cmd_set_dspi, cmd_set_crm
  <2>3. asked' = [dspi |-> TRUE, crm |-> TRUE]
    BY <1>1, <2>1
  <2>4. ModeType'
    BY <1>1, <1>2, <2>3 DEF ModeType
  <2>5. Switching' /\ (qspi.en)'
    <3>1. Both' /\ (qspi.en)'
      BY <1>1, <2>3 DEF Both, InMode
    <3> QED
      BY <2>2, <3>1 DEF Switching
  <2> QED
    BY <2>4, <2>5 DEF Doing
<1>8. CASE c \notin {"I", "i", "S", "s", "D", "d", "C", "c", "A", "a"}
  <2>2. Mode(c) = asked
    BY <1>8, CommandIs, Zenon
  <2>3. Command(c) = IF c \in DOMAIN Led THEN <<Reg("toggle", c)>> ELSE << >>
    BY <1>8, CommandIs, Zenon
  <2>4. asked' = asked
    BY <1>1, <2>2
  <2>5. ModeType'
    BY <1>1, <1>2, <2>4 DEF ModeType
  <2>6. InMode'
    BY <1>1, <2>4 DEF InMode
  <2> QED
    BY <1>1, <2>3, <2>5, <2>6 DEF Doing
<1> QED
  BY <1>4, <1>5, <1>6, <1>7, <1>8

(* The first accesses, at the start and after each press of the button.     *)
LEMMA StartIs ==
  Startup9k = <<Reg("leds", TRUE), Reg("crm", TRUE), Reg("dspi", TRUE)>>
<1> DEFINE a == Reg("leds", TRUE)
           b == Reg("crm", TRUE)
           c == Reg("dspi", TRUE)
<1>1. Startup9k = <<a>> \o <<b>> \o <<c>>
  BY DEF Startup9k, cmd_set_crm, cmd_set_dspi
<1> HIDE DEF a, b, c
<1>2. <<a>> \o <<b>> \o <<c>> = <<a, b, c>>
  <2>1. <<a>> \o <<b>> = <<a, b>>
    BY JoinedTwo, Zenon
  <2>2. <<a, b>> \o <<c>> = <<a, b, c>>
    BY JoinedThree, Zenon
  <2> QED
    BY <2>1, <2>2, Zenon
<1> QED
  BY <1>1, <1>2 DEF a, b, c

(* firmware.c and the QSPI register: for all keys, flash IDs and moments   *)
(* of the reset the controller is in the mode asked for when a command has *)
(* ended, the program never fetches without its flash, and the ID printed  *)
(* is the flash's.                                                          *)
THEOREM ModeIsKept == FirmwareSpec => []ModeAsAsked
<1>1. FirmwareInit => ModeInv
  <2> SUFFICES ASSUME FirmwareInit PROVE ModeInv
    OBVIOUS
  <2>1. ModeType
    BY DEF FirmwareInit, ModeType, ResetQspi
  <2>2. Switching /\ qspi.en
    BY StartIs DEF FirmwareInit, Switching, Both, ResetQspi
  <2> QED
    BY <2>1, <2>2 DEF FirmwareInit, ModeInv, Doing
<1>2. ModeInv /\ [FirmwareNext]_fwVars => ModeInv'
  <2> SUFFICES ASSUME ModeInv, [FirmwareNext]_fwVars PROVE ModeInv'
    OBVIOUS
  <2>1. ModeType
    BY DEF ModeInv
  <2> DEFINE AsBefore ==
           /\ qspi' = qspi /\ pre_dspi' = pre_dspi /\ enhance' = enhance
           /\ asked' = asked /\ shown' = shown /\ flashId' = flashId /\ todo' = todo
  <2>2. ASSUME AsBefore PROVE ModeType' /\ (InMode => InMode') /\ (Doing => Doing')
    <3>1. RightId(shown)' = RightId(shown)
      BY <2>2 DEF RightId
    <3>2. ModeType'
      BY <2>1, <2>2, <3>1 DEF ModeType
    <3>3. InMode' = InMode
      BY <2>2 DEF InMode
    <3>4. Switching' = Switching /\ Identifying' = Identifying
      BY <2>2 DEF Switching, Identifying, Both
    <3> QED
      BY <2>2, <3>2, <3>3, <3>4 DEF Doing
  <2>3. CASE gets
    <3>1. fwPc' \in {fwPc, "main"} /\ fwPc = "gets" /\ AsBefore
      BY <2>3 DEF gets, GetsEnter, GetsBackspace, GetsOther, board
    <3> QED
      BY <2>2, <3>1 DEF ModeInv
  <2>4. CASE Access
    <3>1. fwPc' = "do" /\ fwPc = "do"
      BY <2>4 DEF Access
    <3> QED
      BY <2>1, <2>4, <3>1, AccessGoesOn DEF ModeInv
  <2>5. CASE Ready
    <3>1. fwPc' = "gets" /\ fwPc = "do" /\ todo = << >> /\ AsBefore
      BY <2>5 DEF Ready, board
    <3>2. InMode
      BY <3>1 DEF ModeInv, Doing, Switching, Identifying
    <3> QED
      BY <2>2, <3>1, <3>2 DEF ModeInv
  <2>6. CASE Select
    <3>1. fwPc = "main" /\ fwPc' = "do"
      BY <2>6 DEF Select
    <3> QED
      BY <2>1, <2>6, <3>1, SelectStarts DEF ModeInv
  <2>7. CASE FirmwareReset
    <3>1. /\ fwPc' = "do" /\ todo' = Startup9k /\ qspi' = ResetQspi /\ enhance' = FALSE
          /\ asked' = [dspi |-> TRUE, crm |-> TRUE]
          /\ pre_dspi' = pre_dspi /\ shown' = shown /\ flashId' = flashId
      BY <2>7 DEF FirmwareReset
    <3>2. RightId(shown)' = RightId(shown)
      BY <3>1 DEF RightId
    <3>3. ModeType'
      BY <2>1, <3>1, <3>2 DEF ModeType, ResetQspi
    <3>4. Switching' /\ (qspi.en)'
      BY <3>1, StartIs DEF Switching, Both, ResetQspi
    <3> QED
      BY <3>1, <3>3, <3>4 DEF ModeInv, Doing
  <2>8. CASE UNCHANGED fwVars
    <3>1. fwPc' = fwPc /\ AsBefore
      BY <2>8 DEF fwVars, board
    <3> QED
      BY <2>2, <3>1 DEF ModeInv
  <2> QED
    BY <2>3, <2>4, <2>5, <2>6, <2>7, <2>8 DEF FirmwareNext
<1>3. ModeInv => ModeAsAsked
  BY DEF ModeInv, InMode, ModeType, RightId, ModeAsAsked
<1> QED
  BY <1>1, <1>2, <1>3, PTL DEF FirmwareSpec

(***************************************************************************)
(* The interrupts, for every length of the timer, the texts and the        *)
(* instructions, on both boards.  An event would be lost if another of its *)
(* kind came while it was pending: UnderWay says that there is never more  *)
(* than one event between the timer and the handler, and Times why: a text *)
(* outlasts the timer, so no timer runs on behind one.                     *)
(***************************************************************************)

(* main's statement, counted from the first after the start.                *)
At == irqPc - Len(Startup(irqBoard))

CpuType ==
  [active : BOOLEAN, delay : BOOLEAN, mask : SUBSET Irqs, pending : SUBSET Irqs,
   timer : 0 .. TimerClocks, q1 : SUBSET Irqs, at : {"main", "entry", "handler", "retirq"}]

IrqType ==
  /\ irqBoard \in {"9k", "25k"} /\ irqPc \in 1 .. Len(Startup(irqBoard)) + 22
  /\ left \in 1 .. PrintClocks /\ cpu \in CpuType
  /\ gIRQ \in [Irqs -> Nat] /\ raised \in [Irqs -> Nat]

(* The statements of main and of the start.                                 *)
Ops == {"crtInit", "clear", "set_timer", "disable_irq", "enable_irq", "ebreak", "print", "check"}
Statements == [op : Ops] \cup [op : Ops, irq : Irqs, want : Nat]

LEMMA StatementsAre ==
  /\ \A o \in Ops : Do(o) \in Statements /\ Do(o).op = o
  /\ \A x \in Irqs, n \in Nat : ExpectCount(x, n) \in Statements /\ ExpectCount(x, n).op = "check"
  /\ "timer" \in Irqs /\ "ebreak" \in Irqs
<1>1. \A o \in Ops : Do(o) \in [op : Ops] /\ Do(o).op = o
  BY DEF Do
<1>2. \A o \in Ops, x \in Irqs, n \in Nat :
        [op |-> o, irq |-> x, want |-> n] \in [op : Ops, irq : Irqs, want : Nat]
  OBVIOUS
<1>3. "check" \in Ops
  BY DEF Ops
<1>4. \A x \in Irqs, n \in Nat : ExpectCount(x, n) \in [op : Ops, irq : Irqs, want : Nat]
  BY <1>2, <1>3, Zenon DEF ExpectCount
<1>5. \A x \in Irqs, n \in Nat : ExpectCount(x, n).op = "check"
  BY DEF ExpectCount
<1>6. /\ \A o \in Ops : Do(o) \in Statements
      /\ \A x \in Irqs, n \in Nat : ExpectCount(x, n) \in Statements
  BY <1>1, <1>4, Zenon DEF Statements
<1>7. "timer" \in Irqs /\ "ebreak" \in Irqs
  BY DEF Irqs
<1> QED
  BY <1>1, <1>5, <1>6, <1>7

LEMMA TestsAre ==
  /\ Tests \in Seq(Statements)
  /\ Len(Tests) = 21
  /\ \A x \in 1 .. 21 :
       Tests[x].op = IF x \in {1, 2, 5, 12, 19} THEN "set_timer"
                     ELSE IF x \in {3, 6, 9, 13, 17, 20} THEN "print"
                     ELSE IF x \in {4, 7, 10, 14, 18, 21} THEN "check"
                     ELSE IF x \in {8, 16} THEN "ebreak"
                     ELSE IF x = 11 THEN "disable_irq" ELSE "enable_irq"
<1>1. Len(Tests) = 21
  BY DEF Tests
<1>2. Tests \in Seq(Statements)
  <2> DEFINE st == Do("set_timer")
             pr == Do("print")
             eb == Do("ebreak")
             di == Do("disable_irq")
             en == Do("enable_irq")
             t1 == ExpectCount("timer", 1)
             t2 == ExpectCount("timer", 2)
             t4 == ExpectCount("timer", 4)
             e1 == ExpectCount("ebreak", 1)
             e2 == ExpectCount("ebreak", 2)
  <2>1. /\ st \in Statements /\ pr \in Statements /\ eb \in Statements
        /\ di \in Statements /\ en \in Statements
    BY StatementsAre DEF Ops
  <2>2. /\ t1 \in Statements /\ t2 \in Statements /\ t4 \in Statements
        /\ e1 \in Statements /\ e2 \in Statements
    BY StatementsAre
  <2>3. Tests = <<st, st, pr, t1, st, pr, t2, eb, pr, e1, di, st, pr, t2, en, eb, pr, e2,
                  st, pr, t4>>
    BY DEF Tests
  <2> HIDE DEF st, pr, eb, di, en, t1, t2, t4, e1, e2
  <2> QED
    BY <2>1, <2>2, <2>3
<1>3. /\ Tests[1].op = "set_timer" /\ Tests[2].op = "set_timer" /\ Tests[3].op = "print"
      /\ Tests[4].op = "check" /\ Tests[5].op = "set_timer" /\ Tests[6].op = "print"
      /\ Tests[7].op = "check" /\ Tests[8].op = "ebreak" /\ Tests[9].op = "print"
      /\ Tests[10].op = "check" /\ Tests[11].op = "disable_irq" /\ Tests[12].op = "set_timer"
      /\ Tests[13].op = "print" /\ Tests[14].op = "check" /\ Tests[15].op = "enable_irq"
      /\ Tests[16].op = "ebreak" /\ Tests[17].op = "print" /\ Tests[18].op = "check"
      /\ Tests[19].op = "set_timer" /\ Tests[20].op = "print" /\ Tests[21].op = "check"
  BY StatementsAre DEF Tests, Ops
<1>4. \A x \in 1 .. 21 : \/ x = 1 \/ x = 2 \/ x = 3 \/ x = 4 \/ x = 5 \/ x = 6 \/ x = 7
                        \/ x = 8 \/ x = 9 \/ x = 10 \/ x = 11 \/ x = 12 \/ x = 13 \/ x = 14
                        \/ x = 15 \/ x = 16 \/ x = 17 \/ x = 18 \/ x = 19 \/ x = 20 \/ x = 21
  OBVIOUS
<1> HIDE DEF Tests
<1> QED
  BY <1>1, <1>2, <1>3, <1>4

(* What main does before.                                                   *)
LEMMA StartupIs ==
  ASSUME NEW b \in {"9k", "25k"}
  PROVE  /\ Startup(b) \in Seq(Statements)
         /\ Len(Startup(b)) = IF b = "25k" THEN 2 ELSE 1
         /\ Startup(b)[1].op = "crtInit" /\ (b = "25k" => Startup(b)[2].op = "clear")
<1> DEFINE init == Do("crtInit")
           clear == Do("clear")
<1>1. /\ init \in Statements /\ init.op = "crtInit"
      /\ clear \in Statements /\ clear.op = "clear"
  BY StatementsAre DEF Ops
<1>2. Startup(b) = IF b = "25k" THEN <<init, clear>> ELSE <<init>>
  BY DEF Startup
<1> HIDE DEF init, clear
<1>3. /\ <<init, clear>> \in Seq(Statements) /\ Len(<<init, clear>>) = 2
      /\ <<init, clear>>[1] = init /\ <<init, clear>>[2] = clear
      /\ <<init>> \in Seq(Statements) /\ Len(<<init>>) = 1 /\ <<init>>[1] = init
  BY <1>1
<1> QED
  BY <1>1, <1>2, <1>3

(* Where main is when it executes a statement.                              *)
LEMMA OpAt ==
  ASSUME IrqType, ~Returned
  PROVE  /\ irqPc \in 1 .. Len(Startup(irqBoard)) + 21
         /\ Stmt.op = "crtInit" => irqPc = 1
         /\ Stmt.op = "clear" => At = 0 /\ irqPc = 2
         /\ Stmt.op = "set_timer" => At \in {1, 2, 5, 12, 19}
         /\ Stmt.op = "print" => At \in {3, 6, 9, 13, 17, 20}
         /\ Stmt.op = "check" => At \in {4, 7, 10, 14, 18, 21}
         /\ Stmt.op = "ebreak" => At \in {8, 16}
         /\ Stmt.op = "disable_irq" => At = 11
         /\ Stmt.op = "enable_irq" => At = 15
<1> DEFINE p == Startup(irqBoard)
<1>1. irqBoard \in {"9k", "25k"} /\ irqPc \in Nat /\ irqPc >= 1
  BY StartupIs DEF IrqType
<1>2. /\ p \in Seq(Statements)
      /\ Len(p) = IF irqBoard = "25k" THEN 2 ELSE 1
      /\ p[1].op = "crtInit" /\ (irqBoard = "25k" => p[2].op = "clear")
  BY <1>1, StartupIs
<1> HIDE DEF p
<1> DEFINE r == p \o Tests
<1>3. /\ r \in Seq(Statements)
      /\ Len(r) = Len(p) + Len(Tests)
      /\ \A x \in 1 .. Len(p) + Len(Tests) :
           r[x] = IF x <= Len(p) THEN p[x] ELSE Tests[x - Len(p)]
  <2>1. Tests \in Seq(Statements)
    BY TestsAre
  <2> QED
    BY <1>2, <2>1, ConcatProperties
<1>4. Program(irqBoard) = r
  BY DEF Program, p
<1> HIDE DEF r
<1>5. irqPc \in 1 .. Len(p) + 21
  <2>1. DOMAIN r = 1 .. Len(r)
    BY <1>3, LenProperties
  <2> QED
    BY <1>3, <1>4, <2>1, TestsAre DEF Returned
<1>6. Stmt = r[irqPc] /\ At = irqPc - Len(p)
  BY <1>4 DEF Stmt, At, p
<1>7. CASE irqPc <= Len(p)
  <2>1. Stmt.op = p[irqPc].op
    BY <1>3, <1>5, <1>6, <1>7, TestsAre
  <2>2. irqPc = 1 \/ (irqPc = 2 /\ irqBoard = "25k")
    BY <1>1, <1>2, <1>7
  <2> QED
    BY <1>2, <1>5, <1>6, <2>1, <2>2 DEF p
<1>8. CASE ~(irqPc <= Len(p))
  <2>1. At \in 1 .. 21 /\ Stmt = Tests[At]
    <3>1. Len(p) \in Nat /\ irqPc \in Nat /\ At \in 1 .. 21 /\ irqPc \in 1 .. Len(p) + Len(Tests)
      BY <1>2, <1>5, <1>6, <1>8, TestsAre, SMTT(40)
    <3>2. r[irqPc] = Tests[irqPc - Len(p)]
      BY <1>3, <1>8, <3>1
    <3> QED
      BY <1>6, <3>1, <3>2
  <2> QED
    BY <1>5, <2>1, TestsAre, SMTT(40) DEF p
<1> QED
  BY <1>7, <1>8

IrqBit(b) == IF b THEN 1 ELSE 0
One(irqs) == irqs = {} \/ \E x \in Irqs : irqs = {x}
Nothing == cpu.timer = 0 /\ cpu.pending = {} /\ cpu.q1 = {}
Prints == {3, 6, 9, 13, 17, 20}
Timed == {3, 6, 13, 20}

(* Of the timer, irq_pending and q1 one at most has an event.               *)
UnderWay ==
  /\ One(cpu.pending) /\ One(cpu.q1)
  /\ cpu.timer # 0 => cpu.pending = {} /\ cpu.q1 = {}
  /\ cpu.pending # {} => cpu.q1 = {}

(* What the CPU is at, and what it may have then.                           *)
Place ==
  /\ cpu.at = "main" => cpu.q1 = {}
  /\ cpu.delay => cpu.at = "main" /\ Nothing
  /\ cpu.at # "main" => cpu.mask = {} /\ cpu.timer = 0 /\ At >= 2
  /\ cpu.at = "entry" => cpu.pending # {}
  /\ cpu.at = "handler" => cpu.pending = {}
  /\ cpu.at = "retirq" => Nothing
  /\ cpu.mask = IF irqPc = 1 \/ At \in 12 .. 15 THEN Irqs ELSE {}

(* Where in main the timer runs, and that it ends before the text does.     *)
Times ==
  /\ At \notin Prints => left = PrintClocks
  /\ At = 2 => cpu.timer = TimerClocks /\ cpu.at = "main"
  /\ At \in Timed => cpu.timer = 0 \/ cpu.timer + PrintClocks <= left + TimerClocks
  /\ At \notin Timed \cup {2} => cpu.timer = 0
  /\ At = 12 => Nothing
  /\ At <= 1 => Nothing /\ cpu.at = "main"

Account ==
  \A x \in Irqs :
    raised[x] = IF At <= 0 THEN 0 ELSE gIRQ[x] + IrqBit(x \in cpu.pending) + IrqBit(x \in cpu.q1)

IrqInv == IrqType /\ UnderWay /\ Place /\ Times /\ Account

(* A clock's work on the CPU's state, field by field.                       *)
LEMMA Ticked ==
  ASSUME NEW c \in CpuType, NEW d \in Nat
  PROVE  /\ Tick(c, d) \in CpuType
         /\ Tick(c, d).active = c.active /\ Tick(c, d).delay = c.delay
         /\ Tick(c, d).mask = c.mask /\ Tick(c, d).q1 = c.q1 /\ Tick(c, d).at = c.at
         /\ Tick(c, d).pending = c.pending \cup RaisedBy(c, d)
         /\ Tick(c, d).timer = IF c.timer > d THEN c.timer - d ELSE 0
         /\ RaisedBy(c, d) = IF c.timer # 0 /\ c.timer <= d THEN {"timer"} ELSE {}
<1> DEFINE t == IF c.timer > d THEN c.timer - d ELSE 0
           p == IF Expires(c, d) THEN c.pending \cup {"timer"} ELSE c.pending
<1>1. RaisedBy(c, d) = IF c.timer # 0 /\ c.timer <= d THEN {"timer"} ELSE {}
  BY DEF RaisedBy, Expires, CpuType
<1>2. p = c.pending \cup RaisedBy(c, d)
  BY Zenon DEF RaisedBy
<1>3. Tick(c, d) = [c EXCEPT !.timer = t, !.pending = p]
  BY DEF Tick, CpuType
<1>4. t \in 0 .. TimerClocks
  <2>1. c.timer \in 0 .. TimerClocks
    BY DEF CpuType
  <2> QED
    BY <2>1, IrqAssumption
<1>5. p \in SUBSET Irqs
  BY DEF CpuType, Irqs
<1> HIDE DEF t, p
<1>6. /\ Tick(c, d) \in CpuType
      /\ Tick(c, d).active = c.active /\ Tick(c, d).delay = c.delay
      /\ Tick(c, d).mask = c.mask /\ Tick(c, d).q1 = c.q1 /\ Tick(c, d).at = c.at
      /\ Tick(c, d).pending = p /\ Tick(c, d).timer = t
  BY <1>3, <1>4, <1>5 DEF CpuType
<1> QED
  BY <1>1, <1>2, <1>6 DEF t

(* The end of an instruction of main lets the interrupts through again.     *)
LEMMA Executed ==
  ASSUME NEW e \in CpuType, cpu' = [e EXCEPT !.delay = FALSE]
  PROVE  /\ cpu' \in CpuType /\ cpu'.delay = FALSE
         /\ cpu'.active = e.active /\ cpu'.mask = e.mask /\ cpu'.pending = e.pending
         /\ cpu'.timer = e.timer /\ cpu'.q1 = e.q1 /\ cpu'.at = e.at
BY DEF CpuType

(* A change of irq_mask leaves the rest of the CPU's state as it is.       *)
LEMMA MaskSet ==
  ASSUME NEW c \in CpuType, NEW v \in SUBSET Irqs, NEW e, e = [c EXCEPT !.mask = v]
  PROVE  /\ e \in CpuType /\ e.mask = v
         /\ e.active = c.active /\ e.delay = c.delay /\ e.pending = c.pending
         /\ e.timer = c.timer /\ e.q1 = c.q1 /\ e.at = c.at
BY DEF CpuType

(* A change of the timer leaves the rest of the CPU's state as it is.      *)
LEMMA TimerSet ==
  ASSUME NEW c \in CpuType, NEW v \in 0 .. TimerClocks, NEW e, e = [c EXCEPT !.timer = v]
  PROVE  /\ e \in CpuType /\ e.timer = v
         /\ e.active = c.active /\ e.delay = c.delay /\ e.mask = c.mask
         /\ e.pending = c.pending /\ e.q1 = c.q1 /\ e.at = c.at
BY DEF CpuType

(* A change of irq_pending leaves the rest of the CPU's state as it is.    *)
LEMMA PendingSet ==
  ASSUME NEW c \in CpuType, NEW v \in SUBSET Irqs, NEW e, e = [c EXCEPT !.pending = v]
  PROVE  /\ e \in CpuType /\ e.pending = v
         /\ e.active = c.active /\ e.delay = c.delay /\ e.mask = c.mask
         /\ e.timer = c.timer /\ e.q1 = c.q1 /\ e.at = c.at
BY DEF CpuType

(* Where main is in the program.                                            *)
LEMMA AtIs ==
  ASSUME IrqType
  PROVE  /\ At \in -1 .. 22 /\ irqPc \in Nat /\ irqPc >= 1
         /\ irqPc = 1 <=> At = IF irqBoard = "25k" THEN -1 ELSE 0
         /\ UNCHANGED irqBoard /\ irqPc' = irqPc => At' = At
         /\ UNCHANGED irqBoard /\ irqPc' = irqPc + 1 => At' = At + 1
<1>1. irqBoard \in {"9k", "25k"} /\ Len(Startup(irqBoard)) = IF irqBoard = "25k" THEN 2 ELSE 1
  BY StartupIs DEF IrqType
<1>2. irqPc \in 1 .. Len(Startup(irqBoard)) + 22
  BY DEF IrqType
<1>3. At \in -1 .. 22 /\ irqPc \in Nat /\ irqPc >= 1 /\ At = irqPc - Len(Startup(irqBoard))
  BY <1>1, <1>2 DEF At
<1>4. UNCHANGED irqBoard => At' = irqPc' - Len(Startup(irqBoard))
  BY DEF At
<1> QED
  BY <1>1, <1>3, <1>4

(* The events are accounted for as they happen.                             *)
LEMMA Raised ==
  ASSUME IrqType, NEW irqs, Raise(irqs)
  PROVE  /\ raised' \in [Irqs -> Nat]
         /\ \A x \in Irqs : raised'[x] = raised[x] + IrqBit(x \in irqs)
BY DEF Raise, IrqBit, IrqType

(* What an instruction of main finds, and what its clocks make of the CPU.  *)
LEMMA MainTick ==
  ASSUME IrqInv, Launch, NEW d \in InstrClocks
  PROVE  /\ d \in Nat /\ d >= 1 /\ d < TimerClocks
         /\ cpu.at = "main" /\ cpu.q1 = {} /\ (cpu.mask = {} => cpu.pending = {})
         /\ Tick(cpu, d) \in CpuType
         /\ Tick(cpu, d).mask = cpu.mask /\ Tick(cpu, d).q1 = {} /\ Tick(cpu, d).at = "main"
         /\ Tick(cpu, d).timer = IF cpu.timer > d THEN cpu.timer - d ELSE 0
         /\ Tick(cpu, d).pending = cpu.pending \cup RaisedBy(cpu, d)
         /\ One(Tick(cpu, d).pending)
         /\ Tick(cpu, d).timer # 0 => Tick(cpu, d).pending = {}
         /\ cpu.timer = 0 => Tick(cpu, d).pending = cpu.pending /\ RaisedBy(cpu, d) = {}
         /\ \A x \in Irqs :
              IrqBit(x \in Tick(cpu, d).pending) = IrqBit(x \in cpu.pending) + IrqBit(x \in RaisedBy(cpu, d))
<1>1. d \in Nat /\ d >= 1 /\ d < TimerClocks
  BY IrqAssumption
<1>2. cpu \in CpuType
  BY DEF IrqInv, IrqType
<1>3. cpu.at = "main" /\ cpu.q1 = {} /\ (cpu.mask = {} => cpu.pending = {})
  BY <1>2 DEF IrqInv, Place, Launch, Taken, Nothing, CpuType
<1>4. /\ Tick(cpu, d) \in CpuType
      /\ Tick(cpu, d).mask = cpu.mask /\ Tick(cpu, d).q1 = cpu.q1 /\ Tick(cpu, d).at = cpu.at
      /\ Tick(cpu, d).pending = cpu.pending \cup RaisedBy(cpu, d)
      /\ Tick(cpu, d).timer = IF cpu.timer > d THEN cpu.timer - d ELSE 0
      /\ RaisedBy(cpu, d) = IF cpu.timer # 0 /\ cpu.timer <= d THEN {"timer"} ELSE {}
  BY <1>1, <1>2, Ticked
<1>5. /\ One(cpu.pending) /\ cpu.timer \in Nat
      /\ cpu.timer # 0 => cpu.pending = {}
  BY <1>2 DEF IrqInv, UnderWay, CpuType
<1>6. One(Tick(cpu, d).pending) /\ (Tick(cpu, d).timer # 0 => Tick(cpu, d).pending = {})
  BY <1>1, <1>4, <1>5 DEF One, Irqs
<1>7. cpu.timer = 0 => Tick(cpu, d).pending = cpu.pending /\ RaisedBy(cpu, d) = {}
  BY <1>4
<1>8. \A x \in Irqs :
        IrqBit(x \in Tick(cpu, d).pending) = IrqBit(x \in cpu.pending) + IrqBit(x \in RaisedBy(cpu, d))
  <2>1. CASE RaisedBy(cpu, d) = {}
    BY <1>4, <2>1 DEF IrqBit
  <2>2. CASE cpu.pending = {}
    BY <1>4, <2>2 DEF IrqBit
  <2> QED
    BY <1>4, <1>5, <2>1, <2>2
<1> QED
  BY <1>1, <1>3, <1>4, <1>6, <1>7, <1>8

(* The account is kept by an instruction that leaves the counters alone.    *)
LEMMA MainAccount ==
  ASSUME IrqInv, Launch, NEW d \in InstrClocks, Raise(RaisedBy(cpu, d)),
         At >= 1, At' \in Nat, At' >= 1, UNCHANGED gIRQ,
         cpu'.pending = Tick(cpu, d).pending, cpu'.q1 = {}
  PROVE  Account'
<1>1. \A x \in Irqs : raised'[x] = raised[x] + IrqBit(x \in RaisedBy(cpu, d))
  BY Raised DEF IrqInv
<1>2. \A x \in Irqs : raised[x] = gIRQ[x] + IrqBit(x \in cpu.pending)
  <2>1. \A x \in Irqs : raised[x] = gIRQ[x] + IrqBit(x \in cpu.pending) + IrqBit(x \in {})
    BY MainTick, AtIs DEF IrqInv, Account
  <2>2. \A x \in Irqs : gIRQ[x] \in Nat
    BY DEF IrqInv, IrqType
  <2> QED
    BY <2>1, <2>2 DEF IrqBit
<1>3. \A x \in Irqs : gIRQ[x] \in Nat
  BY DEF IrqInv, IrqType
<1>4. \A x \in Irqs :
        IrqBit(x \in Tick(cpu, d).pending) = IrqBit(x \in cpu.pending) + IrqBit(x \in RaisedBy(cpu, d))
  BY MainTick
<1>5. \A x \in Irqs : raised'[x] = gIRQ'[x] + IrqBit(x \in cpu'.pending) + IrqBit(x \in cpu'.q1)
  BY <1>1, <1>2, <1>3, <1>4 DEF IrqBit
<1>6. ~(At' <= 0)
  OBVIOUS
<1> QED
  BY <1>5, <1>6 DEF Account

(* The timer is set where it is at its end and nothing waits, or at once    *)
(* again.                                                                   *)
LEMMA SetTimerKeeps == IrqInv /\ set_timer => IrqInv'
<1> SUFFICES ASSUME IrqInv, set_timer PROVE IrqInv'
  OBVIOUS
<1>1. /\ Launch /\ Stmt.op = "set_timer" /\ irqPc' = irqPc + 1
      /\ UNCHANGED <<irqBoard, left, gIRQ>>
  BY DEF set_timer, Register, Advance
<1>2. PICK d \in InstrClocks :
        /\ cpu' = [[Tick(cpu, d) EXCEPT !.timer = TimerClocks] EXCEPT !.delay = FALSE]
        /\ Raise(RaisedBy(cpu, d))
  BY DEF set_timer, Register, Execute, Loaded
<1> DEFINE c == Tick(cpu, d)
<1>3. /\ At \in {1, 2, 5, 12, 19} /\ At' = At + 1 /\ irqPc' \in 1 .. Len(Startup(irqBoard)) + 22
      /\ irqPc # 1 /\ irqPc' # 1
  BY <1>1, OpAt, AtIs, StartupIs DEF Launch, IrqInv, IrqType
<1>4. /\ d \in Nat /\ d >= 1 /\ d < TimerClocks
      /\ cpu.at = "main" /\ cpu.q1 = {} /\ (cpu.mask = {} => cpu.pending = {})
      /\ c \in CpuType
      /\ c.mask = cpu.mask /\ c.q1 = {} /\ c.at = "main"
      /\ c.pending = cpu.pending \cup RaisedBy(cpu, d)
      /\ cpu.timer = 0 => c.pending = cpu.pending
      /\ c.timer = IF cpu.timer > d THEN cpu.timer - d ELSE 0
      /\ c.timer # 0 => c.pending = {}
  BY <1>1, MainTick
<1>5. cpu' = [[c EXCEPT !.timer = TimerClocks] EXCEPT !.delay = FALSE]
  BY <1>2
<1> HIDE DEF c
<1>6. /\ cpu' \in CpuType /\ cpu'.delay = FALSE /\ cpu'.mask = cpu.mask /\ cpu'.at = "main"
      /\ cpu'.q1 = {} /\ cpu'.pending = c.pending /\ cpu'.timer = TimerClocks
  <2> DEFINE e == [c EXCEPT !.timer = TimerClocks]
  <2>1. /\ e \in CpuType /\ e.timer = TimerClocks /\ e.mask = c.mask /\ e.at = c.at
        /\ e.q1 = c.q1 /\ e.pending = c.pending
    BY <1>4, IrqAssumption, TimerSet
  <2> HIDE DEF e
  <2>2. cpu' = [e EXCEPT !.delay = FALSE]
    BY <1>5 DEF e
  <2> QED
    BY <1>4, <2>1, <2>2, Executed
<1>7. c.pending = {}
  <2>1. CASE At = 2
    BY <1>3, <1>4, <2>1, IrqAssumption DEF IrqInv, Times
  <2>2. CASE At # 2
    BY <1>3, <1>4, <2>2 DEF IrqInv, Times, Timed, Place, Nothing
  <2> QED
    BY <2>1, <2>2
<1>8. IrqType'
  BY <1>1, <1>2, <1>3, <1>6, Raised DEF IrqInv, IrqType
<1>9. UnderWay'
  BY <1>6, <1>7 DEF UnderWay, One
<1>10. Place'
  BY <1>3, <1>6 DEF IrqInv, Place
<1>11. Times'
  BY <1>1, <1>3, <1>6, IrqAssumption DEF IrqInv, Times, Prints, Timed
<1>12. Account'
  BY <1>1, <1>2, <1>3, <1>6, MainAccount DEF c
<1> QED
  BY <1>8, <1>9, <1>10, <1>11, <1>12 DEF IrqInv

(* The interrupts are masked where none is on its way.                      *)
LEMMA DisableKeeps == IrqInv /\ disable_irq => IrqInv'
<1> SUFFICES ASSUME IrqInv, disable_irq PROVE IrqInv'
  OBVIOUS
<1>1. /\ Launch /\ Stmt.op = "disable_irq" /\ irqPc' = irqPc + 1
      /\ UNCHANGED <<irqBoard, left, gIRQ>>
  BY DEF disable_irq, Register, Advance
<1>2. PICK d \in InstrClocks :
        /\ cpu' = [[Tick(cpu, d) EXCEPT !.mask = Irqs] EXCEPT !.delay = FALSE]
        /\ Raise(RaisedBy(cpu, d))
  BY DEF disable_irq, Register, Execute, Masked
<1> DEFINE c == Tick(cpu, d)
<1>3. /\ At = 11 /\ At' = At + 1 /\ irqPc' \in 1 .. Len(Startup(irqBoard)) + 22
      /\ irqPc # 1 /\ irqPc' # 1
  BY <1>1, OpAt, AtIs, StartupIs DEF Launch, IrqInv, IrqType
<1>4. /\ d \in Nat /\ d >= 1 /\ d < TimerClocks
      /\ cpu.at = "main" /\ cpu.q1 = {} /\ (cpu.mask = {} => cpu.pending = {})
      /\ c \in CpuType
      /\ c.mask = cpu.mask /\ c.q1 = {} /\ c.at = "main" /\ One(c.pending)
      /\ cpu.timer = 0 => c.pending = cpu.pending /\ RaisedBy(cpu, d) = {}
      /\ c.timer = IF cpu.timer > d THEN cpu.timer - d ELSE 0
      /\ c.timer # 0 => c.pending = {}
  BY <1>1, MainTick
<1>5. cpu' = [[c EXCEPT !.mask = Irqs] EXCEPT !.delay = FALSE]
  BY <1>2
<1> HIDE DEF c
<1>6. /\ cpu' \in CpuType /\ cpu'.delay = FALSE /\ cpu'.mask = Irqs /\ cpu'.at = "main"
      /\ cpu'.q1 = {} /\ cpu'.pending = c.pending /\ cpu'.timer = c.timer
  <2> DEFINE e == [c EXCEPT !.mask = Irqs]
  <2>1. /\ e \in CpuType /\ e.mask = Irqs /\ e.timer = c.timer /\ e.at = c.at
        /\ e.q1 = c.q1 /\ e.pending = c.pending
    BY <1>4, MaskSet
  <2> HIDE DEF e
  <2>2. cpu' = [e EXCEPT !.delay = FALSE]
    BY <1>5 DEF e
  <2> QED
    BY <1>4, <2>1, <2>2, Executed
<1>7. cpu.timer = 0 /\ c.timer = 0 /\ c.pending = {}
  BY <1>3, <1>4 DEF IrqInv, Times, Timed, Place, Nothing
<1>8. IrqType'
  BY <1>1, <1>2, <1>3, <1>6, Raised DEF IrqInv, IrqType
<1>9. UnderWay'
  BY <1>6, <1>7 DEF UnderWay, One
<1>10. Place'
  BY <1>3, <1>6 DEF IrqInv, Place
<1>11. Times'
  BY <1>1, <1>3, <1>6, <1>7, IrqAssumption DEF IrqInv, Times, Prints, Timed, Nothing
<1>12. Account'
  BY <1>1, <1>2, <1>3, <1>6, MainAccount DEF c
<1> QED
  BY <1>8, <1>9, <1>10, <1>11, <1>12 DEF IrqInv

(* They are let through again where one may be pending.                    *)
LEMMA EnableKeeps == IrqInv /\ enable_irq => IrqInv'
<1> SUFFICES ASSUME IrqInv, enable_irq PROVE IrqInv'
  OBVIOUS
<1>1. /\ Launch /\ Stmt.op = "enable_irq" /\ irqPc' = irqPc + 1
      /\ UNCHANGED <<irqBoard, left, gIRQ>>
  BY DEF enable_irq, Register, Advance
<1>2. PICK d \in InstrClocks :
        /\ cpu' = [[Tick(cpu, d) EXCEPT !.mask = {}] EXCEPT !.delay = FALSE]
        /\ Raise(RaisedBy(cpu, d))
  BY DEF enable_irq, Register, Execute, Unmasked
<1> DEFINE c == Tick(cpu, d)
<1>3. /\ At = 15 /\ At' = At + 1 /\ irqPc' \in 1 .. Len(Startup(irqBoard)) + 22
      /\ irqPc # 1 /\ irqPc' # 1
  BY <1>1, OpAt, AtIs, StartupIs DEF Launch, IrqInv, IrqType
<1>4. /\ d \in Nat /\ d >= 1 /\ d < TimerClocks
      /\ cpu.at = "main" /\ cpu.q1 = {} /\ (cpu.mask = {} => cpu.pending = {})
      /\ c \in CpuType
      /\ c.mask = cpu.mask /\ c.q1 = {} /\ c.at = "main" /\ One(c.pending)
      /\ cpu.timer = 0 => c.pending = cpu.pending /\ RaisedBy(cpu, d) = {}
      /\ c.timer = IF cpu.timer > d THEN cpu.timer - d ELSE 0
      /\ c.timer # 0 => c.pending = {}
  BY <1>1, MainTick
<1>5. cpu' = [[c EXCEPT !.mask = {}] EXCEPT !.delay = FALSE]
  BY <1>2
<1> HIDE DEF c
<1>6. /\ cpu' \in CpuType /\ cpu'.delay = FALSE /\ cpu'.mask = {} /\ cpu'.at = "main"
      /\ cpu'.q1 = {} /\ cpu'.pending = c.pending /\ cpu'.timer = c.timer
  <2> DEFINE e == [c EXCEPT !.mask = {}]
  <2>1. /\ e \in CpuType /\ e.mask = {} /\ e.timer = c.timer /\ e.at = c.at
        /\ e.q1 = c.q1 /\ e.pending = c.pending
    BY <1>4, MaskSet
  <2> HIDE DEF e
  <2>2. cpu' = [e EXCEPT !.delay = FALSE]
    BY <1>5 DEF e
  <2> QED
    BY <1>4, <2>1, <2>2, Executed
<1>7. cpu.timer = 0 /\ c.timer = 0
  BY <1>3, <1>4 DEF IrqInv, Times, Timed
<1>8. IrqType'
  BY <1>1, <1>2, <1>3, <1>6, Raised DEF IrqInv, IrqType
<1>9. UnderWay'
  BY <1>4, <1>6, <1>7 DEF UnderWay, One
<1>10. Place'
  BY <1>3, <1>6 DEF IrqInv, Place
<1>11. Times'
  BY <1>1, <1>3, <1>6, <1>7, IrqAssumption DEF IrqInv, Times, Prints, Timed, Nothing
<1>12. Account'
  BY <1>1, <1>2, <1>3, <1>6, MainAccount DEF c
<1> QED
  BY <1>8, <1>9, <1>10, <1>11, <1>12 DEF IrqInv

(* A check is made with the timer at its end.                              *)
LEMMA CheckKeeps == IrqInv /\ CheckCount => IrqInv'
<1> SUFFICES ASSUME IrqInv, CheckCount PROVE IrqInv'
  OBVIOUS
<1>1. /\ Launch /\ Stmt.op = "check" /\ irqPc' = irqPc + 1
      /\ UNCHANGED <<irqBoard, left, gIRQ>>
  BY DEF CheckCount, Advance
<1>2. PICK d \in InstrClocks :
        /\ cpu' = [Tick(cpu, d) EXCEPT !.delay = FALSE]
        /\ Raise(RaisedBy(cpu, d))
  BY DEF CheckCount, Execute, Same
<1> DEFINE c == Tick(cpu, d)
<1>3. /\ At \in {4, 7, 10, 14, 18, 21} /\ At' = At + 1
      /\ irqPc' \in 1 .. Len(Startup(irqBoard)) + 22
      /\ irqPc # 1 /\ irqPc' # 1
  BY <1>1, OpAt, AtIs, StartupIs DEF Launch, IrqInv, IrqType
<1>4. /\ d \in Nat /\ d >= 1 /\ d < TimerClocks
      /\ cpu.at = "main" /\ cpu.q1 = {} /\ (cpu.mask = {} => cpu.pending = {})
      /\ c \in CpuType
      /\ c.mask = cpu.mask /\ c.q1 = {} /\ c.at = "main" /\ One(c.pending)
      /\ cpu.timer = 0 => c.pending = cpu.pending /\ RaisedBy(cpu, d) = {}
      /\ c.timer = IF cpu.timer > d THEN cpu.timer - d ELSE 0
      /\ c.timer # 0 => c.pending = {}
  BY <1>1, MainTick
<1>5. cpu' = [c EXCEPT !.delay = FALSE]
  BY <1>2
<1> HIDE DEF c
<1>6. /\ cpu' \in CpuType /\ cpu'.delay = FALSE /\ cpu'.mask = cpu.mask /\ cpu'.at = "main"
      /\ cpu'.q1 = {} /\ cpu'.pending = c.pending /\ cpu'.timer = c.timer
  BY <1>4, <1>5, Executed
<1>7. cpu.timer = 0 /\ c.timer = 0
  BY <1>3, <1>4 DEF IrqInv, Times, Timed
<1>8. IrqType'
  BY <1>1, <1>2, <1>3, <1>6, Raised DEF IrqInv, IrqType
<1>9. UnderWay'
  BY <1>4, <1>6, <1>7 DEF UnderWay, One
<1>10. Place'
  BY <1>3, <1>6 DEF IrqInv, Place
<1>11. Times'
  BY <1>1, <1>3, <1>6, <1>7, IrqAssumption DEF IrqInv, Times, Prints, Timed, Nothing
<1>12. Account'
  BY <1>1, <1>2, <1>3, <1>6, MainAccount DEF c
<1> QED
  BY <1>8, <1>9, <1>10, <1>11, <1>12 DEF IrqInv

(* A text is waited for, in which the timer may run out and ends before it. *)
LEMMA PrintKeeps == IrqInv /\ print => IrqInv'
<1> SUFFICES ASSUME IrqInv, print PROVE IrqInv'
  OBVIOUS
<1>1. Launch /\ Stmt.op = "print" /\ UNCHANGED <<irqBoard, gIRQ>>
  BY DEF print
<1>2. PICK d \in InstrClocks :
        /\ cpu' = [Tick(cpu, d) EXCEPT !.delay = FALSE]
        /\ Raise(RaisedBy(cpu, d))
        /\ IF left > d THEN left' = left - d /\ irqPc' = irqPc
                       ELSE left' = PrintClocks /\ irqPc' = irqPc + 1
  BY DEF print, Execute, Same, Advance
<1> DEFINE c == Tick(cpu, d)
<1>3. /\ At \in Prints /\ irqPc \in 1 .. Len(Startup(irqBoard)) + 21 /\ irqPc # 1
      /\ Len(Startup(irqBoard)) \in Nat
  BY <1>1, OpAt, AtIs, StartupIs DEF Launch, IrqInv, IrqType, Prints
<1>4. /\ d \in Nat /\ d >= 1 /\ d < TimerClocks
      /\ cpu.at = "main" /\ cpu.q1 = {} /\ (cpu.mask = {} => cpu.pending = {})
      /\ c \in CpuType
      /\ c.mask = cpu.mask /\ c.q1 = {} /\ c.at = "main" /\ One(c.pending)
      /\ c.timer = IF cpu.timer > d THEN cpu.timer - d ELSE 0
      /\ c.timer # 0 => c.pending = {}
  BY <1>1, MainTick
<1>5. cpu' = [c EXCEPT !.delay = FALSE]
  BY <1>2
<1> HIDE DEF c
<1>6. /\ cpu' \in CpuType /\ cpu'.delay = FALSE /\ cpu'.mask = cpu.mask /\ cpu'.at = "main"
      /\ cpu'.q1 = {} /\ cpu'.pending = c.pending /\ cpu'.timer = c.timer
  BY <1>4, <1>5, Executed
<1>7. /\ left \in 1 .. PrintClocks /\ cpu.timer \in 0 .. TimerClocks
      /\ IF At \in Timed THEN cpu.timer = 0 \/ cpu.timer + PrintClocks <= left + TimerClocks
                         ELSE cpu.timer = 0
  BY <1>3 DEF IrqInv, IrqType, CpuType, Times, Timed, Prints
<1>8. At \in Nat /\ irqPc' \in 1 .. Len(Startup(irqBoard)) + 22 /\ irqPc' # 1
  BY <1>2, <1>3, <1>4 DEF Prints
<1>9. left' \in 1 .. PrintClocks
  BY <1>2, <1>4, <1>7, IrqAssumption
<1>10. /\ At' = IF left > d THEN At ELSE At + 1
       /\ left > d => left' = left - d
       /\ ~(left > d) => left' = PrintClocks
  BY <1>1, <1>2, AtIs DEF IrqInv
<1>11. IrqType'
  BY <1>1, <1>2, <1>6, <1>8, <1>9, Raised DEF IrqInv, IrqType
<1>12. UnderWay'
  BY <1>4, <1>6 DEF UnderWay, One
<1>13. Place'
  BY <1>3, <1>6, <1>8, <1>10 DEF IrqInv, Place, Prints
<1>14. Times'
  <2>1. CASE left > d
    <3>1. At' = At /\ left' = left - d
      BY <1>10, <2>1
    <3>2. c.timer = 0 \/ c.timer + PrintClocks <= left' + TimerClocks
      BY <1>4, <1>7, <3>1, IrqAssumption
    <3>3. At \notin Timed => c.timer = 0
      BY <1>4, <1>7
    <3> QED
      BY <1>3, <1>6, <3>1, <3>2, <3>3 DEF Times, Prints, Timed
  <2>2. CASE ~(left > d)
    <3>1. At' = At + 1 /\ left' = PrintClocks
      BY <1>10, <2>2
    <3>2. c.timer = 0
      BY <1>4, <1>7, <2>2, IrqAssumption
    <3> QED
      BY <1>3, <1>6, <3>1, <3>2 DEF Times, Prints, Timed
  <2> QED
    BY <2>1, <2>2
<1>15. At >= 1 /\ At' \in Nat /\ At' >= 1
  BY <1>3, <1>10 DEF Prints
<1>16. Account'
  BY <1>1, <1>2, <1>6, <1>15, MainAccount DEF c
<1> QED
  BY <1>11, <1>12, <1>13, <1>14, <1>16 DEF IrqInv

(* An ebreak comes where its interrupt is let through, and nothing waits.   *)
LEMMA EbreakKeeps == IrqInv /\ ebreak => IrqInv'
<1> SUFFICES ASSUME IrqInv, ebreak PROVE IrqInv'
  OBVIOUS
<1>1. /\ Launch /\ Stmt.op = "ebreak" /\ irqPc' = irqPc + 1
      /\ UNCHANGED <<irqBoard, left, gIRQ>>
  BY DEF ebreak, Advance
<1>2. PICK d \in InstrClocks :
        /\ cpu' = [Broken(Tick(cpu, d)) EXCEPT !.delay = FALSE]
        /\ Raise(RaisedBy(cpu, d) \cup {"ebreak"})
  BY DEF ebreak, Execute
<1> DEFINE c == Tick(cpu, d)
<1>3. /\ At \in {8, 16} /\ At' = At + 1 /\ irqPc' \in 1 .. Len(Startup(irqBoard)) + 22
      /\ irqPc # 1 /\ irqPc' # 1
  BY <1>1, OpAt, AtIs, StartupIs DEF Launch, IrqInv, IrqType
<1>4. /\ cpu.at = "main" /\ cpu.q1 = {} /\ (cpu.mask = {} => cpu.pending = {})
      /\ c \in CpuType
      /\ c.mask = cpu.mask /\ c.q1 = {} /\ c.at = "main"
      /\ cpu.timer = 0 => c.pending = cpu.pending /\ RaisedBy(cpu, d) = {}
      /\ c.timer = IF cpu.timer > d THEN cpu.timer - d ELSE 0
      /\ d \in Nat
  BY <1>1, MainTick
<1>5. cpu' = [Broken(c) EXCEPT !.delay = FALSE]
  BY <1>2
<1> HIDE DEF c
<1>6. cpu.mask = {} /\ cpu.timer = 0 /\ cpu.pending = {} /\ c.timer = 0 /\ c.pending = {}
  BY <1>3, <1>4 DEF IrqInv, Place, Times, Timed
<1>7. /\ cpu' \in CpuType /\ cpu'.delay = FALSE /\ cpu'.mask = {} /\ cpu'.at = "main"
      /\ cpu'.q1 = {} /\ cpu'.pending = {"ebreak"} /\ cpu'.timer = 0
  <2> DEFINE one == {"ebreak"}
             e == [c EXCEPT !.pending = one]
  <2>1. one \in SUBSET Irqs
    BY DEF Irqs
  <2>2. e = Broken(c)
    <3>1. Broken(c) = [c EXCEPT !.pending = c.pending \cup one]
      BY <1>4, <1>6 DEF Broken, CpuType
    <3>2. c.pending \cup one = one
      BY <1>6
    <3> HIDE DEF one
    <3> QED
      BY <3>1, <3>2
  <2> HIDE DEF one
  <2>3. e = [c EXCEPT !.pending = one]
    OBVIOUS
  <2> HIDE DEF e
  <2>4. /\ e \in CpuType /\ e.mask = c.mask /\ e.timer = c.timer /\ e.at = c.at
        /\ e.q1 = c.q1 /\ e.pending = one
    BY <1>4, <2>1, <2>3, PendingSet
  <2>5. cpu' = [e EXCEPT !.delay = FALSE]
    BY <1>5, <2>2
  <2> QED
    BY <1>4, <1>6, <2>4, <2>5, Executed DEF one
<1>8. IrqType'
  BY <1>1, <1>2, <1>3, <1>7, Raised DEF IrqInv, IrqType
<1>9. UnderWay'
  BY <1>7 DEF UnderWay, One, Irqs
<1>10. Place'
  BY <1>3, <1>7 DEF Place
<1>11. Times'
  BY <1>1, <1>3, <1>7, IrqAssumption DEF IrqInv, Times, Prints, Timed
<1>12. Account'
  <2>1. \A x \in Irqs : raised'[x] = raised[x] + IrqBit(x \in RaisedBy(cpu, d) \cup {"ebreak"})
    BY <1>2, Raised DEF IrqInv
  <2>2. \A x \in Irqs : raised'[x] = raised[x] + IrqBit(x \in cpu'.pending)
    BY <1>4, <1>6, <1>7, <2>1
  <2>3. \A x \in Irqs : gIRQ[x] \in Nat /\ raised[x] = gIRQ[x] + IrqBit(x \in {}) + IrqBit(x \in {})
    BY <1>3, <1>4, <1>6 DEF IrqInv, IrqType, Account
  <2>4. \A x \in Irqs : raised'[x] = gIRQ[x] + IrqBit(x \in cpu'.pending) + IrqBit(x \in cpu'.q1)
    BY <1>7, <2>2, <2>3 DEF IrqBit
  <2>5. ~(At' <= 0)
    BY <1>3
  <2> QED
    BY <1>1, <2>4, <2>5 DEF Account
<1> QED
  BY <1>8, <1>9, <1>10, <1>11, <1>12 DEF IrqInv

(* The start enables the interrupts; where the program's data is copied to  *)
(* the memory that clears the counters, where it is not main does next.     *)
LEMMA InitKeeps == IrqInv /\ crtInit => IrqInv'
<1> SUFFICES ASSUME IrqInv, crtInit PROVE IrqInv'
  OBVIOUS
<1>1. /\ Launch /\ Stmt.op = "crtInit" /\ irqPc' = irqPc + 1 /\ UNCHANGED <<irqBoard, left>>
      /\ gIRQ' = IF irqBoard = "9k" THEN NoIrqs ELSE gIRQ
  BY DEF crtInit, Advance
<1>2. PICK d \in InstrClocks :
        /\ cpu' = [[Tick(cpu, d) EXCEPT !.mask = {}] EXCEPT !.delay = FALSE]
        /\ Raise(RaisedBy(cpu, d))
  BY DEF crtInit, Execute, Unmasked
<1> DEFINE c == Tick(cpu, d)
<1>3. /\ irqPc = 1 /\ At = (IF irqBoard = "25k" THEN -1 ELSE 0) /\ At' = At + 1
      /\ irqPc' = 2 /\ irqPc' \in 1 .. Len(Startup(irqBoard)) + 22
      /\ irqBoard \in {"9k", "25k"}
  BY <1>1, OpAt, AtIs, StartupIs DEF Launch, IrqInv, IrqType
<1>4. /\ cpu.at = "main" /\ c \in CpuType /\ c.q1 = {} /\ c.at = "main" /\ d \in Nat
      /\ cpu.timer = 0 => c.pending = cpu.pending /\ RaisedBy(cpu, d) = {}
      /\ c.timer = IF cpu.timer > d THEN cpu.timer - d ELSE 0
  BY <1>1, MainTick
<1>5. cpu' = [[c EXCEPT !.mask = {}] EXCEPT !.delay = FALSE]
  BY <1>2
<1> HIDE DEF c
<1>6. /\ cpu' \in CpuType /\ cpu'.delay = FALSE /\ cpu'.mask = {} /\ cpu'.at = "main"
      /\ cpu'.q1 = {} /\ cpu'.pending = c.pending /\ cpu'.timer = c.timer
  <2> DEFINE e == [c EXCEPT !.mask = {}]
  <2>1. /\ e \in CpuType /\ e.mask = {} /\ e.timer = c.timer /\ e.at = c.at
        /\ e.q1 = c.q1 /\ e.pending = c.pending
    BY <1>4, MaskSet
  <2> HIDE DEF e
  <2>2. cpu' = [e EXCEPT !.delay = FALSE]
    BY <1>5 DEF e
  <2> QED
    BY <1>4, <2>1, <2>2, Executed
<1>7. cpu'.timer = 0 /\ cpu'.pending = {} /\ RaisedBy(cpu, d) = {}
  BY <1>3, <1>4, <1>6 DEF IrqInv, Times, Nothing
<1>8. IrqType'
  <2>1. gIRQ' \in [Irqs -> Nat]
    BY <1>1 DEF IrqInv, IrqType, NoIrqs
  <2> QED
    BY <1>1, <1>2, <1>3, <1>6, <2>1, Raised DEF IrqInv, IrqType
<1>9. UnderWay'
  BY <1>6, <1>7 DEF UnderWay, One
<1>10. Place'
  BY <1>3, <1>6, <1>7 DEF Place
<1>11. Times'
  BY <1>1, <1>3, <1>6, <1>7 DEF IrqInv, Times, Prints, Timed, Nothing
<1>12. Account'
  <2>1. \A x \in Irqs : raised'[x] = raised[x] + IrqBit(x \in {})
    BY <1>2, <1>7, Raised DEF IrqInv
  <2>2. \A x \in Irqs : raised[x] = 0
    BY <1>3 DEF IrqInv, Account
  <2>3. \A x \in Irqs : raised'[x] = 0
    BY <2>1, <2>2 DEF IrqBit
  <2>4. CASE irqBoard = "9k"
    <3>1. \A x \in Irqs : gIRQ'[x] = 0
      BY <1>1, <2>4 DEF NoIrqs
    <3>2. \A x \in Irqs : raised'[x] = gIRQ'[x] + IrqBit(x \in cpu'.pending) + IrqBit(x \in cpu'.q1)
      BY <1>6, <1>7, <2>3, <3>1 DEF IrqBit
    <3>3. ~(At' <= 0)
      BY <1>3, <2>4
    <3> QED
      BY <3>2, <3>3 DEF Account
  <2>5. CASE irqBoard = "25k"
    <3>1. At' <= 0
      BY <1>3, <2>5
    <3> QED
      BY <2>3, <3>1 DEF Account
  <2> QED
    BY <1>3, <2>4, <2>5
<1> QED
  BY <1>8, <1>9, <1>10, <1>11, <1>12 DEF IrqInv

(* main clears the counters before the first event.                         *)
LEMMA ClearKeeps == IrqInv /\ Clear => IrqInv'
<1> SUFFICES ASSUME IrqInv, Clear PROVE IrqInv'
  OBVIOUS
<1>1. /\ Launch /\ Stmt.op = "clear" /\ irqPc' = irqPc + 1 /\ UNCHANGED <<irqBoard, left>>
      /\ gIRQ' = NoIrqs
  BY DEF Clear, Advance
<1>2. PICK d \in InstrClocks :
        /\ cpu' = [Tick(cpu, d) EXCEPT !.delay = FALSE]
        /\ Raise(RaisedBy(cpu, d))
  BY DEF Clear, Execute, Same
<1> DEFINE c == Tick(cpu, d)
<1>3. /\ irqPc = 2 /\ At = 0 /\ At' = At + 1 /\ irqPc' = 3
      /\ irqPc' \in 1 .. Len(Startup(irqBoard)) + 22
  BY <1>1, OpAt, AtIs, StartupIs DEF Launch, IrqInv, IrqType
<1>4. /\ cpu.at = "main" /\ c \in CpuType /\ c.q1 = {} /\ c.at = "main" /\ d \in Nat
      /\ c.mask = cpu.mask
      /\ cpu.timer = 0 => c.pending = cpu.pending /\ RaisedBy(cpu, d) = {}
      /\ c.timer = IF cpu.timer > d THEN cpu.timer - d ELSE 0
  BY <1>1, MainTick
<1>5. cpu' = [c EXCEPT !.delay = FALSE]
  BY <1>2
<1> HIDE DEF c
<1>6. /\ cpu' \in CpuType /\ cpu'.delay = FALSE /\ cpu'.mask = cpu.mask /\ cpu'.at = "main"
      /\ cpu'.q1 = {} /\ cpu'.pending = c.pending /\ cpu'.timer = c.timer
  BY <1>4, <1>5, Executed
<1>7. cpu'.timer = 0 /\ cpu'.pending = {} /\ RaisedBy(cpu, d) = {}
  BY <1>3, <1>4, <1>6 DEF IrqInv, Times, Nothing
<1>8. IrqType'
  <2>1. gIRQ' \in [Irqs -> Nat]
    BY <1>1 DEF NoIrqs
  <2> QED
    BY <1>1, <1>2, <1>3, <1>6, <2>1, Raised DEF IrqInv, IrqType
<1>9. UnderWay'
  BY <1>6, <1>7 DEF UnderWay, One
<1>10. Place'
  BY <1>3, <1>6, <1>7 DEF IrqInv, Place
<1>11. Times'
  BY <1>1, <1>3, <1>6, <1>7 DEF IrqInv, Times, Prints, Timed, Nothing
<1>12. Account'
  <2>1. \A x \in Irqs : raised'[x] = raised[x] + IrqBit(x \in {})
    BY <1>2, <1>7, Raised DEF IrqInv
  <2>2. \A x \in Irqs : raised[x] = 0
    BY <1>3 DEF IrqInv, Account
  <2>3. \A x \in Irqs : gIRQ'[x] = 0
    BY <1>1 DEF NoIrqs
  <2>4. \A x \in Irqs : raised'[x] = gIRQ'[x] + IrqBit(x \in cpu'.pending) + IrqBit(x \in cpu'.q1)
    BY <1>6, <1>7, <2>1, <2>2, <2>3 DEF IrqBit
  <2>5. ~(At' <= 0)
    BY <1>3
  <2> QED
    BY <2>4, <2>5 DEF Account
<1> QED
  BY <1>8, <1>9, <1>10, <1>11, <1>12 DEF IrqInv

(* The handler runs with the timer at its end: no clock of it matters.      *)
LEMMA HandlerTick ==
  ASSUME IrqInv, NEW c \in CpuType, c.timer = 0, NEW d \in Nat, Handling(c, d)
  PROVE  /\ cpu' \in CpuType
         /\ cpu'.active = c.active /\ cpu'.delay = c.delay /\ cpu'.mask = c.mask /\ cpu'.timer = 0
         /\ cpu'.pending = c.pending /\ cpu'.q1 = c.q1 /\ cpu'.at = c.at
         /\ raised' = raised /\ At' = At /\ irqPc' = irqPc
         /\ UNCHANGED <<irqBoard, left>>
         /\ gIRQ' \in [Irqs -> Nat] => IrqType'
<1>1. /\ cpu' = Tick(c, d) /\ Raise(RaisedBy(c, d)) /\ UNCHANGED <<irqBoard, irqPc, left>>
  BY DEF Handling
<1>2. RaisedBy(c, d) = {}
  BY Ticked
<1>3. /\ cpu' \in CpuType
      /\ cpu'.active = c.active /\ cpu'.delay = c.delay /\ cpu'.mask = c.mask /\ cpu'.timer = 0
      /\ cpu'.pending = c.pending /\ cpu'.q1 = c.q1 /\ cpu'.at = c.at
  <2> DEFINE e == Tick(c, d)
  <2>1. /\ e \in CpuType
        /\ e.active = c.active /\ e.delay = c.delay /\ e.mask = c.mask
        /\ e.timer = (IF c.timer > d THEN c.timer - d ELSE 0)
        /\ e.pending = c.pending \cup {} /\ e.q1 = c.q1 /\ e.at = c.at
    BY <1>2, Ticked
  <2> HIDE DEF e
  <2>2. e.timer = 0 /\ e.pending = c.pending
    BY <2>1
  <2>3. cpu' = e
    BY <1>1 DEF e
  <2> QED
    BY <2>1, <2>2, <2>3
<1>4. raised' \in [Irqs -> Nat] /\ \A x \in Irqs : raised'[x] = raised[x]
  <2>1. raised' \in [Irqs -> Nat] /\ \A x \in Irqs : raised'[x] = raised[x] + IrqBit(x \in {})
    BY <1>1, <1>2, Raised DEF IrqInv
  <2> QED
    BY <2>1 DEF IrqBit, IrqInv, IrqType
<1>5. raised' = raised
  BY <1>4 DEF IrqInv, IrqType
<1>6. At' = At /\ irqPc' = irqPc
  BY <1>1, AtIs DEF IrqInv
<1> QED
  BY <1>1, <1>3, <1>4, <1>5, <1>6 DEF IrqInv, IrqType

(* The CPU leaves main for the handler, where all interrupts are let through. *)
LEMMA TakeKeeps == IrqInv /\ TakeIrq => IrqInv'
<1> SUFFICES ASSUME IrqInv, TakeIrq PROVE IrqInv'
  OBVIOUS
<1> DEFINE a == [cpu EXCEPT !.active = TRUE]
           c == [a EXCEPT !.at = "entry"]
<1>1. /\ cpu.at = "main" /\ ~cpu.delay /\ cpu.pending \ cpu.mask # {} /\ UNCHANGED gIRQ
      /\ Handling(c, 1)
  BY DEF TakeIrq, Taken
<1>2. cpu \in CpuType /\ gIRQ \in [Irqs -> Nat]
  BY DEF IrqInv, IrqType
<1>3. /\ a \in CpuType /\ a.delay = cpu.delay /\ a.mask = cpu.mask /\ a.pending = cpu.pending
      /\ a.timer = cpu.timer /\ a.q1 = cpu.q1
  BY <1>2 DEF CpuType
<1> HIDE DEF a
<1>4. /\ c \in CpuType /\ c.delay = cpu.delay /\ c.mask = cpu.mask /\ c.pending = cpu.pending
      /\ c.timer = cpu.timer /\ c.q1 = cpu.q1 /\ c.at = "entry"
  BY <1>3 DEF CpuType
<1> HIDE DEF c
<1>5. cpu.pending # {} /\ cpu.mask # Irqs
  BY <1>1, <1>2 DEF CpuType
<1>6. cpu.mask = {} /\ cpu.timer = 0 /\ cpu.q1 = {} /\ At \notin 12 .. 15 /\ irqPc # 1
  BY <1>1, <1>5 DEF IrqInv, Place, UnderWay
<1>7. At >= 2 /\ At # 2
  BY <1>5, <1>6, AtIs, IrqAssumption DEF IrqInv, Times, Nothing
<1>8. /\ cpu' \in CpuType /\ cpu'.delay = FALSE /\ cpu'.mask = {} /\ cpu'.timer = 0
      /\ cpu'.pending = cpu.pending /\ cpu'.q1 = {} /\ cpu'.at = "entry"
      /\ raised' = raised /\ At' = At /\ irqPc' = irqPc /\ UNCHANGED <<irqBoard, left>>
      /\ IrqType'
  <2>1. /\ cpu' \in CpuType
        /\ cpu'.delay = c.delay /\ cpu'.mask = c.mask /\ cpu'.timer = 0
        /\ cpu'.pending = c.pending /\ cpu'.q1 = c.q1 /\ cpu'.at = c.at
        /\ raised' = raised /\ At' = At /\ irqPc' = irqPc /\ UNCHANGED <<irqBoard, left>>
        /\ gIRQ' \in [Irqs -> Nat] => IrqType'
    BY <1>1, <1>4, <1>6, HandlerTick
  <2> QED
    BY <1>1, <1>2, <1>4, <1>6, <2>1 DEF CpuType
<1>9. UnderWay'
  BY <1>6, <1>8 DEF IrqInv, UnderWay, One
<1>10. Place'
  BY <1>5, <1>6, <1>7, <1>8 DEF Place
<1>11. Times'
  BY <1>6, <1>7, <1>8, AtIs DEF IrqInv, Times, Prints, Timed, Nothing
<1>12. Account'
  BY <1>1, <1>6, <1>8 DEF IrqInv, Account
<1> QED
  BY <1>8, <1>9, <1>10, <1>11, <1>12 DEF IrqInv

(* What is pending goes to q1, and none of it stays.                        *)
LEMMA CaptureKeeps == IrqInv /\ CaptureIrqs => IrqInv'
<1> SUFFICES ASSUME IrqInv, CaptureIrqs PROVE IrqInv'
  OBVIOUS
<1> DEFINE a == [cpu EXCEPT !.q1 = cpu.pending]
           b == [a EXCEPT !.pending = {}]
           c == [b EXCEPT !.at = "handler"]
<1>1. cpu \in CpuType /\ gIRQ \in [Irqs -> Nat]
  BY DEF IrqInv, IrqType
<1>2. cpu.at = "entry" /\ UNCHANGED gIRQ
  BY DEF CaptureIrqs
<1>3. /\ cpu.mask = {} /\ cpu.timer = 0 /\ At >= 2 /\ cpu.pending # {} /\ cpu.q1 = {}
      /\ ~cpu.delay
  BY <1>2 DEF IrqInv, Place, UnderWay
<1>4. Handling(c, 1)
  <2>1. Taken = cpu.pending /\ cpu.pending \cap cpu.mask = {}
    BY <1>3 DEF Taken
  <2>2. c = [cpu EXCEPT !.q1 = cpu.pending, !.pending = {}, !.at = "handler"]
    OBVIOUS
  <2> HIDE DEF c
  <2> QED
    BY <2>1, <2>2 DEF CaptureIrqs
<1>5. /\ a \in CpuType /\ a.delay = cpu.delay /\ a.mask = cpu.mask /\ a.timer = cpu.timer
      /\ a.q1 = cpu.pending
  BY <1>1 DEF CpuType
<1> HIDE DEF a
<1>6. /\ b \in CpuType /\ b.delay = cpu.delay /\ b.mask = cpu.mask /\ b.timer = cpu.timer
      /\ b.q1 = cpu.pending /\ b.pending = {}
  BY <1>5 DEF CpuType
<1> HIDE DEF b
<1>7. /\ c \in CpuType /\ c.delay = cpu.delay /\ c.mask = cpu.mask /\ c.timer = cpu.timer
      /\ c.q1 = cpu.pending /\ c.pending = {} /\ c.at = "handler"
  BY <1>6 DEF CpuType
<1> HIDE DEF c
<1>8. /\ cpu' \in CpuType /\ ~cpu'.delay /\ cpu'.mask = {} /\ cpu'.timer = 0
      /\ cpu'.pending = {} /\ cpu'.q1 = cpu.pending /\ cpu'.at = "handler"
      /\ raised' = raised /\ At' = At /\ irqPc' = irqPc /\ UNCHANGED <<irqBoard, left>>
      /\ IrqType'
  <2>1. /\ cpu' \in CpuType
        /\ cpu'.delay = c.delay /\ cpu'.mask = c.mask /\ cpu'.timer = 0
        /\ cpu'.pending = c.pending /\ cpu'.q1 = c.q1 /\ cpu'.at = c.at
        /\ raised' = raised /\ At' = At /\ irqPc' = irqPc /\ UNCHANGED <<irqBoard, left>>
        /\ gIRQ' \in [Irqs -> Nat] => IrqType'
    BY <1>3, <1>4, <1>7, HandlerTick
  <2> QED
    BY <1>1, <1>2, <1>3, <1>7, <2>1
<1>9. UnderWay'
  BY <1>8 DEF IrqInv, UnderWay, One
<1>10. Place'
  BY <1>2, <1>3, <1>8 DEF IrqInv, Place
<1>11. Times'
  BY <1>2, <1>3, <1>8, AtIs DEF IrqInv, Times, Prints, Timed, Nothing
<1>12. Account'
  <2>1. \A x \in Irqs : gIRQ[x] \in Nat /\ ~(At <= 0)
    BY <1>1, <1>3, AtIs DEF IrqInv
  <2>2. \A x \in Irqs : raised[x] = gIRQ[x] + IrqBit(x \in cpu.pending) + IrqBit(x \in {})
    BY <1>3, <2>1 DEF IrqInv, Account
  <2>3. \A x \in Irqs : raised[x] = gIRQ[x] + IrqBit(x \in {}) + IrqBit(x \in cpu.pending)
    BY <2>1, <2>2 DEF IrqBit
  <2> QED
    BY <1>2, <1>8, <2>1, <2>3 DEF Account
<1> QED
  BY <1>8, <1>9, <1>10, <1>11, <1>12 DEF IrqInv

(* What is in q1 is counted.                                                *)
LEMMA CallbackKeeps == IrqInv /\ irqCallback => IrqInv'
<1> SUFFICES ASSUME IrqInv, irqCallback PROVE IrqInv'
  OBVIOUS
<1> DEFINE a == [cpu EXCEPT !.q1 = {}]
           c == [a EXCEPT !.at = "retirq"]
<1>1. cpu \in CpuType /\ gIRQ \in [Irqs -> Nat]
  BY DEF IrqInv, IrqType
<1>2. /\ cpu.at = "handler" /\ gIRQ' = [x \in Irqs |-> gIRQ[x] + IrqBit(x \in cpu.q1)]
      /\ \E d \in InstrClocks : Handling([cpu EXCEPT !.q1 = {}, !.at = "retirq"], d)
  BY DEF irqCallback, IrqBit
<1>3. /\ cpu.mask = {} /\ cpu.timer = 0 /\ At >= 2 /\ cpu.pending = {} /\ ~cpu.delay
  BY <1>2 DEF IrqInv, Place, UnderWay
<1>4. PICK d \in InstrClocks : Handling(c, d)
  <2>1. c = [cpu EXCEPT !.q1 = {}, !.at = "retirq"]
    OBVIOUS
  <2> HIDE DEF c
  <2> QED
    BY <1>2, <2>1
<1>5. d \in Nat
  BY IrqAssumption
<1>6. /\ a \in CpuType /\ a.delay = cpu.delay /\ a.mask = cpu.mask /\ a.timer = cpu.timer
      /\ a.q1 = {} /\ a.pending = cpu.pending
  BY <1>1 DEF CpuType
<1> HIDE DEF a
<1>7. /\ c \in CpuType /\ c.delay = cpu.delay /\ c.mask = cpu.mask /\ c.timer = cpu.timer
      /\ c.q1 = {} /\ c.pending = cpu.pending /\ c.at = "retirq"
  BY <1>6 DEF CpuType
<1> HIDE DEF c
<1>8. gIRQ' \in [Irqs -> Nat]
  BY <1>1, <1>2 DEF IrqBit
<1>9. /\ ~cpu'.delay /\ cpu'.mask = {} /\ cpu'.timer = 0
      /\ cpu'.pending = {} /\ cpu'.q1 = {} /\ cpu'.at = "retirq"
      /\ raised' = raised /\ At' = At /\ irqPc' = irqPc /\ UNCHANGED <<irqBoard, left>>
      /\ IrqType'
  <2>1. /\ cpu'.delay = c.delay /\ cpu'.mask = c.mask /\ cpu'.timer = 0
        /\ cpu'.pending = c.pending /\ cpu'.q1 = c.q1 /\ cpu'.at = c.at
        /\ raised' = raised /\ At' = At /\ irqPc' = irqPc /\ UNCHANGED <<irqBoard, left>>
        /\ gIRQ' \in [Irqs -> Nat] => IrqType'
    BY <1>3, <1>4, <1>5, <1>7, HandlerTick
  <2> QED
    BY <1>3, <1>7, <1>8, <2>1
<1>10. UnderWay'
  BY <1>9 DEF UnderWay, One
<1>11. Place'
  BY <1>2, <1>3, <1>9 DEF IrqInv, Place, Nothing
<1>12. Times'
  BY <1>2, <1>3, <1>9, AtIs DEF IrqInv, Times, Prints, Timed, Nothing
<1>13. Account'
  <2>1. \A x \in Irqs : gIRQ[x] \in Nat /\ ~(At <= 0)
    BY <1>1, <1>3, AtIs DEF IrqInv
  <2>2. \A x \in Irqs : raised[x] = gIRQ[x] + IrqBit(x \in {}) + IrqBit(x \in cpu.q1)
    BY <1>3, <2>1 DEF IrqInv, Account
  <2>3. \A x \in Irqs : raised[x] = gIRQ'[x] + IrqBit(x \in {}) + IrqBit(x \in {})
    BY <1>2, <2>1, <2>2 DEF IrqBit
  <2> QED
    BY <1>9, <2>1, <2>3 DEF Account
<1> QED
  BY <1>9, <1>10, <1>11, <1>12, <1>13 DEF IrqInv

(* The handler is left with nothing under way.                              *)
LEMMA RetirqKeeps == IrqInv /\ retirq => IrqInv'
<1> SUFFICES ASSUME IrqInv, retirq PROVE IrqInv'
  OBVIOUS
<1> DEFINE a == [cpu EXCEPT !.active = FALSE]
           b == [a EXCEPT !.delay = TRUE]
           c == [b EXCEPT !.at = "main"]
<1>1. cpu \in CpuType /\ gIRQ \in [Irqs -> Nat]
  BY DEF IrqInv, IrqType
<1>2. /\ cpu.at = "retirq" /\ UNCHANGED gIRQ
      /\ \E d \in InstrClocks :
           Handling([cpu EXCEPT !.active = FALSE, !.delay = TRUE, !.at = "main"], d)
  BY DEF retirq
<1>3. cpu.mask = {} /\ cpu.timer = 0 /\ At >= 2 /\ cpu.pending = {} /\ cpu.q1 = {}
  BY <1>2 DEF IrqInv, Place, Nothing
<1>4. PICK d \in InstrClocks : Handling(c, d)
  <2>1. c = [cpu EXCEPT !.active = FALSE, !.delay = TRUE, !.at = "main"]
    OBVIOUS
  <2> HIDE DEF c
  <2> QED
    BY <1>2, <2>1
<1>5. d \in Nat
  BY IrqAssumption
<1>6. /\ a \in CpuType /\ a.mask = cpu.mask /\ a.timer = cpu.timer
      /\ a.q1 = cpu.q1 /\ a.pending = cpu.pending
  BY <1>1 DEF CpuType
<1> HIDE DEF a
<1>7. /\ b \in CpuType /\ b.mask = cpu.mask /\ b.timer = cpu.timer
      /\ b.q1 = cpu.q1 /\ b.pending = cpu.pending
  BY <1>6 DEF CpuType
<1> HIDE DEF b
<1>8. /\ c \in CpuType /\ c.mask = cpu.mask /\ c.timer = cpu.timer
      /\ c.q1 = cpu.q1 /\ c.pending = cpu.pending /\ c.at = "main"
  BY <1>7 DEF CpuType
<1> HIDE DEF c
<1>9. /\ cpu'.mask = {} /\ cpu'.timer = 0
      /\ cpu'.pending = {} /\ cpu'.q1 = {} /\ cpu'.at = "main"
      /\ raised' = raised /\ At' = At /\ irqPc' = irqPc /\ UNCHANGED <<irqBoard, left>>
      /\ IrqType'
  <2>1. /\ cpu'.mask = c.mask /\ cpu'.timer = 0
        /\ cpu'.pending = c.pending /\ cpu'.q1 = c.q1 /\ cpu'.at = c.at
        /\ raised' = raised /\ At' = At /\ irqPc' = irqPc /\ UNCHANGED <<irqBoard, left>>
        /\ gIRQ' \in [Irqs -> Nat] => IrqType'
    BY <1>3, <1>4, <1>5, <1>8, HandlerTick
  <2> QED
    BY <1>1, <1>2, <1>3, <1>8, <2>1
<1>10. UnderWay'
  BY <1>9 DEF UnderWay, One
<1>11. Place'
  BY <1>3, <1>9 DEF IrqInv, Place, Nothing
<1>12. Times'
  BY <1>2, <1>3, <1>9, AtIs DEF IrqInv, Times, Prints, Timed, Nothing
<1>13. Account'
  BY <1>2, <1>3, <1>9 DEF IrqInv, Account
<1> QED
  BY <1>9, <1>10, <1>11, <1>12, <1>13 DEF IrqInv

(* A start, the first or one more, has nothing to account for.              *)
Start ==
  /\ irqBoard \in {"9k", "25k"} /\ irqPc = 1 /\ left = PrintClocks /\ cpu = ResetCpu
  /\ gIRQ \in [Irqs -> Nat] /\ raised = NoIrqs

LEMMA Starts == Start => IrqInv
<1> SUFFICES ASSUME Start PROVE IrqInv
  OBVIOUS
<1>1. Len(Startup(irqBoard)) = IF irqBoard = "25k" THEN 2 ELSE 1
  BY StartupIs DEF Start
<1>2. At \in {-1, 0}
  BY <1>1 DEF At, Start
<1>3. cpu \in CpuType
  BY IrqAssumption DEF Start, ResetCpu, CpuType
<1>4. IrqType
  BY <1>1, <1>3, IrqAssumption DEF Start, IrqType, NoIrqs
<1>5. /\ cpu.at = "main" /\ ~cpu.delay /\ cpu.mask = Irqs /\ cpu.pending = {} /\ cpu.timer = 0
      /\ cpu.q1 = {}
  BY DEF Start, ResetCpu
<1>6. UnderWay /\ Place
  BY <1>5 DEF Start, UnderWay, One, Place
<1>7. Times
  BY <1>2, <1>5 DEF Start, Times, Prints, Timed, Nothing
<1>8. Account
  BY <1>2 DEF Start, Account, NoIrqs
<1> QED
  BY <1>4, <1>6, <1>7, <1>8 DEF IrqInv

(* Every step of the program, the CPU and the reset button.                 *)
LEMMA NextIrq == IrqInv /\ [IrqTestNext]_irqVars => IrqInv'
<1> SUFFICES ASSUME IrqInv, [IrqTestNext]_irqVars PROVE IrqInv'
  OBVIOUS
<1>1. CASE IrqTestStep
  BY <1>1, InitKeeps, ClearKeeps, SetTimerKeeps, DisableKeeps, EnableKeeps, EbreakKeeps, PrintKeeps,
     CheckKeeps, TakeKeeps, CaptureKeeps, CallbackKeeps, RetirqKeeps DEF IrqTestStep
<1>2. CASE ResetButton
  <2>1. Start'
    BY <1>2, Zenon DEF IrqInv, IrqType, ResetButton, Start
  <2>2. Start' => IrqInv'
    BY Starts, PTL
  <2> QED
    BY <2>1, <2>2
<1>3. CASE UNCHANGED irqVars
  BY <1>3 DEF irqVars, IrqInv, IrqType, UnderWay, Place, Times, Account, At, Nothing
<1> QED
  BY <1>1, <1>2, <1>3 DEF IrqTestNext

(* Each expiry of the timer and each ebreak is counted once, whatever the   *)
(* lengths of the timer, the texts and the instructions: the handler never  *)
(* finds two events of a kind where it sees one.                            *)
THEOREM CountedOnce == IrqTestSpec => []OncePerEvent
<1>1. IrqTestInit => IrqInv
  <2>1. IrqTestInit => Start
    BY DEF IrqTestInit, Start, NoIrqs, Irqs
  <2> QED
    BY <2>1, Starts
<1>2. IrqInv => OncePerEvent
  <2> SUFFICES ASSUME IrqInv, Started PROVE
        \A x \in Irqs : raised[x] = gIRQ[x] + (IF x \in cpu.pending THEN 1 ELSE 0)
                                            + (IF x \in cpu.q1 THEN 1 ELSE 0)
    BY DEF OncePerEvent
  <2>1. ~(At <= 0)
    BY AtIs, StartupIs DEF IrqInv, IrqType, Started, At
  <2> QED
    BY <2>1 DEF IrqInv, Account, IrqBit
<1> QED
  BY <1>1, <1>2, NextIrq, PTL DEF IrqTestSpec
==============================================================================
