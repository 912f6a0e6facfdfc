---------------------------- MODULE PicoBusProofs ----------------------------
(***************************************************************************)
(* Theorems about PicoBus for every depth and content of the boot SRAM,    *)
(* every set of programs, and every board.                                 *)
(***************************************************************************)
EXTENDS PicoBus, TLAPS

\* Multiplying by a positive number keeps the order.
LEMMA Scaling ==
    ASSUME NEW k \in Nat \ {0}, NEW a \in Nat, NEW b \in Nat
    PROVE  /\ k * a \in Nat
           /\ a <= b => k * a <= k * b
           /\ a < b  => k * a + k <= k * b
<1>1. \A d \in Nat : k * d \in Nat /\ k * (a + d) = k * a + k * d
      BY SMT
<1>2. a <= b => k * a <= k * b
      BY <1>1, b = a + (b - a), a <= b => b - a \in Nat, SMT
<1>3. ASSUME a < b PROVE k * a + k <= k * b
  <2>1. b - a - 1 \in Nat /\ b = a + (1 + (b - a - 1))
        BY <1>3, SMT
  <2>2. k * (1 + (b - a - 1)) = k + k * (b - a - 1)
        BY <2>1, SMT
  <2> QED BY <1>1, <2>1, <2>2, SMT
<1> QED BY <1>1, <1>2, <1>3

\* The second and third level compare whole addresses, but their bounds are of
\* the form xx000000 and xxFFFFFF, so the top byte decides, and PicoBus may speak
\* of pages.  (`size` stands for the 2^24 bytes of a page.)
LEMMA PagesSuffice ==
    ASSUME NEW size \in Nat \ {0}, NEW p \in 0..255, NEW rest \in 0..(size - 1),
           NEW first \in 0..255, NEW last \in 0..255
    PROVE  (/\ size * first <= size * p + rest
            /\ size * p + rest <= size * last + (size - 1))
           <=> Match(p, <<first, last>>)
<1>1. Match(p, <<first, last>>) <=> (first <= p /\ p <= last)
      BY DEF Match
<1>2. /\ size * p \in Nat /\ size * first \in Nat /\ size * last \in Nat
      /\ first <= p => size * first <= size * p
      /\ p < first => size * p + size <= size * first
      /\ p <= last => size * p <= size * last
      /\ last < p => size * last + size <= size * p
      BY Scaling
<1> DEFINE P == size * p  F == size * first  L == size * last
<1> HIDE DEF P, F, L
<1>3. (F <= P + rest /\ P + rest <= L + (size - 1)) <=> (first <= p /\ p <= last)
  <2>1. /\ P \in Nat /\ F \in Nat /\ L \in Nat
        /\ first <= p => F <= P
        /\ p < first => P + size <= F
        /\ p <= last => P <= L
        /\ last < p => L + size <= P
        BY <1>2 DEF P, F, L
  <2> QED BY <2>1, SMT
<1> QED BY <1>1, <1>3 DEF P, F, L

\* The first multiplexer and the levels below, one slot at a time.
LEMMA Level2 ==
    ASSUME NEW p \in 128..191
    PROVE  /\ p \in In2(1) <=> p \in 128..131
           /\ p \in In2(2) <=> p \in 132..135
           /\ p \in In2(3) <=> p \in 136..139
           /\ p \in In2(4) <=> p \in 140..143
BY DEF In2, Sel, Match, Picop

LEMMA Level3 ==
    ASSUME NEW p \in 128..191
    PROVE  /\ Sel(p, Picop0, 1) <=> p = 128
           /\ Sel(p, Picop0, 2) <=> p = 129
           /\ Sel(p, Picop0, 3) <=> p = 130
           /\ Sel(p, Picop0, 4) <=> p = 131
           /\ Sel(p, Picop1, 1) <=> p = 132
BY DEF Sel, Match, Picop0, Picop1

\* The address map: each device of the drivers' headers and the linker scripts is
\* selected in its own pages and in no other, so no two ever see one request.
THEOREM AddressMap ==
    ASSUME NEW p \in 0..255
    PROVE  /\ Selected("xip", p)   <=> p \in 0..63
           /\ Selected("psram", p) <=> p \in 64..127
           /\ Selected("boot", p)  <=> p = 128
           /\ Selected("cfg", p)   <=> p = 129
           /\ Selected("gpio", p)  <=> p = 130
           /\ Selected("uart", p)  <=> p = 131
           /\ Selected("lcd", p)   <=> p = 132
           /\ Selected("wb", p)    <=> p \in 192..255
<1>1. \A k \in 1..4 : In2(k) \subseteq 128..191
      BY DEF In2
<1>2. Selected("xip", p) <=> p \in 0..63
  <2>1. PagesOf["xip"] = {q \in 0..255 : Quarter(q) = 0}
        BY DEF PagesOf, Slaves, FarSlaves
  <2> QED BY <2>1 DEF Selected, Quarter
<1>3. Selected("psram", p) <=> p \in 64..127
  <2>1. PagesOf["psram"] = {q \in 0..255 : Quarter(q) = 1}
        BY DEF PagesOf, Slaves, FarSlaves
  <2> QED BY <2>1 DEF Selected, Quarter
<1>4. Selected("wb", p) <=> p \in 192..255
  <2>1. PagesOf["wb"] = {q \in 0..255 : Quarter(q) = 3}
        BY DEF PagesOf, Slaves
  <2> QED BY <2>1 DEF Selected, Quarter
<1>5. Selected("boot", p) <=> p = 128
  <2>1. PagesOf["boot"] = {q \in In2(1) : Sel(q, Picop0, 1)}
        BY DEF PagesOf, Slaves
  <2> QED BY <1>1, <2>1, Level2, Level3 DEF Selected
<1>6. Selected("cfg", p) <=> p = 129
  <2>1. PagesOf["cfg"] = {q \in In2(1) : Sel(q, Picop0, 2)}
        BY DEF PagesOf, Slaves, FarSlaves
  <2> QED BY <1>1, <2>1, Level2, Level3 DEF Selected
<1>7. Selected("gpio", p) <=> p = 130
  <2>1. PagesOf["gpio"] = {q \in In2(1) : Sel(q, Picop0, 3)}
        BY DEF PagesOf, Slaves
  <2> QED BY <1>1, <2>1, Level2, Level3 DEF Selected
<1>8. Selected("uart", p) <=> p = 131
  <2>1. PagesOf["uart"] = {q \in In2(1) : Sel(q, Picop0, 4)}
        BY DEF PagesOf, Slaves, FarSlaves
  <2> QED BY <1>1, <2>1, Level2, Level3 DEF Selected
<1>9. Selected("lcd", p) <=> p = 132
  <2>1. PagesOf["lcd"] = {q \in In2(2) : Sel(q, Picop1, 1)}
        BY DEF PagesOf, Slaves, FarSlaves
  <2> QED BY <1>1, <2>1, Level2, Level3 DEF Selected
<1> QED BY <1>2, <1>3, <1>4, <1>5, <1>6, <1>7, <1>8, <1>9

\* What that means for the two slaves of this module.
LEMMA Routes ==
    ASSUME NEW p \in 0..255
    PROVE  /\ Selected("boot", p) <=> p = 128
           /\ Selected("gpio", p) <=> p = 130
           /\ Selected("wb", p) => p >= 192
           /\ \A s \in FarSlaves : Selected(s, p) => p \notin {128, 130}
           /\ p \in Empty => p \notin {128, 130}
<1>1. \A s \in FarSlaves : Selected(s, p) => p \notin {128, 130}
      BY AddressMap DEF FarSlaves
<1>2. p \in Empty => p \notin {128, 130}
  <2>1. \A k \in 1..4 : In2(k) \subseteq 128..191
        BY DEF In2
  <2> QED BY <2>1, Level2 DEF Empty
<1> QED BY <1>1, <1>2, AddressMap

-----------------------------------------------------------------------------
USE BusAssumption

LEMMA WordFacts ==
    /\ Zero \in Word /\ DeadBeef \in Word
    /\ \A old \in Word, new \in Word, strb \in SUBSET Lanes :
          Merge(old, new, strb) \in Word
BY DEF Zero, DeadBeef, Word, Byte, Merge, Lanes

LEMMA IndexRange == \A n \in Nat : n % Depth \in Words
BY DEF Words

LEMMA IndexFacts ==
    ASSUME TypeOK
    PROVE  ad \in Words /\ sram[ad] \in Word
BY IndexRange DEF TypeOK, ad

LEMMA StoredType ==
    ASSUME TypeOK, NEW reg \in Word
    PROVE  Stored(reg) \in Word
<1>1. Merge(reg, mem_wdata, mem_wstrb) \in Word
      BY WordFacts DEF TypeOK
<1>2. \A w \in Word, x \in BOOLEAN : [w EXCEPT ![3][0] = x] \in Word
      BY DEF Word, Byte, Lanes
<1>3. mem_wdata[3][0] \in BOOLEAN
      BY DEF TypeOK, Word, Byte, Lanes
<1> QED BY <1>1, <1>2, <1>3 DEF Stored

LEMMA IoType ==
    ASSUME TypeOK
    PROVE  io \in Word
<1>1. /\ pins_in \in Word /\ out_r \in Word
      BY DEF TypeOK
<1>2. \A l \in Lanes, b \in Bits : out_r[l][b] \in BOOLEAN /\ pins_in[l][b] \in BOOLEAN
      BY <1>1 DEF Word, Byte
<1> QED BY <1>2 DEF io, Word, Byte

LEMMA InitType == Init => TypeOK
<1> SUFFICES ASSUME Init PROVE TypeOK
    OBVIOUS
<1>1. told \in [out : Word, oe : Word]
      BY WordFacts DEF Init
<1>2. /\ mem_wdata \in Word /\ mem_wstrb \in SUBSET Lanes /\ dout \in Word
      /\ out_r \in Word /\ oe_r \in Word /\ rdata_r \in Word
      /\ sram \in [Words -> Word]
      BY WordFacts DEF Init
<1> QED BY <1>1, <1>2 DEF Init, TypeOK

LEMMA StepType == TypeOK /\ [Next]_vars => TypeOK'
<1> SUFFICES ASSUME TypeOK, [Next]_vars PROVE TypeOK'
    OBVIOUS
<1>1. CASE UNCHANGED vars
      BY <1>1 DEF TypeOK, vars, cpu, boot, gpio
<1>2. CASE Next
  <2>1. CpuEdge => /\ mem_valid' \in BOOLEAN /\ mem_page' \in Pages
                   /\ mem_word' \in Offsets /\ mem_wdata' \in Word
                   /\ mem_wstrb' \in SUBSET Lanes
    <3>1. \A p : StoresTo(p) \subseteq Stores
          BY DEF StoresTo
    <3>2. \A s \in Stores : s.data \in Word /\ s.strb \in SUBSET Lanes
          BY DEF Lanes
    <3>3. CASE mem_valid' = FALSE /\ UNCHANGED <<mem_page, mem_word, mem_wdata, mem_wstrb>>
          BY <3>3 DEF TypeOK
    <3>4. CASE UNCHANGED cpu
          BY <3>4 DEF TypeOK, cpu
    <3>5. ASSUME mem_valid' = TRUE, mem_page' \in Pages, mem_word' \in Offsets,
                 \/ mem_wstrb' = {} /\ UNCHANGED mem_wdata
                 \/ \E s \in StoresTo(mem_page') :
                       mem_wdata' = s.data /\ mem_wstrb' = s.strb
          PROVE  /\ mem_valid' \in BOOLEAN /\ mem_page' \in Pages
                 /\ mem_word' \in Offsets /\ mem_wdata' \in Word
                 /\ mem_wstrb' \in SUBSET Lanes
          BY <3>1, <3>2, <3>5 DEF TypeOK
    <3> QED BY <3>3, <3>4, <3>5 DEF CpuEdge
  <2>2. BootEdge => /\ mem_ready_r' \in BOOLEAN /\ sram' \in [Words -> Word]
                    /\ dout' \in Word
    <3>1. /\ ad \in Words /\ sram[ad] \in Word
          /\ Merge(sram[ad], mem_wdata, mem_wstrb) \in Word
          /\ Merge(sram[ad], dout, mem_wstrb) \in Word
          BY IndexFacts, WordFacts DEF TypeOK
    <3> QED BY <3>1, WordFacts DEF BootEdge, TypeOK
  <2>3. GpioEdge => /\ ready_r' \in BOOLEAN /\ out_r' \in Word /\ oe_r' \in Word
                    /\ rdata_r' \in Word
    <3>1. Stored(out_r) \in Word /\ Stored(oe_r) \in Word /\ io \in Word
          BY StoredType, IoType DEF TypeOK
    <3> QED BY <3>1, WordFacts DEF GpioEdge, GpioReset, GpioIdle, GpioAccess, TypeOK
  <2>4. FarEdge => far_ready' \in SUBSET Far
        BY DEF FarEdge, Asked
  <2>5. Told => told' \in [out : Word, oe : Word]
    <3>1. told.out \in Word /\ told.oe \in Word
          BY DEF TypeOK
    <3>2. /\ Merge(told.out, mem_wdata, mem_wstrb) \in Word
          /\ Merge(told.oe, mem_wdata, mem_wstrb) \in Word
          BY <3>1, WordFacts DEF TypeOK
    <3> QED BY <3>1, <3>2, WordFacts DEF Told, TypeOK
  <2> QED BY <1>2, <2>1, <2>2, <2>3, <2>4, <2>5 DEF Next, TypeOK
<1> QED BY <1>1, <1>2

\* Every register keeps its type, whatever the board, the programs and the
\* outside world do.
THEOREM TypeCorrect == Spec => []TypeOK
BY InitType, StepType, PTL DEF Spec
-----------------------------------------------------------------------------
\* The SRAM answers only the request the CPU still holds, and a load with what
\* the word holds.
BootInv ==
    mem_ready_r => /\ mem_valid /\ mem_page = 128
                   /\ mem_wstrb = {} => dout = sram[ad]

\* What the CPU sees in the page of the boot ROM is the SRAM's answer.
LEMMA BootPort ==
    ASSUME TypeOK
    PROVE  /\ boot_valid <=> mem_valid /\ mem_page = 128
           /\ mem_page = 128 => (mem_ready <=> mem_ready_r) /\ mem_rdata = dout
           /\ mem_rdata \in Word
<1>1. mem_page \in 0..255
      BY DEF TypeOK
<1>2. \A s \in FarSlaves : mem_page = 128 => ~Selected(s, mem_page)
      BY <1>1, Routes
<1>3. mem_page = 128 => (mem_ready <=> mem_ready_r)
      BY <1>1, <1>2, Routes DEF mem_ready
<1> QED BY <1>1, <1>3, Routes, WordFacts DEF boot_valid, mem_rdata, TypeOK

LEMMA BootPortNext ==
    ASSUME TypeOK'
    PROVE  /\ mem_page' = 128 => (mem_ready' <=> mem_ready_r') /\ mem_rdata' = dout'
           /\ mem_rdata' \in Word
<1>1. mem_page' \in 0..255
      BY DEF TypeOK
<1>2. \A s \in FarSlaves : mem_page' = 128 => ~Selected(s, mem_page')
      BY <1>1, Routes
<1>3. mem_page' = 128 => (mem_ready' <=> mem_ready_r')
      BY <1>1, <1>2, Routes DEF mem_ready
<1> QED BY <1>1, <1>3, Routes, WordFacts DEF mem_rdata, TypeOK

LEMMA MergeNone ==
    /\ \A old, new \in Word : Merge(old, new, {}) = old
    /\ \A a, b : Boot!Merge(a, b, mem_wstrb) = Merge(a, b, mem_wstrb)
BY DEF Merge, Word, Boot!Merge

LEMMA BootInvStep == TypeOK /\ BootInv /\ [Next]_vars => BootInv'
<1> SUFFICES ASSUME TypeOK, BootInv, [Next]_vars PROVE BootInv'
    OBVIOUS
<1>1. CASE UNCHANGED vars
      BY <1>1 DEF BootInv, vars, cpu, boot, ad
<1>2. ASSUME Next, mem_ready_r' PROVE BootInv'
  <2>1. sys_resetn /\ ~mem_ready_r /\ mem_valid /\ mem_page = 128
        BY <1>2, BootPort DEF Next, BootEdge
  <2>2. ~mem_ready
        BY <2>1, BootPort
  <2>3. UNCHANGED cpu
        BY <1>2, <2>1, <2>2 DEF Next, CpuEdge
  <2>4. ASSUME mem_wstrb = {} PROVE dout' = sram'[ad]
    <3>1. ad \in Words /\ sram[ad] \in Word
          BY IndexFacts
    <3>2. dout' = sram[ad]
          BY <1>2, <2>1, <2>4, <3>1, BootPort, MergeNone DEF Next, BootEdge, TypeOK
    <3>3. sram' = [sram EXCEPT ![ad] = sram[ad]]
          BY <1>2, <2>1, <2>4, <3>1, BootPort, MergeNone DEF Next, BootEdge, TypeOK
    <3> QED BY <3>1, <3>2, <3>3 DEF TypeOK
  <2>5. ad' = ad
        BY <2>3 DEF cpu, ad
  <2> QED BY <2>1, <2>3, <2>4, <2>5 DEF BootInv, cpu
<1> QED BY <1>1, <1>2 DEF BootInv

\* A lane-wise merge into one word is a step of the abstract memory at that word.
LEMMA SramStep ==
    ASSUME TypeOK, BootEdge
    PROVE  /\ ~(boot_valid /\ ~mem_ready_r) => sram' = sram
           /\ boot_valid /\ ~mem_ready_r =>
                 sram' = [sram EXCEPT ![ad] = Merge(sram[ad], mem_wdata, mem_wstrb)]
           /\ \A a \in Words \ {ad} : sram'[a] = sram[a]
<1>1. ad \in Words /\ sram \in [Words -> Word]
      BY IndexFacts DEF TypeOK
<1> QED BY <1>1 DEF BootEdge

\* What the slave does to a word in the cells is done at once, not owed.
LEMMA LandsAtOnce ==
    ASSUME NEW goal, sram' \in [Words -> Word], sram' \in {sram, goal}
    PROVE  Boot!Landing(goal)
BY DEF Boot!Landing, Boot!Word, Word

LEMMA BootStep ==
    ASSUME TypeOK, TypeOK', BootInv, [Next]_vars
    PROVE  [Boot!Next]_(Boot!vars)
<1> DEFINE v == mem_valid /\ mem_page = 128
           r == mem_ready /\ mem_page = 128
<1>1. CASE UNCHANGED vars
  <2>1. UNCHANGED <<sys_resetn, cpu, boot, mem_ready, mem_rdata>>
        BY <1>1 DEF vars, cpu, boot, gpio, mem_ready, mem_rdata
  <2> QED BY <2>1 DEF Boot!vars, cpu, boot, ad
<1>2. CASE Next
  <2> USE <1>2
  <2>1. /\ ad \in Words /\ ad' \in Words /\ mem_wdata' \in Word /\ mem_rdata' \in Word
        /\ mem_wstrb' \in SUBSET Lanes /\ sram' \in [Words -> Word]
        /\ sram \in [Words -> Word] /\ sram[ad] \in Word /\ dout \in Word
    <3>1. ad \in Words /\ sram[ad] \in Word
          BY IndexFacts
    <3>2. mem_word' \in Nat
          BY DEF TypeOK
    <3>3. ad' \in Words
          BY <3>2, IndexRange DEF ad
    <3> QED BY <3>1, <3>3, BootPortNext DEF TypeOK
  <2>2. Word = [Lanes -> Byte]
        BY DEF Word
  <2>3. /\ r <=> mem_ready_r /\ mem_page = 128
        /\ r' <=> mem_ready_r' /\ mem_page' = 128
        /\ mem_ready_r => v
        BY BootPort, BootPortNext DEF BootInv
  <2>4. BootEdge /\ CpuEdge
        BY DEF Next
  <2>5. mem_ready_r' <=> sys_resetn /\ ~mem_ready_r /\ v
        BY <2>4, BootPort DEF BootEdge
  <2>10. sys_resetn' \in BOOLEAN
        BY DEF Next
  <2>6. CASE ~sys_resetn
    <3>1. mem_valid' = FALSE /\ UNCHANGED <<mem_page, mem_word, mem_wdata, mem_wstrb>>
          BY <2>4, <2>6 DEF CpuEdge
    <3>2. ~r'
          BY <2>3, <2>5, <2>6
    <3>3. ad' = ad
          BY <3>1 DEF ad
    <3>4. Boot!Landing(sram) \/ (Boot!CanWrite /\ Boot!Landing(Boot!Written))
      <4>1. CASE v /\ ~mem_ready_r /\ mem_wstrb # {}
        <5>1. sram' = Boot!Written
              BY <2>4, <4>1, BootPort, SramStep, MergeNone DEF Boot!Written
        <5>2. Boot!CanWrite
              BY <2>3, <4>1 DEF Boot!CanWrite
        <5> QED BY <2>1, <5>1, <5>2, LandsAtOnce
      <4>2. CASE ~(v /\ ~mem_ready_r) \/ mem_wstrb = {}
        <5>1. mem_wdata \in Word
              BY DEF TypeOK
        <5>2. Merge(sram[ad], mem_wdata, {}) = sram[ad]
              BY <2>1, <5>1, MergeNone
        <5>3. [sram EXCEPT ![ad] = sram[ad]] = sram
              BY <2>1
        <5>4. ~boot_valid \/ mem_ready_r => sram' = sram
              BY <2>4, SramStep
        <5>5. boot_valid /\ ~mem_ready_r => sram' = sram
          <6> SUFFICES ASSUME boot_valid, ~mem_ready_r PROVE sram' = sram
                OBVIOUS
          <6>1. mem_wstrb = {}
                BY <4>2, BootPort
          <6>2. sram' = [sram EXCEPT ![ad] = Merge(sram[ad], mem_wdata, mem_wstrb)]
                BY <2>4, SramStep
          <6> QED BY <5>2, <5>3, <6>1, <6>2
        <5> QED BY <2>1, <5>4, <5>5, LandsAtOnce
      <4> QED BY <4>1, <4>2
    <3>5. Boot!Reset
          BY <2>1, <2>2, <3>1, <3>2, <3>3, <3>4 DEF Boot!Reset, Boot!Word
    <3> QED BY <2>6, <2>10, <3>5 DEF Boot!Next
  <2> SUFFICES ASSUME sys_resetn PROVE Boot!Operation
        BY <2>10, <2>6 DEF Boot!Next
  <2>7. CASE sys_resetn /\ v /\ ~mem_ready_r
    <3>1. UNCHANGED cpu
          BY <2>3, <2>4, <2>7, BootPort DEF CpuEdge
    <3>2. v' /\ ~r /\ r' /\ ad' = ad /\ mem_wdata' = mem_wdata /\ mem_wstrb' = mem_wstrb
          BY <2>3, <2>5, <2>7, <3>1 DEF cpu, ad
    <3>3. sram' = [sram EXCEPT ![ad] = Merge(sram[ad], mem_wdata, mem_wstrb)]
          BY <2>4, <2>7, BootPort, SramStep
    <3>4. CASE mem_wstrb = {}
      <4>1. sram' = sram
            BY <2>1, <3>3, <3>4, MergeNone DEF TypeOK
      <4>2. mem_rdata' = sram[ad]
            BY <2>1, <2>4, <2>7, <3>1, <3>4, BootPort, BootPortNext, MergeNone
            DEF BootEdge, cpu
      <4>3. Boot!RespondRead
            BY <2>1, <2>7, <3>2, <3>4, <4>1, <4>2, LandsAtOnce DEF Boot!RespondRead, Boot!master
      <4> QED BY <4>3 DEF Boot!Operation
    <3>5. CASE mem_wstrb # {}
      <4>1. sram' = Boot!Written
            BY <3>3, MergeNone DEF Boot!Written
      <4>2. Boot!CanWrite /\ Boot!Landing(Boot!Written)
            BY <2>1, <2>7, <3>2, <3>5, <4>1, LandsAtOnce DEF Boot!CanWrite
      <4>3. Boot!RespondWrite
            BY <2>1, <2>2, <3>2, <4>1, <4>2
            DEF Boot!RespondWrite, Boot!CanWrite, Boot!master, Boot!Word
      <4> QED BY <4>3 DEF Boot!Operation
    <3> QED BY <3>4, <3>5
  <2>8. CASE sys_resetn /\ mem_ready_r
    <3>1. v /\ r /\ ~r' /\ sram' = sram
          BY <2>3, <2>4, <2>5, <2>8, SramStep
    <3>2. mem_valid' = FALSE /\ UNCHANGED <<mem_page, mem_word, mem_wdata, mem_wstrb>>
          BY <2>4, <2>8, <3>1 DEF CpuEdge
    <3>3. ad' = ad
          BY <3>2 DEF ad
    <3>4. Boot!Accept
          BY <2>1, <2>2, <3>1, <3>2, <3>3, LandsAtOnce DEF Boot!Accept, Boot!Word
    <3> QED BY <3>4 DEF Boot!Operation
  <2>9. CASE sys_resetn /\ ~v
    <3>1. ~mem_ready_r /\ ~r /\ ~r' /\ sram' = sram
          BY <2>3, <2>4, <2>5, <2>9, BootPort, SramStep
    <3>2. CASE ~v'
      <4>1. Boot!Elsewhere
            BY <2>1, <2>2, <2>9, <3>1, <3>2, LandsAtOnce DEF Boot!Elsewhere, Boot!Word
      <4> QED BY <4>1 DEF Boot!Operation
    <3>3. CASE v'
      <4>1. Boot!Request
            BY <2>1, <2>2, <2>9, <3>1, <3>3, LandsAtOnce DEF Boot!Request, Boot!Word
      <4> QED BY <4>1 DEF Boot!Operation
    <3> QED BY <3>2, <3>3
  <2> QED BY <2>3, <2>7, <2>8, <2>9
<1> QED BY <1>1, <1>2

LEMMA BootInit == Init => BootInv /\ Boot!Init
<1> SUFFICES ASSUME Init PROVE BootInv /\ Boot!Init
    OBVIOUS
<1>1. TypeOK
      BY InitType
<1>2. /\ ad \in Words /\ mem_wdata \in Word /\ mem_wstrb \in SUBSET Lanes
      /\ sram \in [Words -> Word] /\ mem_rdata \in Word
      BY <1>1, IndexFacts, BootPort DEF TypeOK
<1>3. ~(mem_ready /\ mem_page = 128) /\ ~mem_valid /\ ~mem_ready_r /\ sys_resetn = FALSE
      BY <1>1, BootPort DEF Init
<1> QED BY <1>2, <1>3 DEF Boot!Init, Boot!Word, BootInv, Word

\* The boot SRAM as the CPU sees it through the multiplexers is a memory: every
\* request answered once, loads return what the stores left, byte by byte; no cell
\* changes but in the clock a store is answered, or in a reset the bytes of the
\* store it interrupts; for every size and content.
THEOREM BootImplements == Spec => BootIsMemory
<1> DEFINE IInv == TypeOK /\ BootInv
<1>1. Init => IInv /\ Boot!Init
      BY InitType, BootInit
<1>2. IInv /\ [Next]_vars => IInv'
      BY StepType, BootInvStep
<1>3. IInv /\ IInv' /\ [Next]_vars => [Boot!Next]_(Boot!vars)
      BY BootStep
<1> QED BY <1>1, <1>2, <1>3, PTL DEF Spec, BootIsMemory, Boot!Spec
-----------------------------------------------------------------------------
\* Registers and the program's account agree, except in the clock in which a
\* store has been taken and the CPU has yet to see it.
GpioInv ==
    /\ mem_valid /\ mem_page = 130 => mem_wstrb \in {{}, Lanes}
    /\ ready_r => mem_valid /\ mem_page = 130
    /\ ~ready_r => told = [out |-> out_r, oe |-> oe_r]
    /\ ready_r =>
          /\ out_r = IF mem_word % 4 = 0
                     THEN Merge(told.out, mem_wdata, mem_wstrb) ELSE told.out
          /\ oe_r = IF mem_word % 4 = 2
                    THEN Merge(told.oe, mem_wdata, mem_wstrb) ELSE told.oe
    /\ ready_r /\ mem_wstrb = {} =>
          /\ mem_word % 4 = 0 => rdata_r = told.out
          /\ mem_word % 4 = 2 => rdata_r = told.oe
          /\ mem_word % 4 = 1 =>
                \A l \in Lanes, b \in Bits : told.oe[l][b] => rdata_r[l][b] = told.out[l][b]

LEMMA GpioPort ==
    ASSUME TypeOK
    PROVE  /\ gpio_valid <=> mem_valid /\ mem_page = 130
           /\ mem_page = 130 => (mem_ready <=> ready_r) /\ mem_rdata = rdata_r
<1>1. mem_page \in 0..255
      BY DEF TypeOK
<1>2. \A s \in FarSlaves : mem_page = 130 => ~Selected(s, mem_page)
      BY <1>1, Routes
<1>3. mem_page = 130 => (mem_ready <=> ready_r)
      BY <1>1, <1>2, Routes DEF mem_ready
<1> QED BY <1>1, <1>3, Routes DEF gpio_valid, mem_rdata

\* A word store writes bit 24 twice, with the same value.
LEMMA WordStores ==
    ASSUME TypeOK, mem_wstrb \in {{}, Lanes}, NEW reg \in Word
    PROVE  Stored(reg) = Merge(reg, mem_wdata, mem_wstrb)
<1>1. CASE mem_wstrb = {}
      BY <1>1 DEF Stored
<1>2. CASE mem_wstrb = Lanes
  <2>1. mem_wdata \in [Lanes -> [Bits -> BOOLEAN]]
        BY DEF TypeOK, Word, Byte
  <2>2. Merge(reg, mem_wdata, mem_wstrb) = mem_wdata
        BY <1>2, <2>1 DEF Merge
  <2>3. [mem_wdata EXCEPT ![3][0] = mem_wdata[3][0]] = mem_wdata
        BY <2>1 DEF Lanes
  <2> QED BY <1>2, <2>2, <2>3 DEF Stored, Lanes
<1> QED BY <1>1, <1>2

LEMMA GpioInvStep == TypeOK /\ GpioInv /\ [Next]_vars => GpioInv'
<1> SUFFICES ASSUME TypeOK, GpioInv, [Next]_vars PROVE GpioInv'
    OBVIOUS
<1> DEFINE v == mem_valid /\ mem_page = 130
<1>1. CASE UNCHANGED vars
      BY <1>1 DEF GpioInv, vars, cpu, gpio
<1>2. CASE Next
  <2>1. CpuEdge /\ GpioEdge /\ Told
        BY <1>2 DEF Next
  <2>2. v /\ ~ready_r => ~mem_ready
        BY GpioPort
  <2>3. v' => mem_wstrb' \in {{}, Lanes}
    <3>1. CASE UNCHANGED cpu
          BY <3>1 DEF GpioInv, cpu
    <3>2. ASSUME mem_page' = 130,
                 \/ mem_wstrb' = {} /\ UNCHANGED mem_wdata
                 \/ \E s \in StoresTo(mem_page') :
                       mem_wdata' = s.data /\ mem_wstrb' = s.strb
          PROVE  mem_wstrb' \in {{}, Lanes}
          BY <3>2 DEF StoresTo
    <3> QED BY <2>1, <3>1, <3>2 DEF CpuEdge
  <2>4. CASE ~sys_resetn
    <3>1. ready_r' = FALSE /\ out_r' = Zero /\ oe_r' = Zero
          BY <2>1, <2>4 DEF GpioEdge, GpioReset, GpioIdle, GpioAccess
    <3>2. told' = [out |-> Zero, oe |-> Zero]
          BY <2>1, <2>4 DEF Told
    <3> QED BY <2>3, <3>1, <3>2 DEF GpioInv
  <2>5. CASE sys_resetn /\ ready_r
    <3>1. v /\ mem_ready
          BY <2>5, GpioPort DEF GpioInv
    <3>2. ready_r' = FALSE /\ UNCHANGED <<out_r, oe_r>>
          BY <2>1, <2>5 DEF GpioEdge, GpioReset, GpioIdle, GpioAccess
    <3>3. told' = [out |-> out_r, oe |-> oe_r]
          BY <2>1, <2>5, <3>1 DEF Told, GpioInv
    <3> QED BY <2>3, <3>2, <3>3 DEF GpioInv
  <2>6. CASE sys_resetn /\ ~ready_r /\ ~v
    <3>1. ready_r' = FALSE /\ UNCHANGED <<out_r, oe_r>>
          BY <2>1, <2>6, GpioPort DEF GpioEdge, GpioReset, GpioIdle, GpioAccess
    <3>2. told' = told
          BY <2>1, <2>6 DEF Told
    <3> QED BY <2>3, <2>6, <3>1, <3>2 DEF GpioInv
  <2>7. CASE sys_resetn /\ ~ready_r /\ v
    <3>1. UNCHANGED cpu
          BY <2>1, <2>2, <2>7 DEF CpuEdge
    <3>2. told' = told /\ told = [out |-> out_r, oe |-> oe_r]
          BY <2>1, <2>2, <2>7 DEF Told, GpioInv
    <3>3. GpioAccess
          BY <2>1, <2>7, GpioPort DEF GpioEdge, GpioReset, GpioIdle
    <3>4. /\ Stored(out_r) = Merge(out_r, mem_wdata, mem_wstrb)
          /\ Stored(oe_r) = Merge(oe_r, mem_wdata, mem_wstrb)
          BY <2>7, WordStores DEF GpioInv, TypeOK
    <3>5. /\ out_r' = IF mem_word' % 4 = 0
                      THEN Merge(told'.out, mem_wdata', mem_wstrb') ELSE told'.out
          /\ oe_r' = IF mem_word' % 4 = 2
                     THEN Merge(told'.oe, mem_wdata', mem_wstrb') ELSE told'.oe
          BY <3>1, <3>2, <3>3, <3>4 DEF GpioAccess, cpu
    <3>6. /\ mem_word' % 4 = 0 => rdata_r' = told'.out
          /\ mem_word' % 4 = 2 => rdata_r' = told'.oe
          /\ mem_word' % 4 = 1 => rdata_r' = io
          BY <3>1, <3>2, <3>3 DEF GpioAccess, cpu
    <3>7. \A l \in Lanes, b \in Bits : told'.oe[l][b] => io[l][b] = told'.out[l][b]
          BY <3>2 DEF io
    <3>8. ready_r' = TRUE /\ v'
          BY <2>7, <3>1, <3>3 DEF GpioAccess, cpu
    <3> QED BY <2>3, <3>5, <3>6, <3>7, <3>8 DEF GpioInv
  <2> QED BY <2>4, <2>5, <2>6, <2>7
<1> QED BY <1>1, <1>2

LEMMA GpioInvEnough == TypeOK /\ GpioInv => GpioObeys
<1> SUFFICES ASSUME TypeOK, GpioInv PROVE GpioObeys
    OBVIOUS
<1>1. ~(mem_valid /\ mem_page = 130) => told = [out |-> out_r, oe |-> oe_r]
      BY DEF GpioInv
<1>2. mem_word % 4 = 0 \/ mem_word % 4 = 1 \/ mem_word % 4 = 2 \/ mem_word % 4 = 3
      BY DEF TypeOK
<1>3. ASSUME mem_valid, mem_page = 130, mem_ready, mem_wstrb = {}
      PROVE  /\ ready_r /\ mem_rdata = rdata_r
             /\ mem_word % 4 = 0 => rdata_r = told.out
             /\ mem_word % 4 = 2 => rdata_r = told.oe
             /\ mem_word % 4 = 1 => \A l \in Lanes, b \in Bits :
                   told.oe[l][b] => rdata_r[l][b] = told.out[l][b]
      BY <1>3, GpioPort DEF GpioInv
<1> QED BY <1>1, <1>2, <1>3 DEF GpioObeys

\* The pins follow the program's stores, and loads read them back, for every set
\* of programs that store words to the GPIO, whatever they do elsewhere.
THEOREM GpioCorrect == Spec => []GpioObeys
<1>1. Init => TypeOK /\ GpioInv
      BY InitType DEF Init, GpioInv
<1>2. TypeOK /\ GpioInv /\ [Next]_vars => (TypeOK /\ GpioInv)'
      BY StepType, GpioInvStep
<1> QED BY <1>1, <1>2, GpioInvEnough, PTL DEF Spec
=============================================================================
