------------------------------ MODULE PicoBus -------------------------------
(***************************************************************************)
(* The PicoMem bus of picotiny.v: the CPU's memory port, the tree of       *)
(* multiplexers of picoperipheral.v, and the two slaves that have no       *)
(* module of their own, the boot SRAM (picomemory.v) and the GPIO block.   *)
(* The other slaves (flash, PSRAM, UART, LCD) answer when they like.       *)
(*                                                                         *)
(* An address is a pair: its top byte (`mem_page`; every bound of the tree *)
(* lies between two of them, see PicoBusProofs) and its word (`mem_word`). *)
(* The bytes of a word keep the bits `Bits`.                               *)
(***************************************************************************)
EXTENDS Naturals

CONSTANTS
    Bits,      \* the bits kept of a byte, the lowest one, 0, among them
    Depth,     \* words of the boot SRAM
    Offsets,   \* words the programs touch in a page
    Pages,     \* pages the programs touch
    Stores,    \* what stores put on the bus: [data, strb]
    Inputs,    \* words the outside world drives on the pins
    Image,     \* what the bitstream loads into the boot SRAM
    Far,       \* slaves of the board other than the SRAM and the GPIO block
    Unused     \* the ready of a slot that nothing is connected to

Lanes == 0..3
Byte  == [Bits -> BOOLEAN]
Word  == [Lanes -> Byte]
Words == 0..(Depth - 1)

FarSlaves == {"xip", "psram", "cfg", "uart", "lcd"}
Slaves    == FarSlaves \cup {"boot", "gpio", "wb"}

ASSUME BusAssumption ==
    /\ 0 \in Bits
    /\ Depth \in Nat \ {0}
    /\ Offsets \subseteq Nat /\ Pages \subseteq 0..255
    /\ Stores \subseteq [data : Word, strb : (SUBSET Lanes) \ {{}}]
    /\ Inputs \subseteq Word /\ Inputs # {}
    /\ Image \in [Words -> Word]
    /\ Far \subseteq FarSlaves
    /\ Unused \in BOOLEAN

VARIABLES
    sys_resetn,
    mem_valid, mem_page, mem_word, mem_wdata, mem_wstrb,   \* picorv32
    mem_ready_r, sram, dout,                               \* boot SRAM
    ready_r, out_r, oe_r, rdata_r,                         \* GPIO
    pins_in,                     \* what the outside drives on the pins
    far_ready,                   \* the other slaves whose ready is up
    told                         \* history: what the program told the GPIO

cpu  == <<mem_valid, mem_page, mem_word, mem_wdata, mem_wstrb>>
boot == <<mem_ready_r, sram, dout>>
gpio == <<ready_r, out_r, oe_r, rdata_r>>
vars == <<sys_resetn, cpu, boot, gpio, pins_in, far_ready, told>>
-----------------------------------------------------------------------------
\* The multiplexers.  A tree of three levels; the bounds of the slots of each
\* in pages, in the order of their priority.
Picop  == <<<<128, 131>>, <<132, 135>>, <<136, 139>>, <<140, 143>>>>
Picop0 == <<<<128, 128>>, <<129, 129>>, <<130, 130>>, <<131, 131>>>>
Picop1 == <<<<132, 132>>, <<133, 133>>, <<134, 134>>, <<135, 135>>>>

\* Slip: the last page of a slot belongs to the next one.
Match_Short(p, bounds) == bounds[1] <= p /\ p < bounds[2]

Match(p, bounds) == bounds[1] <= p /\ p <= bounds[2]

Sel(p, mux, k) == Match(p, mux[k]) /\ \A j \in 1..(k - 1) : ~Match(p, mux[j])

\* The first multiplexer compares the top two bits of the address.
Quarter(p) == p \div 64

In2(k) == {p \in 128..191 : Sel(p, Picop, k)}

\* The pages in which slave s sees the CPU's `valid`.
PagesOf == [s \in Slaves |->
    CASE s = "xip"   -> {p \in 0..255 : Quarter(p) = 0}
      [] s = "psram" -> {p \in 0..255 : Quarter(p) = 1}
      [] s = "wb"    -> {p \in 0..255 : Quarter(p) = 3}
      [] s = "boot"  -> {p \in In2(1) : Sel(p, Picop0, 1)}
      [] s = "cfg"   -> {p \in In2(1) : Sel(p, Picop0, 2)}
      [] s = "gpio"  -> {p \in In2(1) : Sel(p, Picop0, 3)}
      [] s = "uart"  -> {p \in In2(1) : Sel(p, Picop0, 4)}
      [] s = "lcd"   -> {p \in In2(2) : Sel(p, Picop1, 1)}]

Selected(s, p) == p \in PagesOf[s]

\* Slots of the second and third level that no slave is connected to.
Empty ==
    In2(3) \cup In2(4) \cup {p \in In2(2) : \E k \in 2..4 : Sel(p, Picop1, k)}

\* picom_ready; what no slot matches is never answered.
mem_ready ==
    \/ Selected("boot", mem_page) /\ mem_ready_r
    \/ Selected("gpio", mem_page) /\ ready_r
    \/ Selected("wb", mem_page)
    \/ \E s \in Far : Selected(s, mem_page) /\ s \in far_ready
    \/ \E s \in FarSlaves \ Far : Selected(s, mem_page) /\ Unused
    \/ mem_page \in Empty /\ Unused

Zero == [l \in Lanes |-> [b \in Bits |-> FALSE]]

\* picom_rdata, as far as it comes from the two slaves of this module.
mem_rdata ==
    IF Selected("boot", mem_page) THEN dout
    ELSE IF Selected("gpio", mem_page) THEN rdata_r ELSE Zero
-----------------------------------------------------------------------------
boot_valid == mem_valid /\ Selected("boot", mem_page)
gpio_valid == mem_valid /\ Selected("gpio", mem_page)

\* mem_la_wdata and the word accesses of the drivers: the GPIO registers are
\* declared uint32_t in every program and stored to as words.
StoresTo(p) == IF p = 130 THEN {s \in Stores : s.strb = Lanes} ELSE Stores

CpuEdge ==
    \/ /\ ~sys_resetn \/ (mem_valid /\ mem_ready)
       /\ mem_valid' = FALSE
       /\ UNCHANGED <<mem_page, mem_word, mem_wdata, mem_wstrb>>
    \/ /\ sys_resetn /\ ~(mem_valid /\ mem_ready)
       /\ UNCHANGED cpu
    \/ /\ sys_resetn /\ ~mem_valid
       /\ mem_valid' = TRUE
       /\ mem_page' \in Pages /\ mem_word' \in Offsets
       /\ \/ mem_wstrb' = {} /\ UNCHANGED mem_wdata
          \/ \E s \in StoresTo(mem_page') :
                mem_wdata' = s.data /\ mem_wstrb' = s.strb

Merge(old, new, strb) == [l \in Lanes |-> IF l \in strb THEN new[l] ELSE old[l]]

\* ad(mem_s_addr[12:2]): the SRAM repeats through its page.
ad == mem_word % Depth

\* Slip: the strobes enable the RAM's write without the chip enable, and it takes
\* the stores to other slaves as well.
BootEdge_Strobes ==
    LET ce == boot_valid /\ ~mem_ready_r
    IN  /\ sram' = [sram EXCEPT ![ad] = Merge(@, mem_wdata, mem_wstrb)]
        /\ dout' = IF ~sys_resetn THEN Zero
                   ELSE IF ce THEN Merge(sram[ad], dout, mem_wstrb) ELSE dout
        /\ mem_ready_r' = (sys_resetn /\ ~mem_ready_r /\ boot_valid)

\* PicoMem_BOOT_SRAM_8KB.  A lane that is written leaves its output alone; the
\* RAM's own reset input clears its output and stops no write.
BootEdge ==
    LET ce == boot_valid /\ ~mem_ready_r
    IN  /\ sram' = IF ce THEN [sram EXCEPT ![ad] = Merge(@, mem_wdata, mem_wstrb)]
                   ELSE sram
        /\ dout' = IF ~sys_resetn THEN Zero
                   ELSE IF ce THEN Merge(sram[ad], dout, mem_wstrb) ELSE dout
        /\ mem_ready_r' = (sys_resetn /\ ~mem_ready_r /\ boot_valid)
-----------------------------------------------------------------------------
\* One of the GPIO's registers after a store.  The range of lane 2 is [24:16]:
\* it takes bit 24, the lowest of lane 3, with it.
Stored(reg) ==
    LET merged == Merge(reg, mem_wdata, mem_wstrb)
    IN  IF 2 \in mem_wstrb THEN [merged EXCEPT ![3][0] = mem_wdata[3][0]] ELSE merged

\* assign io[i] = oe_r[i] ? out_r[i] : 1'bz
io == [l \in Lanes |-> [b \in Bits |->
          IF oe_r[l][b] THEN out_r[l][b] ELSE pins_in[l][b]]]

DeadBeef == [l \in Lanes |-> [b \in Bits |-> TRUE]]

GpioReset ==
    /\ ~sys_resetn
    /\ ready_r' = FALSE /\ out_r' = Zero /\ oe_r' = Zero
    /\ UNCHANGED rdata_r

GpioIdle ==
    /\ sys_resetn /\ ~(gpio_valid /\ ~ready_r)
    /\ ready_r' = FALSE
    /\ UNCHANGED <<out_r, oe_r, rdata_r>>

\* Slip: OE is the register after OUT.
GpioAccess_Moved ==
    /\ sys_resetn /\ gpio_valid /\ ~ready_r
    /\ ready_r' = TRUE
    /\ out_r' = IF mem_word % 4 = 0 THEN Stored(out_r) ELSE out_r
    /\ oe_r'  = IF mem_word % 4 = 1 THEN Stored(oe_r) ELSE oe_r
    /\ rdata_r' = CASE mem_word % 4 = 0 -> out_r [] mem_word % 4 = 2 -> io
                    [] mem_word % 4 = 1 -> oe_r  [] OTHER -> DeadBeef

\* The register is addr[3:2]: OUT, IN, OE.
GpioAccess ==
    /\ sys_resetn /\ gpio_valid /\ ~ready_r
    /\ ready_r' = TRUE
    /\ out_r' = IF mem_word % 4 = 0 THEN Stored(out_r) ELSE out_r
    /\ oe_r'  = IF mem_word % 4 = 2 THEN Stored(oe_r) ELSE oe_r
    /\ rdata_r' = CASE mem_word % 4 = 0 -> out_r [] mem_word % 4 = 1 -> io
                    [] mem_word % 4 = 2 -> oe_r  [] OTHER -> DeadBeef

GpioEdge == GpioReset \/ GpioIdle \/ GpioAccess
-----------------------------------------------------------------------------
\* A slave elsewhere answers a request it sees, in the clock it likes.
Asked == {s \in Far : mem_valid /\ Selected(s, mem_page)}

FarEdge == far_ready' = {} \/ far_ready' = Asked'

\* The program's own account of what it stored to the GPIO, from the headers:
\* page 0x82, OUT at 0, OE at 8.
Told ==
    told' = IF ~sys_resetn THEN [out |-> Zero, oe |-> Zero]
            ELSE IF mem_valid /\ mem_ready /\ mem_page = 130
            THEN [out |-> IF mem_word % 4 = 0
                          THEN Merge(told.out, mem_wdata, mem_wstrb) ELSE told.out,
                  oe  |-> IF mem_word % 4 = 2
                          THEN Merge(told.oe, mem_wdata, mem_wstrb) ELSE told.oe]
            ELSE told

Init ==
    /\ sys_resetn = FALSE
    /\ mem_valid = FALSE /\ mem_page \in Pages /\ mem_word \in Offsets
    /\ mem_wdata = Zero /\ mem_wstrb = {}
    /\ mem_ready_r = FALSE /\ sram = Image /\ dout = Zero
    /\ ready_r = FALSE /\ out_r = Zero /\ oe_r = Zero /\ rdata_r = Zero
    /\ pins_in \in Inputs /\ far_ready = {}
    /\ told = [out |-> Zero, oe |-> Zero]

Next ==
    /\ sys_resetn' \in BOOLEAN
    /\ CpuEdge /\ BootEdge /\ GpioEdge /\ FarEdge
    /\ pins_in' \in Inputs
    /\ Told

Spec == Init /\ [][Next]_vars

\* The clock runs while a request is pending and no reset intervenes, and a slave
\* that goes on seeing a request answers it.
FairSpec ==
    Spec /\ WF_vars(/\ Next
                    /\ mem_valid /\ (sys_resetn => sys_resetn')
                    /\ far_ready' = Asked')
-----------------------------------------------------------------------------
\* The variables keep their types.
TypeOK ==
    /\ sys_resetn \in BOOLEAN
    /\ mem_valid \in BOOLEAN /\ mem_page \in Pages /\ mem_word \in Offsets
    /\ mem_wdata \in Word /\ mem_wstrb \in SUBSET Lanes
    /\ mem_ready_r \in BOOLEAN /\ sram \in [Words -> Word] /\ dout \in Word
    /\ ready_r \in BOOLEAN /\ out_r \in Word /\ oe_r \in Word /\ rdata_r \in Word
    /\ pins_in \in Inputs /\ far_ready \in SUBSET Far
    /\ told \in [out : Word, oe : Word]

\* What the CPU sees at 0x80000000, the address the boot ROM is linked to,
\* through the multiplexers: the memory `sram`, with the SRAM's early write, its
\* one-clock answer, its partial stores, and resets in the middle of an access.
\* No write is taken late, so the cells are the memory: they change in the
\* answered bytes of a store, or in a reset in those of the store it interrupts.
Boot == INSTANCE WordMemory WITH
    Addr <- Words, Value <- Byte, Lanes <- Lanes,
    valid <- mem_valid /\ mem_page = 128,
    addr  <- ad, wdata <- mem_wdata, wstrb <- mem_wstrb,
    ready <- mem_ready /\ mem_page = 128,
    rdata <- mem_rdata, mem <- sram, array <- sram, resetn <- sys_resetn

BootIsMemory == Boot!Spec

\* When no access is under way at 0x82000000 the pins are driven as the
\* program's stores say, across resets and accesses elsewhere, bit 24 included;
\* a load returns the register, and IN shows the driven pins as driven.
GpioObeys ==
    /\ ~(mem_valid /\ mem_page = 130) => told = [out |-> out_r, oe |-> oe_r]
    /\ (mem_valid /\ mem_page = 130 /\ mem_ready /\ mem_wstrb = {}) =>
          CASE mem_word % 4 = 0 -> mem_rdata = told.out
            [] mem_word % 4 = 2 -> mem_rdata = told.oe
            [] mem_word % 4 = 1 -> \A l \in Lanes, b \in Bits :
                                      told.oe[l][b] => mem_rdata[l][b] = told.out[l][b]
            [] OTHER -> TRUE

\* A load or store to any device of the headers and linker scripts lets the CPU
\* go on: the tree leads it to a slave and the slave's answer back.
Documented == {0, 64} \cup (128..132)

Answered == (mem_valid /\ mem_page \in Documented) ~> ~mem_valid
=============================================================================
