-------------------------------- MODULE SpiXip --------------------------------
(***************************************************************************)
(* Execute-in-place from the SPI flash: spimemio_puya with spimemio_xfer   *)
(* (src/hw/spimemio_puya.v) between the CPU and the flash, one clock edge  *)
(* at a time.  The flash is the one the repository simulates with          *)
(* (src/sim/P25Q32H.v), as far as it reads: 0x03, 0xBB and, after a mode   *)
(* byte with bits 5:4 = 10, reads without a command (enhance mode), which  *)
(* the reset of the board does not end.  Other commands leave it idle.     *)
(*                                                                         *)
(* The CPU executes from the flash and, from the boot ROM, switches the    *)
(* mode (firmware.c) or takes the pins over to program (isp_flasher.c).    *)
(* That program leaves CS# high whenever it enables the controller or      *)
(* disables it, and is called with the dual mode off and fetches through.  *)
(***************************************************************************)
EXTENDS Integers, Sequences

CONSTANTS
    config_pudly,     \* clocks of the delay after 0xAB; no write changes it
    Addrs,            \* addresses of words the CPU reads
    Content(_, _),    \* byte of the flash: version programmed, address
    Versions,
    ResetClocks,      \* clocks the reset is held
    Float             \* level of a data pin that nobody drives

Byte == 0..255

ASSUME SpiXipAssumption ==
    /\ config_pudly \in Nat /\ ResetClocks \in Nat \ {0} /\ Float \in 0..1
    /\ \A a \in Addrs : a \in 0..(2^22 - 1) /\ a % 4 = 0
    /\ \A v \in Versions, a \in 0..(2^22 - 1) : Content(v, a) \in Byte

VARIABLES
    port,        \* the CPU's request
    prog,        \* the CPU: "held" in reset, "xip", "pins" set, "manual" transfers
    hold,        \* clocks the reset still holds
    cfg,         \* config_ddr, config_cont
    softreset,
    spi,         \* the registers of the read FSM
    xfer,        \* the registers of spimemio_xfer
    flash,       \* the flash
    version      \* what has been programmed

vars == <<port, prog, hold, cfg, softreset, spi, xfer, flash, version>>

NoRequest == [kind |-> "none", addr |-> 0, ddr |-> FALSE, cont |-> FALSE]
config_en == prog # "manual"

Init ==
    /\ port = NoRequest /\ prog = "held"
    /\ hold = ResetClocks
    /\ cfg = [ddr |-> FALSE, cont |-> FALSE] /\ softreset = TRUE
    /\ spi = [state |-> 0, pudly_cnt |-> 0, xfer_resetn |-> FALSE,
              din_valid |-> FALSE, din_data |-> 0, din_tag |-> 0, din_ddr |-> FALSE,
              din_rd |-> FALSE, rd_addr |-> 0, rd_valid |-> FALSE, rd_wait |-> FALSE,
              rd_inc |-> FALSE, buffer |-> <<>>, rdata |-> <<0, 0, 0, 0>>]
    /\ xfer = [csb |-> 1, clk |-> 0, count |-> 0, obuffer |-> 0, ibuffer |-> 0, tag |-> 0,
               tag_q |-> 0, dspi |-> FALSE, rd |-> FALSE, fetch |-> TRUE]
    /\ flash = [n |-> 0, sr |-> 0, cmd |-> 0, addr |-> 0, enhance |-> FALSE]
    /\ version \in Versions
-----------------------------------------------------------------------------
(* The pins.  A dual transfer moves the higher bit on io1. *)

Bit(b, i) == (b \div 2^i) % 2

flash_csb == IF config_en THEN xfer.csb ELSE 1
io0_oe    == config_en /\ (xfer.dspi => ~xfer.rd)
io1_oe    == config_en /\ xfer.dspi /\ ~xfer.rd

\* Where the data starts, in clocks of the flash: after the address, or mode.
Dual     == flash.cmd = 187
DataFrom == IF Dual THEN 24 ELSE 32
FlashOut == flash_csb = 0 /\ flash.cmd \in {3, 187} /\ flash.n >= DataFrom
OutBit(pin) ==
    LET k == flash.n - DataFrom
    IN  Bit(Content(version, flash.addr), IF Dual THEN 6 + pin - 2 * k ELSE 7 - k)

io0 == IF io0_oe THEN Bit(xfer.obuffer, IF xfer.dspi THEN 6 ELSE 7)
       ELSE IF FlashOut /\ Dual THEN OutBit(0) ELSE Float
io1 == IF io1_oe THEN Bit(xfer.obuffer, 7)
       ELSE IF FlashOut THEN OutBit(1) ELSE Float

Shl(dual, b) == IF dual THEN 4 * b + 2 * io1 + io0 ELSE 2 * b + io1
-----------------------------------------------------------------------------
(* spimemio_xfer *)

Width      == IF xfer.dspi THEN 2 ELSE 1
next_count == IF xfer.clk = 1 /\ xfer.count > 0 THEN xfer.count - Width ELSE xfer.count
next_fetch == next_count = 0
din_ready  == spi.din_valid /\ spi.xfer_resetn /\ next_fetch
dout_valid == next_fetch /\ ~xfer.fetch /\ spi.xfer_resetn

\* Half a clock of a byte under way: data is taken in while clk is low.
Move(x) ==
    IF x.count = 0 THEN x
    ELSE [x EXCEPT !.clk = 1 - @,
                   !.obuffer = IF x.clk = 1 THEN (2^Width * @) % 256 ELSE @,
                   !.ibuffer = IF x.clk = 0 THEN Shl(x.dspi, @) % 256 ELSE @,
                   !.count = next_count,
                   !.rd = @ \/ next_count = 0]

Load(x) ==
    IF ~din_ready THEN x
    ELSE [x EXCEPT !.csb = 0, !.clk = 0, !.count = 8, !.obuffer = spi.din_data,
                   !.tag = spi.din_tag, !.dspi = spi.din_ddr, !.rd = spi.din_rd]

Xfer ==
    xfer' = IF spi.xfer_resetn
            THEN [Load(Move(xfer)) EXCEPT !.fetch = next_fetch, !.tag_q = xfer.tag]
            ELSE [xfer EXCEPT !.fetch = TRUE, !.csb = 1, !.clk = 0, !.count = 0, !.tag = 0,
                              !.dspi = FALSE, !.rd = FALSE, !.tag_q = xfer.tag]
-----------------------------------------------------------------------------
(* The read FSM.  Later assignments of the code win: the registers of the  *)
(* next clock are built by one operator after the other from the present.  *)

valid == port.kind = "read"
ready == valid /\ port.addr = spi.rd_addr /\ spi.rd_valid
jump  == valid /\ ~ready /\ port.addr # spi.rd_addr + 4 /\ spi.rd_valid

AddrByte(k) == (port.addr \div 2^(8 * k)) % 256

\* A byte of the answer; the fourth completes a word.
Capture(r) ==
    IF ~dout_valid \/ xfer.tag_q = 0 THEN r
    ELSE IF xfer.tag_q < 4 THEN [r EXCEPT !.buffer = Append(SubSeq(@, 1, xfer.tag_q - 1), xfer.ibuffer)]
    ELSE [r EXCEPT !.rdata = Append(spi.buffer, xfer.ibuffer),
                   !.rd_addr = IF spi.rd_inc THEN (@ + 4) % 2^24 ELSE port.addr,
                   !.rd_valid = TRUE, !.rd_wait = spi.rd_inc, !.rd_inc = TRUE]

Wanted(r) == [r EXCEPT !.rd_wait = @ /\ ~valid]

\* A byte is offered to spimemio_xfer until it takes it.
Send(r, tag, data, next) ==
    [r EXCEPT !.din_valid = ~din_ready, !.din_tag = tag, !.din_data = data,
              !.state = IF din_ready THEN next ELSE @]

\* The byte has gone out: CS# goes high.
Deselect(r, next) ==
    IF dout_valid THEN [r EXCEPT !.xfer_resetn = FALSE, !.state = next] ELSE r

\* Slip: one byte of ones, which is too short to end the enhance mode.
Again_Short(r) == Deselect(r, 2)

\* Eight more ones under the same CS#.
Again(r) == IF dout_valid THEN [r EXCEPT !.state = 14] ELSE r

Rest(r) == IF spi.pudly_cnt = config_pudly THEN [r EXCEPT !.state = 4]
           ELSE [r EXCEPT !.pudly_cnt = @ + 1]

\* After a reset: sixteen ones in all, which end the enhance mode of a flash
\* left in it, then 0xAB and a rest.
Wake(r) ==
    CASE spi.state = 0  -> Send(r, 0, 255, 1)
      [] spi.state = 1  -> Again(r)
      [] spi.state = 14 -> Send(r, 0, 255, 15)
      [] spi.state = 15 -> Deselect(r, 2)
      [] spi.state = 2  -> Send(r, 0, 171, 3)
      [] spi.state = 3  -> [Deselect(r, 13) EXCEPT !.pudly_cnt = IF dout_valid THEN 0 ELSE @]
      [] spi.state = 13 -> Rest(r)

ModeByte == IF cfg.cont THEN 165 ELSE 255

\* Slip: the transfer goes on writing after the mode byte.
Mode_Drives(r) == Send(r, 0, IF din_ready THEN 0 ELSE ModeByte, 9)

Mode(r) == [Send(r, 0, IF din_ready THEN 0 ELSE ModeByte, 9) EXCEPT !.din_rd = @ \/ din_ready]

\* Command, address and, in dual mode, the mode byte.
Ask(r) ==
    CASE spi.state = 4 -> [Send(r, 0, IF cfg.ddr THEN 187 ELSE 3, 5) EXCEPT !.rd_inc = FALSE]
      [] spi.state = 5 -> IF valid /\ ~ready
                          THEN [Send(r, 0, AddrByte(2), 6) EXCEPT !.din_ddr = cfg.ddr] ELSE r
      [] spi.state = 6 -> Send(r, 0, AddrByte(1), 7)
      [] spi.state = 7 -> Send(r, 0, IF din_ready THEN 0 ELSE AddrByte(0),
                               IF cfg.ddr THEN 8 ELSE 9)
      [] spi.state = 8 -> Mode(r)

\* The word asked for and, by rd_inc, those after it, one ahead of the CPU.
Fetch(r) ==
    CASE spi.state = 9  -> Send(r, 1, r.din_data, 10)
      [] spi.state = 10 -> Send(r, 2, 0, 11)
      [] spi.state = 11 -> Send(r, 3, r.din_data, 12)
      [] spi.state = 12 -> IF ~spi.rd_wait \/ valid THEN Send(r, 4, r.din_data, 9) ELSE r

Step(r) == IF spi.state \in 4..8 THEN Ask(r)
           ELSE IF spi.state \in 9..12 THEN Fetch(r) ELSE Wake(r)

\* Slip: the word held counts as valid still, and jumps again.
Jump_Again(r) ==
    IF ~jump THEN r
    ELSE [r EXCEPT !.rd_inc = FALSE, !.xfer_resetn = FALSE,
                   !.state = IF cfg.cont /\ cfg.ddr THEN 5 ELSE 4,
                   !.din_ddr = @ /\ cfg.cont /\ cfg.ddr, !.din_rd = FALSE]

\* Neither the word held nor the one after it: CS# goes high, and a new read
\* begins, without a command if the flash is in enhance mode.
Jump(r) ==
    IF ~jump THEN r
    ELSE [r EXCEPT !.rd_inc = FALSE, !.rd_valid = FALSE, !.xfer_resetn = FALSE,
                   !.state = IF cfg.cont /\ cfg.ddr THEN 5 ELSE 4,
                   !.din_ddr = @ /\ cfg.cont /\ cfg.ddr, !.din_rd = FALSE]

\* Slip: what was read before is answered after.
SpiReset_KeepsWord(r) ==
    [r EXCEPT !.state = 0, !.pudly_cnt = 0, !.xfer_resetn = FALSE, !.din_valid = FALSE,
              !.din_tag = 0, !.din_ddr = FALSE, !.din_rd = FALSE]

SpiReset(r) ==
    [r EXCEPT !.state = 0, !.pudly_cnt = 0, !.xfer_resetn = FALSE, !.din_valid = FALSE,
              !.rd_valid = FALSE, !.din_tag = 0, !.din_ddr = FALSE, !.din_rd = FALSE]

Spi(resetn) ==
    spi' = IF ~resetn \/ softreset THEN SpiReset(spi)
           ELSE Jump(Step(Wanted(Capture(
                  [spi EXCEPT !.xfer_resetn = TRUE, !.din_valid = FALSE]))))
-----------------------------------------------------------------------------
(* The configuration register and the CPU.  A write to the register is     *)
(* taken in the clock it is asked for.                                     *)

cfgreg_we == port.kind \in {"mode", "pins", "off", "on"}

\* The start-up is over.  It is so when the CPU comes out of its reset, which
\* waits for the 160 us of the PSRAM.
Settled == ~softreset /\ spi.state \in 4..12

Config(resetn) ==
    /\ softreset' = (~resetn \/ ~config_en \/ cfgreg_we)
    /\ cfg' = IF ~resetn THEN [ddr |-> FALSE, cont |-> FALSE]
              ELSE IF port.kind = "mode" THEN [ddr |-> port.ddr, cont |-> port.cont] ELSE cfg
    /\ prog' = IF ~resetn \/ (prog = "held" /\ ~Settled) THEN "held"
               ELSE CASE port.kind = "pins" -> "pins"
                      [] port.kind = "off"  -> "manual"
                      [] port.kind = "on"   -> "xip"
                      [] OTHER              -> IF prog = "held" THEN "xip" ELSE prog

\* What the programs do next; the code that switches modes was fetched from
\* the flash in the old one.
Requests ==
    LET R(k) == [NoRequest EXCEPT !.kind = k]
    IN  {R("none")} \cup
        CASE prog = "held"   -> {}
          [] prog = "xip"    -> [kind : {"read"}, addr : Addrs, ddr : {FALSE}, cont : {FALSE}]
                                \cup (IF spi.rd_valid THEN [kind : {"mode"}, addr : {0},
                                                          ddr : BOOLEAN, cont : BOOLEAN] ELSE {})
                                \cup (IF Settled /\ ~cfg.ddr THEN {R("pins")} ELSE {})
          [] prog = "pins"   -> {R("off")}
          [] prog = "manual" -> {R("program"), R("on")}

Cpu(resetn) ==
    IF ~resetn THEN port' = NoRequest
    ELSE IF valid /\ ~ready THEN UNCHANGED port
    ELSE IF port.kind # "none" THEN port' = NoRequest
    ELSE port' \in Requests

-----------------------------------------------------------------------------
(* P25Q32H.v *)

\* A rising edge of SCLK with CS# low, and what the bits so far mean.
Clocked ==
    LET sr == IF Dual THEN Shl(TRUE, flash.sr) % 2^24 ELSE (2 * flash.sr + io0) % 2^24
        n  == flash.n + 1
        new == [flash EXCEPT !.n = n, !.sr = sr]
    IN  IF n < 8 THEN new
        ELSE IF n = 8 THEN [new EXCEPT !.cmd = sr % 256]
        ELSE IF flash.cmd \notin {3, 187} THEN flash
        ELSE IF n < DataFrom THEN [new EXCEPT !.addr = IF Dual /\ n = 20 THEN sr % 2^22 ELSE @]
        ELSE IF n = DataFrom THEN [new EXCEPT !.sr = 0, !.addr = IF Dual THEN @ ELSE sr % 2^22,
                                              !.enhance = IF Dual THEN (sr \div 16) % 4 = 2 ELSE @]
        ELSE IF n = DataFrom + (IF Dual THEN 4 ELSE 8)
             THEN [flash EXCEPT !.n = DataFrom, !.addr = (@ + 1) % 2^22]
        ELSE [flash EXCEPT !.n = n]

\* CS# high: it waits for a command or, in enhance mode, an address.
Waiting == [flash EXCEPT !.n = IF flash.enhance THEN 8 ELSE 0, !.sr = 0, !.addr = 0,
                         !.cmd = IF flash.enhance THEN 187 ELSE 0]

Flash == flash' = IF flash_csb = 1 THEN Waiting
                  ELSE IF xfer.clk = 1 THEN Clocked ELSE flash

\* WREN and a page program, sent by spi_flashio.
Program == version' \in IF port.kind = "program" THEN {v \in Versions : v >= version}
                         ELSE {version}
-----------------------------------------------------------------------------
Edge(resetn) == Spi(resetn) /\ Xfer /\ Config(resetn) /\ Cpu(resetn) /\ Flash /\ Program

Clock == hold = 0 /\ Edge(TRUE) /\ UNCHANGED hold

\* The reset button, at any time, and the reset it leaves for some clocks.
Press == Edge(FALSE) /\ hold' = ResetClocks
Hold  == hold > 0 /\ Edge(FALSE) /\ hold' = hold - 1

Next == Clock \/ Press \/ Hold

Spec == Init /\ [][Next]_vars

\* clk is free-running, and nobody holds the button for ever.
FairSpec == Spec /\ WF_vars(Clock \/ Hold)
-----------------------------------------------------------------------------
Word(a) == [k \in 1..4 |-> Content(version, a + k - 1)]

\* spimemio_puya.v:71 answers from rdata: it is the word the flash holds now at
\* the address asked for, whatever was prefetched, aborted or programmed before,
\* in every mode.
XipFaithful == ready => spi.rdata = Word(port.addr)

\* README.md:36 "DSPI recovery", spimemio_puya.v:381 "MBR 0xFFFF fix for dual
\* i/o crm": when 0xAB is sent, and whenever the boot ROM has the pins, the flash
\* takes commands, though a reset left it in enhance mode.
Recovered == (xfer.csb = 0 /\ spi.state \in {3, 13}) \/ prog = "manual" => ~flash.enhance

\* The controller lets go of the data pins before the flash drives them; the
\* recovery, where the flash may answer the sixteenth clock, is left out.
NoContention ==
    FlashOut /\ spi.state \in 4..12 => ~io1_oe /\ (Dual => ~io0_oe)

\* Every read of the CPU is answered, unless the button is pressed.
Answered == valid ~> (ready \/ ~valid)
=============================================================================
