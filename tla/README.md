# Specifications of the PicoTiny SoC

TLA+ models of the PicoTiny system-on-chip and of the software that programs
it, the TLC configurations that check them on small instances, and theorems
checked by TLAPS. Paths such as `psram_controller.v` are under `src/hw/`,
`isp_flasher.c` is `src/fw/tangnano9k/brom/isp_flasher.c`, `pico-programmer.py`
is `src/sw/pico-programmer.py`. `PROJECT.json` maps every definition to lines.

## 1. Inventory

A PicoRV32 core talks over one 32-bit memory bus (valid / ready, byte strobes)
to everything else. After reset it runs a boot ROM (a loadable 8 KB block RAM)
which either serves a programmer on the serial line or jumps to the program in
the SPI flash. All hardware is in one clock domain; the serial line, the flash,
the HyperRAM dies and the LCD panel are the outside world.

| component | state | operations | talks to |
|---|---|---|---|
| PSRAM controllers, `psram_controller.v` (one per die) | FSM state, `cycles_sr`, `dq_sr`, output enables, latency flag; delay counter | configure, read, write with mask | wrapper (read/write/busy), HyperRAM pins |
| PSRAM wrapper, `psram_picomem_v2.v` | FSM state, `ready`, `init_ready`, command registers | read, early-acknowledged write | bus, both controllers |
| Reset synchroniser, `picoperipheral.v:3-20` | 4-bit counter | stretch the reset | everything |
| CPU memory port, `picorv32.v` | `mem_state`, request | one load, store or fetch at a time | bus |
| UART, `simpleuart.v`, bus glue `picoperipheral.v:22-64` | receiver, one-byte buffer, transmitter, divider | read, write (waits), set divider | bus, serial line |
| Boot ROM, `isp_flasher.c` | command, page buffer, `buflen` | probe, ESEC, WBUF, WPAG, RST, boot | UART, SPI flash in bit-bang mode |
| Programmer, `pico-programmer.py` | program, loop counters, retries | probe, erase, load, verify, program | serial line |
| Bus decoders and slots, `picoperipheral.v:189-367`, `picotiny.v:203-346` | none | select a slave by address | all slaves |
| Boot SRAM, `picomemory.v` | words, `mem_ready` | read, write | bus |
| GPIO, `picoperipheral.v:66-127` | output, enable | read, write lanes | bus, pins |
| LCD, `lcd114.v` | FSM, shift register, counters | initialise, command, pixel | bus, panel |
| SPI flash XIP, `spimemio_puya.v` | FSM, buffer, config register | fetch, sequential prefetch, bit-bang | bus, flash |
| PicoRV32 core, `picorv32.v` (vendored): its interrupts | pending, mask, `irq_active`, `irq_delay`, timer, q1 | timer, ebreak, maskirq, retirq | the interrupt test |
| CoreMark, `fw/coremark` | one block of memory cut in a list, matrices and a text; CRCs; the port's clock | initialise, calibrate, iterate, report | cycle counter, `ee_printf` |
| `ee_printf`, `fw/coremark/barebones` | a text buffer | one directive of a format | UART |
| Interrupt test, `fw/tangnano9k/irqtest`, `fw/tangprimer25k/irqtest` | two counters | start-up, timer, ebreak, masks, checks | interrupt logic |
| Flash firmware, `fw/tangnano9k/flash` | command line, QSPI register, LEDs | line input, commands, mode switch, flash ID | UART, XIP controller, GPIO |
| Boot loader and `fw/tangprimer25k`, build scripts under `src/sw`, HDMI | | straight-line code | |

What makes it hard, by component (every hazard, with its line, is in
`PROJECT.json`):

* *PSRAM.* Two dies with independent, unpredictable latency serve one word; a
  write is acknowledged before it starts; the only thing between two commands
  is a state of the wrapper; a sampled flag is tested a clock before it is
  valid; a reset strikes in mid-command and takes the dies' configuration away.
  Correct means: the bus sees a memory, the data meets the die's window, nobody
  drives against anybody, and the CPU starts.
* *UART.* Unsynchronised peer, one-byte buffer, a read racing an arrival, a
  divider write in the middle of a byte. Correct means: bytes come through
  once, in order, unchanged, and nobody waits for ever.
* *ISP.* A conversation over a line with noise, in which data looks like
  commands, the host's probe races the ROM's timeout, and the ROM is deaf while
  the flash is busy. Correct means: "Flashing completed" is true, and a failure
  leaves the rest of the flash alone.
* *Bus.* Slots nobody answers for; lanes of the GPIO registers that overlap; a
  store that the reset interrupts. Correct means: the SRAM is a memory and
  changes by nothing but its stores, and what is documented answers.
* *LCD.* The CPU is held for each byte and for the whole initialisation; a
  second initialisation or a reset meets whatever the first left behind.
  Correct means: the panel hears what was written, with its pauses.
* *XIP.* A prefetched word may be stale; a jump aborts a transfer under way; the
  button resets the SoC but not the flash, which may take the next command for
  an address. Correct means: a read-only memory, in every mode.
* *Interrupts.* An event may be raised while it is masked and must wait; the
  CPU may turn to the handler between any two instructions; the reset leaves the
  counters in RAM. Correct means: each is counted once, and the test passes.
* *CoreMark.* The list is reversed, reordered, sorted, cut and mended through
  raw pointers; comparisons write into what they compare; three algorithms share
  one array; the counter wraps. Correct means: the known CRCs, a list that stays
  one, every iteration like the first, and a report that is true.
* *Firmware.* It runs from the flash whose mode it switches; its line editor
  counts two ends of a buffer. Correct means: the line as typed, and the mode
  as asked.

## 2. Plan

In this order.

1. `PsramController`, `Psram`, `WordMemory`: the main memory.
2. `Isp`: the programming session. `IspAddress`: its arithmetic.
3. `SimpleUart`: the serial line below the session.
4. `PsramProofs`: first theorems, and those of the addresses (`ProgramProofs`).
5. `Lcd114`: controller and panel.
6. `SpiXip`: fetch, prefetch and jump are a read-only memory, also across mode
   changes, programming and resets.
7. `PicoBus`, `PicoBusProofs`: multiplexers, empty slots, GPIO; the boot SRAM
   proved to implement `WordMemory`; the address map.
8. `IrqTest`: the core's interrupt logic with the program that tests it.
9. `CoreUtil`, `CoreState`, `CoreMatrix`, `CoreCells`, `CoreList`, `CoreMark`:
   the benchmark, an algorithm a module. `EePrintf`: its output.
10. `FlashFirmware`: the demonstration program. `Programs` puts the four
    programs on the board, one at a time.
11. `PsramProofs`, continued: the PSRAM proved to implement `WordMemory`.
    `Lcd114Proofs`.
12. `ProgramProofs`: both directions of the serial line, and the programs that use
    it. `IspProofs`: the session on top of it.
13. `SpiXipProofs`: what is read from the flash is what it holds.
14. `CoreListProofs`: the list's operations, the sort, the two machines that a
    comparison calls. `CoreMarkProofs`: the statements of the benchmark.

## 3. Main memory

`PsramController` models both controllers and dies; `Psram` EXTENDS it with the
wrapper, the CPU port and the reset. A step of `Next` is one rising edge of
`clk`, so `Next` is a conjunction: `PsramEdge` (controllers, delay, dies),
`ResetSync`, `CpuEdge` and one of the wrapper's branches (`WReset`, `WAck`,
`WInit`, `WIdle`, `WRead`, `WReadW`, `WWrite`, `WWriteW`). In the controller
each FSM state is an operator from the register file before the edge to the one
after (`InitStep`, `ConfigStep`, `IdleStep`, `ReadStep`, `WriteStep`).

Abstractions: `cycles_sr` is one-hot and modelled by its position; `dq_sr` by
what its head carries (configuration, command, data, zeros); the 160 us delay
is `InitTime` clocks. Bytes are model values. The dies are external: they count
clocks after CS# falls, choose single or double latency freely, show the choice
on RWDS, and store or deliver a word per clock. `IoDelay` is the way to the
pins and back. Registers without a reset value (`dq_oen`, `rwds_oen`) start
with either value.

`WordMemory` is the abstract specification: a request is answered once; a read
returns what the answered writes left. It has two views of the memory: `mem` is
what the answered writes left, `array` what the cells hold. The cells may be behind
by bytes of one write, the one answered last, and `Landing` lets them only catch
up; the next write is answered when they have (`CanWrite`). `Reset` is a clock in
which the reset is down, and no other: it drops the request, each byte of the write
under way is then stored or lost, and nothing else changes in the cells.
`ImplementsMemory` is the refinement: `array` is what the dies store, `mem` is
`shadow`, a history variable. (`WritesLanded` says when they are equal.)

| run | instance | question |
|---|---|---|
| `psram_bytes` | latency 3, two words, no reset after the first (`SteadySpec`), half words, single bytes of both halves, and reads | the contract `ImplementsMemory`, `WritesLanded`, `PinsInTime`, and, for accesses that follow each other at once, `CsHighBetween` |
| `psram_reset` | latency 6, a shorter way to the pins, reset at any clock, two words, word stores of one value other than the one at power-up, fair clock | the other branch of the latency test; `ConfiguredFirst`, `ConfigAfterDelay`, the contract across resets (of the two words only the one under way is hit, and a request that the reset drops is not carried out after it); `Answered` |

`PinsInTime` says when the data, the mask and the output enables must be where
they are, seen from the die. `Answered` says that the CPU leaves its reset and
that every request is answered.

Two byte values and two words suffice because an access carries one word and
the FSMs never compare data or addresses; latency 3 is the board's value and 6
the largest the code allows, 4 and 5 take the same branch as 6.

## 4. Programming session

`Isp` is the conversation at the level of bytes on the line. `hpc` is the
host's place in `pico-programmer.py` (the `Send`/`Await` pairs of `isp_exec_*`),
`rpc` the ROM's in `isp_flasher.c`; `rx` is the UART's one-byte buffer. A
`StartOp` hands the flash an operation and, as `spi_flashio` does, destroys the
page buffer. `buflen` starts at zero or not, because the code never initialises
it. Noise may change a data byte, once per page transfer (`hit`); commands,
lengths and addresses are not disturbed and no byte is lost: against those the
protocol has nothing and the program hangs or programs elsewhere (hazards).
Page and sector are scaled to 2 bytes and 2 pages; the images contain the
command bytes 0x30, 0x10, 0x55, 0x40, 0xF0.

`IspAddress` checks the arithmetic that `Isp` takes for granted, with the real
sizes: the host's divisor is 65535 where 65536 is meant. `PagesInOrder` shows it
does no harm below 0xFFFF00.

| run | question |
|---|---|
| `isp_session` | `Completed`, `RestUntouched`, `VerifiedProgram`, `ProgramErased`, `NoOverrun`; under fairness `SessionEnds`, from the probe to the last answer |
| `isp_erase`, `isp_banner` | the two findings below |
| `isp_pages` | `AllPages`, `PagesInOrder` at the boundary sizes and at 4 MB |

`Completed` and `ProgramErased` assume `Sound`, that neither finding struck.
`CHECK_DEADLOCK FALSE`: a session ends.

## 5. UART

`SimpleUart` is again one clock per step; `Next` joins the bus port (`Cpu`), the
`Receiver`, the `Transmitter` and the peer's two halves. The program may read in
any clock, send, and write the divider in any clock, as the ROM does when it
enters itself again after 0xF0. A bit of the peer takes `rate[1]/rate[2]`
clocks, its phase is free. `UartAssumption` names what "close enough" means:
each sample falls in its bit; TLC evaluates it. Run `uart`
takes 8 clocks per bit and peers 2.5 % fast and 5 % slow; the board has some 350
clocks per bit, the arithmetic is the same. Two bytes back to back are enough:
the receiver keeps nothing across two. In a behaviour of the run (`OneWay`) either
the program sends and writes the divider again, or the peer sends: the two
directions have the divider in common and no register.

`RxComplete` says bytes arrive once, in order, unchanged, unless one was left
unread (`overrun`); that the ISP session never does is `NoOverrun` of `Isp`.
`TxFaithful` says what was accepted is heard; `PutTaken` that a send is released.

## 6. LCD

`Lcd114` has one action per state of the FSM of `lcd114.v`, joined in each clock
with the CPU's port (`Cpu`) and the panel (`Panel`), which takes a bit in every
clock in which CS is low. What the CPU asks for is told apart as the state IDLE
does. The reset of `lcd114.v` is asynchronous and holds for at least 15 clocks
in which nothing else happens: `Reset` is one step. Run `lcd`: three
initialisation words, the three test pixels of the simulation build
(`lcd114.v:145`), pauses of 2, 4 and 6 clocks so that none passes for another, a
pixel whose two bytes differ, and up to `MaxOps` = 4 requests in any order,
enough for an initialisation, traffic, and a second one.

`PanelFaithful` relates what the panel heard to what the program wrote;
`PausesKept` is about the panel's clocks in reset, after it and after waking up;
`Served` says that every request is answered, the ones before the
initialisation and to undefined addresses included.

## 7. Execute in place

`SpiXip` models both modules of `spimemio_puya.v` to the register. The code
assigns `state` and its companions several times in a clock and the last
assignment wins, so a clock is a composition, `Jump(Step(Wanted(Capture(..))))`,
of operators from registers to registers; each reads the registers before the
edge. `Xfer` moves the bits. The flash is the read part of `src/sim/P25Q32H.v`:
`Clocked` takes a bit (or two) in the clock in which SCLK is high and decodes at
the bit counts of that model; `enhance` is its `Set_2XIO_Enhance_Mode`. The
programs are `Requests`: reads from the flash, mode changes (in code fetched
from the flash, so after a read), and the boot ROM's `spi_flashio`, which sets
the pins, takes them over, programs (one step), and gives them back, called
with the dual mode off.

Run `spi_xip`: two consecutive words with three different address bytes each
(the second after the first is a prefetch hit, the first after the second a
jump), two versions of the content, the button at any clock, all four modes, a
rest of 3 clocks instead of 255 and a reset of 2 instead of 15 (nothing is
compared with either but its own counter). 1.5 million states. `XipFaithful`
says an answer is what the flash holds now; `Recovered` that the sixteen ones
bring the flash out of enhance mode before 0xAB is sent and before the boot ROM
uses it; `NoContention` is about the data pins; `Answered` about the CPU.

Left out: the dummy clocks (`config_dummy` is 0 in every program), four-bit
mode (disabled in the code), and deep power-down: nothing here sends the flash
there, which is why it is not among the hazards. If something did, the rest after
0xAB, 256 clocks or 6.3 us at 40.5 MHz, would be shorter than the 8 us of
`P25Q32H.v:141` (`README.md:36` of the repository says delay cycles were added
for it).

## 8. Bus, boot SRAM, GPIO

`PicoBus` joins in each clock the CPU's port (`CpuEdge`), the SRAM (`BootEdge`),
the GPIO block (`GpioEdge`) and the other slaves, which answer when they like
(`FarEdge`). The tree of multiplexers is a constant: `PagesOf` computes it from
the bounds in `picotiny.v` and the priorities in `picoperipheral.v`. An address
is its top byte and a word; `PagesSuffice` proves that the bounds ask for no
more. A byte keeps the bits `Bits`, the lowest one among them, because the GPIO
stores bit 24 with lane 2 as well as with lane 3. `Far` and `Unused` tell the
boards apart: what is connected, and what an empty slot answers.

The refinement `Boot` maps the CPU's port at 0x80000000, the address the boot ROM
is linked to, and not the SRAM's own pins, so it covers the multiplexers too. It
is the same `WordMemory` the PSRAM implements, with the SRAM as `mem` and as
`array`: it takes no write late, so every change of a cell is an answered store,
or in a clock of reset the store it interrupts (the write enable is not gated by
the reset, `picomemory.v:132`). Programs store words to the GPIO
(its registers are `uint32_t` in `firmware.c:11-15`): then bit 24 is written
twice with one value; a byte store to lane 2 would take it along.

Run `pico_bus`: a slave elsewhere, the SRAM (two words and an offset that wraps
round), the GPIO and an empty slot; two bits a byte; a word and a half-word
store. The other devices differ from the slave elsewhere by their page, and
`AddressMap` is about all pages.

## 9. The programs

`Programs` loads one of four programs; the others' state is idle. `MCPrograms`
says what they are given.

**CoreMark** (`core_main.c` and its four companions). `CoreUtil` is the CRC,
the widths and the seeds; `CoreState` the number scanner as a table of
transitions; `CoreMatrix` the four matrix kernels; `CoreCells` the list's
pointer surgery; `CoreList` initialisation, comparison, merge sort;
`CoreMark` the statements of `main`, `iterate` and `core_bench_list`. One turn
of the find loop and one pass of the sort is a step, of the sort by `idx` in
`core_list_init` (`SortInit`) as of the two in `core_bench_list`. Loops within a
step are recursive functions, so that the proofs can speak of them. The heap is a pair of
functions, `next` and `info` by cell, and cells keep their identity: pointers
that are swapped where the code swaps them. 16 and 32 bit arithmetic wraps.

`KnownResults` compares list, matrix and state CRC with the tables
`core_main.c` itself holds: it is the check that the translation is faithful,
and that the algorithms are what EEMBC's numbers are for. `ListSound` says that
no cell is lost or met twice and that the sort by data is ordered and stable;
`Restored` that an iteration leaves order, data, matrix and text as they were;
`StaysInBlock` that the three parts of the array do not overlap and no scan
leaves its own; `ReportTrue` and `BenchmarkEnds` are about the calibration and
what the report claims of known seeds; what it claims of others is the finding
`UnknownNotValidated`.

Bounds. `MCBuilds` are six builds: the 2K performance and validation sets and
the profile set of 1200 bytes, seeds of no table, one with a last pattern next to the end
of its third, one with negative seeds. Of the iterations two are run
(`MaxIterated`): the first fills the caches of the comparison, the second meets
them; the ones after it are the second again, which is what `Restored` says. The
clock counts ticks of 2^16 cycles, 763 a second at 50 MHz, wraps at 65536 and
stands at 65000 when a run starts, so that all but the shortest runs wrap it. With
two of the four rates the first run of the calibration takes less than a second,
with two more; of the runs whose 400 iterations are given one is too short, one
long enough, and two take longer than the counter can tell. The 6K sets differ from the 2K ones by their size only and
are left out for time: their lists are three times as long.

What the builds have to be is stated by the assumptions of `CoreMark`, each of which
some proof needs. `RoomAssumption`: a third of the memory holds the four cells
that a removal takes, has fewer cells than `idx` can count, and what the matrices
leave of theirs is enough to align them. `HeadAssumption`: no item gets the `idx` of the
head, which is 0. Behind the first fifth `core_list_init` gives the item it numbers `i`
the `idx` `((i + 1) & 7) << 8 | i ^ seed1`, of which it keeps 14 bits. If one is 0 the sort by
`idx` that ends an iteration may put that item before the head; `results` goes on pointing at
the head, and the next iteration has only the part of the list behind it. With `seed1` 15
and 2000 bytes this happens: TLC shows `ListSound` violated there. No published set of seeds
has it, and for others the report says that it cannot validate.
`RateAssumption`: the counter can show 22 seconds, and an iteration takes no more than
ten; at 27 MHz the counter wraps after 159 seconds and an iteration takes a fraction
of one.

Where two cells have the same `idx`, a sort by `idx` cannot tell them apart and
`Restored` does not speak of the order (`DistinctIdx`); where the seeds make the
damaged text contain commas that were not there, the repair skips them and the
text does stay damaged (`Repairable`): both happen for seeds nobody publishes
results for, and the report then says that it cannot validate.

**ee_printf** (`EePrintf`). One call is one directive, any combination of flags,
width, precision and conversion that the parser can produce, and one argument
out of words (0, the most negative, above 2^16), strings and addresses.
`PrintedReadsBack` reads the numeral back modulo 2^32 and compares sign, prefix
and width with what the directive asks for.

**The interrupt test** (`IrqTest`). `Tests` is `main`'s list of statements on
either board; between any two of them, and between the instructions of a
waiting text, the CPU may turn to the handler. `CaptureIrqs`, `Tick` and `retirq`
are the clocks of `picorv32.v` in which an event can be lost or counted twice. In
this program, which waits between one event and the next, an event waits only
because it is masked; none is raised in the clock of `CaptureIrqs` or while
the handler runs. The
timer takes `TimerClocks` = 4 instead of 1000, a statement 1 or 3, a text 6: what
matters is that a statement is shorter than the timer and a text longer
(`IrqAssumption`), as on the board where a text waits for the serial line. One
reset, at any clock. `OncePerEvent` relates what was raised to what is pending,
with the handler, or counted; `TestsDone` says every check passes, after the
reset as well.

**The firmware** (`FlashFirmware`). A command is the list of register accesses it
makes, one a step, with the reset possible between any two. The flash has a
mode of its own (`enhance`) that follows the controller's, as `SpiXip` shows in
detail. The line has 3 places instead of 20 and eight keys, among them one of
each kind of command; a full line, one shorter, and backspaces on an empty one
happen. `ProgramProofs` covers every length. `GetsFaithful` compares buffer,
typed text and screen; `ModeAsAsked` the mode after each command with what the
user asked for last, and the printed ID with the flash's.

| run | question |
|---|---|
| `programs` | the eleven properties above |
| `coremark_report` | the third finding below |

`CHECK_DEADLOCK FALSE`: programs return.

## 10. Fairness

In the hardware modules weak fairness of the clock edge (in most while
something is pending): the clock is a free-running oscillator. Liveness allows
the reset to intervene; in `SpiXip` a reset that has begun ends, and nothing
else is said of the button. In `PicoBus` a slave that goes on seeing a request
answers it, which the slaves' own liveness properties justify. In `Isp` weak
fairness of the tool, the ROM, the line and the flash; none on the button, on the ROM's timeout or on noise. In `Programs` the CPU executes on:
weak fairness of CoreMark's steps and of the test's (the core is never halted);
none on the user and the button.

## 11. What is proved

* `PsramProofs!TypeCorrect`: `Spec => []TypeOK` for every latency 3 to 6, every
  delay, memory size, strobe set and at every moment of a reset, from
  `ControllerAssumption` and `PsramAssumption`. `TypeOK` alone is not
  inductive: `reset_cnt` stays in range only because the counter stops exactly
  when `sys_resetn` is up, so `IInv == TypeOK /\ ResetInv`. One lemma per FSM
  state, combined in `CtrlNextType`, `DevNextType`, `MemAfterType` and
  `WrapperStepType`.
* `PsramProofs!DiesConfiguredFirst`, `ConfigWaits`, `CsHighBetweenCommands`:
  `Spec => []ConfiguredFirst`, `Spec => ConfigAfterDelay`, `Spec => CsHighBetween`,
  for the same constants. The invariant `OrderInv` adds to `IInv`: `DelayInv`
  (`rst_cnt` is the time since the reset, and `cfg_now` up outside a reset means it
  is over: the pulse of a delay that a reset cut off cannot survive the 15 clocks);
  `DieInv` (what a die has decoded in each state of its controller, so that a
  die's `op` is never unknown); `WrapperInv` (which commands can be up in which
  state of the wrapper, and where the controllers are then). Every one of the
  three needs the others: that CS# is high when a command arrives is the
  wrapper's doing, that no access comes before the configuration both
  controllers'. One lemma per controller state says what an edge leaves in the
  registers concerned.
* `PsramProofs!PsramIsMemory`, `WritesAreLanded`, `PinsAreInTime`:
  `Spec => ImplementsMemory`, `Spec => []WritesLanded`, `Spec => []PinsInTime`, for
  the same constants: the whole main memory is the memory of `WordMemory`. To
  `OrderInv`, `MemInv` adds: `AccessInv`, which ties the position of the bit in
  `cycles_sr` to the clocks the die has counted since CS# fell (one ahead), and both to
  the latency the die chose, so that the data of a write is out in the one clock in
  which the die takes it and the first word of a read is the one that is captured;
  `LandInv`, that in every clock the bus's memory is the dies' with what they
  are owed put in (`Owed`: the CPU's `wdata` in the clock of the answer, then
  `w_din`); `DoutInv`, that the half that came first keeps its data until the other
  is there; `BusInv`, that the request the wrapper works on is the one the CPU holds.
  `WriteAccess` is where the latencies meet: `SingleLatencyOver` is shown to be
  right for tACC 3, which looks at RWDS itself, as for 4 to 6, which look at the
  register. The assumptions on the board (`IoDelay`) are needed there and nowhere else:
  RWDS is sampled in cycle 5, and no word may come before cycle 10. The refinement
  maps a clock to one abstract action: `WWrite` is `RespondWrite`, the end of
  `WReadW` is `RespondRead`, `WAck` is `Accept`, a clock of reset is `Reset`, the
  rest `Wait` or `Request`. `CatchUp` says that a byte of the dies stays or becomes
  what the bus believes, so that every clock is a `Landing`, those of reset included;
  `CaughtUp` that nothing is owed when a write is taken, which is its `CanWrite`.
* `ProgramProofs!Ordered` and `EveryPage`: `AddressSpec => PagesInOrder` and
  `AddressSpec => []AllPages` for every program size up to 0xFFFF00, from
  `LengthsAssumption`. The heart are `WpagExact` and `EsecExact`: on multiples of 256
  below the limit the divisor 65535 gives the same byte as 65536. `IInv` says
  that while page j of sector i is next, exactly what lies before is done.
* `PicoBusProofs!BootImplements`: `Spec => BootIsMemory`, the refinement of
  `WordMemory` by the boot SRAM through the multiplexers, for every depth,
  content, set of programs and board. `BootInv`: the answer is up only for the
  request the CPU still holds, and shows the word of a load. A clock is then one
  abstract action: a clock of reset is `Reset`, in which the store under way lands
  if its access was due (`CanWrite`) and no cell changes otherwise; the clock of
  the access is `RespondRead` or `RespondWrite`, the answer `Accept`; in all other
  clocks no cell changes.
* `PicoBusProofs!GpioCorrect`: `Spec => []GpioObeys`. `GpioInv` says that registers
  and the program's account agree except in the clock between the store and the
  answer; `WordStores` that the overlapping lane changes nothing then.
* `PicoBusProofs!AddressMap`: which pages select which device, and
  `PicoBusProofs!TypeCorrect`. All from `BusAssumption`.
* `ProgramProofs!LineAsTyped`: `FirmwareSpec => []GetsFaithful` for every
  buffer of at least two places, all keys, any number of resets. `GetsFaithful`
  speaks of finished lines; `LineInv` of the line while it is typed: `s + len`
  is the size, one place is always left for the zero, and what is on the screen
  behind the prompt is the line unless a backspace has eaten the prompt.
* `CoreListProofs!UndoRestores`, `InsertKeeps`, `CacheKeeps`: what the list's pointer
  operations keep, for heaps of any size and shape.
* `CoreMarkProofs!ListKept`, `IterationsAlike`, `BlocksKept`:
  `CoreMarkSpec => []ListSound`, `[]Restored`, `[]StaysInBlock`, for all seeds, sizes and
  alignments within the assumptions of `CoreMark`, any number of iterations, any
  clock. `CoreMarkSpec` is the benchmark alone; in `Programs` the steps of the other
  programs leave its variables as they are. The proof has three layers.
  - *Operators* (`CoreListProofs`). A list is a sequence `e` of cells that the pointers
    follow (`Chain`), and each operation is a lemma about sequences: `core_list_reverse`
    reverses `e`, `CacheNext` moves a cell to the second place, a pass of the sort with
    runs of `w` leaves a permutation of `e` in runs of `2 * w`. `Runs` is the loop
    invariant of the merge: cells of a run are in order, and cells of
    different runs, which have not been compared, stand as they stood, from which stability
    follows. The induction is on the recursive functions, whose values at `k + 1` follow
    from those at `k`.
  - *Comparisons that write.* `calc_func` stores its result in the datum it is
    given, runs a scan over a block it damages and mends, and leaves CRCs behind: an order
    that holds now might not hold after the next comparison. `Machines` says what any
    number of comparisons may change, `Settled` and `Later` that a datum once compared
    stays as it is: so runs that are in order stay so while others are merged
    (`Before` asks that both are settled). The sort by `idx` settles data
    too: it writes the high byte over the cached result, which undoes what the other left.
  - *Statements* (`CoreMarkProofs`). `ListInv` says for each statement what is true of
    the list (`Stage`): it is whole, or sorted in runs of `insize`, or whole
    but for the cell that is out; and `Remembers` that, but for the order and
    the cached results, it holds what it held before the first iteration. `Restored` follows
    because the sort by `idx` of distinct keys has one result. `ListInductive` shows
    that every step keeps it.
* `CoreMarkProofs!ReportKept`: `CoreMarkSpec => []ReportTrue`, for every start of the
  counter and every time an iteration takes within `RateAssumption`. `TimeInv` relates
  what the program calculates from a counter that wraps to the ticks that
  passed: while it tries, the runs are short enough not to wrap (`Trying`, `Tried`), and what it
  then aims at is between ten seconds and a hundred (`Aimed`). A run whose iterations are
  given may outlast the counter, and then the clock shows less than it took, never more:
  what is reported as ten seconds was ten. The theorem is about known seeds: of
  others a validated report means nothing (section 12). `TimeInductive` shows that every step keeps it.
* `ProgramProofs!ModeIsKept`: `FirmwareSpec => []ModeAsAsked` for all chips, keys and
  resets. The invariant says, for each access still to come of a command, what mode
  the controller and the flash are in before it: the ID command has four accesses in
  which both are out of the mode asked for, and a reset may come between any two.
  `FlashIds` is the assumption: an ID is three bytes.
* `ProgramProofs!CountedOnce`: `IrqTestSpec => []OncePerEvent` for every length of
  timer, statement and text within `IrqAssumption`, both boards, any number of
  resets. The invariant bounds how many events can be on their way: main is in a text
  whenever the timer runs, which it outlasts, so that the timer is with the handler
  before the next is set and a pending bit never stands for two.
* `ProgramProofs!PutsAreHeard`: `Spec => []TxFaithful`, and `BytesAreRead`:
  `Spec => []RxComplete`, for every divider, rate, phase, bytes, and moment of a read,
  write or new divider. The transmitter's invariant gives the age of the frame on
  the line in clocks and, from it, which bit is out; the peer's gives the same age
  from its start bit, and what it samples next. The receiver's is the mirror
  image. They meet in `UartAssumption`, which says that a sample falls in its bit;
  the proof needed it for the peer's look at the stop bit too, which an earlier
  form of `RateMatches` left out.
* `IspProofs!FlashingCompletes`, `PageVerified`, `PageErased`, `NothingOverrun`,
  `RestStays`: `Spec => []Completed`, `VerifiedProgram`, `ProgramErased`,
  `[]NoOverrun`, `[]RestUntouched`, for every program, page and sector size, noise,
  number of probes and retries, and any banner. `IspInv` says in each place of the
  host where the message is (`Sent`: which bytes are on the line, which one in the
  ROM's buffer, how many the ROM has taken) or where the answer is; both are never
  under way at once, which is `NoOverrun`, and why a byte of the image that looks like
  a command is not taken for one. `HeardAll` carries the noise: at most one
  byte of the page differs, and `OneByte` shows that its sum then differs too. `Place`
  and `Contents` tie sector, page and address to what the flash holds: the program
  below, blank up to the sector's end, old from there on. After a banner was taken
  for the answer (`~genuine`) the invariant says only that nobody listens.
  `IspAssumption` bounds the flash to the 2^24 bytes that three bytes address.
  `OneByte` is about a sum of any length: induction over data is out of the prover's
  reach as a rule with a predicate, and is done here with sets, by the first
  place where two sums go apart (`Smallest`).
* `Lcd114Proofs!PausesAreKept`: `Spec => []PausesKept` for all delays, tables and
  requests. `IInv` ties the controller's counter to the panel's: in each state of
  a delay `clk_cnt <= since`, which both count up until the panel's bound, itself
  no less than any delay. `WireInv` says how far the panel is with a word
  (`Len(bits)` from `bit_loop`), so that a pause is asked for in clock 1 or 9 of a
  word and nowhere else; and once the first command has begun, `Started` leaves
  no pause to keep but the one already kept.
* `Lcd114Proofs!WordsAreHeard`: `Spec => []PanelFaithful` for all tables, pictures,
  delays and requests. `SoFar` says in each state which words the panel has heard
  and, of the one on the wire, which bits: the shift register holds the byte moved
  left with ones behind it (`OnWire`), the panel the bits that left it (`BitOf`),
  and after eight `WholeWord` puts them together. `Asked` says where the
  controller is with the request, without which a leftover counter could start an
  initialisation in the middle (the mutant `IdleInit_Stale`). It rests on `IInv`,
  from which CS is low exactly while a byte is out.

* `SpiXipProofs!XipReads`, `FlashIsRecovered`, `PinsNeverContend`:
  `Spec => []XipFaithful`, `[]Recovered`, `[]NoContention`, for every content and set of
  addresses, rest, length of the reset and level of an open pin; the program may
  read, jump, change the mode, program and be reset in any clock. The invariant
  has five parts, and each needs the others. `XferInv` is about half a clock of a
  byte. `Going` says, of a byte under way, which of its bits the flash has taken
  (`Behind`), which are still in the controller's register (`Left`) and which
  clock of the command this is; `Begins` is its mirror image for a byte that
  comes back; eight steps of each make a byte (`BitGoes`, `PairGoes`, `BitComes`,
  `PairComes`). `InState` says for each of the sixteen states of the read FSM what
  is under way, what has gone before it and which byte waits: in the states that
  fetch, that byte p of the word that is `Coming` comes from its place in the
  flash, and the ones before it are in the buffer. `HeldWord` says it of `rdata`.
  `Running` ties the mode in `InState` to the configuration, except in the clock in
  which a write of the register takes effect. `Mending` is the recovery: after a
  reset in any clock, of a flash in enhance mode or not, the ones that go out are
  sixteen clocks of an address and a mode byte to the one and a command of no effect to the
  other, and the bits that count (5 and 4 of the mode byte) are ones.
  `Calm` says that the boot ROM takes the pins only in the plain mode, from which
  `Recovered` follows outside the start-up too. One lemma per state (`At0` to
  `At15`, `At9To11`), one for a jump, which may cut off a byte in any clock
  (`JumpKeeps`), one for a reset. `IInv` was checked on the constants of `spi_xip`
  before it was proved. From `SpiXipAssumption`: addresses are those of words of
  the flash, its content bytes.

Only model-checked: liveness (fairness and ENABLED are out of the prover's
reach); `KnownResults`, which is about the numbers that the algorithms compute for three
of the five known sets of seeds; and `PrintedReadsBack`, because
the digits of `EePrintf` are recursive operators, which the prover does not
take. `TypeOK` of `Psram` and `PicoBus`, the types in the invariant of
`IspAddress`, and `ListInv` and `TimeInv` are proved and not run: the last two speak
of every order a list can have, and what they say of the reachable ones is run as
`ListSound`, `Restored` and `ReportTrue`.

## 12. Findings

* *ESEC acknowledged without erasing* (`isp_erase`). `isp_flasher.c:195` erases
  only `if (buflen)`; `buflen` (line 138) is uninitialised until the first WBUF
  and the host sends ESEC first. Line 186 documents "Reply: 0x31 [erase] 0x32".
* *Banner taken for the answer* (`isp_banner`). The host accepts any 0x56, the
  'V' of "BROM VERSION" included, which the ROM prints when it has given up
  waiting and boots the flash; the host then goes on to send its commands to
  the flash program.

* *Too short and unknown is validated* (`coremark_report`). For seeds that are not in
  its tables `core_main.c` sets `total_errors` to -1, which prints "Cannot
  validate operation for these seed values" (lines 429-431); a run of less than ten
  seconds increments it (line 377) to 0, which prints "Correct operation
  validated" without any CRC having been compared.

Seen while reading, not runs: `README.md:83` of the repository says the ROM
jumps to the main program if an ISP command was received; it does so if none
was. Its address table lists SRAM at 0x40000000, where the PSRAM is, and lacks
the LCD at 0x84000000. `core_state.c:99`
says that the corruption is undone if `seed1` and `seed2` are equal; it is not where
the XOR makes a comma. `ee_printf` writes into a
buffer of 1024 bytes (`ee_printf.c:680`) without a length; the texts of the benchmark
are shorter. A backspace on an empty line of the firmware deletes the prompt from
the screen (`blank` in `FlashFirmware`). Keys typed while a command runs are lost
but for one: the UART's buffer.

## 13. Not modelled

* The instruction set of the vendored core: only its memory port and its
  interrupts are modelled.
* What the firmware draws on the LCD, its benchmark's loops and `print_dec`: straight
  line code without a state that outlives them. The boot loader and the
  25K firmware copy words and print a text.
* The 25K copy of `ee_printf.c`, which is the other but for a `noinline` and a delay
  loop; floating point output (`HAS_FLOAT` is 0), `cvt.c`; the parsing of a
  format, whose result the directives are.
* The image file parser of `pico-programmer.py` and the program's size from it, a
  hazard for sparse files without interleaving: the programs of `Isp` are what it
  returns. A reset in the middle of a session leaves the host sending to a ROM
  that starts anew; nothing in the protocol detects that, no property holds.
* RWDS between power-up and the first IDLE (`psram_controller.v:92`),
  metastability of `ser_rx`, wake-up times in microseconds, electrical levels: outside
  a clocked model.
* The HDMI sources (in no project file) and the build scripts.
