--------------------------- MODULE PsramController ---------------------------
(***************************************************************************)
(* The two HyperRAM controllers of src/hw/psram_controller.v, one clock    *)
(* edge at a time, and the two dies they drive.                            *)
(*                                                                         *)
(* The dies are external: what they do is what the controller relies on.   *)
(* A die counts the clocks after CS# falls, takes a command from the first *)
(* three, decides whether this access has single or double latency and     *)
(* shows the choice on RWDS, and then reads or writes one word per clock,  *)
(* on to the next words while CS# stays low.                               *)
(*                                                                         *)
(* cycles_sr holds a single 1 and is modelled by the position of that bit; *)
(* dq_sr by the kind of bytes at its head.  Die d carries the byte lanes   *)
(* 2d (dq_in_fal) and 2d+1 (dq_in_ris) of a 32-bit word.                   *)
(***************************************************************************)
EXTENDS Integers

CONSTANTS
    LATENCY,     \* tACC, the initial latency in clocks: 3, 4, 5 or 6
    IoDelay,     \* clocks from the controller's registers to a die and back
    InitTime,    \* INIT_TIME, clocks from reset to the configuration command
    NumWords,    \* 32-bit words in the memory
    Value,       \* byte values
    Zero,        \* the byte an emptied dq_sr shows
    PowerUp      \* what the dies may hold at power-up

\* RWDS falls with CS#, one clock before the first clock of CK (ck_e_p), and
\* carries the latency flag until the third; the controller samples it in
\* cycle 5.  wait_for_rd_data is up from cycle 10: no word may arrive earlier.
\* Both hold on the board, or no access would work.
ASSUME ControllerAssumption ==
    /\ LATENCY \in 3..6
    /\ IoDelay \in 2..5 /\ 3 + LATENCY + IoDelay >= 10
    /\ InitTime \in Nat \ {0, 1}
    /\ NumWords \in Nat \ {0}
    /\ Zero \in Value
    /\ PowerUp \subseteq [0..NumWords-1 -> [0..3 -> Value]] /\ PowerUp # {}

Die     == 0..1
Lanes   == 0..3
Words   == 0..NumWords-1
Half(d) == {2*d, 2*d + 1}
HalfWord(d) == [Half(d) -> Value]
Zeros(d)    == [l \in Half(d) |-> Zero]

VARIABLES
    sys_resetn,                          \* the synchronised reset
    wdata,                               \* the CPU's write data, unregistered
    read, write, byte_write, local_addr, \* the wrapper's command, per die
    rst_cnt, rst_done, rst_done_p1, cfg_now,
    ctrl,                                \* [Die -> controller registers]
    dev,                                 \* [Die -> command decoder of the die]
    mem                                  \* what the dies store

initvars == <<rst_cnt, rst_done, rst_done_p1, cfg_now>>
psramvars == <<ctrl, dev, mem, initvars>>

busy(d) == ctrl[d].st # "IDLE"
-----------------------------------------------------------------------------
(* The die's side of the pins. *)

WriteLatency(lat) == 3 + LATENCY * lat   \* clock that carries the first word

\* rwds_in_fal: the latency flag in the clocks it takes to come back.
rwds_in_fal(d) == dev[d].lat = 2 /\ ctrl[d].cyc - IoDelay \in 0..3

\* RWDS toggles with the read data, first seen in this cycle.
FirstRead(d) == WriteLatency(dev[d].lat) + IoDelay
rwds_toggles(d) == dev[d].op = "read" /\ ctrl[d].cyc >= FirstRead(d)

\* The word a burst that began at `word` has reached after n more clocks.
Burst(word, n) == (word + n) % NumWords

dq_in(d) == [l \in Half(d) |->
               mem[Burst(dev[d].word, ctrl[d].cyc - FirstRead(d))][l]]
-----------------------------------------------------------------------------
(* psram_controller.v: the FSM.  Each operator is the register file after  *)
(* the clock edge in the state it is named for.                            *)

\* The shifts at the top of the always block; position 24 is shifted out.
Emptied(c) == [c EXCEPT !.dq = "zero", !.rd = FALSE, !.word = 0]

Shift(c) ==
    LET s == [c EXCEPT !.cyc = IF @ = 24 THEN @ ELSE @ + 1]
    IN  IF (c.dq = "ca" /\ c.cyc < 3) \/ (c.dq = "cfg" /\ c.cyc < 4) THEN s ELSE Emptied(s)

At(c, state, n) == [c EXCEPT !.st = state, !.cyc = n]
Select(c)       == [c EXCEPT !.cs_n = FALSE, !.ck_e = TRUE, !.dq_oen = FALSE]
Deselect(c)     == [c EXCEPT !.cs_n = TRUE, !.ck_e = FALSE]
ReleaseRwds(c)  == [c EXCEPT !.rwds_oen = TRUE, !.open = {}]

\* Registers that the next operation sets before it reads them are kept at
\* their first value between operations.
Forget(c, d) == [c EXCEPT !.wait = FALSE, !.additional_latency = FALSE, !.w_din = Zeros(d)]

\* The bit of cycles_sr is of no interest in INIT and IDLE, which set it anew.
InitStep(c) ==
    LET s == At(Shift(c), "INIT", 0)
    IN  IF cfg_now THEN [s EXCEPT !.st = "CONFIG", !.cs_n = FALSE] ELSE s

\* Slip: CS# rises before the register value is out.
ConfigStep_Short(c) ==
    CASE c.cyc = 0 -> [Shift(c) EXCEPT !.dq = "cfg", !.dq_oen = FALSE, !.ck_e = TRUE]
      [] c.cyc = 3 -> At(Deselect([Shift(c) EXCEPT !.dq_oen = TRUE]), "IDLE", 0)
      [] OTHER     -> Shift(c)

ConfigStep(c) ==
    CASE c.cyc = 0 -> [Shift(c) EXCEPT !.dq = "cfg", !.dq_oen = FALSE, !.ck_e = TRUE]
      [] c.cyc = 4 -> At(Deselect([Shift(c) EXCEPT !.dq_oen = TRUE]), "IDLE", 0)
      [] OTHER     -> Shift(c)

LoadCA(c, d) ==
    [c EXCEPT !.dq = "ca", !.rd = ~write[d], !.word = local_addr[d] \div 2]

Start(c, d) ==
    LET s == [LoadCA(c, d) EXCEPT !.w_din = [l \in Half(d) |-> wdata[l]]]
    IN  At(Select(s), IF write[d] THEN "WRITE" ELSE "READ", 1)

IdleStep(c, d) ==
    LET s == Forget(ReleaseRwds(Deselect(At(Shift(c), "IDLE", 0))), d)
    IN  IF read \/ write[d] THEN Start(s, d) ELSE s

Capture(c, d) == At(Deselect([Forget(c, d) EXCEPT !.dout = dq_in(d)]), "IDLE", 0)

\* Slip: DQ is still driven when the data comes back.
ReadStep_DrivesOn(c, d) ==
    LET s == [Shift(c) EXCEPT !.dq_oen = IF c.wait THEN TRUE ELSE @,
                              !.wait = IF c.cyc = 9 THEN TRUE ELSE @]
    IN  IF c.wait /\ rwds_toggles(d) THEN Capture(s, d) ELSE s

\* Slip: the data is looked for two cycles too late, in the middle of a burst.
ReadStep_Late(c, d) ==
    LET s == [Shift(c) EXCEPT !.dq_oen = IF c.cyc = 3 THEN TRUE ELSE @,
                              !.wait = IF c.cyc = 11 THEN TRUE ELSE @]
    IN  IF c.wait /\ rwds_toggles(d) THEN Capture(s, d) ELSE s

ReadStep(c, d) ==
    LET s == [Shift(c) EXCEPT !.dq_oen = IF c.cyc = 3 THEN TRUE ELSE @,
                              !.wait = IF c.cyc = 9 THEN TRUE ELSE @]
    IN  IF c.wait /\ rwds_toggles(d) THEN Capture(s, d) ELSE s

\* Slip: tACC = 3 ends in the cycle that samples RWDS, too early for the register.
SingleLatencyOver_Stale(c, d) == c.cyc = 2 + LATENCY /\ ~c.additional_latency

\* The single latency is over and the die asked for no more.
SingleLatencyOver(c, d) ==
    /\ c.cyc = 2 + LATENCY
    /\ IF LATENCY = 3 THEN ~rwds_in_fal(d) ELSE ~c.additional_latency

\* The lanes the data mask leaves open: one of the two for a byte write.
OpenLanes(d) ==
    IF byte_write[d] THEN {2*d + (local_addr[d] % 2)} ELSE Half(d)

DataOut(c, d) ==
    At([c EXCEPT !.rwds_oen = FALSE, !.open = OpenLanes(d), !.dq = "data"], "IDLE", 0)

\* Slip: only the single latency is waited for.
WriteStep_SingleOnly(c, d) ==
    LET s == [Shift(c) EXCEPT !.additional_latency =
                                  IF c.cyc = 5 THEN rwds_in_fal(d) ELSE @]
    IN  IF SingleLatencyOver(c, d) THEN DataOut(s, d) ELSE s

WriteStep(c, d) ==
    LET s == [Shift(c) EXCEPT !.additional_latency =
                                  IF c.cyc = 5 THEN rwds_in_fal(d) ELSE @]
    IN  IF SingleLatencyOver(c, d) \/ c.cyc = 2 + 2 * LATENCY THEN DataOut(s, d) ELSE s

Stepped(c, d) ==
    CASE c.st = "INIT"   -> InitStep(c)
      [] c.st = "CONFIG" -> ConfigStep(c)
      [] c.st = "IDLE"   -> IdleStep(c, d)
      [] c.st = "READ"   -> ReadStep(c, d)
      [] c.st = "WRITE"  -> WriteStep(c, d)

CtrlNext(d) ==
    LET s == Stepped(ctrl[d], d)
    IN  IF sys_resetn THEN s
        ELSE At(Deselect(Forget(s, d)), "INIT", 0)

\* Slip: a reset does not start the count again.
InitDelay_Kept ==
    /\ rst_done_p1' = rst_done
    /\ cfg_now' = (rst_done /\ ~rst_done_p1)
    /\ rst_cnt' = IF rst_cnt = InitTime THEN rst_cnt ELSE rst_cnt + 1
    /\ rst_done' = (sys_resetn /\ rst_cnt = InitTime)

\* The 160 us delay and the cfg_now pulse behind it; one for both dies, whose
\* counters have the same inputs.
InitDelay ==
    /\ rst_done_p1' = rst_done
    /\ cfg_now' = (rst_done /\ ~rst_done_p1)
    /\ rst_cnt' = IF ~sys_resetn THEN 0
                  ELSE IF rst_cnt = InitTime THEN rst_cnt ELSE rst_cnt + 1
    /\ rst_done' = (sys_resetn /\ rst_cnt = InitTime)
-----------------------------------------------------------------------------
(* The dies, external: O_psram_reset_n is sys_resetn. *)

FirstClock(d) == sys_resetn /\ ~ctrl[d].cs_n /\ ctrl[d].ck_e /\ dev[d].clocks = 0

MaxClocks == 24   \* bound on what a die counts; no command lasts so long

Deselected(cfgd) ==
    [clocks |-> 0, op |-> "none", word |-> 0, lat |-> 1, configured |-> cfgd]

\* What the first clocks of a command carry.
Decoded(c) ==
    IF c.dq_oen THEN "undriven"
    ELSE CASE c.dq = "cfg" -> "config"
           [] c.dq = "ca"  -> IF c.rd THEN "read" ELSE "write"
           [] OTHER        -> "undriven"

DevNext(d, lat) ==
    LET c == ctrl[d]  v == dev[d]
    IN  IF ~sys_resetn THEN Deselected(FALSE)
        ELSE IF c.cs_n
        THEN Deselected(v.configured \/ (v.op = "config" /\ v.clocks = 4))
        ELSE IF ~c.ck_e THEN v
        ELSE IF v.clocks = 0
        THEN [clocks |-> 1, op |-> Decoded(c), word |-> c.word, lat |-> lat,
              configured |-> v.configured]
        ELSE [v EXCEPT !.clocks = IF @ = MaxClocks THEN @ ELSE @ + 1]

\* The latencies the dies may choose at this edge.
LatencyChoices ==
    {f \in [Die -> 1..2] : \A d \in Die : FirstClock(d) \/ f[d] = dev[d].lat}

\* Clocks past the one with the first word, in the cycle now on the pins.
BurstPos(d) == dev[d].clocks + 1 - WriteLatency(dev[d].lat)

\* Die d stores the pins' byte into lane l of word w at this edge.
Stores(d, w, l) ==
    /\ ~ctrl[d].cs_n /\ ctrl[d].ck_e
    /\ dev[d].op = "write" /\ BurstPos(d) >= 0
    /\ w = Burst(dev[d].word, BurstPos(d))
    /\ ctrl[d].rwds_oen \/ l \in ctrl[d].open   \* a floating mask masks nothing

PinByte(d, l) == IF ctrl[d].dq = "data" THEN ctrl[d].w_din[l] ELSE Zero

\* A reset at the clock of a store may leave either byte.
MemAfter(done) ==
    [w \in Words |-> [l \in Lanes |->
        IF Stores(l \div 2, w, l) /\ done[l \div 2] THEN PinByte(l \div 2, l)
        ELSE mem[w][l]]]

StoreOutcomes ==
    IF sys_resetn THEN {[d \in Die |-> TRUE]} ELSE [Die -> BOOLEAN]

DiesNext ==
    /\ \E lat \in LatencyChoices : dev' = [d \in Die |-> DevNext(d, lat[d])]
    /\ \E done \in StoreOutcomes : mem' = MemAfter(done)
-----------------------------------------------------------------------------
\* After the first edge under reset.  No reset value is given for the output
\* enables, so both their values are possible.
PsramInit ==
    /\ rst_cnt = 0 /\ rst_done = FALSE /\ rst_done_p1 = FALSE /\ cfg_now = FALSE
    /\ \E dq_en, rwds_en \in BOOLEAN :
         ctrl = [d \in Die |->
            [st |-> "INIT", cyc |-> 0, cs_n |-> TRUE, ck_e |-> FALSE,
             dq |-> "zero", rd |-> FALSE, word |-> 0, dq_oen |-> dq_en,
             rwds_oen |-> rwds_en, open |-> {}, wait |-> FALSE,
             additional_latency |-> FALSE,
             w_din |-> Zeros(d), dout |-> Zeros(d)]]
    /\ dev = [d \in Die |-> Deselected(FALSE)]
    /\ mem \in PowerUp

PsramEdge ==
    /\ ctrl' = [d \in Die |-> CtrlNext(d)]
    /\ InitDelay
    /\ DiesNext
=============================================================================
