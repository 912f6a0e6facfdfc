-------------------------------- MODULE Psram --------------------------------
(***************************************************************************)
(* The main memory of the SoC: the wrapper PicoMem_PSRAM_V2 (src/hw/       *)
(* psram_picomem_v2.v) between the memory port of the PicoRV32 and the two *)
(* HyperRAM controllers, under the reset logic of picotiny.v.  A step is   *)
(* one rising edge of clk: everything clocked moves together, so each      *)
(* action is one branch of the wrapper joined with a step of all the rest. *)
(*                                                                         *)
(* The CPU side is the memory FSM of picorv32.v as a bus slave sees it: it *)
(* holds a request until `ready`, drops it on that edge, and leaves one    *)
(* clock between requests; only the byte strobes of the RISC-V loads and   *)
(* stores occur.                                                           *)
(***************************************************************************)
EXTENDS PsramController

CONSTANTS
    ResetCycles,  \* clocks Reset_Sync holds the reset
    Strobes,      \* the byte strobes the CPU uses
    WData         \* the words the CPU writes

\* Two clocks of reset drain rst_done_p1 and cfg_now.
ASSUME PsramAssumption ==
    /\ ResetCycles \in Nat \ {0, 1}
    /\ Strobes \subseteq SUBSET Lanes
    /\ WData \subseteq [Lanes -> Value] /\ WData # {}

VARIABLES
    reset_cnt,                 \* Reset_Sync
    valid, addr, wstrb,        \* the CPU's request (with wdata)
    state, ready, init_ready,  \* the wrapper
    shadow,                    \* history: memory as the answered writes left it
    uptime                     \* history: clocks since the reset, up to InitTime

cpu     == <<valid, addr, wdata, wstrb>>
command == <<read, write, byte_write, local_addr>>
vars == <<sys_resetn, reset_cnt, cpu, state, ready, init_ready, command,
          psramvars, shadow, uptime>>

NotBusy == \A d \in Die : ~busy(d)

Init ==
    /\ sys_resetn = FALSE /\ reset_cnt = 0
    /\ valid = FALSE /\ addr = 0 /\ wdata \in WData /\ wstrb = {}
    /\ state = "INIT" /\ ready = FALSE /\ init_ready = FALSE
    /\ read = FALSE /\ write = [d \in Die |-> FALSE]
    /\ byte_write = [d \in Die |-> FALSE] /\ local_addr = [d \in Die |-> 0]
    /\ PsramInit
    /\ shadow = mem /\ uptime = 0
-----------------------------------------------------------------------------
(* psram_picomem_v2.v *)

NoCommand == read' = FALSE /\ write' = [d \in Die |-> FALSE]

\* Slip: the reset leaves the FSM where it is, and the request that was dropped
\* is carried out after it.
WReset_Resumes ==
    /\ ~sys_resetn
    /\ ready' = FALSE /\ init_ready' = FALSE /\ NoCommand
    /\ UNCHANGED <<state, byte_write, local_addr>>
    /\ shadow' = mem'

WReset ==
    /\ ~sys_resetn
    /\ state' = "INIT" /\ ready' = FALSE /\ init_ready' = FALSE /\ NoCommand
    /\ UNCHANGED <<byte_write, local_addr>>
    /\ shadow' = mem'

\* The clock of the answer: the FSM stands still, a pending command stays up.
WAck ==
    /\ sys_resetn /\ ready
    /\ ready' = FALSE
    /\ UNCHANGED <<state, init_ready, command, shadow>>

Running(s) == sys_resetn /\ ~ready /\ state = s

WInit ==
    /\ Running("INIT")
    /\ IF NotBusy THEN state' = "IDLE" /\ init_ready' = TRUE
                  ELSE UNCHANGED <<state, init_ready>>
    /\ NoCommand
    /\ UNCHANGED <<ready, byte_write, local_addr, shadow>>

WIdle ==
    /\ Running("IDLE")
    /\ state' = IF ~valid THEN "IDLE" ELSE IF wstrb = {} THEN "READ" ELSE "WRITE"
    /\ NoCommand
    /\ UNCHANGED <<ready, init_ready, byte_write, local_addr, shadow>>

WRead ==
    /\ Running("READ")
    /\ read' = TRUE /\ write' = [d \in Die |-> FALSE]
    /\ local_addr' = [d \in Die |-> 2 * addr]
    /\ state' = "READ_W"
    /\ UNCHANGED <<ready, init_ready, byte_write, shadow>>

\* Slip: the cycle in which the dies have not yet seen `read` is not waited for.
WReadW_Hasty ==
    /\ Running("READ_W")
    /\ IF NotBusy THEN state' = "IDLE" /\ ready' = TRUE
                  ELSE UNCHANGED <<state, ready>>
    /\ NoCommand
    /\ UNCHANGED <<init_ready, byte_write, local_addr, shadow>>

WReadW ==
    /\ Running("READ_W")
    /\ IF ~read /\ NotBusy THEN state' = "IDLE" /\ ready' = TRUE
                           ELSE UNCHANGED <<state, ready>>
    /\ NoCommand
    /\ UNCHANGED <<init_ready, byte_write, local_addr, shadow>>

\* The word with the bytes the strobes name replaced.
Merge(old, new, strb) == [l \in Lanes |-> IF l \in strb THEN new[l] ELSE old[l]]

\* Slip: the upper byte of a half word is addressed like the lower one.
ByteAddress_Even(d) == 2 * addr

\* A byte write is addressed by the last bit of local_addr.
ByteAddress(d) == IF wstrb \cap Half(d) # Half(d) /\ 2*d + 1 \in wstrb
                  THEN 2 * addr + 1 ELSE 2 * addr

WWrite ==
    /\ Running("WRITE")
    /\ read' = FALSE
    /\ write' = [d \in Die |-> wstrb \cap Half(d) # {}]
    /\ byte_write' = [d \in Die |-> wstrb \cap Half(d) # Half(d)]
    /\ local_addr' = [d \in Die |-> ByteAddress(d)]
    /\ ready' = TRUE /\ state' = "WRITE_W"
    /\ shadow' = [shadow EXCEPT ![addr] = Merge(@, wdata, wstrb)]
    /\ UNCHANGED init_ready

\* Slip: the next request is taken while a write is under way.
WWriteW_NoWait ==
    /\ Running("WRITE_W")
    /\ state' = "IDLE"
    /\ NoCommand
    /\ UNCHANGED <<ready, init_ready, byte_write, local_addr, shadow>>

WWriteW ==
    /\ Running("WRITE_W")
    /\ state' = IF write = [d \in Die |-> FALSE] /\ NotBusy THEN "IDLE" ELSE "WRITE_W"
    /\ NoCommand
    /\ UNCHANGED <<ready, init_ready, byte_write, local_addr, shadow>>
-----------------------------------------------------------------------------
(* The environment: the CPU's memory port and the reset. *)

CpuHeld == ~(sys_resetn /\ init_ready)

CpuEdge ==
    \/ /\ CpuHeld \/ (valid /\ ready)
       /\ valid' = FALSE /\ UNCHANGED <<addr, wdata, wstrb>>
    \/ /\ ~CpuHeld /\ ~(valid /\ ready)
       /\ UNCHANGED cpu
    \/ /\ ~CpuHeld /\ ~valid
       /\ valid' = TRUE
       /\ addr' \in Words /\ wstrb' \in Strobes
       /\ IF wstrb' = {} THEN wdata' = wdata ELSE wdata' \in WData

\* Reset_Sync: the button or a lost PLL lock clears the counter at any time.
ResetSync ==
    \/ /\ reset_cnt' = IF sys_resetn THEN reset_cnt ELSE reset_cnt + 1
       /\ sys_resetn' = (reset_cnt' = ResetCycles)
    \/ reset_cnt' = 0 /\ sys_resetn' = FALSE

Wrapper == WReset \/ WAck \/ WInit \/ WIdle \/ WRead \/ WReadW \/ WWrite \/ WWriteW

Next ==
    /\ PsramEdge
    /\ ResetSync
    /\ CpuEdge
    /\ Wrapper
    /\ uptime' = IF ~sys_resetn THEN 0
                 ELSE IF uptime = InitTime THEN uptime ELSE uptime + 1

Spec == Init /\ [][Next]_vars

\* clk is a free-running oscillator: the edges keep coming, also where no reset
\* and no new request keeps things moving.
Pending == valid \/ ~init_ready \/ state # "IDLE"

FairSpec == Spec /\ WF_vars(Next /\ Pending /\ (sys_resetn => sys_resetn'))
-----------------------------------------------------------------------------
CtrlRegs(d) ==
    [st : {"INIT", "CONFIG", "IDLE", "READ", "WRITE"}, cyc : 0..24,
     cs_n : BOOLEAN, ck_e : BOOLEAN, dq : {"zero", "cfg", "ca", "data"},
     rd : BOOLEAN, word : Words, dq_oen : BOOLEAN, rwds_oen : BOOLEAN,
     open : SUBSET Half(d), wait : BOOLEAN, additional_latency : BOOLEAN,
     w_din : HalfWord(d), dout : HalfWord(d)]

DieRegs ==
    [clocks : 0..MaxClocks, op : {"none", "config", "read", "write", "undriven"},
     word : Words, lat : 1..2, configured : BOOLEAN]

\* Every variable keeps its type.
TypeOK ==
    /\ sys_resetn \in BOOLEAN /\ reset_cnt \in 0..ResetCycles
    /\ valid \in BOOLEAN /\ addr \in Words /\ wstrb \in SUBSET Lanes
    /\ wdata \in [Lanes -> Value]
    /\ state \in {"INIT", "IDLE", "READ", "READ_W", "WRITE", "WRITE_W"}
    /\ ready \in BOOLEAN /\ init_ready \in BOOLEAN
    /\ read \in BOOLEAN /\ write \in [Die -> BOOLEAN] /\ byte_write \in [Die -> BOOLEAN]
    /\ local_addr \in [Die -> 0..2*NumWords-1]
    /\ rst_cnt \in 0..InitTime /\ uptime \in 0..InitTime
    /\ rst_done \in BOOLEAN /\ rst_done_p1 \in BOOLEAN /\ cfg_now \in BOOLEAN
    /\ DOMAIN ctrl = Die /\ \A d \in Die : ctrl[d] \in CtrlRegs(d)
    /\ dev \in [Die -> DieRegs]
    /\ mem \in [Words -> [Lanes -> Value]]
    /\ shadow \in [Words -> [Lanes -> Value]]

\* psram_picomem_v2.v as the bus sees it: each request is answered once, a
\* read with the word the answered writes left; `shadow` is what they left, the
\* dies catch up with it before the next write is taken, and a reset loses or
\* leaves half done the one write under way and nothing else.
Memory == INSTANCE WordMemory
          WITH resetn <- sys_resetn, Addr <- Words, mem <- shadow, array <- mem,
               rdata <- [l \in Lanes |-> ctrl[l \div 2].dout[l]]
ImplementsMemory == Memory!Spec

\* Once the wrapper is idle and CS# is high again, the write it acknowledged
\* early (psram_picomem_v2.v:109) is in the die, byte for byte, and nothing
\* beside it was touched.
WritesLanded ==
    \A d \in Die : state = "IDLE" /\ ctrl[d].cs_n =>
        \A w \in Words : \A l \in Half(d) : mem[w][l] = shadow[w][l]

\* psram_controller.v:109-138: the data of a write is on the pins, with the
\* mask, in exactly the clock in which the die takes its first word, and CK
\* stops before a second.  A die drives DQ from the clock that carries its
\* first word, and RWDS from CS# on, throughout a read and up to the third
\* clock of a write: never against the controller.  (RWDS in the configuration
\* command is not covered: rwds_oen has no reset value, psram_controller.v:92.)
PinsInTime ==
    \A d \in Die : ~ctrl[d].cs_n =>
        /\ dev[d].op = "write" /\ ctrl[d].ck_e =>
              /\ BurstPos(d) <= 0
              /\ BurstPos(d) = 0 <=> ctrl[d].dq = "data"
              /\ BurstPos(d) = 0 => ~ctrl[d].dq_oen /\ ~ctrl[d].rwds_oen
        /\ dev[d].op = "read" /\ BurstPos(d) >= 0 => ctrl[d].dq_oen
        /\ dev[d].op = "read" => ctrl[d].rwds_oen
        /\ dev[d].op = "write" /\ dev[d].clocks <= 3 => ctrl[d].rwds_oen

\* O_psram_reset_n takes a die's configuration away with the controller's
\* state: no access reaches a die that was not configured since (a die with the
\* latency of its own reset would store the data elsewhere), and no clock finds
\* the command bytes missing.
ConfiguredFirst ==
    \A d \in Die : /\ dev[d].op \in {"read", "write"} => dev[d].configured
                   /\ dev[d].op # "undriven"

\* psram_controller.v:91-107 would start an access with CS# still low in the
\* clock after a write; the wrapper's WRITE_W is what keeps the clock with CS#
\* high that ends a command.
CsHighBetween ==
    [][\A d \in Die : ctrl[d].st = "IDLE" /\ ctrl'[d].st \in {"READ", "WRITE"}
          => ctrl[d].cs_n]_vars

\* psram_controller.v:148-174: the configuration command is sent 160 us after
\* the reset at the earliest, wherever the reset hit, and once.
ConfigAfterDelay ==
    [][\A d \in Die : ctrl'[d].st = "CONFIG" /\ ctrl[d].st # "CONFIG"
          => uptime = InitTime /\ ~dev[d].configured]_vars

\* The CPU leaves its reset, and whatever the latency the dies choose it gets
\* its answer.
Answered == /\ sys_resetn ~> (init_ready \/ ~sys_resetn)
            /\ valid ~> (ready \/ ~sys_resetn)
=============================================================================
