---------------------------- MODULE PsramProofs ----------------------------
(***************************************************************************)
(* Theorems about Psram for every latency, memory size, delay and byte     *)
(* value: types, the order of commands to the dies, and what they hold.    *)
(*                                                                         *)
(* The register file of a controller is a record updated by small          *)
(* operators; each has a lemma here that says it keeps the type, and the   *)
(* lemma of an FSM state strings them together.                            *)
(*                                                                         *)
(* Then the order: the configuration comes first and 160 us after the      *)
(* reset, no access reaches a die that lost it, and CS# is high between    *)
(* two commands.  None of this is in one place of the code.  It takes the  *)
(* reset counter, the delay behind it, the wrapper's states and the        *)
(* controllers' states, and the argument is an invariant over all of them. *)
(*                                                                         *)
(* And, on top of the order, the contents: the PSRAM is a memory.          *)
(***************************************************************************)
EXTENDS Psram, TLAPS

\* The halves are lanes of the word, and a lane is in the half of its die.
LEMMA HalfLanes ==
    /\ \A d \in Die : \A l \in Half(d) : l \in Lanes
    /\ \A l \in Lanes : l \div 2 \in Die /\ l \in Half(l \div 2)
BY DEF Die, Half, Lanes

\* The memory has a word 0, the one an emptied register is put to.
LEMMA ZeroWord == 0 \in Words
BY ControllerAssumption DEF Words

\* The shifts at the top of the FSM (psram_controller.v:68-70) keep the registers typed.
LEMMA ShiftType ==
    ASSUME NEW d \in Die, NEW c \in CtrlRegs(d)
    PROVE  Shift(c) \in CtrlRegs(d)
<1> DEFINE n == IF c.cyc = 24 THEN c.cyc ELSE c.cyc + 1
           s == [c EXCEPT !.cyc = n]
<1>1. n \in 0..24
  BY DEF CtrlRegs
<1> HIDE DEF n
<1>2. s \in CtrlRegs(d)
  BY <1>1 DEF CtrlRegs
<1> HIDE DEF s
<1>3. Emptied(s) \in CtrlRegs(d)
  BY <1>2, ZeroWord DEF Emptied, CtrlRegs
<1> QED
  BY <1>2, <1>3 DEF Shift, s, n

\* So does a jump to a state with cycles_sr set anew.
LEMMA AtType ==
    ASSUME NEW d \in Die, NEW c \in CtrlRegs(d), NEW n \in 0..24,
           NEW st \in {"INIT", "CONFIG", "IDLE", "READ", "WRITE"}
    PROVE  At(c, st, n) \in CtrlRegs(d)
BY DEF At, CtrlRegs

\* So do the assignments to the pins and output enables.
LEMMA PinsType ==
    ASSUME NEW d \in Die, NEW c \in CtrlRegs(d)
    PROVE  /\ Select(c) \in CtrlRegs(d)
           /\ Deselect(c) \in CtrlRegs(d)
           /\ ReleaseRwds(c) \in CtrlRegs(d)
<1>1. Select(c) \in CtrlRegs(d)
  BY DEF Select, CtrlRegs
<1>2. Deselect(c) \in CtrlRegs(d)
  BY DEF Deselect, CtrlRegs
<1>3. ReleaseRwds(c) \in CtrlRegs(d)
  BY DEF ReleaseRwds, CtrlRegs
<1> QED
  BY <1>1, <1>2, <1>3

\* So does clearing the registers an operation sets before it reads them.
LEMMA ForgetType ==
    ASSUME NEW d \in Die, NEW c \in CtrlRegs(d)
    PROVE  Forget(c, d) \in CtrlRegs(d)
<1> DEFINE z == Zeros(d)
<1>1. z \in HalfWord(d)
  BY ControllerAssumption DEF Zeros, HalfWord
<1> HIDE DEF z
<1>2. [c EXCEPT !.wait = FALSE, !.additional_latency = FALSE, !.w_din = z] \in CtrlRegs(d)
  BY <1>1 DEF CtrlRegs
<1> QED
  BY <1>2 DEF Forget, z

\* INIT_ST (psram_controller.v:72-76) keeps the registers typed.
LEMMA InitStepType ==
    ASSUME NEW d \in Die, NEW c \in CtrlRegs(d)
    PROVE  InitStep(c) \in CtrlRegs(d)
<1> DEFINE s == At(Shift(c), "INIT", 0)
<1>1. s \in CtrlRegs(d)
  BY ShiftType, AtType
<1> HIDE DEF s
<1>2. [s EXCEPT !.st = "CONFIG", !.cs_n = FALSE] \in CtrlRegs(d)
  BY <1>1 DEF CtrlRegs
<1> QED
  BY <1>1, <1>2 DEF InitStep, s

\* So does CONFIG_ST (psram_controller.v:77-90).
LEMMA ConfigStepType ==
    ASSUME NEW d \in Die, NEW c \in CtrlRegs(d)
    PROVE  ConfigStep(c) \in CtrlRegs(d)
<1> DEFINE s == Shift(c)
           t == [s EXCEPT !.dq_oen = TRUE]
<1>1. s \in CtrlRegs(d)
  BY ShiftType
<1> HIDE DEF s
<1>2. [s EXCEPT !.dq = "cfg", !.dq_oen = FALSE, !.ck_e = TRUE] \in CtrlRegs(d)
  BY <1>1 DEF CtrlRegs
<1>3. t \in CtrlRegs(d)
  BY <1>1 DEF CtrlRegs
<1> HIDE DEF t
<1>4. At(Deselect(t), "IDLE", 0) \in CtrlRegs(d)
  BY <1>3, PinsType, AtType
<1>5. CASE c.cyc = 0
  BY <1>2, <1>5 DEF ConfigStep, s
<1>6. CASE c.cyc = 4
  BY <1>4, <1>6 DEF ConfigStep, s, t
<1>7. CASE c.cyc # 0 /\ c.cyc # 4
  BY <1>1, <1>7 DEF ConfigStep, s
<1> QED
  BY <1>5, <1>6, <1>7

\* The start of an access loads an address inside the memory.
LEMMA StartType ==
    ASSUME NEW d \in Die, NEW c \in CtrlRegs(d), TypeOK
    PROVE  Start(c, d) \in CtrlRegs(d)
<1> DEFINE n == [l \in Half(d) |-> wdata[l]]
           w == local_addr[d] \div 2
           r == ~write[d]
           a == LoadCA(c, d)
           s == [a EXCEPT !.w_din = n]
<1>1. n \in HalfWord(d)
  BY HalfLanes DEF TypeOK, HalfWord
<1>2. w \in Words
  BY ControllerAssumption DEF TypeOK, Words
<1>3. r \in BOOLEAN
  OBVIOUS
<1> HIDE DEF n, w, r
<1>4. [c EXCEPT !.dq = "ca", !.rd = r, !.word = w] \in CtrlRegs(d)
  BY <1>2, <1>3 DEF CtrlRegs
<1>5. a \in CtrlRegs(d)
  BY <1>4 DEF LoadCA, r, w
<1> HIDE DEF a
<1>6. s \in CtrlRegs(d)
  BY <1>1, <1>5 DEF CtrlRegs
<1> HIDE DEF s
<1>7. Select(s) \in CtrlRegs(d)
  BY <1>6, PinsType
<1>8. At(Select(s), IF write[d] THEN "WRITE" ELSE "READ", 1) \in CtrlRegs(d)
  BY <1>7, AtType
<1> QED
  BY <1>8 DEF Start, s, a, n

\* IDLE_ST (psram_controller.v:91-107) keeps the registers typed.
LEMMA IdleStepType ==
    ASSUME NEW d \in Die, NEW c \in CtrlRegs(d), TypeOK
    PROVE  IdleStep(c, d) \in CtrlRegs(d)
<1> DEFINE s == Forget(ReleaseRwds(Deselect(At(Shift(c), "IDLE", 0))), d)
<1>1. s \in CtrlRegs(d)
  BY ShiftType, AtType, PinsType, ForgetType
<1> HIDE DEF s
<1> QED
  BY <1>1, StartType DEF IdleStep, s

\* A burst stays in the memory.
LEMMA BurstWords ==
    ASSUME NEW w \in Words, NEW n \in Int
    PROVE  Burst(w, n) \in Words
BY ControllerAssumption DEF Burst, Words

\* So does READ_ST (psram_controller.v:109-122), whatever the dies hold.
LEMMA ReadStepType ==
    ASSUME NEW d \in Die, NEW c \in CtrlRegs(d), TypeOK
    PROVE  ReadStep(c, d) \in CtrlRegs(d)
<1> DEFINE a == Shift(c)
           s == [a EXCEPT !.dq_oen = IF c.cyc = 3 THEN TRUE ELSE @,
                          !.wait = IF c.cyc = 9 THEN TRUE ELSE @]
           q == dq_in(d)
           f == Forget(s, d)
           t == [f EXCEPT !.dout = q]
<1>1. a \in CtrlRegs(d)
  BY ShiftType
<1> HIDE DEF a
<1>2. s \in CtrlRegs(d)
  BY <1>1 DEF CtrlRegs
<1>3. f \in CtrlRegs(d)
  BY <1>2, ForgetType
<1>4. q \in HalfWord(d)
  <2> DEFINE n == ctrl[d].cyc - FirstRead(d)
  <2>1. dev[d].word \in Words /\ dev[d].lat \in 1..2
    BY DEF TypeOK, DieRegs
  <2>2. ctrl[d].cyc \in 0..24
    BY DEF TypeOK, CtrlRegs
  <2>3. LATENCY * dev[d].lat \in Int
    BY <2>1, ControllerAssumption
  <2>4. n \in Int
    <3> DEFINE p == LATENCY * dev[d].lat
               k == ctrl[d].cyc
    <3>1. p \in Int /\ k \in Int /\ IoDelay \in Int
      BY <2>2, <2>3, ControllerAssumption, SMTT(40)
    <3> HIDE DEF p, k
    <3>2. k - (3 + p + IoDelay) \in Int
      BY <3>1
    <3>3. FirstRead(d) = 3 + p + IoDelay
      BY DEF FirstRead, WriteLatency, p
    <3> QED
      BY <3>2, <3>3 DEF k
  <2>5. Burst(dev[d].word, n) \in Words
    BY <2>1, <2>4, BurstWords
  <2> QED
    BY <2>5, HalfLanes DEF dq_in, TypeOK, HalfWord
<1> HIDE DEF f, q
<1>5. t \in CtrlRegs(d)
  BY <1>3, <1>4 DEF CtrlRegs
<1> HIDE DEF t
<1>6. At(Deselect(t), "IDLE", 0) \in CtrlRegs(d)
  BY <1>5, PinsType, AtType
<1>7. Capture(s, d) \in CtrlRegs(d)
  BY <1>6 DEF Capture, t, f, q
<1> HIDE DEF s
<1> QED
  BY <1>2, <1>7 DEF ReadStep, s, a

\* So does WRITE_ST (psram_controller.v:124-138), in both latencies.
LEMMA WriteStepType ==
    ASSUME NEW d \in Die, NEW c \in CtrlRegs(d), TypeOK
    PROVE  WriteStep(c, d) \in CtrlRegs(d)
<1> DEFINE a == Shift(c)
           b == rwds_in_fal(d)
           s == [a EXCEPT !.additional_latency = IF c.cyc = 5 THEN b ELSE @]
           o == OpenLanes(d)
           t == [s EXCEPT !.rwds_oen = FALSE, !.open = o, !.dq = "data"]
<1>1. a \in CtrlRegs(d)
  BY ShiftType
<1>2. b \in BOOLEAN
  BY DEF rwds_in_fal
<1> HIDE DEF a, b
<1>3. s \in CtrlRegs(d)
  BY <1>1, <1>2 DEF CtrlRegs
<1>4. o \in SUBSET Half(d)
  <2> DEFINE la == local_addr[d]
             m == la % 2
  <2>0. la \in 0..2*NumWords-1
    BY DEF TypeOK
  <2> HIDE DEF la
  <2>1. m \in {0, 1}
    BY <2>0, ControllerAssumption
  <2> HIDE DEF m
  <2>2. {2*d + m} \subseteq Half(d)
    BY <2>1 DEF Half, Die
  <2>3. o = IF byte_write[d] THEN {2*d + m} ELSE Half(d)
    BY Zenon DEF OpenLanes, m, la
  <2> QED
    BY <2>2, <2>3
<1> HIDE DEF s, o
<1>5. t \in CtrlRegs(d)
  BY <1>3, <1>4 DEF CtrlRegs
<1> HIDE DEF t
<1>6. DataOut(s, d) \in CtrlRegs(d)
  BY <1>5, AtType DEF DataOut, t, o
<1> QED
  BY <1>3, <1>6 DEF WriteStep, s, a, b

\* A clock edge with or without reset keeps a controller typed.
LEMMA CtrlNextType ==
    ASSUME TypeOK, NEW d \in Die
    PROVE  CtrlNext(d) \in CtrlRegs(d)
<1> DEFINE c == ctrl[d]
           s == Stepped(c, d)
<1>1. c \in CtrlRegs(d)
  BY DEF TypeOK
<1>2. c.st \in {"INIT", "CONFIG", "IDLE", "READ", "WRITE"}
  BY <1>1 DEF CtrlRegs
<1> HIDE DEF c
<1>3. s \in CtrlRegs(d)
  BY <1>1, <1>2, InitStepType, ConfigStepType, IdleStepType, ReadStepType, WriteStepType
     DEF Stepped
<1> HIDE DEF s
<1>4. At(Deselect(Forget(s, d)), "INIT", 0) \in CtrlRegs(d)
  BY <1>3, ForgetType, PinsType, AtType
<1> QED
  BY <1>3, <1>4 DEF CtrlNext, s, c

\* What an edge does to a die's decoder keeps its type, whatever the latency.
LEMMA DevNextType ==
    ASSUME TypeOK, NEW d \in Die, NEW lat \in 1..2
    PROVE  DevNext(d, lat) \in DieRegs
<1> DEFINE v == dev[d]
           c == ctrl[d]
           op == Decoded(c)
           w == c.word
           up == IF v.clocks = MaxClocks THEN v.clocks ELSE v.clocks + 1
<1>1. v \in DieRegs
  BY DEF TypeOK
<1>2. \A b \in BOOLEAN : Deselected(b) \in DieRegs
  BY ZeroWord DEF Deselected, DieRegs, MaxClocks
<1>3. op \in {"config", "read", "write", "undriven"}
  BY DEF Decoded
<1>4. w \in Words
  BY DEF TypeOK, CtrlRegs
<1>5. (v.configured \/ (v.op = "config" /\ v.clocks = 4)) \in BOOLEAN
  OBVIOUS
<1>6. up \in 0..MaxClocks
  BY <1>1 DEF DieRegs, MaxClocks
<1> HIDE DEF v, op, w, up
<1>8. [clocks |-> 1, op |-> op, word |-> w, lat |-> lat, configured |-> v.configured]
         \in DieRegs
  BY <1>1, <1>3, <1>4 DEF DieRegs, MaxClocks
<1>9. [v EXCEPT !.clocks = up] \in DieRegs
  BY <1>1, <1>6 DEF DieRegs
<1> QED
  BY <1>1, <1>2, <1>5, <1>8, <1>9 DEF DevNext, v, op, w, up

\* What the dies store afterwards is a memory.
LEMMA MemAfterType ==
    ASSUME TypeOK, NEW done \in [Die -> BOOLEAN]
    PROVE  MemAfter(done) \in [Words -> [Lanes -> Value]]
<1> SUFFICES ASSUME NEW w \in Words, NEW l \in Lanes
             PROVE  (IF Stores(l \div 2, w, l) /\ done[l \div 2]
                     THEN PinByte(l \div 2, l) ELSE mem[w][l]) \in Value
  BY DEF MemAfter
<1> DEFINE d == l \div 2
<1>1. d \in Die /\ l \in Half(d)
  BY HalfLanes
<1> HIDE DEF d
<1>2. ctrl[d].w_din \in HalfWord(d)
  BY <1>1 DEF TypeOK, CtrlRegs
<1>3. PinByte(d, l) \in Value
  BY <1>1, <1>2, ControllerAssumption DEF PinByte, HalfWord
<1>4. mem[w][l] \in Value
  BY DEF TypeOK
<1> QED
  BY <1>3, <1>4 DEF d
-----------------------------------------------------------------------------
\* Reset_Sync holds the reset while its counter runs.
ResetInv == sys_resetn <=> reset_cnt = ResetCycles

IInv == TypeOK /\ ResetInv

\* The state after the first edge under reset satisfies the invariant.
LEMMA InitIInv == Init => IInv
<1> SUFFICES ASSUME Init PROVE IInv
  OBVIOUS
<1>1. ResetInv /\ reset_cnt \in 0..ResetCycles
  BY PsramAssumption DEF Init, ResetInv
<1>2. mem \in [Words -> [Lanes -> Value]] /\ shadow = mem
  BY ControllerAssumption DEF Init, PsramInit, Words, Lanes
<1>3. \A d \in Die : Zeros(d) \in HalfWord(d)
  BY ControllerAssumption DEF Zeros, HalfWord
<1>4. DOMAIN ctrl = Die /\ \A d \in Die : ctrl[d] \in CtrlRegs(d)
  BY <1>3, ZeroWord DEF Init, PsramInit, CtrlRegs
<1>5. dev \in [Die -> DieRegs]
  BY ZeroWord DEF Init, PsramInit, Deselected, DieRegs, MaxClocks
<1>6. wdata \in [Lanes -> Value] /\ addr \in Words /\ wstrb \in SUBSET Lanes
  BY PsramAssumption, ZeroWord DEF Init
<1>7. /\ write \in [Die -> BOOLEAN] /\ byte_write \in [Die -> BOOLEAN]
      /\ local_addr \in [Die -> 0..2*NumWords-1]
  BY ControllerAssumption DEF Init
<1>8. /\ rst_cnt \in 0..InitTime /\ uptime \in 0..InitTime
      /\ rst_done \in BOOLEAN /\ rst_done_p1 \in BOOLEAN /\ cfg_now \in BOOLEAN
  <2>1. rst_cnt = 0 /\ uptime = 0 /\ ~rst_done /\ ~rst_done_p1 /\ ~cfg_now
    BY Zenon DEF Init, PsramInit
  <2>2. 0 \in 0..InitTime
    BY ControllerAssumption
  <2>3. rst_done = FALSE /\ rst_done_p1 = FALSE /\ cfg_now = FALSE
    BY Zenon DEF Init, PsramInit
  <2> QED
    BY <2>1, <2>2, <2>3, Zenon
<1>9. /\ sys_resetn \in BOOLEAN /\ valid \in BOOLEAN /\ ready \in BOOLEAN
      /\ init_ready \in BOOLEAN /\ read \in BOOLEAN /\ state = "INIT"
  BY DEF Init
<1> QED
  BY <1>1, <1>2, <1>4, <1>5, <1>6, <1>7, <1>8, <1>9 DEF IInv, TypeOK

\* A clock edge keeps controllers, delay counter and dies typed.
LEMMA PsramEdgeType ==
    ASSUME TypeOK, PsramEdge
    PROVE  /\ DOMAIN ctrl' = Die /\ \A d \in Die : ctrl'[d] \in CtrlRegs(d)
           /\ dev' \in [Die -> DieRegs]
           /\ mem' \in [Words -> [Lanes -> Value]]
           /\ rst_cnt' \in 0..InitTime
           /\ rst_done' \in BOOLEAN /\ rst_done_p1' \in BOOLEAN /\ cfg_now' \in BOOLEAN
<1>1. DOMAIN ctrl' = Die /\ \A d \in Die : ctrl'[d] \in CtrlRegs(d)
  BY CtrlNextType DEF PsramEdge
<1>2. dev' \in [Die -> DieRegs]
  <2>1. PICK lat \in LatencyChoices : dev' = [d \in Die |-> DevNext(d, lat[d])]
    BY DEF PsramEdge, DiesNext
  <2>2. \A d \in Die : lat[d] \in 1..2
    BY DEF LatencyChoices
  <2> QED
    BY <2>1, <2>2, DevNextType
<1>3. mem' \in [Words -> [Lanes -> Value]]
  <2>1. PICK done \in StoreOutcomes : mem' = MemAfter(done)
    BY DEF PsramEdge, DiesNext
  <2>2. done \in [Die -> BOOLEAN]
    BY DEF StoreOutcomes
  <2> QED
    BY <2>1, <2>2, MemAfterType
<1>4. rst_cnt' \in 0..InitTime
  BY ControllerAssumption DEF PsramEdge, InitDelay, TypeOK
<1>5. rst_done' \in BOOLEAN /\ rst_done_p1' \in BOOLEAN /\ cfg_now' \in BOOLEAN
  BY Zenon DEF PsramEdge, InitDelay, TypeOK
<1> QED
  BY <1>1, <1>2, <1>3, <1>4, <1>5

\* Reset_Sync stops counting at its last value.
LEMMA ResetSyncType ==
    ASSUME IInv, ResetSync
    PROVE  ResetInv' /\ sys_resetn' \in BOOLEAN /\ reset_cnt' \in 0..ResetCycles
<1>1. CASE reset_cnt' = 0 /\ sys_resetn' = FALSE
  <2>1. reset_cnt' \in 0..ResetCycles /\ reset_cnt' # ResetCycles
    BY <1>1, PsramAssumption
  <2> QED
    BY <1>1, <2>1, Zenon DEF ResetInv
<1>2. CASE /\ reset_cnt' = IF sys_resetn THEN reset_cnt ELSE reset_cnt + 1
           /\ sys_resetn' = (reset_cnt' = ResetCycles)
  <2>1. reset_cnt' \in 0..ResetCycles
    BY <1>2, PsramAssumption DEF IInv, ResetInv, TypeOK
  <2>2. sys_resetn' = (reset_cnt' = ResetCycles)
    BY <1>2
  <2> QED
    BY <2>1, <2>2, Zenon DEF ResetInv
<1> QED
  BY <1>1, <1>2 DEF ResetSync

\* The CPU port keeps its type.
LEMMA CpuEdgeType ==
    ASSUME TypeOK, CpuEdge
    PROVE  /\ valid' \in BOOLEAN /\ addr' \in Words /\ wstrb' \in SUBSET Lanes
           /\ wdata' \in [Lanes -> Value]
<1>1. CASE valid' = FALSE /\ UNCHANGED <<addr, wdata, wstrb>>
  BY <1>1 DEF TypeOK
<1>2. CASE UNCHANGED cpu
  BY <1>2 DEF TypeOK, cpu
<1>3. CASE /\ valid' = TRUE /\ addr' \in Words /\ wstrb' \in Strobes
           /\ IF wstrb' = {} THEN wdata' = wdata ELSE wdata' \in WData
  BY <1>3, PsramAssumption DEF TypeOK
<1> QED
  BY <1>1, <1>2, <1>3 DEF CpuEdge

\* The wrapper's registers and the history of the memory.
WrapperType ==
    /\ state \in {"INIT", "IDLE", "READ", "READ_W", "WRITE", "WRITE_W"}
    /\ ready \in BOOLEAN /\ init_ready \in BOOLEAN
    /\ read \in BOOLEAN /\ write \in [Die -> BOOLEAN] /\ byte_write \in [Die -> BOOLEAN]
    /\ local_addr \in [Die -> 0..2*NumWords-1]
    /\ shadow \in [Words -> [Lanes -> Value]]

\* Each state of the wrapper keeps its registers and the shadow memory typed.
LEMMA WrapperStepType ==
    ASSUME TypeOK, Wrapper, mem' \in [Words -> [Lanes -> Value]]
    PROVE  WrapperType'
<1> USE DEF WrapperType, TypeOK
<1>1. CASE WReset
  BY <1>1 DEF WReset, NoCommand
<1>2. CASE WAck
  BY <1>2 DEF WAck, command
<1>3. CASE WInit
  BY <1>3 DEF WInit, NoCommand
<1>4. CASE WIdle
  BY <1>4 DEF WIdle, NoCommand
<1>5. CASE WRead
  <2>1. 2 * addr \in 0..2*NumWords-1
    BY ControllerAssumption DEF Words
  <2> QED
    BY <1>5, <2>1 DEF WRead
<1>6. CASE WReadW
  BY <1>6 DEF WReadW, NoCommand
<1>7. CASE WWrite
  <2>1. \A d \in Die : ByteAddress(d) \in 0..2*NumWords-1
    BY ControllerAssumption DEF ByteAddress, Words
  <2>2. Merge(shadow[addr], wdata, wstrb) \in [Lanes -> Value]
    BY DEF Merge
  <2>3. shadow' \in [Words -> [Lanes -> Value]]
    BY <1>7, <2>2 DEF WWrite
  <2>4. write' \in [Die -> BOOLEAN] /\ byte_write' \in [Die -> BOOLEAN]
    BY <1>7 DEF WWrite
  <2>5. local_addr' \in [Die -> 0..2*NumWords-1]
    BY <1>7, <2>1 DEF WWrite
  <2> QED
    BY <1>7, <2>3, <2>4, <2>5 DEF WWrite
<1>8. CASE WWriteW
  BY <1>8 DEF WWriteW, NoCommand
<1> QED
  BY <1>1, <1>2, <1>3, <1>4, <1>5, <1>6, <1>7, <1>8 DEF Wrapper

\* The invariant is inductive.
LEMMA StepIInv == IInv /\ [Next]_vars => IInv'
<1> SUFFICES ASSUME IInv, [Next]_vars PROVE IInv'
  OBVIOUS
<1>1. CASE UNCHANGED vars
  BY <1>1 DEF IInv, TypeOK, ResetInv, vars, cpu, command, psramvars, initvars, CtrlRegs
<1>2. CASE Next
  <2> USE <1>2 DEF Next
  <2>1. TypeOK
    BY DEF IInv
  <2>2. /\ DOMAIN ctrl' = Die /\ \A d \in Die : ctrl'[d] \in CtrlRegs(d)
        /\ dev' \in [Die -> DieRegs]
        /\ mem' \in [Words -> [Lanes -> Value]]
        /\ rst_cnt' \in 0..InitTime
        /\ rst_done' \in BOOLEAN /\ rst_done_p1' \in BOOLEAN /\ cfg_now' \in BOOLEAN
    BY <2>1, PsramEdgeType
  <2>3. ResetInv' /\ sys_resetn' \in BOOLEAN /\ reset_cnt' \in 0..ResetCycles
    BY ResetSyncType
  <2>4. /\ valid' \in BOOLEAN /\ addr' \in Words /\ wstrb' \in SUBSET Lanes
        /\ wdata' \in [Lanes -> Value]
    BY <2>1, CpuEdgeType
  <2>5. WrapperType'
    BY <2>1, <2>2, WrapperStepType
  <2>6. uptime' \in 0..InitTime
    BY <2>1, ControllerAssumption DEF TypeOK
  <2>7. \A d \in Die : CtrlRegs(d)' = CtrlRegs(d)
    BY DEF CtrlRegs
  <2> QED
    BY <2>2, <2>3, <2>4, <2>5, <2>6, <2>7 DEF IInv, TypeOK, WrapperType
<1> QED
  BY <1>1, <1>2

\* Type correctness: every register of the wrapper, the controllers, the dies
\* and the reset logic keeps its range; a burst or a byte address never leaves
\* the memory and the reset counter never runs past its last value.
THEOREM TypeCorrect == Spec => []TypeOK
<1>1. IInv => TypeOK
  BY DEF IInv
<1> QED
  BY InitIInv, StepIInv, <1>1, PTL DEF Spec
-----------------------------------------------------------------------------
(* The order of commands to the dies. *)

\* The delay counter runs with the time since the reset; cfg_now is a pulse of
\* its end, and one left over from before a reset is gone when the reset is.
DelayInv ==
    /\ uptime = rst_cnt
    /\ rst_done => rst_cnt = InitTime
    /\ ~sys_resetn /\ reset_cnt > 0 => rst_cnt = 0
    /\ cfg_now /\ sys_resetn => rst_cnt = InitTime

\* What a die knows in each state of its controller: while a configuration
\* command runs the die counts along; an access has its bytes on the pins
\* in the first clock.
DieInv(c, v) ==
    /\ v.op # "undriven" /\ (v.op \in {"read", "write"} => v.configured)
    /\ c.st = "INIT" => c.cs_n /\ ~c.ck_e /\ v.op = "none" /\ ~v.configured
    /\ c.st = "CONFIG" =>
          /\ ~c.cs_n
          /\ \/ c.cyc = 0 /\ ~c.ck_e /\ v.clocks = 0 /\ v.op = "none"
             \/ /\ c.cyc \in 1..4 /\ c.ck_e /\ c.dq = "cfg" /\ ~c.dq_oen
                /\ v.clocks = c.cyc - 1
                /\ v.op = IF c.cyc = 1 THEN "none" ELSE "config"
    /\ c.st = "IDLE" =>
          IF c.cs_n THEN v.configured \/ (v.op = "config" /\ v.clocks = 4)
          ELSE v.configured /\ v.clocks >= 1 /\ v.op \in {"read", "write"}
    /\ c.st \in {"READ", "WRITE"} =>
          /\ ~c.cs_n /\ c.ck_e /\ v.configured
          /\ v.clocks = 0 => c.dq = "ca" /\ ~c.dq_oen /\ v.op = "none"
          /\ v.clocks >= 1 => v.op \in {"read", "write"}

NoWrite == \A d \in Die : ~write[d]
Quiet(d) == ctrl[d].st = "IDLE" /\ ctrl[d].cs_n

\* Which commands may be up in a state of the wrapper, and where the
\* controllers are then.
WrapperInv ==
    /\ state = "INIT" => \A d \in Die : ctrl[d].st \in {"INIT", "CONFIG"} \/ Quiet(d)
    /\ state # "INIT" => \A d \in Die : /\ ctrl[d].st \notin {"INIT", "CONFIG"}
                                        /\ dev[d].configured
    /\ state \in {"INIT", "IDLE", "READ", "WRITE"} => ~read /\ NoWrite
    /\ state \in {"IDLE", "READ", "WRITE"} => \A d \in Die : Quiet(d)
    /\ state \in {"INIT", "READ", "WRITE", "READ_W"} => ~ready
    /\ state = "READ_W" => /\ NoWrite
                           /\ read => \A d \in Die : Quiet(d)
                           /\ \A d \in Die : ctrl[d].st = "READ" \/ Quiet(d)
    /\ state = "WRITE_W" =>
          /\ ~read
          /\ ready => \A d \in Die : Quiet(d)
          /\ ~ready /\ ~NoWrite => \A d \in Die : ctrl[d].st = "WRITE" \/ Quiet(d)

OrderInv ==
    /\ IInv /\ DelayInv /\ WrapperInv
    /\ \A d \in Die : DieInv(ctrl[d], dev[d])
-----------------------------------------------------------------------------
(* What an edge leaves in the registers these invariants look at.           *)

\* The shifts at the top of the always block.
LEMMA ShiftFields ==
    ASSUME NEW d \in Die, NEW c \in CtrlRegs(d)
    PROVE  /\ Shift(c).st = c.st /\ Shift(c).cs_n = c.cs_n /\ Shift(c).ck_e = c.ck_e
           /\ Shift(c).dq_oen = c.dq_oen
           /\ c.cyc # 24 => Shift(c).cyc = c.cyc + 1
           /\ c.dq = "cfg" /\ c.cyc < 4 => Shift(c).dq = "cfg"
<1> DEFINE n == IF c.cyc = 24 THEN c.cyc ELSE c.cyc + 1
           s == [c EXCEPT !.cyc = n]
<1>1. n \in 0..24 /\ (c.cyc # 24 => n = c.cyc + 1)
  BY DEF CtrlRegs
<1> HIDE DEF n
<1>2. /\ s \in CtrlRegs(d)
      /\ s.st = c.st /\ s.cs_n = c.cs_n /\ s.ck_e = c.ck_e /\ s.dq_oen = c.dq_oen
      /\ s.cyc = n /\ s.dq = c.dq
  BY <1>1 DEF CtrlRegs
<1> HIDE DEF s
<1>3. /\ Emptied(s).st = s.st /\ Emptied(s).cs_n = s.cs_n /\ Emptied(s).ck_e = s.ck_e
      /\ Emptied(s).dq_oen = s.dq_oen /\ Emptied(s).cyc = s.cyc
  BY <1>2 DEF Emptied, CtrlRegs
<1> QED
  BY <1>1, <1>2, <1>3 DEF Shift, s, n

\* INIT_ST: nothing moves before cfg_now.
LEMMA InitFields ==
    ASSUME NEW d \in Die, NEW c \in CtrlRegs(d)
    PROVE  /\ cfg_now => /\ InitStep(c).st = "CONFIG" /\ InitStep(c).cyc = 0
                         /\ ~InitStep(c).cs_n /\ InitStep(c).ck_e = c.ck_e
           /\ ~cfg_now => /\ InitStep(c).st = "INIT"
                          /\ InitStep(c).cs_n = c.cs_n /\ InitStep(c).ck_e = c.ck_e
<1> DEFINE a == Shift(c)
           s == At(a, "INIT", 0)
<1>1. a \in CtrlRegs(d) /\ a.cs_n = c.cs_n /\ a.ck_e = c.ck_e
  BY ShiftType, ShiftFields
<1> HIDE DEF a
<1>2. s \in CtrlRegs(d)
  BY <1>1, AtType
<1>3. s.st = "INIT" /\ s.cyc = 0 /\ s.cs_n = a.cs_n /\ s.ck_e = a.ck_e
  BY <1>1 DEF At, CtrlRegs
<1> HIDE DEF s
<1>4. cfg_now => InitStep(c) = [s EXCEPT !.st = "CONFIG", !.cs_n = FALSE]
  BY DEF InitStep, s, a
<1>5. ~cfg_now => InitStep(c) = s
  BY DEF InitStep, s, a
<1> QED
  BY <1>1, <1>2, <1>3, <1>4, <1>5, ZenonT(40) DEF CtrlRegs

\* CONFIG_ST: five clocks.
LEMMA ConfigFields ==
    ASSUME NEW d \in Die, NEW c \in CtrlRegs(d)
    PROVE  /\ c.cyc = 0 =>
                /\ ConfigStep(c).st = c.st /\ ConfigStep(c).cyc = 1
                /\ ConfigStep(c).cs_n = c.cs_n /\ ConfigStep(c).ck_e
                /\ ConfigStep(c).dq = "cfg" /\ ~ConfigStep(c).dq_oen
           /\ c.cyc \in 1..3 /\ c.dq = "cfg" =>
                /\ ConfigStep(c).st = c.st /\ ConfigStep(c).cyc = c.cyc + 1
                /\ ConfigStep(c).cs_n = c.cs_n /\ ConfigStep(c).ck_e = c.ck_e
                /\ ConfigStep(c).dq = "cfg" /\ ConfigStep(c).dq_oen = c.dq_oen
           /\ c.cyc = 4 => ConfigStep(c).st = "IDLE" /\ ConfigStep(c).cs_n
<1> DEFINE s == Shift(c)
           t == [s EXCEPT !.dq_oen = TRUE]
           u == Deselect(t)
<1>1. /\ s \in CtrlRegs(d)
      /\ s.st = c.st /\ s.cs_n = c.cs_n /\ s.ck_e = c.ck_e /\ s.dq_oen = c.dq_oen
      /\ c.cyc # 24 => s.cyc = c.cyc + 1
      /\ c.dq = "cfg" /\ c.cyc < 4 => s.dq = "cfg"
  BY ShiftType, ShiftFields
<1> HIDE DEF s
<1>2. t \in CtrlRegs(d)
  BY <1>1 DEF CtrlRegs
<1> HIDE DEF t
<1>3. u \in CtrlRegs(d) /\ u.cs_n
  BY <1>2 DEF Deselect, CtrlRegs
<1> HIDE DEF u
<1>4. CASE c.cyc = 0
  <2>1. ConfigStep(c) = [s EXCEPT !.dq = "cfg", !.dq_oen = FALSE, !.ck_e = TRUE]
    BY <1>4 DEF ConfigStep, s
  <2> QED
    BY <1>1, <1>4, <2>1 DEF CtrlRegs
<1>5. CASE c.cyc = 4
  <2>1. ConfigStep(c) = At(u, "IDLE", 0)
    BY <1>5 DEF ConfigStep, s, t, u
  <2> QED
    BY <1>3, <1>5, <2>1 DEF At, CtrlRegs
<1>6. CASE c.cyc # 0 /\ c.cyc # 4
  <2>1. ConfigStep(c) = s
    BY <1>6 DEF ConfigStep, s
  <2> QED
    BY <1>1, <1>6, <2>1
<1> QED
  BY <1>4, <1>5, <1>6

\* IDLE_ST: CS# goes up, or down with a command.
LEMMA IdleFields ==
    ASSUME NEW d \in Die, NEW c \in CtrlRegs(d), TypeOK
    PROVE  /\ ~read /\ ~write[d] => IdleStep(c, d).st = "IDLE" /\ IdleStep(c, d).cs_n
           /\ read \/ write[d] =>
                /\ IdleStep(c, d).st = IF write[d] THEN "WRITE" ELSE "READ"
                /\ ~IdleStep(c, d).cs_n /\ IdleStep(c, d).ck_e
                /\ IdleStep(c, d).dq = "ca" /\ ~IdleStep(c, d).dq_oen
<1> DEFINE a == ReleaseRwds(Deselect(At(Shift(c), "IDLE", 0)))
           s == Forget(a, d)
           w == [l \in Half(d) |-> wdata[l]]
           la == LoadCA(s, d)
           b == [la EXCEPT !.w_din = w]
           p == Select(b)
<1>1. a \in CtrlRegs(d) /\ a.st = "IDLE" /\ a.cs_n
  <2> DEFINE x == Shift(c)
             y == At(x, "IDLE", 0)
             z == Deselect(y)
  <2>1. x \in CtrlRegs(d)
    BY ShiftType
  <2> HIDE DEF x
  <2>2. y \in CtrlRegs(d) /\ y.st = "IDLE"
    <3>1. y \in CtrlRegs(d)
      BY <2>1, AtType
    <3>2. y.st = "IDLE"
      BY <2>1 DEF At, CtrlRegs
    <3> QED
      BY <3>1, <3>2
  <2> HIDE DEF y
  <2>3. z \in CtrlRegs(d) /\ z.st = "IDLE" /\ z.cs_n
    BY <2>2 DEF Deselect, CtrlRegs
  <2> HIDE DEF z
  <2>4. ReleaseRwds(z) \in CtrlRegs(d) /\ ReleaseRwds(z).st = z.st /\ ReleaseRwds(z).cs_n = z.cs_n
    BY <2>3 DEF ReleaseRwds, CtrlRegs
  <2> QED
    BY <2>3, <2>4 DEF x, y, z
<1> HIDE DEF a
<1>2. s \in CtrlRegs(d) /\ s.st = "IDLE" /\ s.cs_n
  <2>1. s \in CtrlRegs(d)
    BY <1>1, ForgetType
  <2>2. s.st = a.st /\ s.cs_n = a.cs_n
    BY <1>1 DEF Forget, CtrlRegs
  <2> QED
    BY <1>1, <2>1, <2>2
<1> HIDE DEF s
<1>3. CASE ~(read \/ write[d])
  <2>1. IdleStep(c, d) = s
    BY <1>3 DEF IdleStep, s, a
  <2> QED
    BY <1>2, <1>3, <2>1
<1>4. CASE read \/ write[d]
  <2>1. IdleStep(c, d) = Start(s, d)
    BY <1>4 DEF IdleStep, s, a
  <2>2. la \in CtrlRegs(d) /\ la.dq = "ca"
    <3> DEFINE q == local_addr[d] \div 2
               r == ~write[d]
    <3>1. q \in Words /\ r \in BOOLEAN
      BY ControllerAssumption DEF TypeOK, Words
    <3> HIDE DEF q, r
    <3>2. /\ [s EXCEPT !.dq = "ca", !.rd = r, !.word = q] \in CtrlRegs(d)
          /\ [s EXCEPT !.dq = "ca", !.rd = r, !.word = q].dq = "ca"
      BY <1>2, <3>1 DEF CtrlRegs
    <3> QED
      BY <3>2 DEF LoadCA, q, r
  <2> HIDE DEF la
  <2>3. w \in HalfWord(d)
    BY HalfLanes DEF TypeOK, HalfWord
  <2> HIDE DEF w
  <2>4. b \in CtrlRegs(d) /\ b.dq = "ca"
    BY <2>2, <2>3 DEF CtrlRegs
  <2> HIDE DEF b
  <2>5. p \in CtrlRegs(d) /\ ~p.cs_n /\ p.ck_e /\ ~p.dq_oen /\ p.dq = "ca"
    BY <2>4 DEF Select, CtrlRegs
  <2> HIDE DEF p
  <2>6. Start(s, d) = At(p, IF write[d] THEN "WRITE" ELSE "READ", 1)
    BY DEF Start, p, b, la, w
  <2>7. ASSUME NEW st \in {"READ", "WRITE"}
        PROVE  /\ At(p, st, 1).st = st /\ ~At(p, st, 1).cs_n /\ At(p, st, 1).ck_e
               /\ At(p, st, 1).dq = "ca" /\ ~At(p, st, 1).dq_oen
    BY <2>5 DEF At, CtrlRegs
  <2> QED
    BY <1>4, <2>1, <2>6, <2>7
<1> QED
  BY <1>3, <1>4

\* READ_ST: on, or to IDLE with CS# high.
LEMMA ReadFields ==
    ASSUME NEW d \in Die, NEW c \in CtrlRegs(d), TypeOK
    PROVE  \/ /\ ReadStep(c, d).st = c.st
              /\ ReadStep(c, d).cs_n = c.cs_n /\ ReadStep(c, d).ck_e = c.ck_e
           \/ ReadStep(c, d).st = "IDLE" /\ ReadStep(c, d).cs_n
<1> DEFINE a == Shift(c)
           s == [a EXCEPT !.dq_oen = IF c.cyc = 3 THEN TRUE ELSE @,
                          !.wait = IF c.cyc = 9 THEN TRUE ELSE @]
           f == Forget(s, d)
           t == [f EXCEPT !.dout = dq_in(d)]
<1>1. a \in CtrlRegs(d) /\ a.st = c.st /\ a.cs_n = c.cs_n /\ a.ck_e = c.ck_e
  BY ShiftType, ShiftFields
<1> HIDE DEF a
<1>2. s \in CtrlRegs(d) /\ s.st = a.st /\ s.cs_n = a.cs_n /\ s.ck_e = a.ck_e
  BY <1>1 DEF CtrlRegs
<1> HIDE DEF s
<1>3. f \in CtrlRegs(d)
  BY <1>2, ForgetType
<1> HIDE DEF f
<1>4. At(Deselect(t), "IDLE", 0).st = "IDLE" /\ At(Deselect(t), "IDLE", 0).cs_n
  BY <1>3 DEF At, Deselect, CtrlRegs
<1>5. ReadStep(c, d) = s \/ ReadStep(c, d) = Capture(s, d)
  BY DEF ReadStep, s, a
<1>6. Capture(s, d) = At(Deselect(t), "IDLE", 0)
  BY DEF Capture, t, f
<1> QED
  BY <1>1, <1>2, <1>4, <1>5, <1>6

\* WRITE_ST: on, or to IDLE with the data, and CS# still low.
LEMMA WriteFields ==
    ASSUME NEW d \in Die, NEW c \in CtrlRegs(d), TypeOK
    PROVE  /\ WriteStep(c, d).st \in {c.st, "IDLE"}
           /\ WriteStep(c, d).cs_n = c.cs_n /\ WriteStep(c, d).ck_e = c.ck_e
<1> DEFINE a == Shift(c)
           s == [a EXCEPT !.additional_latency = IF c.cyc = 5 THEN rwds_in_fal(d) ELSE @]
           t == [s EXCEPT !.rwds_oen = FALSE, !.open = OpenLanes(d), !.dq = "data"]
<1>1. a \in CtrlRegs(d) /\ a.st = c.st /\ a.cs_n = c.cs_n /\ a.ck_e = c.ck_e
  BY ShiftType, ShiftFields
<1> HIDE DEF a
<1>2. rwds_in_fal(d) \in BOOLEAN
  BY DEF rwds_in_fal
<1>3. s \in CtrlRegs(d) /\ s.st = a.st /\ s.cs_n = a.cs_n /\ s.ck_e = a.ck_e
  BY <1>1, <1>2 DEF CtrlRegs
<1> HIDE DEF s
<1>4. At(t, "IDLE", 0).st = "IDLE" /\ At(t, "IDLE", 0).cs_n = s.cs_n /\ At(t, "IDLE", 0).ck_e = s.ck_e
  BY <1>3 DEF At, CtrlRegs
<1>5. WriteStep(c, d) = s \/ WriteStep(c, d) = At(t, "IDLE", 0)
  BY DEF WriteStep, DataOut, s, a, t
<1> QED
  BY <1>1, <1>3, <1>4, <1>5

\* A reset puts CS# high and stops CK, whatever was under way.
LEMMA ResetFields ==
    ASSUME NEW d \in Die, NEW s \in CtrlRegs(d)
    PROVE  LET r == At(Deselect(Forget(s, d)), "INIT", 0)
           IN  r.st = "INIT" /\ r.cs_n /\ ~r.ck_e
<1> DEFINE f == Forget(s, d)
<1>1. f \in CtrlRegs(d)
  BY ForgetType
<1> HIDE DEF f
<1>2. At(Deselect(f), "INIT", 0).st = "INIT" /\ At(Deselect(f), "INIT", 0).cs_n
  BY <1>1 DEF At, Deselect, CtrlRegs
<1>3. ~At(Deselect(f), "INIT", 0).ck_e
  BY <1>1 DEF At, Deselect, CtrlRegs
<1> QED
  BY <1>2, <1>3 DEF f

\* What an edge does to a die's decoder.
LEMMA DevFields ==
    ASSUME TypeOK, NEW d \in Die, NEW lat \in 1..2
    PROVE  LET c == ctrl[d]  v == dev[d]  n == DevNext(d, lat)
           IN  /\ ~sys_resetn => n.op = "none" /\ ~n.configured
               /\ sys_resetn /\ c.cs_n =>
                     /\ n.clocks = 0 /\ n.op = "none"
                     /\ n.configured <=> (v.configured \/ (v.op = "config" /\ v.clocks = 4))
               /\ sys_resetn /\ ~c.cs_n /\ ~c.ck_e => n = v
               /\ sys_resetn /\ ~c.cs_n /\ c.ck_e =>
                     /\ n.configured = v.configured
                     /\ v.clocks = 0 =>
                          /\ n.clocks = 1
                          /\ ~c.dq_oen /\ c.dq = "cfg" => n.op = "config"
                          /\ ~c.dq_oen /\ c.dq = "ca" => n.op \in {"read", "write"}
                     /\ v.clocks >= 1 =>
                          /\ n.op = v.op /\ n.clocks >= 1
                          /\ v.clocks # MaxClocks => n.clocks = v.clocks + 1
<1> DEFINE c == ctrl[d]
           v == dev[d]
           n == DevNext(d, lat)
           up == IF v.clocks = MaxClocks THEN v.clocks ELSE v.clocks + 1
<1>1. v \in DieRegs
  BY DEF TypeOK
<1>2. v.clocks \in 0..24
  BY <1>1 DEF DieRegs, MaxClocks
<1>3. CASE ~sys_resetn
  BY <1>3 DEF DevNext, Deselected
<1>4. CASE sys_resetn /\ c.cs_n
  BY <1>4 DEF DevNext, Deselected
<1>5. CASE sys_resetn /\ ~c.cs_n /\ ~c.ck_e
  BY <1>5 DEF DevNext
<1>6. CASE sys_resetn /\ ~c.cs_n /\ c.ck_e /\ v.clocks = 0
  <2>1. n = [clocks |-> 1, op |-> Decoded(c), word |-> c.word, lat |-> lat,
             configured |-> v.configured]
    BY <1>6 DEF DevNext
  <2>2. ~c.dq_oen /\ c.dq = "cfg" => Decoded(c) = "config"
    BY DEF Decoded
  <2>3. ~c.dq_oen /\ c.dq = "ca" => Decoded(c) \in {"read", "write"}
    BY DEF Decoded
  <2> HIDE DEF n, c, v
  <2> QED
    BY <1>6, <2>1, <2>2, <2>3 DEF n, c, v
<1>7. CASE sys_resetn /\ ~c.cs_n /\ c.ck_e /\ v.clocks # 0
  <2>1. n = [v EXCEPT !.clocks = up]
    BY <1>7 DEF DevNext
  <2>2. up \in Nat /\ up >= 1 /\ (v.clocks # MaxClocks => up = v.clocks + 1)
    BY <1>2, <1>7 DEF MaxClocks
  <2> HIDE DEF up
  <2>3. n.clocks = up /\ n.op = v.op /\ n.configured = v.configured
    BY <1>1, <2>1 DEF DieRegs
  <2> QED
    BY <1>7, <2>2, <2>3
<1> QED
  BY <1>3, <1>4, <1>5, <1>6, <1>7
-----------------------------------------------------------------------------
(* The invariant holds and is kept, part by part.                           *)

\* The delay and the reset.
LEMMA DelayStep ==
    ASSUME IInv, DelayInv, Next
    PROVE  DelayInv'
<1>1. /\ rst_cnt \in Nat /\ reset_cnt \in Nat /\ InitTime \in Nat /\ InitTime >= 2
      /\ ResetCycles \in Nat /\ ResetCycles >= 2
      /\ sys_resetn <=> reset_cnt = ResetCycles
  BY ControllerAssumption, PsramAssumption DEF IInv, TypeOK, ResetInv
<1>2. /\ cfg_now' => rst_done
      /\ rst_done' => sys_resetn /\ rst_cnt = InitTime
  BY Zenon DEF Next, PsramEdge, InitDelay
<1>3. /\ rst_cnt' = IF ~sys_resetn THEN 0
                    ELSE IF rst_cnt = InitTime THEN rst_cnt ELSE rst_cnt + 1
      /\ uptime' = IF ~sys_resetn THEN 0
                   ELSE IF uptime = InitTime THEN uptime ELSE uptime + 1
  BY DEF Next, PsramEdge, InitDelay
<1>4. \/ /\ reset_cnt' = IF sys_resetn THEN reset_cnt ELSE reset_cnt + 1
         /\ sys_resetn' <=> reset_cnt' = ResetCycles
      \/ reset_cnt' = 0 /\ ~sys_resetn'
  BY Zenon DEF Next, ResetSync
<1>5. /\ sys_resetn' => reset_cnt' = ResetCycles
      /\ ~sys_resetn' /\ reset_cnt' > 0 => ~sys_resetn
      /\ sys_resetn' /\ ~sys_resetn => reset_cnt > 0
  BY <1>1, <1>4
<1>6. uptime' = rst_cnt'
  BY <1>3 DEF DelayInv
<1>7. rst_done' => rst_cnt' = InitTime
  BY <1>2, <1>3
<1>8. ~sys_resetn' /\ reset_cnt' > 0 => rst_cnt' = 0
  BY <1>3, <1>5
<1>9. cfg_now' /\ sys_resetn' => rst_cnt' = InitTime
  <2> SUFFICES ASSUME cfg_now', sys_resetn' PROVE rst_cnt' = InitTime
    OBVIOUS
  <2>1. rst_cnt = InitTime
    BY <1>2 DEF DelayInv
  <2>2. sys_resetn
    BY <2>1, <1>1, <1>5 DEF DelayInv
  <2> QED
    BY <2>1, <2>2, <1>3
<1> QED
  BY <1>6, <1>7, <1>8, <1>9 DEF DelayInv

\* No command is up before the dies are configured.
LEMMA CommandsLate ==
    ASSUME WrapperInv, NEW d \in Die, read \/ write[d]
    PROVE  ctrl[d].st \notin {"INIT", "CONFIG"} /\ dev[d].configured
BY DEF WrapperInv, NoWrite

\* An edge moves a controller and its die together.
LEMMA DieStep ==
    ASSUME OrderInv, NEW d \in Die, NEW lat \in 1..2
    PROVE  DieInv(CtrlNext(d), DevNext(d, lat))
<1> DEFINE c == ctrl[d]
           v == dev[d]
           k == CtrlNext(d)
           n == DevNext(d, lat)
<1>1. TypeOK /\ c \in CtrlRegs(d) /\ v \in DieRegs
  BY DEF OrderInv, IInv, TypeOK
<1>2. DieInv(c, v)
  BY DEF OrderInv
<1>3. /\ c.st \in {"INIT", "CONFIG", "IDLE", "READ", "WRITE"} /\ c.cyc \in 0..24
      /\ v.clocks \in 0..24
  BY <1>1 DEF CtrlRegs, DieRegs, MaxClocks
<1>4. /\ ~sys_resetn => n.op = "none" /\ ~n.configured
      /\ sys_resetn /\ c.cs_n =>
            /\ n.clocks = 0 /\ n.op = "none"
            /\ n.configured <=> (v.configured \/ (v.op = "config" /\ v.clocks = 4))
      /\ sys_resetn /\ ~c.cs_n /\ ~c.ck_e => n = v
      /\ sys_resetn /\ ~c.cs_n /\ c.ck_e =>
            /\ n.configured = v.configured
            /\ v.clocks = 0 =>
                 /\ n.clocks = 1
                 /\ ~c.dq_oen /\ c.dq = "cfg" => n.op = "config"
                 /\ ~c.dq_oen /\ c.dq = "ca" => n.op \in {"read", "write"}
            /\ v.clocks >= 1 =>
                 /\ n.op = v.op /\ n.clocks >= 1
                 /\ v.clocks # 24 => n.clocks = v.clocks + 1
  BY <1>1, DevFields DEF MaxClocks
<1> SUFFICES DieInv(k, n)
  OBVIOUS
<1>5. CASE ~sys_resetn
  <2> DEFINE s == Stepped(c, d)
  <2>1. s \in CtrlRegs(d)
    BY <1>1, <1>3, InitStepType, ConfigStepType, IdleStepType, ReadStepType, WriteStepType
       DEF Stepped
  <2> HIDE DEF s
  <2>2. k = At(Deselect(Forget(s, d)), "INIT", 0)
    BY <1>5 DEF CtrlNext, s
  <2>3. k.st = "INIT" /\ k.cs_n /\ ~k.ck_e
    BY <2>1, <2>2, ResetFields
  <2> HIDE DEF k, n
  <2> QED
    BY <1>4, <1>5, <2>3 DEF DieInv
<1>6. CASE sys_resetn
  <2>0. k = Stepped(c, d)
    BY <1>6 DEF CtrlNext
  <2>1. CASE c.st = "INIT"
    <3>1. k = InitStep(c)
      BY <2>0, <2>1 DEF Stepped
    <3>2. /\ cfg_now => k.st = "CONFIG" /\ k.cyc = 0 /\ ~k.cs_n /\ k.ck_e = c.ck_e
          /\ ~cfg_now => k.st = "INIT" /\ k.cs_n = c.cs_n /\ k.ck_e = c.ck_e
      BY <1>1, <3>1, InitFields
    <3> HIDE DEF k, n, c, v
    <3>3. c.cs_n /\ ~c.ck_e /\ v.op = "none" /\ ~v.configured
      BY <1>2, <2>1 DEF DieInv
    <3>4. n.clocks = 0 /\ n.op = "none" /\ ~n.configured
      BY <1>4, <1>6, <3>3
    <3> QED
      BY <3>2, <3>3, <3>4 DEF DieInv
  <2>2. CASE c.st = "CONFIG"
    <3>1. k = ConfigStep(c)
      BY <2>0, <2>2 DEF Stepped
    <3>2. /\ c.cyc = 0 =>
                /\ k.st = c.st /\ k.cyc = 1 /\ k.cs_n = c.cs_n /\ k.ck_e
                /\ k.dq = "cfg" /\ ~k.dq_oen
          /\ c.cyc \in 1..3 /\ c.dq = "cfg" =>
                /\ k.st = c.st /\ k.cyc = c.cyc + 1 /\ k.cs_n = c.cs_n /\ k.ck_e = c.ck_e
                /\ k.dq = "cfg" /\ k.dq_oen = c.dq_oen
          /\ c.cyc = 4 => k.st = "IDLE" /\ k.cs_n
      BY <1>1, <3>1, ConfigFields
    <3> HIDE DEF k, n, c, v
    <3>3. /\ ~c.cs_n
          /\ \/ c.cyc = 0 /\ ~c.ck_e /\ v.clocks = 0 /\ v.op = "none"
             \/ /\ c.cyc \in 1..4 /\ c.ck_e /\ c.dq = "cfg" /\ ~c.dq_oen
                /\ v.clocks = c.cyc - 1
                /\ v.op = IF c.cyc = 1 THEN "none" ELSE "config"
      BY <1>2, <2>2 DEF DieInv
    <3>4. CASE c.cyc = 0
      <4>1. n = v /\ v.clocks = 0 /\ v.op = "none"
        BY <1>4, <1>6, <3>3, <3>4
      <4> QED
        BY <2>2, <3>2, <3>3, <3>4, <4>1 DEF DieInv
    <3>5. CASE c.cyc \in 1..3
      <4>1. n.op = "config" /\ n.clocks = c.cyc
        BY <1>3, <1>4, <1>6, <3>3, <3>5
      <4>2. /\ k.st = "CONFIG" /\ k.cyc = c.cyc + 1 /\ ~k.cs_n /\ k.ck_e
            /\ k.dq = "cfg" /\ ~k.dq_oen
        BY <2>2, <3>2, <3>3, <3>5
      <4> QED
        BY <3>5, <4>1, <4>2 DEF DieInv
    <3>6. CASE c.cyc = 4
      <4>1. n.op = "config" /\ n.clocks = 4
        BY <1>3, <1>4, <1>6, <3>3, <3>6
      <4> QED
        BY <3>2, <3>6, <4>1 DEF DieInv
    <3> QED
      BY <3>3, <3>4, <3>5, <3>6
  <2>3. CASE c.st = "IDLE"
    <3>1. k = IdleStep(c, d)
      BY <2>0, <2>3 DEF Stepped
    <3>2. /\ ~read /\ ~write[d] => k.st = "IDLE" /\ k.cs_n
          /\ read \/ write[d] =>
                /\ k.st \in {"READ", "WRITE"} /\ ~k.cs_n /\ k.ck_e
                /\ k.dq = "ca" /\ ~k.dq_oen
      BY <1>1, <3>1, IdleFields
    <3>3. read \/ write[d] => v.configured
      BY CommandsLate DEF OrderInv
    <3> HIDE DEF k, n, c, v
    <3>4. IF c.cs_n THEN v.configured \/ (v.op = "config" /\ v.clocks = 4)
          ELSE v.configured /\ v.clocks >= 1 /\ v.op \in {"read", "write"}
      BY <1>2, <2>3 DEF DieInv
    <3>5. CASE c.cs_n
      <4>1. n.clocks = 0 /\ n.op = "none" /\ n.configured
        BY <1>4, <1>6, <3>4, <3>5
      <4> QED
        BY <3>2, <4>1 DEF DieInv
    <3>6. CASE ~c.cs_n
      <4>1. n.clocks >= 1 /\ n.op \in {"read", "write"} /\ n.configured
        BY <1>3, <1>4, <1>6, <3>4, <3>6
      <4> QED
        BY <3>2, <4>1 DEF DieInv
    <3> QED
      BY <3>5, <3>6
  <2>4. CASE c.st \in {"READ", "WRITE"}
    <3>1. \/ k.st = c.st /\ k.cs_n = c.cs_n /\ k.ck_e = c.ck_e
          \/ k.st = "IDLE" /\ k.cs_n
          \/ k.st = "IDLE" /\ k.cs_n = c.cs_n
      <4>1. CASE c.st = "READ"
        <5>1. k = ReadStep(c, d)
          BY <2>0, <4>1 DEF Stepped
        <5> QED
          BY <1>1, <5>1, ReadFields
      <4>2. CASE c.st = "WRITE"
        <5>1. k = WriteStep(c, d)
          BY <2>0, <4>2 DEF Stepped
        <5> QED
          BY <1>1, <5>1, WriteFields
      <4> QED
        BY <2>4, <4>1, <4>2
    <3> HIDE DEF k, n, c, v
    <3>2. /\ ~c.cs_n /\ c.ck_e /\ v.configured
          /\ v.clocks = 0 => c.dq = "ca" /\ ~c.dq_oen /\ v.op = "none"
          /\ v.clocks >= 1 => v.op \in {"read", "write"}
      BY <1>2, <2>4 DEF DieInv
    <3>3. n.clocks >= 1 /\ n.op \in {"read", "write"} /\ n.configured
      <4>1. CASE v.clocks = 0
        <5>1. n.clocks = 1
          BY <1>4, <1>6, <3>2, <4>1
        <5>2. n.op \in {"read", "write"}
          BY <1>4, <1>6, <3>2, <4>1
        <5>3. n.configured
          BY <1>4, <1>6, <3>2
        <5> QED
          BY <5>1, <5>2, <5>3
      <4>2. CASE v.clocks >= 1
        BY <1>4, <1>6, <3>2, <4>2
      <4> QED
        BY <1>3, <4>1, <4>2
    <3>4. n.clocks # 0
      BY <3>3
    <3> QED
      BY <2>4, <3>1, <3>2, <3>3, <3>4 DEF DieInv
  <2> QED
    BY <1>3, <2>1, <2>2, <2>3, <2>4
<1> QED
  BY <1>5, <1>6

\* A controller with nothing asked of it.
LEMMA QuietStays ==
    ASSUME IInv, sys_resetn, NEW d \in Die, ~read, ~write[d], ctrl[d].st = "IDLE"
    PROVE  CtrlNext(d).st = "IDLE" /\ CtrlNext(d).cs_n
<1>1. TypeOK /\ ctrl[d] \in CtrlRegs(d)
  BY DEF IInv, TypeOK
<1>2. CtrlNext(d) = IdleStep(ctrl[d], d)
  BY DEF CtrlNext, Stepped
<1> QED
  BY <1>1, <1>2, IdleFields

\* Where a state of the controller can lead to, without a reset.
LEMMA StateMoves ==
    ASSUME IInv, sys_resetn, NEW d \in Die
    PROVE  LET c == ctrl[d]  k == CtrlNext(d)
           IN  /\ c.st = "INIT" => k.st \in {"INIT", "CONFIG"}
               /\ k.st = "CONFIG" /\ c.st # "CONFIG" => cfg_now /\ c.st = "INIT"
               /\ DieInv(c, dev[d]) /\ c.st = "CONFIG" =>
                     k.st = "CONFIG" \/ (k.st = "IDLE" /\ k.cs_n)
               /\ c.st = "IDLE" /\ (read \/ write[d]) =>
                     k.st = IF write[d] THEN "WRITE" ELSE "READ"
               /\ c.st = "READ" => k.st = "READ" \/ (k.st = "IDLE" /\ k.cs_n)
               /\ c.st = "WRITE" => k.st \in {"WRITE", "IDLE"}
<1> DEFINE c == ctrl[d]
           k == CtrlNext(d)
<1>1. TypeOK /\ c \in CtrlRegs(d) /\ c.st \in {"INIT", "CONFIG", "IDLE", "READ", "WRITE"}
  <2>1. TypeOK /\ c \in CtrlRegs(d)
    BY DEF IInv, TypeOK
  <2> QED
    BY <2>1 DEF CtrlRegs
<1>2. k = Stepped(c, d)
  BY DEF CtrlNext
<1>3. CASE c.st = "INIT"
  <2>1. k = InitStep(c)
    BY <1>2, <1>3 DEF Stepped
  <2> QED
    BY <1>1, <1>3, <2>1, InitFields
<1>4. CASE c.st = "CONFIG"
  <2>1. k = ConfigStep(c)
    BY <1>2, <1>4 DEF Stepped
  <2>2. /\ c.cyc = 0 => k.st = c.st
        /\ c.cyc \in 1..3 /\ c.dq = "cfg" => k.st = c.st
        /\ c.cyc = 4 => k.st = "IDLE" /\ k.cs_n
    BY <1>1, <2>1, ConfigFields
  <2> HIDE DEF k, c
  <2>3. ASSUME DieInv(c, dev[d]) PROVE c.cyc = 0 \/ (c.cyc \in 1..4 /\ c.dq = "cfg")
    BY <2>3, <1>4 DEF DieInv
  <2>4. ASSUME DieInv(c, dev[d]) PROVE k.st = "CONFIG" \/ (k.st = "IDLE" /\ k.cs_n)
    BY <2>2, <2>3, <2>4, <1>4
  <2> QED
    BY <1>4, <2>4 DEF c, k
<1>5. CASE c.st = "IDLE"
  <2>1. k = IdleStep(c, d)
    BY <1>2, <1>5 DEF Stepped
  <2>2. /\ ~read /\ ~write[d] => k.st = "IDLE"
        /\ read \/ write[d] => k.st = IF write[d] THEN "WRITE" ELSE "READ"
    BY <1>1, <2>1, IdleFields
  <2> HIDE DEF k, c
  <2>3. k.st # "CONFIG"
    BY <2>2
  <2> QED
    BY <1>5, <2>2, <2>3 DEF k, c
<1>6. CASE c.st = "READ"
  <2>1. k = ReadStep(c, d)
    BY <1>2, <1>6 DEF Stepped
  <2>2. k.st = c.st \/ (k.st = "IDLE" /\ k.cs_n)
    BY <1>1, <2>1, ReadFields
  <2> HIDE DEF k, c
  <2> QED
    BY <1>6, <2>2 DEF k, c
<1>7. CASE c.st = "WRITE"
  <2>1. k = WriteStep(c, d)
    BY <1>2, <1>7 DEF Stepped
  <2>2. k.st \in {c.st, "IDLE"}
    BY <1>1, <2>1, WriteFields
  <2> HIDE DEF k, c
  <2> QED
    BY <1>7, <2>2 DEF k, c
<1> QED
  BY <1>1, <1>3, <1>4, <1>5, <1>6, <1>7

\* A die that is configured stays it until the reset, and is it one clock after
\* its controller went to IDLE.
LEMMA ConfiguredStays ==
    ASSUME IInv, sys_resetn, NEW d \in Die, NEW lat \in 1..2, DieInv(ctrl[d], dev[d]),
           dev[d].configured \/ ctrl[d].st = "IDLE"
    PROVE  DevNext(d, lat).configured
<1> DEFINE c == ctrl[d]
           v == dev[d]
           n == DevNext(d, lat)
<1>1. v.configured \/ (c.cs_n /\ v.op = "config" /\ v.clocks = 4)
  BY DEF DieInv
<1>2. /\ c.cs_n => (n.configured <=> (v.configured \/ (v.op = "config" /\ v.clocks = 4)))
      /\ ~c.cs_n /\ ~c.ck_e => n = v
      /\ ~c.cs_n /\ c.ck_e => n.configured = v.configured
  BY DevFields DEF IInv
<1> QED
  BY <1>1, <1>2

\* An edge, seen from a die.
LEMMA EdgeOfDie ==
    ASSUME IInv, Next, NEW d \in Die
    PROVE  /\ ctrl'[d] = CtrlNext(d)
           /\ \E lat \in 1..2 : dev'[d] = DevNext(d, lat)
<1>1. ctrl'[d] = CtrlNext(d)
  BY DEF Next, PsramEdge
<1>2. PICK lat \in LatencyChoices : dev' = [e \in Die |-> DevNext(e, lat[e])]
  BY DEF Next, PsramEdge, DiesNext
<1>3. lat[d] \in 1..2 /\ dev'[d] = DevNext(d, lat[d])
  BY <1>2 DEF LatencyChoices
<1> QED
  BY <1>1, <1>3

\* A reset takes every controller to INIT.
LEMMA ResetState ==
    ASSUME IInv, ~sys_resetn, NEW d \in Die
    PROVE  CtrlNext(d).st = "INIT"
<1> DEFINE s == Stepped(ctrl[d], d)
<1>1. TypeOK /\ ctrl[d] \in CtrlRegs(d)
  BY DEF IInv, TypeOK
<1>2. ctrl[d].st \in {"INIT", "CONFIG", "IDLE", "READ", "WRITE"}
  BY <1>1 DEF CtrlRegs
<1>3. s \in CtrlRegs(d)
  BY <1>1, <1>2, InitStepType, ConfigStepType, IdleStepType, ReadStepType, WriteStepType
     DEF Stepped
<1> HIDE DEF s
<1>4. CtrlNext(d) = At(Deselect(Forget(s, d)), "INIT", 0)
  BY DEF CtrlNext, s
<1> QED
  BY <1>3, <1>4, ResetFields

\* Under reset: the wrapper is back in INIT with its controllers.
LEMMA WrapperReset ==
    ASSUME OrderInv, Next, ~sys_resetn
    PROVE  WrapperInv'
<1>1. state' = "INIT" /\ ready' = FALSE /\ read' = FALSE /\ write' = [d \in Die |-> FALSE]
  BY DEF Next, Wrapper, WReset, WAck, WInit, WIdle, WRead, WReadW, WWrite, WWriteW, Running, NoCommand
<1>2. \A d \in Die : ctrl'[d].st = "INIT"
  BY ResetState, EdgeOfDie DEF OrderInv
<1> QED
  BY <1>1, <1>2 DEF WrapperInv, NoWrite

\* The wrapper's branches.
LEMMA WrapperStep ==
    ASSUME OrderInv, Next, sys_resetn
    PROVE  WrapperInv'
<1> DEFINE Q(d) == ctrl'[d].st = "IDLE" /\ ctrl'[d].cs_n
<1>1. \A d \in Die : dev[d].configured \/ ctrl[d].st = "IDLE" => dev'[d].configured
  BY ConfiguredStays, EdgeOfDie DEF OrderInv
<1>2. \A d \in Die : ~read /\ ~write[d] /\ ctrl[d].st = "IDLE" => Q(d)
  BY QuietStays, EdgeOfDie DEF OrderInv
<1>3. \A d \in Die :
        /\ ctrl[d].st = "INIT" => ctrl'[d].st \in {"INIT", "CONFIG"}
        /\ ctrl[d].st = "CONFIG" => ctrl'[d].st = "CONFIG" \/ Q(d)
        /\ ctrl[d].st = "IDLE" /\ (read \/ write[d]) =>
              ctrl'[d].st = IF write[d] THEN "WRITE" ELSE "READ"
        /\ ctrl[d].st = "READ" => ctrl'[d].st = "READ" \/ Q(d)
        /\ ctrl[d].st = "WRITE" => ctrl'[d].st \in {"WRITE", "IDLE"}
  BY StateMoves, EdgeOfDie DEF OrderInv
<1>4. WrapperInv
  BY DEF OrderInv
<1>5. \A d \in Die : ctrl[d].st \in {"INIT", "CONFIG", "IDLE", "READ", "WRITE"}
  BY DEF OrderInv, IInv, TypeOK, CtrlRegs
<1>6. state # "INIT" =>
        \A d \in Die : ctrl'[d].st \notin {"INIT", "CONFIG"} /\ dev'[d].configured
  <2> SUFFICES ASSUME state # "INIT", NEW d \in Die
               PROVE  ctrl'[d].st \notin {"INIT", "CONFIG"} /\ dev'[d].configured
    OBVIOUS
  <2>1. ctrl[d].st \in {"IDLE", "READ", "WRITE"} /\ dev[d].configured
    BY <1>4, <1>5 DEF WrapperInv
  <2> QED
    BY <2>1, <1>1, <1>2, <1>3
<1>7. CASE WReset
  BY <1>7 DEF WReset
<1>8. CASE WAck
  <2>1. state' = state /\ ready' = FALSE /\ read' = read /\ write' = write /\ ready
    BY <1>8 DEF WAck, command
  <2>2. state \in {"IDLE", "WRITE_W"}
    BY <1>4, <2>1 DEF WrapperInv, OrderInv, IInv, TypeOK
  <2>3. CASE state = "IDLE"
    <3>1. ~read /\ NoWrite /\ \A d \in Die : Q(d)
      BY <1>2, <1>4, <2>3 DEF WrapperInv, NoWrite, Quiet
    <3> QED
      BY <1>6, <2>1, <2>3, <3>1 DEF WrapperInv, NoWrite, Quiet
  <2>4. CASE state = "WRITE_W"
    <3>1. ~read /\ \A d \in Die : Quiet(d)
      BY <1>4, <2>1, <2>4 DEF WrapperInv
    <3>2. \A d \in Die : ctrl'[d].st = "WRITE" \/ Q(d)
      BY <1>2, <1>3, <3>1 DEF Quiet
    <3> QED
      BY <1>6, <2>1, <2>4, <3>1, <3>2 DEF WrapperInv, NoWrite, Quiet
  <2> QED
    BY <2>2, <2>3, <2>4
<1>9. CASE WInit
  <2>1. state = "INIT" /\ ~ready /\ ready' = ready /\ ~read' /\ \A d \in Die : ~write'[d]
    BY <1>9 DEF WInit, Running, NoCommand
  <2>2. ~read /\ NoWrite /\ \A d \in Die : ctrl[d].st \in {"INIT", "CONFIG"} \/ Quiet(d)
    BY <1>4, <2>1 DEF WrapperInv
  <2>3. CASE NotBusy
    <3>1. state' = "IDLE"
      BY <1>9, <2>3 DEF WInit
    <3>2. \A d \in Die : ctrl[d].st = "IDLE"
      BY <2>3 DEF NotBusy, busy
    <3>3. \A d \in Die : Q(d) /\ dev'[d].configured
      BY <1>1, <1>2, <2>2, <3>2 DEF NoWrite
    <3> QED
      BY <2>1, <3>1, <3>3 DEF WrapperInv, NoWrite, Quiet
  <2>4. CASE ~NotBusy
    <3>1. state' = "INIT"
      BY <1>9, <2>1, <2>4 DEF WInit
    <3>2. \A d \in Die : ctrl'[d].st \in {"INIT", "CONFIG"} \/ Q(d)
      BY <1>2, <1>3, <2>2 DEF NoWrite, Quiet
    <3> QED
      BY <2>1, <3>1, <3>2 DEF WrapperInv, NoWrite, Quiet
  <2> QED
    BY <2>3, <2>4
<1>10. CASE WIdle
  <2>1. /\ state = "IDLE" /\ ~ready /\ ready' = ready /\ ~read' /\ \A d \in Die : ~write'[d]
        /\ state' \in {"IDLE", "READ", "WRITE"}
    BY <1>10 DEF WIdle, Running, NoCommand
  <2>2. \A d \in Die : Q(d)
    BY <1>2, <1>4, <2>1 DEF WrapperInv, NoWrite, Quiet
  <2> QED
    BY <1>6, <2>1, <2>2 DEF WrapperInv, NoWrite, Quiet
<1>11. CASE WRead
  <2>1. /\ state = "READ" /\ ~ready /\ ready' = ready /\ \A d \in Die : ~write'[d]
        /\ state' = "READ_W"
    BY <1>11 DEF WRead, Running
  <2>2. \A d \in Die : Q(d)
    BY <1>2, <1>4, <2>1 DEF WrapperInv, NoWrite, Quiet
  <2> QED
    BY <1>6, <2>1, <2>2 DEF WrapperInv, NoWrite, Quiet
<1>12. CASE WReadW
  <2>1. state = "READ_W" /\ ~ready /\ ~read' /\ \A d \in Die : ~write'[d]
    BY <1>12 DEF WReadW, Running, NoCommand
  <2>2. /\ NoWrite /\ (read => \A d \in Die : Quiet(d))
        /\ \A d \in Die : ctrl[d].st = "READ" \/ Quiet(d)
    BY <1>4, <2>1 DEF WrapperInv
  <2>3. CASE ~read /\ NotBusy
    <3>1. state' = "IDLE"
      BY <1>12, <2>3 DEF WReadW
    <3>2. \A d \in Die : Q(d)
      BY <1>2, <2>2, <2>3 DEF NotBusy, busy, NoWrite
    <3> QED
      BY <1>6, <2>1, <3>1, <3>2 DEF WrapperInv, NoWrite, Quiet
  <2>4. CASE ~(~read /\ NotBusy)
    <3>1. state' = "READ_W" /\ ready' = ready
      BY <1>12, <2>1, <2>4 DEF WReadW
    <3>2. \A d \in Die : ctrl'[d].st = "READ" \/ Q(d)
      BY <1>2, <1>3, <2>2 DEF NoWrite, Quiet
    <3> QED
      BY <1>6, <2>1, <3>1, <3>2 DEF WrapperInv, NoWrite, Quiet
  <2> QED
    BY <2>3, <2>4
<1>13. CASE WWrite
  <2>1. state = "WRITE" /\ ~read' /\ state' = "WRITE_W" /\ ready'
    BY <1>13 DEF WWrite, Running
  <2>2. \A d \in Die : Q(d)
    BY <1>2, <1>4, <2>1 DEF WrapperInv, NoWrite, Quiet
  <2> QED
    BY <1>6, <2>1, <2>2 DEF WrapperInv, NoWrite, Quiet
<1>14. CASE WWriteW
  <2>1. state = "WRITE_W" /\ ~ready /\ ready' = ready /\ ~read' /\ \A d \in Die : ~write'[d]
    BY <1>14 DEF WWriteW, Running, NoCommand
  <2>2. ~read
    BY <1>4, <2>1 DEF WrapperInv
  <2>3. CASE write = [d \in Die |-> FALSE] /\ NotBusy
    <3>1. state' = "IDLE"
      BY <1>14, <2>3 DEF WWriteW
    <3>2. \A d \in Die : ~write[d] /\ ctrl[d].st = "IDLE"
      BY <2>3 DEF NotBusy, busy
    <3>3. \A d \in Die : Q(d)
      BY <1>2, <2>2, <3>2
    <3> QED
      BY <1>6, <2>1, <3>1, <3>3 DEF WrapperInv, NoWrite, Quiet
  <2>4. CASE ~(write = [d \in Die |-> FALSE] /\ NotBusy)
    <3>1. state' = "WRITE_W"
      BY <1>14, <2>4 DEF WWriteW
    <3> QED
      BY <1>6, <2>1, <3>1 DEF WrapperInv, NoWrite, Quiet
  <2> QED
    BY <2>3, <2>4
<1> QED
  BY <1>7, <1>8, <1>9, <1>10, <1>11, <1>12, <1>13, <1>14 DEF Next, Wrapper

\* The invariant holds where the program starts.
LEMMA InitOrder == Init => OrderInv
<1> SUFFICES ASSUME Init PROVE OrderInv
  OBVIOUS
<1>1. IInv
  BY InitIInv
<1>2. DelayInv
  BY Zenon DEF Init, PsramInit, DelayInv
<1>3. \A d \in Die : /\ ctrl[d].st = "INIT" /\ ctrl[d].cs_n /\ ~ctrl[d].ck_e
                      /\ dev[d].op = "none" /\ ~dev[d].configured
  BY DEF Init, PsramInit, Deselected
<1>4. \A d \in Die : DieInv(ctrl[d], dev[d])
  BY <1>3 DEF DieInv
<1>5. WrapperInv
  BY <1>3 DEF Init, WrapperInv, NoWrite
<1> QED
  BY <1>1, <1>2, <1>4, <1>5 DEF OrderInv

\* Every clock edge keeps the invariant, each conjunct by its own lemma.
LEMMA StepOrder == OrderInv /\ [Next]_vars => OrderInv'
<1> SUFFICES ASSUME OrderInv, [Next]_vars PROVE OrderInv'
  OBVIOUS
<1>1. IInv /\ IInv'
  BY StepIInv DEF OrderInv
<1>2. CASE Next
  <2>1. DelayInv'
    BY <1>2, DelayStep DEF OrderInv
  <2>2. \A d \in Die : DieInv(ctrl'[d], dev'[d])
    BY <1>1, <1>2, DieStep, EdgeOfDie
  <2>3. WrapperInv'
    BY <1>2, WrapperReset, WrapperStep
  <2> QED
    BY <1>1, <2>1, <2>2, <2>3 DEF OrderInv, DieInv
<1>3. CASE UNCHANGED vars
  <2>1. UNCHANGED <<sys_resetn, reset_cnt, state, ready, read, write, rst_cnt, rst_done,
                    cfg_now, ctrl, dev, uptime>>
    BY <1>3 DEF vars, command, psramvars, initvars
  <2>2. DelayInv' /\ WrapperInv'
    BY <2>1 DEF OrderInv, DelayInv, WrapperInv, NoWrite, Quiet
  <2>3. \A d \in Die : DieInv(ctrl'[d], dev'[d])
    BY <2>1 DEF OrderInv
  <2> QED
    BY <1>1, <2>2, <2>3 DEF OrderInv, DieInv
<1> QED
  BY <1>2, <1>3
-----------------------------------------------------------------------------
\* No access reaches a die that the reset unconfigured, and no clock a die
\* without a command on its pins (psram_controller.v:77-107, with the wrapper's
\* INIT state, psram_picomem_v2.v, that keeps the CPU away until then).
THEOREM DiesConfiguredFirst == Spec => []ConfiguredFirst
<1>1. OrderInv => ConfiguredFirst
  BY DEF OrderInv, DieInv, ConfiguredFirst
<1> QED
  BY InitOrder, StepOrder, <1>1, PTL DEF Spec

\* The configuration command waits for the whole delay, at whatever clock a
\* reset interrupts the delay or follows it, and is sent to a die once.
THEOREM ConfigWaits == Spec => ConfigAfterDelay
<1>1. OrderInv /\ [Next]_vars =>
        [\A d \in Die : ctrl'[d].st = "CONFIG" /\ ctrl[d].st # "CONFIG"
            => uptime = InitTime /\ ~dev[d].configured]_vars
  <2> SUFFICES ASSUME OrderInv, Next, NEW d \in Die,
                      ctrl'[d].st = "CONFIG", ctrl[d].st # "CONFIG"
               PROVE  uptime = InitTime /\ ~dev[d].configured
    BY DEF vars
  <2>1. ctrl'[d] = CtrlNext(d)
    BY EdgeOfDie DEF OrderInv
  <2>2. sys_resetn
    BY <2>1, ResetState DEF OrderInv
  <2>3. cfg_now /\ ctrl[d].st = "INIT"
    BY <2>1, <2>2, StateMoves DEF OrderInv
  <2> QED
    BY <2>2, <2>3 DEF OrderInv, DelayInv, DieInv
<1> QED
  BY InitOrder, StepOrder, <1>1, PTL DEF Spec, ConfigAfterDelay

\* The wrapper's wait for the end of a command gives the dies their clock with
\* CS# high, although IDLE_ST itself does not check for it.
THEOREM CsHighBetweenCommands == Spec => CsHighBetween
<1>1. OrderInv /\ [Next]_vars =>
        [\A d \in Die : ctrl[d].st = "IDLE" /\ ctrl'[d].st \in {"READ", "WRITE"}
            => ctrl[d].cs_n]_vars
  <2> SUFFICES ASSUME OrderInv, Next, NEW d \in Die,
                      ctrl[d].st = "IDLE", ctrl'[d].st \in {"READ", "WRITE"}
               PROVE  ctrl[d].cs_n
    BY DEF vars
  <2>1. ctrl'[d] = CtrlNext(d)
    BY EdgeOfDie DEF OrderInv
  <2>2. sys_resetn
    BY <2>1, ResetState DEF OrderInv
  <2>3. read \/ write[d]
    BY <2>1, <2>2, QuietStays DEF OrderInv
  <2>4. state \in {"READ_W", "WRITE_W"}
    BY <2>3 DEF OrderInv, IInv, TypeOK, WrapperInv, NoWrite
  <2>5. CASE state = "READ_W"
    BY <2>3, <2>5 DEF OrderInv, WrapperInv, NoWrite, Quiet
  <2>6. CASE state = "WRITE_W"
    BY <2>3, <2>6 DEF OrderInv, WrapperInv, NoWrite, Quiet
  <2> QED
    BY <2>4, <2>5, <2>6
<1> QED
  BY InitOrder, StepOrder, <1>1, PTL DEF Spec, CsHighBetween
-----------------------------------------------------------------------------
(* The PSRAM is a memory: for every latency, way to the pins, size, strobe *)
(* and reset, psram_picomem_v2.v with its two controllers and dies         *)
(* implements WordMemory, every acknowledged write is in the dies once the *)
(* wrapper is idle, and the pins are where the dies need them, in time.    *)
(*                                                                         *)
(* OrderInv says in which order things happen; what is added here is when  *)
(* they happen, in clocks after CS# falls, and what is owed to a die from  *)
(* the early acknowledgement of a write to the clock that stores it.       *)

\* The word the wrapper's last command is about.
Word(d) == local_addr[d] \div 2

\* The wrapper's states and the CPU's request.
BusInv ==
    /\ init_ready <=> state # "INIT"
    /\ ~init_ready => ~valid
    /\ ready => valid
    /\ state \in {"READ", "READ_W"} => valid /\ wstrb = {}
    /\ state = "WRITE" => valid /\ wstrb # {}
    /\ state = "READ_W" => \A d \in Die : Word(d) = addr
    /\ state = "WRITE_W" =>
          /\ Word(0) = Word(1)
          /\ ready => Word(0) = addr
          /\ ~ready => \A d \in Die : write[d] => ctrl[d].st = "WRITE"

\* The clock between the end of WRITE_ST and the rise of CS#: the data is out.
Shifting(c) == c.st = "IDLE" /\ ~c.cs_n

\* A controller counts along with its die, one ahead; the die decoded the command
\* for word w; a read does not miss its first word, a write has its data out,
\* with lanes o open, in the clock that carries the first word.
AccessInv(c, v, w, o) ==
    /\ c.st = "READ" =>
          /\ c.cyc \in 1..24 /\ v.clocks = c.cyc - 1
          /\ v.clocks = 0 => c.rd /\ c.word = w
          /\ v.clocks >= 1 => /\ v.op = "read" /\ v.word = w
                              /\ c.cyc <= WriteLatency(v.lat) + IoDelay
          /\ c.rwds_oen /\ (c.cyc >= 4 => c.dq_oen)
          /\ c.wait <=> c.cyc >= 10
    /\ c.st = "WRITE" =>
          /\ c.cyc \in 1..24 /\ v.clocks = c.cyc - 1
          /\ v.clocks = 0 => ~c.rd /\ c.word = w
          /\ v.clocks >= 1 => /\ v.op = "write" /\ v.word = w
                              /\ c.cyc <= WriteLatency(v.lat) - 1
          /\ c.rwds_oen /\ ~c.dq_oen /\ c.dq # "data"
          /\ c.cyc >= 6 => (c.additional_latency <=> v.lat = 2)
    /\ Shifting(c) =>
          /\ c.ck_e /\ c.dq = "data" /\ ~c.dq_oen /\ ~c.rwds_oen /\ c.open = o
          /\ v.op = "write" /\ v.word = w /\ v.clocks + 1 = WriteLatency(v.lat)

\* What a die is owed: from the acknowledgement on, what the CPU holds; once the
\* controller has taken it, w_din.
Asked(d) == state = "WRITE_W" /\ ready /\ write[d]
Writing(d) == Asked(d) \/ ctrl[d].st = "WRITE" \/ Shifting(ctrl[d])
Owed(d) == IF Asked(d) THEN wdata ELSE ctrl[d].w_din

\* The memory the bus believes in is the dies' with what they are owed put in.
LandInv ==
    \A d \in Die : \A w \in Words : \A l \in Half(d) :
        shadow[w][l] = IF Writing(d) /\ w = Word(d) /\ l \in OpenLanes(d)
                       THEN Owed(d)[l] ELSE mem[w][l]

\* Between the end of one half's read and the answer its data stays.
DoutInv ==
    state = "READ_W" /\ ~read =>
        \A d \in Die : ctrl[d].st = "IDLE" =>
            \A l \in Half(d) : ctrl[d].dout[l] = mem[addr][l]

MemInv ==
    /\ OrderInv /\ BusInv /\ LandInv /\ DoutInv
    /\ \A d \in Die : /\ AccessInv(ctrl[d], dev[d], Word(d), OpenLanes(d))
                      /\ Writing(d) => state = "WRITE_W"
-----------------------------------------------------------------------------
(* What an edge leaves in the registers this is about.                      *)

\* Clocks from the fall of CS# to the first word.
LEMMA LatencyIs ==
    /\ LATENCY \in 3..6 /\ IoDelay \in 2..5 /\ 3 + LATENCY + IoDelay >= 10
    /\ WriteLatency(1) = 3 + LATENCY /\ WriteLatency(2) = 3 + 2 * LATENCY
    /\ \A lat \in 1..2 : lat = 1 \/ lat = 2
BY ControllerAssumption DEF WriteLatency

\* A burst begins at its word.
LEMMA BurstStart ==
    ASSUME NEW w \in Words
    PROVE  Burst(w, 0) = w
<1>1. NumWords \in Nat \ {0} /\ w \in 0..NumWords-1
  BY ControllerAssumption DEF Words
<1>2. w % NumWords = w
  BY <1>1, SMTT(20)
<1>3. w + 0 = w
  BY <1>1
<1> QED
  BY <1>2, <1>3 DEF Burst

\* The shifts leave all else alone.
LEMMA ShiftKeeps ==
    ASSUME NEW d \in Die, NEW c \in CtrlRegs(d)
    PROVE  /\ Shift(c).rwds_oen = c.rwds_oen /\ Shift(c).open = c.open
           /\ Shift(c).wait = c.wait /\ Shift(c).w_din = c.w_din
           /\ Shift(c).additional_latency = c.additional_latency
           /\ Shift(c).dout = c.dout
           /\ Shift(c).dq \in {c.dq, "zero"}
<1> DEFINE n == IF c.cyc = 24 THEN c.cyc ELSE c.cyc + 1
           s == [c EXCEPT !.cyc = n]
<1>1. n \in 0..24
  BY DEF CtrlRegs
<1> HIDE DEF n
<1>2. /\ s \in CtrlRegs(d)
      /\ s.rwds_oen = c.rwds_oen /\ s.open = c.open /\ s.wait = c.wait /\ s.w_din = c.w_din
      /\ s.additional_latency = c.additional_latency /\ s.dout = c.dout /\ s.dq = c.dq
  BY <1>1 DEF CtrlRegs
<1> HIDE DEF s
<1>3. /\ Emptied(s).rwds_oen = s.rwds_oen /\ Emptied(s).open = s.open
      /\ Emptied(s).wait = s.wait /\ Emptied(s).w_din = s.w_din
      /\ Emptied(s).additional_latency = s.additional_latency
      /\ Emptied(s).dout = s.dout /\ Emptied(s).dq = "zero"
  BY <1>2 DEF Emptied, CtrlRegs
<1>4. Shift(c) \in {s, Emptied(s)}
  BY DEF Shift, s, n
<1> QED
  BY <1>2, <1>3, <1>4

\* IDLE_ST with a command: what the die is told.
LEMMA IdleTells ==
    ASSUME NEW d \in Die, NEW c \in CtrlRegs(d), TypeOK
    PROVE  /\ IdleStep(c, d).dout = c.dout
           /\ read \/ write[d] =>
                /\ IdleStep(c, d).cyc = 1 /\ IdleStep(c, d).word = Word(d)
                /\ IdleStep(c, d).rd <=> ~write[d]
                /\ IdleStep(c, d).rwds_oen /\ ~IdleStep(c, d).wait
                /\ \A l \in Half(d) : IdleStep(c, d).w_din[l] = wdata[l]
<1> DEFINE x == Shift(c)
           y == At(x, "IDLE", 0)
           z == Deselect(y)
           a == ReleaseRwds(z)
           s == Forget(a, d)
           w == [l \in Half(d) |-> wdata[l]]
           la == LoadCA(s, d)
           b == [la EXCEPT !.w_din = w]
           p == Select(b)
<1>1. x \in CtrlRegs(d) /\ x.dout = c.dout
  BY ShiftType, ShiftKeeps
<1> HIDE DEF x
<1>2. y \in CtrlRegs(d) /\ y.dout = x.dout
  <2>1. y \in CtrlRegs(d)
    BY <1>1, AtType
  <2>2. y.dout = x.dout
    BY <1>1 DEF At, CtrlRegs
  <2> QED
    BY <2>1, <2>2
<1> HIDE DEF y
<1>3. z \in CtrlRegs(d) /\ z.dout = y.dout
  BY <1>2 DEF Deselect, CtrlRegs
<1> HIDE DEF z
<1>4. a \in CtrlRegs(d) /\ a.dout = z.dout /\ a.rwds_oen
  BY <1>3 DEF ReleaseRwds, CtrlRegs
<1> HIDE DEF a
<1>5. s \in CtrlRegs(d) /\ s.dout = a.dout /\ s.rwds_oen /\ ~s.wait
  <2>1. s \in CtrlRegs(d)
    BY <1>4, ForgetType
  <2>2. s.dout = a.dout /\ s.rwds_oen = a.rwds_oen /\ ~s.wait
    BY <1>4 DEF Forget, CtrlRegs
  <2> QED
    BY <1>4, <2>1, <2>2
<1> HIDE DEF s
<1>6. CASE ~(read \/ write[d])
  <2>1. IdleStep(c, d) = s
    BY <1>6 DEF IdleStep, s, a, z, y, x
  <2> QED
    BY <1>1, <1>2, <1>3, <1>4, <1>5, <1>6, <2>1
<1>7. CASE read \/ write[d]
  <2>1. IdleStep(c, d) = Start(s, d)
    BY <1>7 DEF IdleStep, s, a, z, y, x
  <2> DEFINE q == local_addr[d] \div 2
             r == ~write[d]
  <2>2. q \in Words /\ r \in BOOLEAN
    BY ControllerAssumption DEF TypeOK, Words
  <2> HIDE DEF q, r
  <2>3. /\ la \in CtrlRegs(d) /\ la.rd = r /\ la.word = q /\ la.rwds_oen = s.rwds_oen
        /\ la.dout = s.dout /\ la.wait = s.wait
    <3>1. la = [s EXCEPT !.dq = "ca", !.rd = r, !.word = q]
      BY DEF LoadCA, la, q, r
    <3> HIDE DEF la
    <3> QED
      BY <1>5, <2>2, <3>1 DEF CtrlRegs
  <2> HIDE DEF la
  <2>4. w \in HalfWord(d)
    BY HalfLanes DEF TypeOK, HalfWord
  <2> HIDE DEF w
  <2>5. /\ b \in CtrlRegs(d) /\ b.rd = la.rd /\ b.word = la.word /\ b.rwds_oen = la.rwds_oen
        /\ b.dout = la.dout /\ b.wait = la.wait /\ b.w_din = w
    BY <2>3, <2>4 DEF CtrlRegs
  <2> HIDE DEF b
  <2>6. /\ p \in CtrlRegs(d) /\ p.rd = b.rd /\ p.word = b.word /\ p.rwds_oen = b.rwds_oen
        /\ p.dout = b.dout /\ p.wait = b.wait /\ p.w_din = b.w_din
    BY <2>5 DEF Select, CtrlRegs
  <2> HIDE DEF p
  <2>7. Start(s, d) = At(p, IF write[d] THEN "WRITE" ELSE "READ", 1)
    BY DEF Start, p, b, la, w
  <2>8. ASSUME NEW st \in {"READ", "WRITE"}
        PROVE  /\ At(p, st, 1).cyc = 1 /\ At(p, st, 1).rd = p.rd /\ At(p, st, 1).word = p.word
               /\ At(p, st, 1).rwds_oen = p.rwds_oen /\ At(p, st, 1).wait = p.wait
               /\ At(p, st, 1).dout = p.dout /\ At(p, st, 1).w_din = p.w_din
    BY <2>6 DEF At, CtrlRegs
  <2> DEFINE k == IdleStep(c, d)
  <2>9. /\ k.cyc = 1 /\ k.rd = p.rd /\ k.word = p.word /\ k.rwds_oen = p.rwds_oen
        /\ k.wait = p.wait /\ k.dout = p.dout /\ k.w_din = p.w_din
    BY <2>1, <2>7, <2>8
  <2> HIDE DEF k
  <2>10. /\ k.dout = c.dout /\ k.cyc = 1 /\ k.rd = r /\ k.word = q /\ k.rwds_oen
         /\ ~k.wait /\ k.w_din = w
    BY <1>1, <1>2, <1>3, <1>4, <1>5, <2>3, <2>5, <2>6, <2>9
  <2>11. \A l \in Half(d) : w[l] = wdata[l]
    BY DEF w
  <2>12. q = Word(d) /\ (r <=> ~write[d])
    BY DEF q, r, Word
  <2>13. /\ k.dout = c.dout /\ k.cyc = 1 /\ k.word = Word(d) /\ k.rwds_oen /\ ~k.wait
         /\ k.rd <=> ~write[d]
         /\ \A l \in Half(d) : k.w_din[l] = wdata[l]
    BY <2>10, <2>11, <2>12
  <2> QED
    BY <2>13 DEF k
<1> QED
  BY <1>6, <1>7

\* READ_ST: on with its count, or done with the data.
LEMMA ReadTells ==
    ASSUME NEW d \in Die, NEW c \in CtrlRegs(d), TypeOK, c.cyc < 24
    PROVE  LET k == ReadStep(c, d)
           IN  IF c.wait /\ rwds_toggles(d)
               THEN k.st = "IDLE" /\ k.cs_n /\ k.dout = dq_in(d)
               ELSE /\ k.st = c.st /\ k.cyc = c.cyc + 1 /\ k.rwds_oen = c.rwds_oen
                    /\ k.dq_oen <=> c.cyc = 3 \/ c.dq_oen
                    /\ k.wait <=> c.cyc = 9 \/ c.wait
<1> DEFINE a == Shift(c)
           s == [a EXCEPT !.dq_oen = IF c.cyc = 3 THEN TRUE ELSE @,
                          !.wait = IF c.cyc = 9 THEN TRUE ELSE @]
           f == Forget(s, d)
           q == dq_in(d)
           t == [f EXCEPT !.dout = q]
<1>1. /\ a \in CtrlRegs(d) /\ a.st = c.st /\ a.dq_oen = c.dq_oen /\ a.wait = c.wait
      /\ a.rwds_oen = c.rwds_oen /\ a.cyc = c.cyc + 1
  <2>1. c.cyc # 24
    BY DEF CtrlRegs
  <2> QED
    BY <2>1, ShiftType, ShiftFields, ShiftKeeps
<1> HIDE DEF a
<1>2. /\ s \in CtrlRegs(d) /\ s.st = a.st /\ s.rwds_oen = a.rwds_oen /\ s.cyc = a.cyc
      /\ s.dq_oen <=> c.cyc = 3 \/ a.dq_oen
      /\ s.wait <=> c.cyc = 9 \/ a.wait
  BY <1>1 DEF CtrlRegs
<1>3. CASE ~(c.wait /\ rwds_toggles(d))
  <2>1. ReadStep(c, d) = s
    BY <1>3 DEF ReadStep, s, a
  <2> HIDE DEF s
  <2> QED
    BY <1>1, <1>2, <1>3, <2>1
<1>4. CASE c.wait /\ rwds_toggles(d)
  <2>1. ReadStep(c, d) = Capture(s, d)
    BY <1>4 DEF ReadStep, s, a
  <2>2. Capture(s, d) = At(Deselect(t), "IDLE", 0)
    BY DEF Capture, t, f, q
  <2> HIDE DEF s, q
  <2>3. f \in CtrlRegs(d)
    BY <1>2, ForgetType
  <2> HIDE DEF f
  <2>4. At(Deselect(t), "IDLE", 0).dout = q
    BY <2>3 DEF At, Deselect, CtrlRegs
  <2>5. At(Deselect(t), "IDLE", 0).st = "IDLE" /\ At(Deselect(t), "IDLE", 0).cs_n
    BY <2>3 DEF At, Deselect, CtrlRegs
  <2> QED
    BY <1>4, <2>1, <2>2, <2>4, <2>5 DEF q
<1> QED
  BY <1>3, <1>4

\* WRITE_ST: on with its count, or done with the data and the mask out.
LEMMA WriteTells ==
    ASSUME NEW d \in Die, NEW c \in CtrlRegs(d), TypeOK, c.cyc < 24
    PROVE  LET k == WriteStep(c, d)
           IN  /\ k.w_din = c.w_din /\ k.dq_oen = c.dq_oen
               /\ k.additional_latency = IF c.cyc = 5 THEN rwds_in_fal(d) ELSE c.additional_latency
               /\ IF SingleLatencyOver(c, d) \/ c.cyc = 2 + 2 * LATENCY
                  THEN /\ k.st = "IDLE" /\ ~k.rwds_oen /\ k.dq = "data"
                       /\ k.open = OpenLanes(d)
                  ELSE /\ k.st = c.st /\ k.cyc = c.cyc + 1 /\ k.rwds_oen = c.rwds_oen
                       /\ k.dq \in {c.dq, "zero"}
<1> DEFINE a == Shift(c)
           b == rwds_in_fal(d)
           s == [a EXCEPT !.additional_latency = IF c.cyc = 5 THEN b ELSE @]
           o == OpenLanes(d)
           t == [s EXCEPT !.rwds_oen = FALSE, !.open = o, !.dq = "data"]
<1>1. /\ a \in CtrlRegs(d) /\ a.st = c.st /\ a.dq_oen = c.dq_oen /\ a.w_din = c.w_din
      /\ a.rwds_oen = c.rwds_oen /\ a.cyc = c.cyc + 1 /\ a.dq \in {c.dq, "zero"}
      /\ a.additional_latency = c.additional_latency
  <2>1. c.cyc # 24
    BY DEF CtrlRegs
  <2> QED
    BY <2>1, ShiftType, ShiftFields, ShiftKeeps
<1> HIDE DEF a
<1>2. b \in BOOLEAN
  BY DEF rwds_in_fal
<1> HIDE DEF b
<1>3. /\ s \in CtrlRegs(d) /\ s.st = a.st /\ s.rwds_oen = a.rwds_oen /\ s.cyc = a.cyc
      /\ s.dq_oen = a.dq_oen /\ s.w_din = a.w_din /\ s.dq = a.dq
      /\ s.additional_latency = IF c.cyc = 5 THEN b ELSE a.additional_latency
  BY <1>1, <1>2 DEF CtrlRegs
<1>4. CASE ~(SingleLatencyOver(c, d) \/ c.cyc = 2 + 2 * LATENCY)
  <2>1. WriteStep(c, d) = s
    BY <1>4 DEF WriteStep, s, a, b
  <2> HIDE DEF s
  <2> QED
    BY <1>1, <1>3, <1>4, <2>1 DEF b
<1>5. CASE SingleLatencyOver(c, d) \/ c.cyc = 2 + 2 * LATENCY
  <2>1. WriteStep(c, d) = DataOut(s, d)
    BY <1>5 DEF WriteStep, s, a, b
  <2>2. DataOut(s, d) = At(t, "IDLE", 0)
    BY DEF DataOut, t, o
  <2> HIDE DEF s, o
  <2>3. /\ At(t, "IDLE", 0).st = "IDLE" /\ ~At(t, "IDLE", 0).rwds_oen
        /\ At(t, "IDLE", 0).dq = "data" /\ At(t, "IDLE", 0).open = o
    BY <1>3 DEF At, CtrlRegs
  <2>4. /\ At(t, "IDLE", 0).w_din = s.w_din /\ At(t, "IDLE", 0).dq_oen = s.dq_oen
        /\ At(t, "IDLE", 0).additional_latency = s.additional_latency
    BY <1>3 DEF At, CtrlRegs
  <2> QED
    BY <1>1, <1>3, <1>5, <2>1, <2>2, <2>3, <2>4 DEF b, o
<1> QED
  BY <1>4, <1>5

\* A die's decoder: the command word and the latency it chose.
LEMMA DevTells ==
    ASSUME TypeOK, NEW d \in Die, NEW lat \in 1..2, sys_resetn, ~ctrl[d].cs_n, ctrl[d].ck_e
    PROVE  LET c == ctrl[d]  v == dev[d]  n == DevNext(d, lat)
           IN  /\ v.clocks = 0 =>
                     /\ n.clocks = 1 /\ n.word = c.word /\ n.lat = lat
                     /\ ~c.dq_oen /\ c.dq = "ca" => n.op = IF c.rd THEN "read" ELSE "write"
               /\ v.clocks \in 1..23 =>
                     n.clocks = v.clocks + 1 /\ n.op = v.op /\ n.word = v.word /\ n.lat = v.lat
<1> DEFINE c == ctrl[d]
           v == dev[d]
           n == DevNext(d, lat)
           up == IF v.clocks = MaxClocks THEN v.clocks ELSE v.clocks + 1
<1>1. v \in DieRegs
  BY DEF TypeOK
<1>2. CASE v.clocks = 0
  <2>1. n = [clocks |-> 1, op |-> Decoded(c), word |-> c.word, lat |-> lat,
             configured |-> v.configured]
    BY <1>2 DEF DevNext
  <2>2. ~c.dq_oen /\ c.dq = "ca" => Decoded(c) = IF c.rd THEN "read" ELSE "write"
    BY DEF Decoded
  <2> HIDE DEF n, c, v
  <2> QED
    BY <1>2, <2>1, <2>2 DEF n, c, v
<1>3. CASE v.clocks \in 1..23
  <2>1. n = [v EXCEPT !.clocks = up]
    BY <1>3 DEF DevNext
  <2>2. up = v.clocks + 1
    BY <1>3 DEF MaxClocks
  <2> HIDE DEF up
  <2>3. n.clocks = up /\ n.op = v.op /\ n.word = v.word /\ n.lat = v.lat
    BY <1>1, <2>1 DEF DieRegs
  <2> HIDE DEF n, v
  <2> QED
    BY <1>3, <2>2, <2>3 DEF n, v
<1> QED
  BY <1>2, <1>3
-----------------------------------------------------------------------------
(* A controller and its die, an edge further.                               *)

\* A command finds its controller quiet.
LEMMA CommandQuiet ==
    ASSUME MemInv, NEW d \in Die, ctrl[d].st = "IDLE", read \/ write[d]
    PROVE  Quiet(d) /\ (read => ~write[d])
<1>1. WrapperInv /\ BusInv
  BY DEF MemInv, OrderInv
<1>2. CASE read
  BY <1>1, <1>2 DEF WrapperInv, NoWrite, MemInv, OrderInv, IInv, TypeOK
<1>3. CASE ~read /\ write[d]
  <2>1. state = "WRITE_W"
    BY <1>1, <1>3 DEF WrapperInv, NoWrite, MemInv, OrderInv, IInv, TypeOK
  <2>2. ready
    BY <1>1, <1>3, <2>1 DEF BusInv
  <2> QED
    BY <1>1, <1>3, <2>1, <2>2 DEF WrapperInv
<1> QED
  BY <1>2, <1>3

\* RWDS in cycle 5 tells the latency.
LEMMA FlagSampled ==
    ASSUME MemInv, NEW d \in Die, ctrl[d].st = "WRITE", ctrl[d].cyc = 5
    PROVE  rwds_in_fal(d) <=> dev[d].lat = 2
<1>1. 5 - IoDelay \in 0..3
  BY LatencyIs
<1> QED
  BY <1>1 DEF rwds_in_fal

\* A write's latency is over in the cycle in which it is for the die.
LEMMA LatencyOver ==
    ASSUME MemInv, NEW d \in Die, ctrl[d].st = "WRITE"
    PROVE  LET c == ctrl[d]  v == dev[d]
           IN  /\ c.cyc \in 1..14 /\ v.lat \in 1..2 /\ v.clocks = c.cyc - 1
               /\ SingleLatencyOver(c, d) \/ c.cyc = 2 + 2 * LATENCY
                     <=> c.cyc = WriteLatency(v.lat) - 1
<1> DEFINE c == ctrl[d]
           v == dev[d]
<1>1. /\ c.cyc \in 1..24 /\ v.clocks = c.cyc - 1
      /\ v.clocks >= 1 => c.cyc <= WriteLatency(v.lat) - 1
      /\ c.cyc >= 6 => (c.additional_latency <=> v.lat = 2)
  BY DEF MemInv, AccessInv
<1>2. v.lat \in 1..2
  BY DEF MemInv, OrderInv, IInv, TypeOK, DieRegs
<1>3. c.cyc \in 1..14
  BY <1>1, <1>2, LatencyIs
<1>4. SingleLatencyOver(c, d) <=> c.cyc = 2 + LATENCY /\ v.lat = 1
  <2>1. CASE c.cyc # 2 + LATENCY
    BY <2>1 DEF SingleLatencyOver
  <2>2. CASE c.cyc = 2 + LATENCY /\ LATENCY = 3
    <3>1. rwds_in_fal(d) <=> v.lat = 2
      BY <2>2, FlagSampled
    <3>2. SingleLatencyOver(c, d) <=> ~rwds_in_fal(d)
      BY <2>2 DEF SingleLatencyOver
    <3> QED
      BY <1>2, <2>2, <3>1, <3>2
  <2>3. CASE c.cyc = 2 + LATENCY /\ LATENCY # 3
    <3>1. c.additional_latency <=> v.lat = 2
      BY <1>1, <2>3, LatencyIs
    <3>2. SingleLatencyOver(c, d) <=> ~c.additional_latency
      BY <2>3 DEF SingleLatencyOver
    <3> QED
      BY <1>2, <2>3, <3>1, <3>2
  <2> QED
    BY <2>1, <2>2, <2>3
<1>5. CASE v.lat = 1
  <2>1. c.cyc <= 2 + LATENCY
    BY <1>1, <1>5, LatencyIs
  <2> QED
    BY <1>1, <1>3, <1>4, <1>5, <2>1, LatencyIs
<1>6. CASE v.lat = 2
  BY <1>1, <1>3, <1>4, <1>6, LatencyIs
<1> QED
  BY <1>2, <1>5, <1>6

\* WRITE_ST.
LEMMA WriteAccess ==
    ASSUME MemInv, sys_resetn, NEW d \in Die, NEW lat \in 1..2, ctrl[d].st = "WRITE"
    PROVE  /\ AccessInv(CtrlNext(d), DevNext(d, lat), Word(d), OpenLanes(d))
           /\ CtrlNext(d).st = "WRITE" \/ Shifting(CtrlNext(d))
           /\ CtrlNext(d).w_din = ctrl[d].w_din
<1> DEFINE c == ctrl[d]
           v == dev[d]
           k == CtrlNext(d)
           n == DevNext(d, lat)
           over == SingleLatencyOver(c, d) \/ c.cyc = 2 + 2 * LATENCY
<1>1. TypeOK /\ c \in CtrlRegs(d) /\ v \in DieRegs
  BY DEF MemInv, OrderInv, IInv, TypeOK
<1>2. /\ ~c.cs_n /\ c.ck_e
      /\ v.clocks = 0 => c.dq = "ca" /\ ~c.dq_oen
  BY DEF MemInv, OrderInv, DieInv
<1>3. /\ c.cyc \in 1..14 /\ v.lat \in 1..2 /\ v.clocks = c.cyc - 1
      /\ over <=> c.cyc = WriteLatency(v.lat) - 1
  BY LatencyOver
<1>4. /\ v.clocks = 0 => ~c.rd /\ c.word = Word(d)
      /\ v.clocks >= 1 => /\ v.op = "write" /\ v.word = Word(d)
                          /\ c.cyc <= WriteLatency(v.lat) - 1
      /\ c.rwds_oen /\ ~c.dq_oen /\ c.dq # "data"
      /\ c.cyc >= 6 => (c.additional_latency <=> v.lat = 2)
  BY DEF MemInv, AccessInv
<1>5. k = WriteStep(c, d)
  BY DEF CtrlNext, Stepped
<1>6. c.cyc < 24
  BY <1>3
<1>7. /\ k.w_din = c.w_din /\ k.dq_oen = c.dq_oen
      /\ k.additional_latency = IF c.cyc = 5 THEN rwds_in_fal(d) ELSE c.additional_latency
      /\ over => /\ k.st = "IDLE" /\ ~k.rwds_oen /\ k.dq = "data"
                 /\ k.open = OpenLanes(d)
      /\ ~over => /\ k.st = c.st /\ k.cyc = c.cyc + 1 /\ k.rwds_oen = c.rwds_oen
                  /\ k.dq \in {c.dq, "zero"}
  BY <1>1, <1>5, <1>6, WriteTells
<1>8. k.cs_n = c.cs_n /\ k.ck_e = c.ck_e
  BY <1>1, <1>5, WriteFields
<1>9. /\ v.clocks = 0 =>
            /\ n.clocks = 1 /\ n.word = c.word /\ n.lat = lat
            /\ ~c.dq_oen /\ c.dq = "ca" => n.op = IF c.rd THEN "read" ELSE "write"
      /\ v.clocks \in 1..23 =>
            n.clocks = v.clocks + 1 /\ n.op = v.op /\ n.word = v.word /\ n.lat = v.lat
  BY <1>1, <1>2, DevTells
<1>10. c.cyc = 5 => (rwds_in_fal(d) <=> v.lat = 2)
  BY FlagSampled
<1>11. /\ n.clocks = c.cyc /\ n.op = "write" /\ n.word = Word(d)
       /\ v.clocks >= 1 => n.lat = v.lat
       /\ n.lat \in 1..2
  BY <1>2, <1>3, <1>4, <1>9
<1>12. /\ WriteLatency(n.lat) - 1 >= 5 /\ WriteLatency(v.lat) - 1 >= 5
       /\ WriteLatency(n.lat) \in Int
  BY <1>3, <1>11, LatencyIs
<1> HIDE DEF c, v, k, n, over
<1>13. CASE over
  <2>1. v.clocks >= 1
    BY <1>3, <1>12, <1>13
  <2>2. n.clocks + 1 = WriteLatency(n.lat)
    BY <1>3, <1>11, <1>12, <1>13, <2>1
  <2>3. Shifting(k)
    BY <1>2, <1>7, <1>8, <1>13 DEF Shifting
  <2>4. AccessInv(k, n, Word(d), OpenLanes(d))
    BY <1>2, <1>4, <1>7, <1>8, <1>11, <1>13, <2>2 DEF AccessInv
  <2> QED
    BY <1>7, <2>3, <2>4 DEF c, k, n
<1>14. CASE ~over
  <2>1. k.st = "WRITE" /\ k.cyc = c.cyc + 1 /\ k.rwds_oen /\ ~k.dq_oen /\ k.dq # "data"
    BY <1>4, <1>7, <1>14 DEF c
  <2>2. k.cyc <= WriteLatency(n.lat) - 1
    <3>1. CASE v.clocks = 0
      BY <1>3, <1>12, <2>1, <3>1
    <3>2. CASE v.clocks # 0
      <4>1. v.clocks >= 1
        BY <1>3, <3>2
      <4>2. c.cyc # WriteLatency(n.lat) - 1 /\ c.cyc <= WriteLatency(n.lat) - 1
        BY <1>3, <1>4, <1>11, <1>14, <4>1
      <4> QED
        BY <1>3, <1>12, <2>1, <4>2
    <3> QED
      BY <3>1, <3>2
  <2>3. k.cyc >= 6 => (k.additional_latency <=> n.lat = 2)
    BY <1>3, <1>4, <1>7, <1>10, <1>11, <2>1
  <2>4. k.cyc \in 1..24 /\ n.clocks = k.cyc - 1 /\ n.clocks >= 1
    BY <1>3, <1>11, <2>1
  <2>5. ~Shifting(k)
    BY <2>1 DEF Shifting
  <2>6. AccessInv(k, n, Word(d), OpenLanes(d))
    BY <1>11, <2>1, <2>2, <2>3, <2>4, <2>5 DEF AccessInv
  <2> QED
    BY <1>7, <2>1, <2>6 DEF c, k, n
<1> QED
  BY <1>13, <1>14

\* READ_ST: the first word on the pins is the one that is captured.
LEMMA ReadAccess ==
    ASSUME MemInv, sys_resetn, NEW d \in Die, NEW lat \in 1..2, ctrl[d].st = "READ"
    PROVE  /\ AccessInv(CtrlNext(d), DevNext(d, lat), Word(d), OpenLanes(d))
           /\ \/ CtrlNext(d).st = "READ"
              \/ /\ CtrlNext(d).st = "IDLE" /\ CtrlNext(d).cs_n
                 /\ \A l \in Half(d) : CtrlNext(d).dout[l] = mem[Word(d)][l]
<1> DEFINE c == ctrl[d]
           v == dev[d]
           k == CtrlNext(d)
           n == DevNext(d, lat)
           first == FirstRead(d)
           over == c.wait /\ rwds_toggles(d)
<1>1. TypeOK /\ c \in CtrlRegs(d) /\ v \in DieRegs
  BY DEF MemInv, OrderInv, IInv, TypeOK
<1>2. /\ ~c.cs_n /\ c.ck_e
      /\ v.clocks = 0 => c.dq = "ca" /\ ~c.dq_oen /\ v.op = "none"
  BY DEF MemInv, OrderInv, DieInv
<1>3. /\ c.cyc \in 1..24 /\ v.clocks = c.cyc - 1
      /\ v.clocks = 0 => c.rd /\ c.word = Word(d)
      /\ v.clocks >= 1 => v.op = "read" /\ v.word = Word(d) /\ c.cyc <= first
      /\ c.rwds_oen /\ (c.cyc >= 4 => c.dq_oen)
      /\ c.wait <=> c.cyc >= 10
  BY DEF MemInv, AccessInv, FirstRead
<1>4. v.lat \in 1..2
  BY <1>1 DEF DieRegs
<1>5. first \in 10..20 /\ first = WriteLatency(v.lat) + IoDelay
  BY <1>4, LatencyIs DEF FirstRead
<1>6. c.cyc \in 1..20
  BY <1>3, <1>5
<1>7. k = ReadStep(c, d)
  BY DEF CtrlNext, Stepped
<1>8. /\ over => k.st = "IDLE" /\ k.cs_n /\ k.dout = dq_in(d)
      /\ ~over => /\ k.st = c.st /\ k.cyc = c.cyc + 1 /\ k.rwds_oen = c.rwds_oen
                  /\ k.dq_oen <=> c.cyc = 3 \/ c.dq_oen
                  /\ k.wait <=> c.cyc = 9 \/ c.wait
  <2>1. c.cyc < 24
    BY <1>6
  <2> QED
    BY <1>1, <1>7, <2>1, ReadTells
<1>9. /\ v.clocks = 0 =>
            /\ n.clocks = 1 /\ n.word = c.word /\ n.lat = lat
            /\ ~c.dq_oen /\ c.dq = "ca" => n.op = IF c.rd THEN "read" ELSE "write"
      /\ v.clocks \in 1..23 =>
            n.clocks = v.clocks + 1 /\ n.op = v.op /\ n.word = v.word /\ n.lat = v.lat
  BY <1>1, <1>2, DevTells
<1>10. over <=> v.clocks >= 1 /\ c.cyc = first
  <2>1. over <=> c.wait /\ v.op = "read" /\ c.cyc >= first
    BY DEF rwds_toggles
  <2> HIDE DEF over, first
  <2> QED
    BY <1>2, <1>3, <1>5, <1>6, <2>1
<1>11. CASE over
  <2>1. v.clocks >= 1 /\ c.cyc = first
    BY <1>10, <1>11
  <2>2. v.word = Word(d)
    BY <1>3, <2>1
  <2>3. Word(d) \in Words
    BY ControllerAssumption, <1>1 DEF TypeOK, Words, Word
  <2>4. Burst(v.word, 0) = Word(d)
    BY <2>2, <2>3, BurstStart
  <2>5. c.cyc - first = 0
    BY <1>5, <2>1
  <2>6. \A l \in Half(d) : dq_in(d)[l] = mem[Word(d)][l]
    BY <2>4, <2>5 DEF dq_in
  <2>7. k.st = "IDLE" /\ k.cs_n /\ \A l \in Half(d) : k.dout[l] = mem[Word(d)][l]
    BY <1>8, <1>11, <2>6
  <2> HIDE DEF k, n
  <2>8. AccessInv(k, n, Word(d), OpenLanes(d))
    BY <2>7 DEF AccessInv, Shifting
  <2> QED
    BY <2>7, <2>8 DEF k, n
<1>12. CASE ~over
  <2> HIDE DEF first, over
  <2>1. k.st = "READ" /\ k.cyc = c.cyc + 1 /\ k.rwds_oen
    BY <1>3, <1>8, <1>12
  <2>2. /\ k.cyc >= 4 => k.dq_oen
        /\ k.wait <=> k.cyc >= 10
    BY <1>3, <1>6, <1>8, <1>12, <2>1
  <2>3. /\ n.clocks = c.cyc /\ n.op = "read" /\ n.word = Word(d)
        /\ n.lat \in 1..2
        /\ v.clocks >= 1 => n.lat = v.lat
    BY <1>2, <1>3, <1>4, <1>6, <1>9
  <2>4. k.cyc <= WriteLatency(n.lat) + IoDelay
    <3>1. WriteLatency(n.lat) + IoDelay \in 10..20
      BY <2>3, LatencyIs
    <3>2. CASE v.clocks = 0
      BY <1>3, <2>1, <3>1, <3>2
    <3>3. CASE v.clocks # 0
      <4>1. v.clocks >= 1
        BY <1>3, <1>6, <3>3
      <4>2. c.cyc # first /\ c.cyc <= first /\ first = WriteLatency(n.lat) + IoDelay
        BY <1>3, <1>5, <1>10, <1>12, <2>3, <4>1
      <4> QED
        BY <1>6, <2>1, <3>1, <4>2
    <3> QED
      BY <3>2, <3>3
  <2>5. k.cyc \in 1..24 /\ n.clocks = k.cyc - 1 /\ n.clocks >= 1
    BY <1>6, <2>1, <2>3
  <2> HIDE DEF k, n
  <2>6. AccessInv(k, n, Word(d), OpenLanes(d))
    BY <2>1, <2>2, <2>3, <2>4, <2>5 DEF AccessInv, Shifting
  <2> QED
    BY <2>1, <2>6 DEF k, n
<1> QED
  BY <1>11, <1>12

\* IDLE_ST.
LEMMA IdleAccess ==
    ASSUME MemInv, sys_resetn, NEW d \in Die, NEW lat \in 1..2, ctrl[d].st = "IDLE"
    PROVE  LET k == CtrlNext(d)
           IN  /\ AccessInv(k, DevNext(d, lat), Word(d), OpenLanes(d))
               /\ k.dout = ctrl[d].dout
               /\ ~read /\ ~write[d] => k.st = "IDLE" /\ k.cs_n
               /\ read => k.st = "READ"
               /\ write[d] => k.st = "WRITE" /\ \A l \in Half(d) : k.w_din[l] = wdata[l]
<1> DEFINE c == ctrl[d]
           v == dev[d]
           k == CtrlNext(d)
           n == DevNext(d, lat)
<1>1. TypeOK /\ c \in CtrlRegs(d)
  BY DEF MemInv, OrderInv, IInv, TypeOK
<1>2. k = IdleStep(c, d)
  BY DEF CtrlNext, Stepped
<1>3. k.dout = c.dout
  BY <1>1, <1>2, IdleTells
<1>4. CASE ~read /\ ~write[d]
  <2>1. k.st = "IDLE" /\ k.cs_n
    BY <1>1, <1>2, <1>4, IdleFields
  <2> HIDE DEF k, n
  <2>2. AccessInv(k, n, Word(d), OpenLanes(d))
    BY <2>1 DEF AccessInv, Shifting
  <2> QED
    BY <1>3, <1>4, <2>1, <2>2 DEF k, n, c
<1>5. CASE read \/ write[d]
  <2>1. c.cs_n /\ (read => ~write[d])
    BY <1>5, CommandQuiet DEF Quiet
  <2>2. n.clocks = 0
    BY <1>1, <2>1, DevFields
  <2>3. /\ k.st = IF write[d] THEN "WRITE" ELSE "READ"
        /\ k.dq = "ca" /\ ~k.dq_oen
    BY <1>1, <1>2, <1>5, IdleFields
  <2>4. /\ k.cyc = 1 /\ k.word = Word(d) /\ k.rwds_oen /\ ~k.wait
        /\ k.rd <=> ~write[d]
        /\ \A l \in Half(d) : k.w_din[l] = wdata[l]
    BY <1>1, <1>2, <1>5, IdleTells
  <2>6. CASE write[d]
    <3>1. k.st = "WRITE" /\ ~k.rd
      BY <2>3, <2>4, <2>6
    <3> HIDE DEF k, n
    <3>2. AccessInv(k, n, Word(d), OpenLanes(d))
      BY <2>2, <2>3, <2>4, <3>1 DEF AccessInv, Shifting
    <3> QED
      BY <1>3, <2>1, <2>4, <2>6, <3>1, <3>2 DEF k, n, c
  <2>7. CASE ~write[d]
    <3>1. k.st = "READ" /\ k.rd
      BY <2>3, <2>4, <2>7
    <3> HIDE DEF k, n
    <3>2. AccessInv(k, n, Word(d), OpenLanes(d))
      BY <2>2, <2>3, <2>4, <3>1 DEF AccessInv, Shifting
    <3> QED
      BY <1>3, <1>5, <2>7, <3>1, <3>2 DEF k, n, c
  <2> QED
    BY <2>6, <2>7
<1> QED
  BY <1>4, <1>5

\* Any edge, a reset's included.
LEMMA AccessNext ==
    ASSUME MemInv, NEW d \in Die, NEW lat \in 1..2
    PROVE  AccessInv(CtrlNext(d), DevNext(d, lat), Word(d), OpenLanes(d))
<1> DEFINE k == CtrlNext(d)
           n == DevNext(d, lat)
<1>1. IInv /\ DieInv(ctrl[d], dev[d]) /\ ctrl[d].st \in {"INIT", "CONFIG", "IDLE", "READ", "WRITE"}
  BY DEF MemInv, OrderInv, IInv, TypeOK, CtrlRegs
<1>2. ASSUME k.st \in {"INIT", "CONFIG"} \/ (k.st = "IDLE" /\ k.cs_n)
      PROVE  AccessInv(k, n, Word(d), OpenLanes(d))
  <2> HIDE DEF k, n
  <2> QED
    BY <1>2 DEF AccessInv, Shifting
<1>3. CASE ~sys_resetn
  BY <1>1, <1>2, <1>3, ResetState
<1>4. CASE sys_resetn /\ ctrl[d].st \in {"INIT", "CONFIG"}
  BY <1>1, <1>2, <1>4, StateMoves
<1>5. CASE sys_resetn /\ ctrl[d].st = "IDLE"
  BY <1>5, IdleAccess
<1>6. CASE sys_resetn /\ ctrl[d].st = "READ"
  BY <1>6, ReadAccess
<1>7. CASE sys_resetn /\ ctrl[d].st = "WRITE"
  BY <1>7, WriteAccess
<1> QED
  BY <1>1, <1>3, <1>4, <1>5, <1>6, <1>7
-----------------------------------------------------------------------------
(* What the dies store.                                                     *)

\* The lanes of a die.
LEMMA LaneOf ==
    ASSUME NEW d \in Die, NEW l \in Half(d)
    PROVE  l \in Lanes /\ l \div 2 = d
BY DEF Die, Half, Lanes

\* A die stores when WRITE_ST has ended, the word asked for and no other, and the
\* lanes that were asked for.
LEMMA StoreIs ==
    ASSUME MemInv, NEW d \in Die, NEW w \in Words, NEW l \in Half(d)
    PROVE  /\ Stores(d, w, l) <=> Shifting(ctrl[d]) /\ w = Word(d) /\ l \in OpenLanes(d)
           /\ Shifting(ctrl[d]) => PinByte(d, l) = ctrl[d].w_din[l]
<1> DEFINE c == ctrl[d]
           v == dev[d]
<1>1. /\ c.st \in {"INIT", "CONFIG", "IDLE", "READ", "WRITE"} /\ v.lat \in 1..2
      /\ v.clocks \in Nat /\ c.cs_n \in BOOLEAN
  BY DEF MemInv, OrderInv, IInv, TypeOK, CtrlRegs, DieRegs
<1>2. DieInv(c, v) /\ AccessInv(c, v, Word(d), OpenLanes(d))
  BY DEF MemInv, OrderInv
<1>3. Word(d) \in Words
  BY ControllerAssumption DEF MemInv, OrderInv, IInv, TypeOK, Words, Word
<1>4. WriteLatency(v.lat) \in Int
  BY <1>1, LatencyIs
<1>5. Shifting(c) =>
        /\ c.ck_e /\ c.dq = "data" /\ ~c.rwds_oen /\ c.open = OpenLanes(d)
        /\ v.op = "write" /\ v.word = Word(d) /\ BurstPos(d) = 0
  BY <1>1, <1>2, <1>4 DEF AccessInv, BurstPos
<1>6. CASE Shifting(c)
  <2>1. Burst(v.word, BurstPos(d)) = Word(d)
    BY <1>3, <1>5, <1>6, BurstStart
  <2>2. Stores(d, w, l) <=> w = Word(d) /\ l \in OpenLanes(d)
    BY <1>5, <1>6, <2>1 DEF Stores, Shifting
  <2>3. PinByte(d, l) = c.w_din[l]
    BY <1>5, <1>6 DEF PinByte
  <2> QED
    BY <1>6, <2>2, <2>3
<1>7. CASE ~Shifting(c)
  <2>1. ~(~c.cs_n /\ c.ck_e /\ v.op = "write" /\ BurstPos(d) >= 0)
    <3>1. CASE c.st = "WRITE"
      <4>1. v.clocks = c.cyc - 1 /\ (v.clocks >= 1 => c.cyc <= WriteLatency(v.lat) - 1)
        BY <1>2, <3>1 DEF AccessInv
      <4>2. v.clocks = 0 => v.op = "none"
        BY <1>2, <3>1 DEF DieInv
      <4>3. c.cyc \in Int
        BY <1>2, <3>1 DEF AccessInv
      <4> QED
        BY <1>1, <1>4, <4>1, <4>2, <4>3 DEF BurstPos
    <3>2. CASE c.st = "READ"
      <4>1. v.clocks >= 1 => v.op = "read"
        BY <1>2, <3>2 DEF AccessInv
      <4>2. v.clocks = 0 => v.op = "none"
        BY <1>2, <3>2 DEF DieInv
      <4> QED
        BY <1>1, <4>1, <4>2
    <3>3. CASE c.st \in {"INIT", "CONFIG", "IDLE"}
      BY <1>2, <1>7, <3>3 DEF DieInv, Shifting
    <3> QED
      BY <1>1, <3>1, <3>2, <3>3
  <2> QED
    BY <1>7, <2>1 DEF Stores
<1> QED
  BY <1>6, <1>7

\* An edge, seen from a byte.
LEMMA ByteNext ==
    ASSUME MemInv, Next, NEW d \in Die, NEW w \in Words, NEW l \in Half(d)
    PROVE  /\ mem'[w][l] \in {mem[w][l], ctrl[d].w_din[l]}
           /\ ~(Shifting(ctrl[d]) /\ w = Word(d) /\ l \in OpenLanes(d)) => mem'[w][l] = mem[w][l]
           /\ Shifting(ctrl[d]) /\ w = Word(d) /\ l \in OpenLanes(d) /\ sys_resetn
                => mem'[w][l] = ctrl[d].w_din[l]
<1>1. PICK done \in StoreOutcomes : mem' = MemAfter(done)
  BY DEF Next, PsramEdge, DiesNext
<1>2. l \in Lanes /\ l \div 2 = d
  BY LaneOf
<1>3. mem'[w][l] = IF Stores(d, w, l) /\ done[d] THEN PinByte(d, l) ELSE mem[w][l]
  BY <1>1, <1>2 DEF MemAfter
<1>4. sys_resetn => done[d]
  BY DEF StoreOutcomes
<1> QED
  BY <1>3, <1>4, StoreIs
-----------------------------------------------------------------------------
(* The bus, and what the dies are owed.                                     *)

\* Byte addressing keeps the word, and the last bit is the lane.
LEMMA ByteAddressIs ==
    ASSUME TypeOK, NEW d \in Die
    PROVE  /\ ByteAddress(d) \div 2 = addr
           /\ (2 * addr) \div 2 = addr
           /\ wstrb \cap Half(d) # {} =>
                {l \in Half(d) : l \in wstrb}
                  = IF wstrb \cap Half(d) # Half(d) THEN {2*d + (ByteAddress(d) % 2)} ELSE Half(d)
<1>1. addr \in Nat
  BY ControllerAssumption DEF TypeOK, Words
<1>2. /\ (2 * addr) \div 2 = addr /\ (2 * addr + 1) \div 2 = addr
      /\ (2 * addr) % 2 = 0 /\ (2 * addr + 1) % 2 = 1
  BY <1>1
<1>3. Half(d) = {2*d, 2*d + 1} /\ 2*d + 0 = 2*d
  BY DEF Half, Die
<1>4. ByteAddress(d) = IF wstrb \cap Half(d) # Half(d) /\ 2*d + 1 \in wstrb
                       THEN 2 * addr + 1 ELSE 2 * addr
  BY DEF ByteAddress
<1>5. CASE wstrb \cap Half(d) = Half(d)
  BY <1>2, <1>4, <1>5
<1>6. CASE wstrb \cap Half(d) # Half(d) /\ 2*d + 1 \in wstrb
  <2>1. {l \in Half(d) : l \in wstrb} = {2*d + 1}
    BY <1>3, <1>6
  <2>2. ByteAddress(d) = 2 * addr + 1
    BY <1>4, <1>6
  <2> QED
    BY <1>2, <1>6, <2>1, <2>2
<1>7. CASE wstrb \cap Half(d) # Half(d) /\ 2*d + 1 \notin wstrb
  <2>1. wstrb \cap Half(d) # {} => {l \in Half(d) : l \in wstrb} = {2*d}
    BY <1>3, <1>7
  <2>2. ByteAddress(d) = 2 * addr
    BY <1>4, <1>7
  <2> QED
    BY <1>2, <1>3, <1>7, <2>1, <2>2
<1> QED
  BY <1>5, <1>6, <1>7

\* The CPU's side of an edge.
LEMMA CpuHolds ==
    ASSUME TypeOK, BusInv, Next
    PROVE  /\ ~sys_resetn \/ ~init_ready => ~valid'
           /\ ~sys_resetn => UNCHANGED <<addr, wdata, wstrb>>
           /\ sys_resetn /\ valid /\ ~ready => UNCHANGED <<valid, addr, wdata, wstrb>>
           /\ ready => ~valid' /\ UNCHANGED <<addr, wdata, wstrb>>
           /\ sys_resetn /\ ~valid =>
                 (UNCHANGED <<valid, addr, wdata, wstrb>>) \/ valid'
<1>1. CpuEdge
  BY DEF Next
<1>2. /\ (~init_ready => ~valid) /\ (ready => valid)
      /\ valid \in BOOLEAN /\ ready \in BOOLEAN /\ init_ready \in BOOLEAN
      /\ sys_resetn \in BOOLEAN
  BY DEF BusInv, TypeOK
<1>3. CASE CpuHeld \/ (valid /\ ready)
  BY <1>1, <1>2, <1>3 DEF CpuEdge, CpuHeld, cpu
<1>4. CASE ~(CpuHeld \/ (valid /\ ready))
  BY <1>1, <1>2, <1>4 DEF CpuEdge, CpuHeld, cpu
<1> QED
  BY <1>3, <1>4

\* The bus keeps its order.
LEMMA BusNext ==
    ASSUME MemInv, Next
    PROVE  BusInv'
<1>1. /\ BusInv /\ WrapperInv /\ TypeOK
      /\ state \in {"INIT", "IDLE", "READ", "READ_W", "WRITE", "WRITE_W"}
  BY DEF MemInv, OrderInv, IInv, TypeOK
<1>2. /\ ~sys_resetn \/ ~init_ready => ~valid'
      /\ sys_resetn /\ valid /\ ~ready => UNCHANGED <<valid, addr, wdata, wstrb>>
      /\ ready => ~valid' /\ UNCHANGED <<addr, wdata, wstrb>>
  BY <1>1, CpuHolds
<1>3. CASE WReset
  BY <1>2, <1>3 DEF WReset, BusInv
<1>4. CASE WAck
  <2>1. /\ sys_resetn /\ ready /\ ~ready' /\ state' = state /\ init_ready' = init_ready
        /\ write' = write /\ local_addr' = local_addr
    BY <1>4 DEF WAck, command
  <2>2. state \in {"IDLE", "WRITE_W"}
    BY <1>1, <2>1 DEF WrapperInv
  <2>3. ASSUME state = "WRITE_W", NEW d \in Die, write[d]
        PROVE  ctrl'[d].st = "WRITE"
    <3>1. ctrl[d].st = "IDLE"
      BY <1>1, <2>1, <2>3 DEF WrapperInv, Quiet
    <3>2. CtrlNext(d).st = "WRITE"
      BY <2>1, <2>3, <3>1, IdleAccess
    <3> QED
      BY <3>2, EdgeOfDie DEF MemInv, OrderInv
  <2> QED
    BY <1>1, <1>2, <2>1, <2>2, <2>3 DEF BusInv, Word
<1>5. CASE WInit
  BY <1>1, <1>2, <1>5 DEF WInit, Running, BusInv, WrapperInv
<1>6. CASE WIdle
  BY <1>1, <1>2, <1>6 DEF WIdle, Running, BusInv
<1>7. CASE WRead
  <2>1. /\ sys_resetn /\ state = "READ" /\ ~ready /\ ready' = ready
        /\ init_ready' = init_ready /\ state' = "READ_W"
        /\ \A d \in Die : local_addr'[d] = 2 * addr
    BY <1>7 DEF WRead, Running
  <2>2. \A d \in Die : Word(d)' = addr
    BY <1>1, <2>1, ByteAddressIs DEF Word
  <2> QED
    BY <1>1, <1>2, <2>1, <2>2 DEF BusInv
<1>8. CASE WReadW
  BY <1>1, <1>2, <1>8 DEF WReadW, Running, BusInv, Word
<1>9. CASE WWrite
  <2>1. /\ sys_resetn /\ state = "WRITE" /\ ~ready /\ ready'
        /\ init_ready' = init_ready /\ state' = "WRITE_W"
        /\ \A d \in Die : local_addr'[d] = ByteAddress(d)
    BY <1>9 DEF WWrite, Running
  <2>2. \A d \in Die : Word(d)' = addr
    BY <1>1, <2>1, ByteAddressIs DEF Word
  <2>3. 0 \in Die /\ 1 \in Die
    BY DEF Die
  <2> QED
    BY <1>1, <1>2, <2>1, <2>2, <2>3 DEF BusInv
<1>10. CASE WWriteW
  BY <1>1, <1>2, <1>10 DEF WWriteW, Running, NoCommand, BusInv, Word
<1> QED
  BY <1>3, <1>4, <1>5, <1>6, <1>7, <1>8, <1>9, <1>10 DEF Next, Wrapper

\* Where a write goes from one edge to the next.
LEMMA WritingNext ==
    ASSUME MemInv, Next, sys_resetn, NEW d \in Die
    PROVE  /\ Asked(d) => /\ Quiet(d) /\ ctrl'[d].st = "WRITE"
                          /\ \A l \in Half(d) : ctrl'[d].w_din[l] = wdata[l]
           /\ ctrl[d].st = "WRITE" =>
                 /\ ctrl'[d].st = "WRITE" \/ Shifting(ctrl'[d])
                 /\ ctrl'[d].w_din = ctrl[d].w_din
           /\ ctrl'[d].st = "WRITE" \/ Shifting(ctrl'[d]) => Asked(d) \/ ctrl[d].st = "WRITE"
<1> DEFINE c == ctrl[d]
           k == CtrlNext(d)
<1>1. /\ IInv /\ WrapperInv /\ BusInv /\ DieInv(c, dev[d])
      /\ c.st \in {"INIT", "CONFIG", "IDLE", "READ", "WRITE"}
      /\ state \in {"INIT", "IDLE", "READ", "READ_W", "WRITE", "WRITE_W"}
  BY DEF MemInv, OrderInv, IInv, TypeOK, CtrlRegs
<1>2. ctrl'[d] = k
  BY <1>1, EdgeOfDie
<1>3. Asked(d) => Quiet(d)
  BY <1>1 DEF Asked, WrapperInv
<1>4. c.st = "IDLE" /\ write[d] => Asked(d)
  <2>1. write[d] => state = "WRITE_W"
    BY <1>1 DEF WrapperInv, NoWrite
  <2> QED
    BY <1>1, <2>1 DEF BusInv, Asked
<1>5. CASE c.st = "IDLE"
  <2>1. /\ ~read /\ ~write[d] => k.st = "IDLE" /\ k.cs_n
        /\ read => k.st = "READ"
        /\ write[d] => k.st = "WRITE" /\ \A l \in Half(d) : k.w_din[l] = wdata[l]
    BY <1>5, IdleAccess
  <2> QED
    BY <1>2, <1>3, <1>4, <1>5, <2>1 DEF Asked, Shifting
<1>6. CASE c.st = "WRITE"
  <2>1. k.st = "WRITE" \/ Shifting(k)
    BY <1>6, WriteAccess
  <2>2. k.w_din = c.w_din
    BY <1>6, WriteAccess
  <2> QED
    BY <1>2, <1>3, <1>6, <2>1, <2>2 DEF Quiet
<1>7. CASE c.st \in {"INIT", "CONFIG", "READ"}
  <2>1. k.st \in {"INIT", "CONFIG", "READ"} \/ (k.st = "IDLE" /\ k.cs_n)
    BY <1>1, <1>7, StateMoves
  <2> QED
    BY <1>2, <1>3, <1>7, <2>1 DEF Quiet, Shifting
<1> QED
  BY <1>1, <1>5, <1>6, <1>7

\* What the wrapper changes of a write, in each of its branches.
LEMMA AskedNext ==
    ASSUME MemInv, Next, sys_resetn, state # "WRITE", NEW d \in Die
    PROVE  /\ shadow' = shadow /\ ~Asked(d)'
           /\ \/ Word(d)' = Word(d) /\ OpenLanes(d)' = OpenLanes(d)
              \/ state = "READ"
           /\ state = "WRITE_W" =>
                 state' = "WRITE_W" \/ (~ready /\ ctrl[d].st = "IDLE")
<1>1. CASE WAck
  BY <1>1 DEF WAck, command, Asked, Word, OpenLanes
<1>2. CASE WInit \/ WIdle \/ WReadW
  BY <1>2 DEF WInit, WIdle, WReadW, Running, Asked, Word, OpenLanes
<1>3. CASE WRead
  BY <1>3 DEF WRead, Running, Asked
<1>4. CASE WWriteW
  BY <1>4 DEF WWriteW, Running, Asked, Word, OpenLanes, NotBusy, busy
<1> QED
  BY <1>1, <1>2, <1>3, <1>4 DEF Next, Wrapper, WReset, WWrite, Running

\* The debt to the dies, through any branch but the one that makes it.
LEMMA LandKept ==
    ASSUME MemInv, Next, sys_resetn, state # "WRITE", NEW d \in Die
    PROVE  /\ Writing(d)' => state' = "WRITE_W"
           /\ \A w \in Words : \A l \in Half(d) :
                shadow'[w][l] = IF Writing(d)' /\ w = Word(d)' /\ l \in OpenLanes(d)'
                                THEN Owed(d)'[l] ELSE mem'[w][l]
<1>1. /\ shadow' = shadow /\ ~Asked(d)'
      /\ (Word(d)' = Word(d) /\ OpenLanes(d)' = OpenLanes(d)) \/ state = "READ"
      /\ state = "WRITE_W" => state' = "WRITE_W" \/ (~ready /\ ctrl[d].st = "IDLE")
  BY AskedNext
<1>2. /\ Asked(d) => /\ Quiet(d) /\ ctrl'[d].st = "WRITE"
                     /\ \A l \in Half(d) : ctrl'[d].w_din[l] = wdata[l]
      /\ ctrl[d].st = "WRITE" => /\ ctrl'[d].st = "WRITE" \/ Shifting(ctrl'[d])
                                 /\ ctrl'[d].w_din = ctrl[d].w_din
      /\ ctrl'[d].st = "WRITE" \/ Shifting(ctrl'[d]) => Asked(d) \/ ctrl[d].st = "WRITE"
  BY WritingNext
<1>3. /\ Writing(d) => state = "WRITE_W"
      /\ LandInv
  BY DEF MemInv
<1>4. Writing(d)' <=> ctrl'[d].st = "WRITE" \/ Shifting(ctrl'[d])
  BY <1>1 DEF Writing, Shifting
<1>5. \A l \in Half(d) : Owed(d)'[l] = ctrl'[d].w_din[l]
  BY <1>1 DEF Owed
<1>6. Writing(d)' => state' = "WRITE_W"
  BY <1>1, <1>2, <1>3, <1>4 DEF Writing, Asked
<1>7. ASSUME NEW w \in Words, NEW l \in Half(d)
      PROVE  shadow'[w][l] = IF Writing(d)' /\ w = Word(d)' /\ l \in OpenLanes(d)'
                             THEN Owed(d)'[l] ELSE mem'[w][l]
  <2>1. /\ ~(Shifting(ctrl[d]) /\ w = Word(d) /\ l \in OpenLanes(d)) => mem'[w][l] = mem[w][l]
        /\ Shifting(ctrl[d]) /\ w = Word(d) /\ l \in OpenLanes(d)
             => mem'[w][l] = ctrl[d].w_din[l]
    BY <1>7, ByteNext
  <2>2. shadow'[w][l] = IF Writing(d) /\ w = Word(d) /\ l \in OpenLanes(d)
                        THEN Owed(d)[l] ELSE mem[w][l]
    BY <1>1, <1>3, <1>7 DEF LandInv
  <2>3. CASE ~Writing(d)
    BY <1>2, <1>4, <2>1, <2>2, <2>3 DEF Writing
  <2>4. CASE Asked(d)
    <3>1. Owed(d)[l] = wdata[l] /\ ~Shifting(ctrl[d]) /\ Writing(d) /\ state # "READ"
      BY <1>2, <2>4 DEF Owed, Asked, Writing, Quiet, Shifting
    <3> QED
      BY <1>1, <1>2, <1>4, <1>5, <2>1, <2>2, <2>4, <3>1
  <2>5. CASE ~Asked(d) /\ ctrl[d].st = "WRITE"
    <3>1. Owed(d)[l] = ctrl[d].w_din[l] /\ ~Shifting(ctrl[d]) /\ Writing(d) /\ state # "READ"
      BY <1>3, <2>5 DEF Owed, Writing, Shifting
    <3> QED
      BY <1>1, <1>2, <1>4, <1>5, <2>1, <2>2, <2>5, <3>1
  <2>6. CASE ~Asked(d) /\ Shifting(ctrl[d])
    <3>1. Owed(d)[l] = ctrl[d].w_din[l] /\ Writing(d) /\ ctrl[d].st = "IDLE"
      BY <2>6 DEF Owed, Writing, Shifting
    <3>2. ~Writing(d)'
      BY <1>2, <1>4, <2>6, <3>1
    <3> QED
      BY <2>1, <2>2, <2>6, <3>1, <3>2
  <2> QED
    BY <2>3, <2>4, <2>5, <2>6 DEF Writing
<1> QED
  BY <1>6, <1>7

\* The branch that answers a write before it is done.
LEMMA LandAsked ==
    ASSUME MemInv, Next, sys_resetn, state = "WRITE", NEW d \in Die
    PROVE  /\ Writing(d)' => state' = "WRITE_W"
           /\ \A w \in Words : \A l \in Half(d) :
                shadow'[w][l] = IF Writing(d)' /\ w = Word(d)' /\ l \in OpenLanes(d)'
                                THEN Owed(d)'[l] ELSE mem'[w][l]
<1>1. /\ TypeOK /\ WrapperInv /\ BusInv /\ LandInv
  BY DEF MemInv, OrderInv, IInv
<1>2. ~ready /\ ~read /\ ~write[d] /\ Quiet(d)
  BY <1>1 DEF WrapperInv, NoWrite
<1>3. WWrite
  BY <1>2 DEF Next, Wrapper, WReset, WAck, WInit, WIdle, WRead, WReadW, WWriteW, WWrite, Running
<1>4. UNCHANGED <<valid, addr, wdata, wstrb>>
  BY <1>1, <1>2, CpuHolds DEF BusInv
<1>5. /\ ready' /\ state' = "WRITE_W" /\ local_addr'[d] = ByteAddress(d)
      /\ write'[d] <=> wstrb \cap Half(d) # {}
      /\ byte_write'[d] <=> wstrb \cap Half(d) # Half(d)
      /\ shadow' = [shadow EXCEPT ![addr] = Merge(@, wdata, wstrb)]
  BY <1>3 DEF WWrite
<1>6. Quiet(d)'
  <2>1. CtrlNext(d).st = "IDLE" /\ CtrlNext(d).cs_n
    BY <1>2, QuietStays DEF Quiet, MemInv, OrderInv
  <2> QED
    BY <2>1, EdgeOfDie DEF Quiet, MemInv, OrderInv
<1>7. Writing(d)' <=> write'[d]
  BY <1>5, <1>6 DEF Writing, Asked, Quiet, Shifting
<1>8. write'[d] => Owed(d)' = wdata
  BY <1>4, <1>5 DEF Owed, Asked
<1>9. /\ Word(d)' = addr
      /\ write'[d] => OpenLanes(d)' = {l \in Half(d) : l \in wstrb}
  <2>1. /\ ByteAddress(d) \div 2 = addr
        /\ wstrb \cap Half(d) # {} =>
             {l \in Half(d) : l \in wstrb}
               = IF wstrb \cap Half(d) # Half(d) THEN {2*d + (ByteAddress(d) % 2)} ELSE Half(d)
    BY <1>1, ByteAddressIs
  <2>2. OpenLanes(d)' = IF byte_write'[d] THEN {2*d + (local_addr'[d] % 2)} ELSE Half(d)
    BY DEF OpenLanes
  <2> QED
    BY <1>5, <2>1, <2>2 DEF Word
<1>10. ASSUME NEW w \in Words, NEW l \in Half(d)
       PROVE  shadow'[w][l] = IF Writing(d)' /\ w = Word(d)' /\ l \in OpenLanes(d)'
                              THEN Owed(d)'[l] ELSE mem'[w][l]
  <2>1. shadow[w][l] = mem[w][l] /\ mem'[w][l] = mem[w][l]
    <3>1. ~Writing(d) /\ ~Shifting(ctrl[d])
      BY <1>2 DEF Writing, Asked, Quiet, Shifting
    <3> QED
      BY <1>1, <1>10, <3>1, ByteNext DEF LandInv
  <2>2. l \in Lanes /\ shadow \in [Words -> [Lanes -> Value]]
    BY <1>1, LaneOf DEF TypeOK
  <2>3. shadow'[w][l] = IF w = addr /\ l \in wstrb THEN wdata[l] ELSE shadow[w][l]
    <3>1. CASE w = addr
      <4>1. shadow'[w] = Merge(shadow[w], wdata, wstrb)
        BY <1>5, <2>2, <3>1
      <4>2. Merge(shadow[w], wdata, wstrb)[l] = IF l \in wstrb THEN wdata[l] ELSE shadow[w][l]
        BY <2>2 DEF Merge
      <4> QED
        BY <3>1, <4>1, <4>2
    <3>2. CASE w # addr
      BY <1>5, <2>2, <3>2
    <3> QED
      BY <3>1, <3>2
  <2>4. CASE write'[d]
    BY <1>7, <1>8, <1>9, <2>1, <2>3, <2>4
  <2>5. CASE ~write'[d]
    <3>1. l \notin wstrb
      BY <1>5, <2>5
    <3> QED
      BY <1>7, <2>1, <2>3, <2>5, <3>1
  <2> QED
    BY <2>4, <2>5
<1> QED
  BY <1>5, <1>10

\* A reset cancels the debt: the bus believes what is there.
LEMMA LandReset ==
    ASSUME MemInv, Next, ~sys_resetn, NEW d \in Die
    PROVE  ~Writing(d)' /\ shadow' = mem' /\ state' = "INIT" /\ ctrl'[d].st = "INIT"
<1>1. state' = "INIT" /\ shadow' = mem'
  BY DEF Next, Wrapper, WReset, WAck, WInit, WIdle, WRead, WReadW, WWrite, WWriteW, Running
<1>2. ctrl'[d].st = "INIT"
  BY ResetState, EdgeOfDie DEF MemInv, OrderInv
<1> QED
  BY <1>1, <1>2 DEF Writing, Asked, Shifting

\* In every clock the dies and what they are owed make up the bus's memory.
LEMMA LandNext ==
    ASSUME MemInv, Next
    PROVE  LandInv' /\ \A d \in Die : Writing(d)' => state' = "WRITE_W"
<1>1. ASSUME NEW d \in Die
      PROVE  /\ Writing(d)' => state' = "WRITE_W"
             /\ \A w \in Words : \A l \in Half(d) :
                  shadow'[w][l] = IF Writing(d)' /\ w = Word(d)' /\ l \in OpenLanes(d)'
                                  THEN Owed(d)'[l] ELSE mem'[w][l]
  BY <1>1, LandReset, LandAsked, LandKept
<1> QED
  BY <1>1 DEF LandInv

\* The data a controller has read stays until the answer.
LEMMA DoutNext ==
    ASSUME MemInv, Next
    PROVE  DoutInv'
<1> SUFFICES ASSUME state' = "READ_W", ~read', NEW d \in Die, ctrl'[d].st = "IDLE",
                    NEW l \in Half(d)
             PROVE  ctrl'[d].dout[l] = mem'[addr'][l]
  BY DEF DoutInv
<1>1. /\ IInv /\ TypeOK /\ WrapperInv /\ BusInv /\ DoutInv
  BY DEF MemInv, OrderInv, IInv
<1>2. sys_resetn /\ state = "READ_W" /\ ~ready
  BY DEF Next, Wrapper, WReset, WAck, WInit, WIdle, WRead, WReadW, WWrite, WWriteW, Running,
         NoCommand, MemInv, OrderInv, WrapperInv
<1>3. addr' = addr /\ addr \in Words /\ Word(d) = addr
  BY <1>1, <1>2, CpuHolds DEF BusInv, TypeOK
<1>4. ctrl'[d] = CtrlNext(d) /\ (ctrl[d].st = "READ" \/ Quiet(d))
  BY <1>1, <1>2, EdgeOfDie DEF WrapperInv
<1>5. mem'[addr][l] = mem[addr][l]
  <2>1. ~Shifting(ctrl[d])
    BY <1>4 DEF Shifting, Quiet
  <2> QED
    BY <1>3, <2>1, ByteNext
<1>6. CASE ctrl[d].st = "READ"
  <2>1. \A m \in Half(d) : CtrlNext(d).dout[m] = mem[Word(d)][m]
    BY <1>2, <1>4, <1>6, ReadAccess
  <2> QED
    BY <1>3, <1>4, <1>5, <2>1
<1>7. CASE Quiet(d)
  <2>1. ~read
    BY <1>2, <1>4, <1>7, IdleAccess DEF Quiet
  <2>2. CtrlNext(d).dout = ctrl[d].dout
    BY <1>2, <1>7, IdleAccess DEF Quiet
  <2> QED
    BY <1>1, <1>2, <1>3, <1>4, <1>5, <1>7, <2>1, <2>2 DEF DoutInv, Quiet
<1> QED
  BY <1>4, <1>6, <1>7

\* The timing, with the address and the mask the next clock has.
LEMMA AccessKept ==
    ASSUME MemInv, Next, NEW d \in Die
    PROVE  AccessInv(ctrl'[d], dev'[d], Word(d)', OpenLanes(d)')
<1>1. PICK lat \in 1..2 : ctrl'[d] = CtrlNext(d) /\ dev'[d] = DevNext(d, lat)
  BY EdgeOfDie DEF MemInv, OrderInv
<1>2. AccessInv(ctrl'[d], dev'[d], Word(d), OpenLanes(d))
  BY <1>1, AccessNext
<1>3. CASE sys_resetn /\ state \in {"READ", "WRITE"}
  <2>1. ~read /\ ~write[d] /\ Quiet(d)
    BY <1>3 DEF MemInv, OrderInv, WrapperInv, NoWrite
  <2>2. ctrl'[d].st = "IDLE" /\ ctrl'[d].cs_n
    BY <1>1, <1>3, <2>1, QuietStays DEF Quiet, MemInv, OrderInv
  <2> QED
    BY <2>2 DEF AccessInv, Shifting
<1>4. CASE ~(sys_resetn /\ state \in {"READ", "WRITE"})
  <2>1. UNCHANGED <<byte_write, local_addr>>
    BY <1>4 DEF Next, Wrapper, WReset, WAck, WInit, WIdle, WRead, WReadW, WWrite, WWriteW,
                Running, command
  <2>2. Word(d)' = Word(d) /\ OpenLanes(d)' = OpenLanes(d)
    BY <2>1 DEF Word, OpenLanes
  <2> QED
    BY <1>2, <2>2
<1> QED
  BY <1>3, <1>4

\* The invariant where the program starts.
LEMMA InitMem == Init => MemInv
<1> SUFFICES ASSUME Init PROVE MemInv
  OBVIOUS
<1>1. OrderInv
  BY InitOrder
<1>2. /\ state = "INIT" /\ ~init_ready /\ ~valid /\ ~ready /\ shadow = mem
      /\ \A d \in Die : ctrl[d].st = "INIT"
  BY DEF Init, PsramInit
<1>3. BusInv
  BY <1>2 DEF BusInv
<1>4. \A d \in Die : ~Writing(d)
  BY <1>2 DEF Writing, Asked, Shifting
<1>5. LandInv /\ DoutInv
  BY <1>2, <1>4 DEF LandInv, DoutInv
<1>6. \A d \in Die : AccessInv(ctrl[d], dev[d], Word(d), OpenLanes(d))
  BY <1>2 DEF AccessInv, Shifting
<1> QED
  BY <1>1, <1>3, <1>4, <1>5, <1>6 DEF MemInv

\* Every clock edge keeps it.
LEMMA StepMem == MemInv /\ [Next]_vars => MemInv'
<1> SUFFICES ASSUME MemInv, [Next]_vars PROVE MemInv'
  OBVIOUS
<1>1. OrderInv'
  BY StepOrder DEF MemInv
<1>2. CASE Next
  <2>1. BusInv' /\ LandInv' /\ DoutInv'
    BY <1>2, BusNext, LandNext, DoutNext
  <2>2. \A d \in Die : /\ AccessInv(ctrl'[d], dev'[d], Word(d)', OpenLanes(d)')
                       /\ Writing(d)' => state' = "WRITE_W"
    BY <1>2, AccessKept, LandNext
  <2> QED
    BY <1>1, <2>1, <2>2 DEF MemInv, AccessInv, Shifting
<1>3. CASE UNCHANGED vars
  <2>1. UNCHANGED <<valid, addr, wdata, wstrb, state, ready, init_ready, read, write, byte_write,
                    local_addr, ctrl, dev, mem, shadow>>
    BY <1>3 DEF vars, cpu, command, psramvars
  <2>2. \A d \in Die : /\ Word(d)' = Word(d) /\ OpenLanes(d)' = OpenLanes(d)
                       /\ Asked(d)' <=> Asked(d)
    BY <2>1 DEF Word, OpenLanes, Asked
  <2>3. \A d \in Die : (Writing(d)' <=> Writing(d)) /\ Owed(d)' = Owed(d)
    BY <2>1, <2>2 DEF Writing, Owed
  <2>4. BusInv' /\ DoutInv'
    BY <2>1, <2>2 DEF MemInv, BusInv, DoutInv, Word
  <2>5. LandInv'
    BY <2>1, <2>2, <2>3 DEF MemInv, LandInv
  <2>6. \A d \in Die : /\ AccessInv(ctrl'[d], dev'[d], Word(d)', OpenLanes(d)')
                       /\ Writing(d)' => state' = "WRITE_W"
    BY <2>1, <2>2, <2>3 DEF MemInv
  <2> QED
    BY <1>1, <2>4, <2>5, <2>6 DEF MemInv, AccessInv, Shifting
<1> QED
  BY <1>2, <1>3
-----------------------------------------------------------------------------
\* Data, mask and direction of the pins are right in the clock that carries the
\* first word, in every latency, and CK stops before a second
\* (psram_controller.v:109-138).
THEOREM PinsAreInTime == Spec => []PinsInTime
<1>1. ASSUME MemInv PROVE PinsInTime
  <2> SUFFICES ASSUME NEW d \in Die, ~ctrl[d].cs_n
               PROVE  /\ dev[d].op = "write" /\ ctrl[d].ck_e =>
                            /\ BurstPos(d) <= 0
                            /\ BurstPos(d) = 0 <=> ctrl[d].dq = "data"
                            /\ BurstPos(d) = 0 => ~ctrl[d].dq_oen /\ ~ctrl[d].rwds_oen
                      /\ dev[d].op = "read" /\ BurstPos(d) >= 0 => ctrl[d].dq_oen
                      /\ dev[d].op = "read" => ctrl[d].rwds_oen
                      /\ dev[d].op = "write" /\ dev[d].clocks <= 3 => ctrl[d].rwds_oen
    BY DEF PinsInTime
  <2> DEFINE c == ctrl[d]
             v == dev[d]
  <2>1. /\ c.st \in {"INIT", "CONFIG", "IDLE", "READ", "WRITE"} /\ v.lat \in 1..2
        /\ v.clocks \in Nat
    BY <1>1 DEF MemInv, OrderInv, IInv, TypeOK, CtrlRegs, DieRegs
  <2>2. DieInv(c, v) /\ AccessInv(c, v, Word(d), OpenLanes(d))
    BY <1>1 DEF MemInv, OrderInv
  <2>3. WriteLatency(v.lat) \in 6..15 /\ BurstPos(d) = v.clocks + 1 - WriteLatency(v.lat)
    BY <2>1, LatencyIs DEF BurstPos
  <2>4. CASE c.st \in {"INIT", "CONFIG"}
    BY <2>2, <2>4 DEF DieInv
  <2>5. CASE c.st = "IDLE"
    <3>1. /\ c.dq = "data" /\ ~c.dq_oen /\ ~c.rwds_oen
          /\ v.op = "write" /\ v.clocks + 1 = WriteLatency(v.lat)
      BY <2>2, <2>5 DEF AccessInv, Shifting
    <3> QED
      BY <2>1, <2>3, <3>1
  <2>6. CASE c.st = "READ"
    <3>1. /\ c.cyc \in 1..24 /\ v.clocks = c.cyc - 1 /\ (v.clocks >= 1 => v.op = "read")
          /\ c.rwds_oen /\ (c.cyc >= 4 => c.dq_oen)
      BY <2>2, <2>6 DEF AccessInv
    <3>2. v.clocks = 0 => v.op = "none"
      BY <2>2, <2>6 DEF DieInv
    <3>3. BurstPos(d) >= 0 => c.dq_oen
      BY <2>1, <2>3, <3>1
    <3> QED
      BY <2>1, <3>1, <3>2, <3>3
  <2>7. CASE c.st = "WRITE"
    <3>1. /\ c.cyc \in 1..24 /\ v.clocks = c.cyc - 1 /\ (v.clocks >= 1 => v.op = "write")
          /\ v.clocks >= 1 => c.cyc <= WriteLatency(v.lat) - 1
          /\ c.rwds_oen /\ c.dq # "data"
      BY <2>2, <2>7 DEF AccessInv
    <3>2. v.clocks = 0 => v.op = "none"
      BY <2>2, <2>7 DEF DieInv
    <3>3. v.clocks >= 1 => BurstPos(d) < 0
      BY <2>1, <2>3, <3>1
    <3> QED
      BY <2>1, <2>3, <3>1, <3>2, <3>3
  <2> QED
    BY <2>1, <2>4, <2>5, <2>6, <2>7
<1>2. MemInv => PinsInTime
  BY <1>1
<1> QED
  BY InitMem, StepMem, <1>2, PTL DEF Spec

\* A write that was acknowledged before it began is in the dies when the wrapper
\* is idle again, whatever the latency and the strobes (psram_picomem_v2.v:84-127).
THEOREM WritesAreLanded == Spec => []WritesLanded
<1>1. ASSUME MemInv, NEW d \in Die, state = "IDLE", ctrl[d].cs_n
      PROVE  \A w \in Words : \A l \in Half(d) : mem[w][l] = shadow[w][l]
  <2>1. ~Writing(d) /\ LandInv
    BY <1>1 DEF MemInv
  <2> QED
    BY <2>1 DEF LandInv
<1>2. MemInv => WritesLanded
  BY <1>1 DEF WritesLanded
<1> QED
  BY InitMem, StepMem, <1>2, PTL DEF Spec
-----------------------------------------------------------------------------
(* What the bus sees of a step.                                             *)

rdata == [l \in Lanes |-> ctrl[l \div 2].dout[l]]

\* The data registers of the two controllers make up a word.
LEMMA WordOfHalves ==
    ASSUME NEW c, \A d \in Die : c[d] \in CtrlRegs(d)
    PROVE  \A l \in Lanes : c[l \div 2].dout[l] \in Value
<1> SUFFICES ASSUME NEW l \in Lanes PROVE c[l \div 2].dout[l] \in Value
  OBVIOUS
<1>1. l \div 2 \in Die /\ l \in Half(l \div 2)
  BY HalfLanes
<1>2. c[l \div 2].dout \in [Half(l \div 2) -> Value]
  BY <1>1 DEF CtrlRegs, HalfWord
<1> QED
  BY <1>1, <1>2

\* Types of the bus's view.
LEMMA BusTypes ==
    /\ TypeOK => rdata \in [Lanes -> Value]
    /\ TypeOK' => rdata' \in [Lanes -> Value]
    /\ Memory!Word = [Lanes -> Value]
<1>1. ASSUME TypeOK PROVE rdata \in [Lanes -> Value]
  <2>1. \A d \in Die : ctrl[d] \in CtrlRegs(d)
    BY <1>1 DEF TypeOK
  <2>2. \A l \in Lanes : ctrl[l \div 2].dout[l] \in Value
    BY <2>1, WordOfHalves
  <2> QED
    BY <2>2 DEF rdata
<1>2. ASSUME TypeOK' PROVE rdata' \in [Lanes -> Value]
  <2>1. \A d \in Die : ctrl'[d] \in CtrlRegs(d)
    BY <1>2 DEF TypeOK, CtrlRegs
  <2>2. \A l \in Lanes : ctrl'[l \div 2].dout[l] \in Value
    BY <2>1, WordOfHalves
  <2> QED
    BY <2>2 DEF rdata
<1> QED
  BY <1>1, <1>2 DEF Memory!Word

\* The cells of the dies only catch up with the bus's memory.
LEMMA CatchUp ==
    ASSUME MemInv, Next, NEW w \in Words, NEW l \in Lanes
    PROVE  mem'[w][l] \in {mem[w][l], shadow[w][l]}
<1> DEFINE d == l \div 2
<1>1. d \in Die /\ l \in Half(d)
  BY HalfLanes
<1> HIDE DEF d
<1>2. CASE Shifting(ctrl[d]) /\ w = Word(d) /\ l \in OpenLanes(d)
  <2>1. ~Asked(d)
    BY <1>1, <1>2 DEF MemInv, OrderInv, WrapperInv, Asked, Quiet, Shifting
  <2>2. shadow[w][l] = ctrl[d].w_din[l]
    BY <1>1, <1>2, <2>1 DEF MemInv, LandInv, Writing, Owed
  <2> QED
    BY <1>1, <2>2, ByteNext
<1>3. CASE ~(Shifting(ctrl[d]) /\ w = Word(d) /\ l \in OpenLanes(d))
  BY <1>1, <1>3, ByteNext
<1> QED
  BY <1>2, <1>3

\* Every edge is a landing of what the bus believes in.
LEMMA LandingIs ==
    ASSUME MemInv, TypeOK', Next
    PROVE  Memory!Landing(shadow)
<1>1. mem' \in [Words -> Memory!Word]
  BY BusTypes DEF TypeOK
<1>2. \A w \in Words : \A l \in Lanes : mem'[w][l] \in {mem[w][l], shadow[w][l]}
  BY CatchUp
<1> QED
  BY <1>1, <1>2 DEF Memory!Landing

\* With no write under way the dies hold what the bus believes in.
LEMMA CaughtUp ==
    ASSUME MemInv, state # "WRITE_W"
    PROVE  mem = shadow
<1>1. mem \in [Words -> [Lanes -> Value]] /\ shadow \in [Words -> [Lanes -> Value]]
  BY DEF MemInv, OrderInv, IInv, TypeOK
<1>2. ASSUME NEW w \in Words PROVE mem[w] = shadow[w]
  <2>1. ASSUME NEW l \in Lanes PROVE mem[w][l] = shadow[w][l]
    <3> DEFINE d == l \div 2
    <3>1. d \in Die /\ l \in Half(d)
      BY HalfLanes
    <3> HIDE DEF d
    <3> QED
      BY <3>1 DEF MemInv, LandInv
  <2>2. mem[w] \in [Lanes -> Value] /\ shadow[w] \in [Lanes -> Value]
    BY <1>1
  <2> QED
    BY <2>1, <2>2
<1> QED
  BY <1>1, <1>2

\* The word a read is answered with.
LEMMA AnswerIs ==
    ASSUME MemInv, TypeOK', Next, Running("READ_W"), ~read, NotBusy
    PROVE  rdata' = shadow[addr]
<1>1. TypeOK /\ DoutInv /\ LandInv
  BY DEF MemInv, OrderInv, IInv
<1>2. rdata' \in [Lanes -> Value] /\ shadow[addr] \in [Lanes -> Value] /\ addr \in Words
  <2>1. rdata' \in [Lanes -> Value]
    BY BusTypes
  <2> QED
    BY <1>1, <2>1 DEF TypeOK
<1>3. ASSUME NEW l \in Lanes PROVE rdata'[l] = shadow[addr][l]
  <2> DEFINE d == l \div 2
  <2>1. d \in Die /\ l \in Half(d)
    BY HalfLanes
  <2>2. rdata'[l] = ctrl'[d].dout[l]
    BY DEF rdata
  <2> HIDE DEF d
  <2>3. ctrl[d].st = "IDLE" /\ sys_resetn /\ state = "READ_W"
    BY <2>1 DEF NotBusy, busy, Running
  <2>4. ctrl'[d].dout = ctrl[d].dout
    BY <2>1, <2>3, IdleAccess, EdgeOfDie DEF MemInv, OrderInv
  <2>5. ctrl[d].dout[l] = mem[addr][l]
    BY <1>1, <2>1, <2>3 DEF DoutInv
  <2>6. ~Writing(d)
    BY <2>1, <2>3 DEF MemInv
  <2>7. shadow[addr][l] = mem[addr][l]
    BY <1>1, <1>2, <2>1, <2>6 DEF LandInv
  <2> QED
    BY <2>2, <2>4, <2>5, <2>7
<1> QED
  BY <1>2, <1>3

\* Every edge is a step of the memory, or none.
LEMMA MemoryStep ==
    ASSUME MemInv, MemInv', [Next]_vars
    PROVE  [Memory!Next]_(Memory!vars)
<1>1. TypeOK /\ TypeOK' /\ BusInv /\ WrapperInv
  BY DEF MemInv, OrderInv, IInv
<1>2. /\ shadow \in [Words -> Memory!Word] /\ rdata' \in Memory!Word
      /\ shadow' \in [Words -> Memory!Word] /\ sys_resetn' \in BOOLEAN
      /\ valid \in BOOLEAN /\ ready \in BOOLEAN
      /\ valid' \in BOOLEAN /\ ready' \in BOOLEAN
      /\ addr' \in Words /\ wdata' \in Memory!Word /\ wstrb' \in SUBSET Lanes
  <2>1. rdata' \in [Lanes -> Value] /\ Memory!Word = [Lanes -> Value]
    BY <1>1, BusTypes
  <2> HIDE DEF rdata
  <2> QED
    BY <1>1, <2>1 DEF TypeOK
<1>3. CASE UNCHANGED vars
  BY <1>3 DEF vars, cpu, psramvars, Memory!vars
<1>4. CASE Next /\ ~sys_resetn
  <2>1. ~valid' /\ UNCHANGED <<addr, wdata, wstrb>>
    BY <1>1, <1>4, CpuHolds
  <2>2. ~ready'
    BY <1>4 DEF Next, Wrapper, WReset, WAck, WInit, WIdle, WRead, WReadW, WWrite, WWriteW, Running
  <2>3. Memory!Landing(shadow) /\ shadow' = mem'
    BY <1>1, <1>4, LandingIs, LandReset DEF Die
  <2>4. Memory!Reset
    BY <1>2, <2>1, <2>2, <2>3 DEF Memory!Reset, rdata
  <2> QED
    BY <1>2, <1>4, <2>4 DEF Memory!Next
<1>5. CASE Next /\ sys_resetn
  <2> SUFFICES Memory!Operation
    BY <1>2, <1>5 DEF Memory!Next
  <2> DEFINE landing == Memory!Landing(shadow)
  <2>0. landing
    BY <1>1, <1>5, LandingIs
  <2> HIDE DEF landing
  <2>1. /\ valid /\ ~ready => UNCHANGED <<valid, addr, wdata, wstrb>>
        /\ ready => valid /\ ~valid' /\ UNCHANGED <<addr, wdata, wstrb>>
        /\ ~valid => (UNCHANGED <<valid, addr, wdata, wstrb>>) \/ valid'
    BY <1>1, <1>5, CpuHolds DEF BusInv
  <2>2. CASE shadow' = shadow /\ ready' = ready /\ ~ready
    <3>1. CASE UNCHANGED <<valid, addr, wdata, wstrb>>
      <4>1. Memory!Wait
        BY <1>2, <2>0, <2>2, <3>1 DEF landing, Memory!Wait, Memory!master, rdata
      <4> QED
        BY <4>1 DEF Memory!Operation
    <3>2. CASE ~valid /\ valid'
      <4>1. Memory!Request
        BY <1>2, <2>0, <2>2, <3>2 DEF landing, Memory!Request, rdata
      <4> QED
        BY <4>1 DEF Memory!Operation
    <3> QED
      BY <2>1, <2>2, <3>1, <3>2
  <2>3. CASE WAck
    <3>1. ready /\ ~ready' /\ shadow' = shadow
      BY <2>3 DEF WAck
    <3>2. Memory!Accept
      BY <1>2, <2>0, <2>1, <3>1 DEF landing, Memory!Accept, rdata
    <3> QED
      BY <3>2 DEF Memory!Operation
  <2>4. CASE WReadW /\ ~read /\ NotBusy
    <3>1. /\ valid /\ wstrb = {} /\ ~ready /\ ready' /\ shadow' = shadow
          /\ Running("READ_W")
      BY <1>1, <2>4 DEF WReadW, Running, BusInv
    <3>2. rdata' = shadow[addr]
      BY <1>1, <1>5, <2>4, <3>1, AnswerIs
    <3>3. Memory!RespondRead
      BY <2>0, <2>1, <3>1, <3>2 DEF landing, Memory!RespondRead, Memory!master, rdata
    <3> QED
      BY <3>3 DEF Memory!Operation
  <2>5. CASE WWrite
    <3>1. /\ valid /\ wstrb # {} /\ ~ready /\ ready'
          /\ shadow' = [shadow EXCEPT ![addr] = Merge(@, wdata, wstrb)]
      BY <1>1, <2>5 DEF WWrite, Running, BusInv
    <3>2. \A old : Merge(old, wdata, wstrb) = Memory!Merge(old, wdata, wstrb)
      BY DEF Merge, Memory!Merge
    <3>3. shadow' = Memory!Written
      BY <3>1, <3>2 DEF Memory!Written
    <3>4. mem = shadow
      BY <2>5, CaughtUp DEF WWrite, Running
    <3>5. Memory!Landing(Memory!Written)
      BY <2>0, <3>4 DEF landing, Memory!Landing
    <3>6. Memory!CanWrite
      BY <3>1, <3>4 DEF Memory!CanWrite
    <3>7. Memory!RespondWrite
      BY <1>2, <2>1, <3>1, <3>3, <3>5, <3>6 DEF Memory!RespondWrite, Memory!master, rdata
    <3> QED
      BY <3>7 DEF Memory!Operation
  <2>6. CASE WInit \/ WIdle \/ WRead \/ (WReadW /\ ~(~read /\ NotBusy)) \/ WWriteW
    <3>1. shadow' = shadow /\ ready' = ready /\ ~ready
      BY <2>6 DEF WInit, WIdle, WRead, WReadW, WWriteW, Running
    <3> QED
      BY <2>2, <3>1
  <2>7. ~WReset
    BY <1>5 DEF WReset
  <2> QED
    BY <1>5, <2>3, <2>4, <2>5, <2>6, <2>7 DEF Next, Wrapper
<1> QED
  BY <1>3, <1>4, <1>5

\* It begins as a memory does.
LEMMA MemoryInit == Init => Memory!Init
<1> SUFFICES ASSUME Init PROVE Memory!Init
  OBVIOUS
<1>1. TypeOK
  BY InitIInv DEF IInv
<1>2. /\ ~valid /\ ~ready /\ valid = FALSE /\ ready = FALSE
      /\ sys_resetn = FALSE /\ mem = shadow
  BY DEF Init
<1> QED
  BY <1>1, <1>2, BusTypes DEF Memory!Init, TypeOK, rdata

\* The wrapper, the controllers and the dies are a memory to the CPU: each request
\* is answered once, a read with what the answered writes left, byte by byte; each
\* write is in the dies before the next is taken; and a reset loses at most bytes of
\* the write under way and changes nothing else; for every latency of every
\* access, every delay to the pins, size, strobe and moment of a reset.
THEOREM PsramIsMemory == Spec => ImplementsMemory
<1>1. MemInv /\ MemInv' /\ [Next]_vars => [Memory!Next]_(Memory!vars)
  BY MemoryStep
<1> QED
  BY InitMem, StepMem, MemoryInit, <1>1, PTL DEF Spec, ImplementsMemory, Memory!Spec
=============================================================================
