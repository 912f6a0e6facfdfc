------------------------------- MODULE IrqTest -------------------------------
(***************************************************************************)
(* The interrupt test, fw/*/irqtest, on the interrupt logic of picorv32.v: *)
(* main's statements, between any two instructions of which the CPU may    *)
(* turn to trap_entry.  The handler saves and restores the registers main  *)
(* uses, so that main sees only its counters change.                       *)
(***************************************************************************)
EXTENDS Integers, Sequences

CONSTANTS
  TimerClocks,   \* 1000
  PrintClocks,   \* what a text takes at least: its characters wait for one another
  InstrClocks,   \* clocks a statement other than a text may take: less than the timer's
  MaxResets      \* bound on the presses of the reset button

ASSUME IrqAssumption ==
  /\ TimerClocks \in Nat \ {0} /\ InstrClocks \subseteq 1 .. TimerClocks - 1
  /\ PrintClocks \in Nat /\ PrintClocks > TimerClocks
  /\ MaxResets \in Nat

VARIABLES
  irqBoard,   \* "9k": start.S copies .data; "25k": .data is where it runs from
  irqPc,      \* main's statement
  left,       \* clocks the text still takes
  cpu,        \* irq_active, irq_delay, irq_mask, irq_pending, timer, q1, and what it is at
  gIRQ,       \* the counters
  failed,     \* checks that printed [FAIL]
  resets,
  raised      \* not of the program: timer expiries and ebreaks since the counters were cleared
irqVars == <<irqBoard, irqPc, left, cpu, gIRQ, failed, resets, raised>>

Irqs == {"timer", "ebreak"}
NoIrqs == [i \in Irqs |-> 0]

(***************************************************************************)
(* main, from start.S to its return.                                       *)
(***************************************************************************)
Do(op) == [op |-> op]
ExpectCount(irq, n) == [op |-> "check", irq |-> irq, want |-> n]

Startup(b) == IF b = "25k" THEN <<Do("crtInit"), Do("clear")>> ELSE <<Do("crtInit")>>

Tests ==
  <<Do("set_timer"), Do("set_timer"), Do("print"), ExpectCount("timer", 1),
    Do("set_timer"), Do("print"), ExpectCount("timer", 2),
    Do("ebreak"), Do("print"), ExpectCount("ebreak", 1),
    Do("disable_irq"), Do("set_timer"), Do("print"), ExpectCount("timer", 2),
    Do("enable_irq"), Do("ebreak"), Do("print"), ExpectCount("ebreak", 2),
    Do("set_timer"), Do("print"), ExpectCount("timer", 4)>>

Program(b) == Startup(b) \o Tests
Returned == irqPc \notin DOMAIN Program(irqBoard)
Stmt == Program(irqBoard)[irqPc]

(***************************************************************************)
(* The CPU.                                                                *)
(***************************************************************************)
ResetCpu == [active |-> FALSE, delay |-> FALSE, mask |-> Irqs, pending |-> {}, timer |-> 0,
             q1 |-> {}, at |-> "main"]

IrqTestIdle ==
  /\ irqBoard = "" /\ irqPc = 0 /\ left = 0 /\ cpu = ResetCpu /\ gIRQ = NoIrqs
  /\ failed = {} /\ resets = 0 /\ raised = NoIrqs

IrqTestInit ==
  /\ irqBoard \in {"9k", "25k"}
  /\ irqPc = 1 /\ left = PrintClocks /\ cpu = ResetCpu /\ gIRQ = NoIrqs
  /\ failed = {} /\ resets = 0 /\ raised = NoIrqs

Expires(c, d) == c.timer \in 1 .. d

(* The timer goes on in each of d clocks and once it is at its end is      *)
(* pending, after what the instruction makes of irq_pending.                *)
Tick(c, d) ==
  [c EXCEPT !.timer = IF @ > d THEN @ - d ELSE 0,
            !.pending = IF Expires(c, d) THEN @ \cup {"timer"} ELSE @]

Raise(irqs) == raised' = [i \in Irqs |-> raised[i] + (IF i \in irqs THEN 1 ELSE 0)]
RaisedBy(c, d) == IF Expires(c, d) THEN {"timer"} ELSE {}

Taken == cpu.pending \ cpu.mask

(* launch_next_insn: the one instruction that irq_delay lets through after *)
(* the handler runs whatever is pending.                                   *)
Launch == cpu.at = "main" /\ (cpu.delay \/ Taken = {}) /\ ~Returned

(* An instruction of main, after which the CPU's state is changed by Op.   *)
Execute(d, Op(_)) == cpu' = [Op(Tick(cpu, d)) EXCEPT !.delay = FALSE]

Same(c) == c
Unmasked_NotAtAll(c) == c    \* slip: maskirq is left out
Unmasked(c) == [c EXCEPT !.mask = {}]
Masked(c) == [c EXCEPT !.mask = Irqs]
Loaded(c) == [c EXCEPT !.timer = TimerClocks]
Broken(c) == IF "ebreak" \in c.mask THEN [c EXCEPT !.at = "trap"]
                                    ELSE [c EXCEPT !.pending = @ \cup {"ebreak"}]

Advance == irqPc' = irqPc + 1

crtInit ==
  /\ Launch /\ Stmt.op = "crtInit"
  /\ \E d \in InstrClocks : Execute(d, Unmasked) /\ Raise(RaisedBy(cpu, d))
  /\ gIRQ' = IF irqBoard = "9k" THEN NoIrqs ELSE gIRQ
  /\ Advance /\ UNCHANGED <<irqBoard, left, failed, resets>>

Clear_Skipped ==    \* slip: the counters are left to .data
  /\ Launch /\ Stmt.op = "clear"
  /\ \E d \in InstrClocks : Execute(d, Same) /\ Raise(RaisedBy(cpu, d))
  /\ Advance /\ UNCHANGED <<irqBoard, left, gIRQ, failed, resets>>

(* What a second start needs on the board whose .data nobody restores.     *)
Clear ==
  /\ Launch /\ Stmt.op = "clear"
  /\ \E d \in InstrClocks : Execute(d, Same) /\ Raise(RaisedBy(cpu, d))
  /\ gIRQ' = NoIrqs
  /\ Advance /\ UNCHANGED <<irqBoard, left, failed, resets>>

Register(op, Op(_)) ==
  /\ Launch /\ Stmt.op = op
  /\ \E d \in InstrClocks : Execute(d, Op) /\ Raise(RaisedBy(cpu, d))
  /\ Advance /\ UNCHANGED <<irqBoard, left, gIRQ, failed, resets>>

set_timer == Register("set_timer", Loaded)
disable_irq == Register("disable_irq", Masked)
enable_irq == Register("enable_irq", Unmasked)

ebreak ==
  /\ Launch /\ Stmt.op = "ebreak"
  /\ \E d \in InstrClocks :
       /\ Execute(d, Broken)
       /\ Raise(RaisedBy(cpu, d) \cup {"ebreak"})
  /\ Advance /\ UNCHANGED <<irqBoard, left, gIRQ, failed, resets>>

(* The waiting loop and the texts before a check, an instruction at a time. *)
print ==
  /\ Launch /\ Stmt.op = "print"
  /\ \E d \in InstrClocks :
       /\ Execute(d, Same) /\ Raise(RaisedBy(cpu, d))
       /\ IF left > d THEN left' = left - d /\ UNCHANGED irqPc
                      ELSE left' = PrintClocks /\ Advance
  /\ UNCHANGED <<irqBoard, gIRQ, failed, resets>>

CheckCount ==
  /\ Launch /\ Stmt.op = "check"
  /\ \E d \in InstrClocks : Execute(d, Same) /\ Raise(RaisedBy(cpu, d))
  /\ failed' = IF gIRQ[Stmt.irq] # Stmt.want THEN failed \cup {irqPc} ELSE failed
  /\ Advance /\ UNCHANGED <<irqBoard, left, gIRQ, resets>>

(***************************************************************************)
(* The interrupt.                                                          *)
(***************************************************************************)
Handling(c, d) ==
  cpu' = Tick(c, d) /\ Raise(RaisedBy(c, d)) /\ UNCHANGED <<irqBoard, irqPc, left, failed, resets>>

(* irq_state 00 and 01: to PROGADDR_IRQ, with irq_active.                  *)
TakeIrq ==
  /\ cpu.at = "main" /\ ~cpu.active /\ ~cpu.delay /\ Taken # {} /\ ~Returned
  /\ Handling([cpu EXCEPT !.active = TRUE, !.at = "entry"], 1)
  /\ UNCHANGED gIRQ

CaptureIrqs_Kept ==    \* slip: irq_pending is not cleared
  /\ cpu.at = "entry"
  /\ Handling([cpu EXCEPT !.q1 = Taken, !.at = "handler"], 1)
  /\ UNCHANGED gIRQ

(* irq_state 10: what is pending goes to q1 and is pending no longer, but  *)
(* for what this very clock raises.                                        *)
CaptureIrqs ==
  /\ cpu.at = "entry"
  /\ Handling([cpu EXCEPT !.q1 = Taken, !.pending = @ \cap cpu.mask, !.at = "handler"], 1)
  /\ UNCHANGED gIRQ

irqCallback ==
  /\ cpu.at = "handler"
  /\ \E d \in InstrClocks : Handling([cpu EXCEPT !.q1 = {}, !.at = "retirq"], d)
  /\ gIRQ' = [i \in Irqs |-> gIRQ[i] + (IF i \in cpu.q1 THEN 1 ELSE 0)]

(* The launch of retirq, in the handler, sets irq_delay.                   *)
retirq ==
  /\ cpu.at = "retirq"
  /\ \E d \in InstrClocks : Handling([cpu EXCEPT !.active = FALSE, !.delay = TRUE, !.at = "main"], d)
  /\ UNCHANGED gIRQ

(***************************************************************************)
(* The reset button leaves the memory as it is.                            *)
(***************************************************************************)
ResetButton ==
  /\ irqPc # 0 /\ resets < MaxResets
  /\ resets' = resets + 1
  /\ irqPc' = 1 /\ left' = PrintClocks /\ cpu' = ResetCpu /\ failed' = {}
  /\ raised' = NoIrqs
  /\ UNCHANGED <<irqBoard, gIRQ>>

IrqTestStep ==
  \/ crtInit \/ Clear \/ set_timer \/ disable_irq \/ enable_irq \/ ebreak \/ print \/ CheckCount
  \/ TakeIrq \/ CaptureIrqs \/ irqCallback \/ retirq
IrqTestNext == IrqTestStep \/ ResetButton

IrqTestSpec == IrqTestInit /\ [][IrqTestNext]_irqVars

(***************************************************************************)
(* Properties.                                                             *)
(***************************************************************************)
Started == irqPc > Len(Startup(irqBoard))

(* Each expiry of the timer and each ebreak since the start is pending, is *)
(* with the handler or has been counted, and counted once, however the     *)
(* interrupts fall between main's instructions and across a reset.         *)
OncePerEvent ==
  Started =>
    \A i \in Irqs :
      raised[i] = gIRQ[i] + (IF i \in cpu.pending THEN 1 ELSE 0) + (IF i \in cpu.q1 THEN 1 ELSE 0)

(* Without a further reset main returns with every check passed: the       *)
(* interrupts that keep it from its statements end, no ebreak finds itself *)
(* masked, and the number each check wants is the number of interrupts by  *)
(* then, after a reset as well.                                            *)
TestsDone == irqPc # 0 ~> (Returned /\ failed = {})

===============================================================================
