------------------------------- MODULE Programs -------------------------------
(***************************************************************************)
(* The programs of the repository that a board can be loaded with: CoreMark*)
(* and its ee_printf, the interrupt test and the demonstration firmware.   *)
(* One of them is in the memory the CPU boots into, and runs; the state of *)
(* the others is nowhere.                                                  *)
(***************************************************************************)
EXTENDS CoreMark, EePrintf, IrqTest, FlashFirmware

VARIABLE image    \* the program loaded
programVars == <<image, cmVars, pf, irqVars, fwVars>>

ProgramsInit ==
  /\ image \in {"coremark", "printf", "irqtest", "firmware"}
  /\ EePrintfIdle
  /\ IF image = "coremark" THEN CoreMarkInit ELSE CoreMarkIdle
  /\ IF image = "irqtest" THEN IrqTestInit ELSE IrqTestIdle
  /\ IF image = "firmware" THEN FirmwareInit ELSE FirmwareIdle

ProgramsNext ==
  /\ UNCHANGED image
  /\ \/ image = "coremark" /\ CoreMarkNext /\ UNCHANGED <<pf, irqVars, fwVars>>
     \/ image = "printf" /\ EePrintfNext /\ UNCHANGED <<cmVars, irqVars, fwVars>>
     \/ image = "irqtest" /\ IrqTestNext /\ UNCHANGED <<cmVars, pf, fwVars>>
     \/ image = "firmware" /\ FirmwareNext /\ UNCHANGED <<cmVars, pf, irqVars>>

(* The CPU goes on executing: CoreMark and main of the test, to their end. *)
(* For CoreMark this is WF_cmVars(CoreMarkNext), put with the states where *)
(* CoreMarkNext is not enabled, which TLC takes long to evaluate.          *)
CoreMarkExecutes == []<>(cmPc \in {"idle", "done"}) \/ []<><<TRUE>>_cmVars

ProgramsSpec ==
  /\ ProgramsInit /\ [][ProgramsNext]_programVars
  /\ CoreMarkExecutes /\ WF_irqVars(IrqTestStep)
===============================================================================
