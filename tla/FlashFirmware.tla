---------------------------- MODULE FlashFirmware ----------------------------
(***************************************************************************)
(* The demonstration program, fw/tangnano9k/flash: firmware.c on lib.c.    *)
(* It runs from the SPI flash through the XIP controller and switches, as  *)
(* it runs, the mode that controller reads in; the flash itself has a mode *)
(* too, continuous read, in which it takes no commands.                    *)
(*                                                                         *)
(* A command is the list of the register accesses it makes, taken one at a *)
(* time.  What it writes to the LCD, where it fills the panel, and how     *)
(* long its loops last are left out.                                       *)
(***************************************************************************)
EXTENDS Integers, Sequences

CONSTANTS
  LineMax,     \* size of main's cmds: 20
  Keys,        \* characters a terminal sends
  FlashIds,    \* what the flash answers 0x9F with: three bytes as pairs of digits
  MaxFwResets  \* bound on the presses of the reset button

ASSUME FlashAssumption ==
  /\ LineMax \in Nat \ {0, 1} /\ MaxFwResets \in Nat
  /\ {"BS", "CR"} \subseteq Keys /\ "NUL" \notin Keys
  /\ FlashIds \subseteq [1 .. 3 -> (0 .. 15) \X (0 .. 15)]

VARIABLES
  fwPc,      \* "idle", "do", "gets"
  todo,      \* the accesses the command still makes
  qspi,      \* the mode bits of the QSPI register, and its enable bit
  pre_dspi,
  enhance,   \* the flash is in continuous read
  OUT,       \* LEDs whose bit is set
  cmds, s, len,   \* main's buffer; gets
  shown,     \* the last number printed
  flashId,   \* of the flash that is on the board
  fwResets,
  line, screen, blank,  \* not of the program: what was typed as edited; the terminal's line;
                        \* whether a backspace was typed where there was nothing
  asked      \* not of the program: the mode the user last asked for
fwVars == <<fwPc, todo, qspi, pre_dspi, enhance, OUT, cmds, s, len, shown, flashId, fwResets,
            line, screen, blank, asked>>

lib == <<cmds, s, len, line, screen, blank>>
board == <<flashId, fwResets>>

(***************************************************************************)
(* lib.c                                                                   *)
(***************************************************************************)

(* What putchar sends for a character, and what a terminal makes of it.    *)
putchar(c) == IF c = "NL" THEN <<"CR", "NL">>
              ELSE IF c = "BS" THEN <<"BS", " ", "BS">>
              ELSE <<c>>

Front1(seq) == SubSeq(seq, 1, Len(seq) - 1)
Erased(seq) == IF seq = << >> THEN seq ELSE Front1(seq)
Displayed(text, c) ==
  IF putchar(c) = <<"BS", " ", "BS">> THEN Erased(text)
  ELSE IF c \in {"CR", "NL"} THEN text
  ELSE Append(text, c)

Digit == << "0", "1", "2", "3", "4", "5", "6", "7", "8", "9", "a", "b", "c", "d", "e", "f" >>

(* A word is its eight digits, the highest first.  Zeros are left out      *)
(* before the first other digit, but for the last `digits`.                 *)
print_hex(v, digits) ==
  LET Shown(k) == k > 8 - digits \/ \E j \in 1 .. k : v[j] # 0
      from == CHOOSE k \in 1 .. 9 : (k = 9 \/ Shown(k)) /\ \A j \in 1 .. k - 1 : ~Shown(j)
  IN  [k \in 1 .. 9 - from |-> Digit[v[from + k - 1] + 1]]

AsWord(byte) == <<0, 0, 0, 0, 0, 0>> \o byte

Prompt == <<">", " ">>
Ended(i) == [cmds EXCEPT ![i] = "NUL"]

(* gets with a character of getchar, which echoes it.                       *)
GetsEnter(c) ==
  /\ c \in {"CR", "NL"}
  /\ cmds' = Ended(s) /\ fwPc' = "main"
  /\ UNCHANGED <<s, len, line, blank>>

GetsBackspace(c) ==
  /\ c = "BS"
  /\ cmds' = Ended(s)
  /\ IF s > 0 THEN s' = s - 1 /\ len' = len + 1 ELSE UNCHANGED <<s, len>>
  /\ line' = Erased(line) /\ blank' = (blank \/ line = << >>)
  /\ UNCHANGED fwPc

GetsOther_Overrun(c) ==    \* slip: while (len > 0)
  /\ c \notin {"CR", "NL", "BS"}
  /\ cmds' = [cmds EXCEPT ![s] = c]
  /\ s' = s + 1 /\ len' = len - 1
  /\ fwPc' = IF len = 1 THEN "main" ELSE fwPc
  /\ line' = Append(line, c) /\ UNCHANGED blank

(* The line is full when one place is left; no Enter is waited for then.   *)
GetsOther(c) ==
  /\ c \notin {"CR", "NL", "BS"}
  /\ cmds' = IF len = 2 THEN [cmds EXCEPT ![s] = c, ![s + 1] = "NUL"] ELSE [cmds EXCEPT ![s] = c]
  /\ s' = s + 1 /\ len' = len - 1
  /\ fwPc' = IF len = 2 THEN "main" ELSE fwPc
  /\ line' = Append(line, c) /\ UNCHANGED blank

gets ==
  /\ fwPc = "gets"
  /\ \E c \in Keys :
       /\ GetsEnter(c) \/ GetsBackspace(c) \/ GetsOther(c)
       /\ screen' = Displayed(screen, c)
  /\ UNCHANGED <<todo, qspi, pre_dspi, enhance, OUT, shown, board, asked>>

(***************************************************************************)
(* The accesses of a command.                                              *)
(***************************************************************************)
Reg(what, on) == [op |-> what, on |-> on]
cmd_set_dspi(on) == <<Reg("dspi", on)>>
cmd_set_crm(on) == <<Reg("crm", on)>>

(* From the boot ROM: the pins by hand, the transfer, and XIP again.       *)
spi_flashio == <<Reg("en", FALSE), Reg("transfer", TRUE), Reg("en", TRUE)>>

cmd_read_flash_id_ModeKept ==    \* slip: the flash is not made to listen
  <<Reg("get_dspi", TRUE)>> \o spi_flashio \o <<Reg("restore", TRUE)>>
cmd_read_flash_id_Left ==    \* slip: the mode is not restored
  <<Reg("get_dspi", TRUE)>> \o cmd_set_dspi(FALSE) \o spi_flashio
cmd_read_flash_id ==
  <<Reg("get_dspi", TRUE)>> \o cmd_set_dspi(FALSE) \o spi_flashio \o <<Reg("restore", TRUE)>>

cmd_benchmark_all ==
  cmd_set_dspi(FALSE) \o cmd_set_crm(FALSE) \o cmd_set_dspi(TRUE) \o cmd_set_crm(TRUE)

Startup9k == <<Reg("leds", TRUE)>> \o cmd_set_crm(TRUE) \o cmd_set_dspi(TRUE)

Leds == 1 .. 6
Led == [k \in {"1", "2", "3", "4", "5", "6"} |->
          CASE k = "1" -> 1 [] k = "2" -> 2 [] k = "3" -> 3 [] k = "4" -> 4 [] k = "5" -> 5 [] k = "6" -> 6]

Command(c) ==
  CASE c \in {"I", "i"} -> cmd_read_flash_id
    [] c \in {"S", "s"} -> cmd_set_dspi(FALSE) \o cmd_set_crm(FALSE)
    [] c \in {"D", "d"} -> cmd_set_crm(FALSE) \o cmd_set_dspi(TRUE)
    [] c \in {"C", "c"} -> cmd_set_crm(TRUE) \o cmd_set_dspi(TRUE)
    [] c \in {"A", "a"} -> cmd_benchmark_all
    [] c \in DOMAIN Led -> <<Reg("toggle", c)>>
    [] OTHER -> << >>

(* The benchmark of all modes ends in the last one it measures.            *)
Mode(c) ==
  CASE c \in {"S", "s"} -> [dspi |-> FALSE, crm |-> FALSE]
    [] c \in {"D", "d"} -> [dspi |-> TRUE, crm |-> FALSE]
    [] c \in {"C", "c", "A", "a"} -> [dspi |-> TRUE, crm |-> TRUE]
    [] OTHER -> asked

(***************************************************************************)
(* main                                                                    *)
(***************************************************************************)
NoMode == [dspi |-> FALSE, crm |-> FALSE]
ResetQspi == [dspi |-> FALSE, crm |-> FALSE, en |-> TRUE]

FirmwareIdle ==
  /\ fwPc = "idle" /\ todo = << >> /\ qspi = ResetQspi /\ pre_dspi = FALSE /\ enhance = FALSE
  /\ OUT = {} /\ cmds = << >> /\ s = 0 /\ len = 0 /\ shown = << >> /\ flashId = << >>
  /\ fwResets = 0 /\ line = << >> /\ screen = << >> /\ blank = FALSE /\ asked = NoMode

FirmwareInit ==
  /\ flashId \in FlashIds
  /\ fwPc = "do" /\ todo = Startup9k /\ qspi = ResetQspi /\ pre_dspi = FALSE /\ enhance = FALSE
  /\ OUT = {} /\ cmds = [i \in 0 .. LineMax - 1 |-> "NUL"] /\ s = 0 /\ len = LineMax
  /\ shown = << >> /\ fwResets = 0
  /\ line = << >> /\ screen = Prompt /\ blank = FALSE
  /\ asked = [dspi |-> TRUE, crm |-> TRUE]

(* While the register gives the pins away nothing is fetched from flash;   *)
(* else the controller makes the flash ready for commands after each write *)
(* and reads on, in the new mode: in a continuous one if both bits are set.*)
Fetched(q) == IF q.en THEN q.dspi /\ q.crm ELSE enhance

Written(q) == qspi' = q /\ enhance' = Fetched(q)

Access ==
  /\ fwPc = "do" /\ todo # << >>
  /\ todo' = Tail(todo)
  /\ LET a == Head(todo) IN
     /\ CASE a.op = "dspi" -> Written([qspi EXCEPT !.dspi = a.on])
          [] a.op = "crm" -> Written([qspi EXCEPT !.crm = a.on])
          [] a.op = "en" -> Written([qspi EXCEPT !.en = a.on])
          [] a.op = "restore" -> Written([qspi EXCEPT !.dspi = pre_dspi])
          [] OTHER -> UNCHANGED <<qspi, enhance>>
     /\ pre_dspi' = IF a.op = "get_dspi" THEN qspi.dspi ELSE pre_dspi
     /\ OUT' = CASE a.op = "leds" -> Leds
                 [] a.op = "toggle" -> (OUT \ {Led[a.on]}) \cup ({Led[a.on]} \ OUT)
                 [] OTHER -> OUT
     /\ shown' = IF a.op # "transfer" THEN shown
                 ELSE [i \in 1 .. 3 |-> print_hex(AsWord(IF enhance THEN <<15, 15>> ELSE flashId[i]), 2)]
  /\ UNCHANGED <<fwPc, lib, board, asked>>

(* The next command line: char cmds[20] = {0}.                             *)
Ready ==
  /\ fwPc = "do" /\ todo = << >>
  /\ fwPc' = "gets"
  /\ cmds' = [i \in 0 .. LineMax - 1 |-> "NUL"] /\ s' = 0 /\ len' = LineMax
  /\ line' = << >> /\ screen' = Prompt /\ blank' = FALSE
  /\ UNCHANGED <<todo, qspi, pre_dspi, enhance, OUT, shown, board, asked>>

Select ==
  /\ fwPc = "main"
  /\ todo' = Command(cmds[0]) /\ asked' = Mode(cmds[0])
  /\ fwPc' = "do"
  /\ UNCHANGED <<qspi, pre_dspi, enhance, OUT, shown, lib, board>>

(* The button resets the CPU and the controller, not the flash, which the  *)
(* controller then takes out of continuous read before it fetches.         *)
FirmwareReset ==
  /\ fwPc # "idle" /\ fwResets < MaxFwResets
  /\ fwResets' = fwResets + 1
  /\ fwPc' = "do" /\ todo' = Startup9k /\ qspi' = ResetQspi /\ enhance' = FALSE
  /\ OUT' = {} /\ asked' = [dspi |-> TRUE, crm |-> TRUE]
  /\ UNCHANGED <<pre_dspi, shown, flashId, lib>>

FirmwareNext == gets \/ Access \/ Ready \/ Select \/ FirmwareReset

FirmwareSpec == FirmwareInit /\ [][FirmwareNext]_fwVars

(***************************************************************************)
(* Properties.                                                             *)
(***************************************************************************)

(* The string gets leaves is the line as it was typed and edited, ended    *)
(* inside the buffer however many characters and backspaces came, and as   *)
(* long as no backspace was typed on an empty line the screen shows it.    *)
GetsFaithful ==
  fwPc = "main" =>
    /\ s = Len(line) /\ s < LineMax
    /\ \A i \in 0 .. s - 1 : cmds[i] = line[i + 1]
    /\ cmds[s] = "NUL"
    /\ ~blank => screen = Prompt \o line

(* After each command the controller is in the mode the user last asked    *)
(* for: reading the flash's ID, which needs the dual mode off, restores    *)
(* it.  The program, which runs from the flash, never goes on with the     *)
(* pins given away.  And the ID it prints is the flash's, whatever mode it *)
(* read in before: the flash takes commands when it is sent one.           *)
ModeAsAsked ==
  fwPc = "gets" =>
    /\ qspi.en /\ qspi.dspi = asked.dspi /\ qspi.crm = asked.crm
    /\ shown # << >> =>
         \A i \in 1 .. 3 : shown[i] = <<Digit[flashId[i][1] + 1], Digit[flashId[i][2] + 1]>>

===============================================================================
