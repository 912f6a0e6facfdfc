-------------------------------- MODULE Lcd114 --------------------------------
(***************************************************************************)
(* The LCD controller (src/hw/lcd114.v) between the bus and the panel, one *)
(* clock edge at a time.  The panel is external: it takes a bit on each    *)
(* falling edge of clk (lcd_clk is inverted) while CS is low, and eight of *)
(* them, with RS, make a word.                                             *)
(*                                                                         *)
(* What the CPU asks for is told apart as the state IDLE does: a command   *)
(* (full store to 0x00), a pixel (0x04), the initialisation (all ones to   *)
(* 0x08), and any other access, reads included, which is answered at once. *)
(***************************************************************************)
EXTENDS Integers, Sequences, SequencesExt

CONSTANTS
    init_cmd,                           \* 9-bit words: RS, byte
    test_pixels,                        \* 16-bit colours shown at the start
    CNT_100MS, CNT_120MS, CNT_200MS,    \* clocks
    Cmds, Pixels,                       \* what the CPU writes
    MaxOps                              \* bound on the CPU's requests

Command == 0..511                       \* RS and a byte
Colour  == 0..65535                     \* RGB565

ASSUME LcdAssumption ==
    /\ init_cmd \in Seq(Command) /\ test_pixels \in Seq(Colour)
    /\ CNT_100MS \in Nat /\ CNT_120MS \in Nat /\ CNT_200MS \in Nat
    /\ Cmds \subseteq Command /\ Pixels \subseteq Colour
    /\ MaxOps \in Nat

VARIABLES
    state, clk_cnt, cmd_index, test_pixel_cnt, bit_loop, boot_done, cmds, pixel,
    lcd_ready,
    lcd_reset_r, lcd_cs_r, lcd_rs_r, spi_data,   \* the pins
    port, ops,                   \* the CPU's request; how many there were
    bits, heard,                 \* the panel: bits of a word; words since its reset
    since, early,                \* history: clocks in reset or without a word; too few
    inited, written              \* history: init answered; words written since

pins == <<lcd_cs_r, lcd_rs_r, spi_data, bit_loop>>
fsm  == <<state, clk_cnt, cmd_index, test_pixel_cnt, boot_done, cmds, pixel, lcd_ready,
          lcd_reset_r, pins>>
cpu  == <<port, ops, inited, written>>
panel == <<bits, heard, since, early>>
vars == <<fsm, cpu, panel>>

NoRequest == [kind |-> "none", data |-> 0]
lcd_valid == port.kind # "none"

\* A 9-bit word and the two words of a pixel, as <<RS, byte>>.
CmdWord(c)    == <<c \div 256, c % 256>>
PixelWords(p) == <<<<1, p \div 256>>, <<1, p % 256>>>>
SleepOut      == <<0, 17>>

Init ==
    /\ state = "IDLE" /\ clk_cnt = 0 /\ cmd_index = 0 /\ test_pixel_cnt = 0
    /\ bit_loop = 0 /\ boot_done = FALSE /\ lcd_ready = FALSE
    /\ cmds = 0 /\ pixel = 0
    /\ lcd_reset_r = 0 /\ lcd_cs_r = 1 /\ lcd_rs_r = 1 /\ spi_data = 255
    /\ port = NoRequest /\ ops = 0
    /\ bits = <<>> /\ heard = <<>> /\ since = 0 /\ early = FALSE
    /\ inited = FALSE /\ written = <<>>
-----------------------------------------------------------------------------
(* lcd114.v *)

\* A delay of n clocks and one, then the next state.
Delay(here, n, next) ==
    /\ state = here
    /\ IF clk_cnt = n THEN clk_cnt' = 0 /\ state' = next
                      ELSE clk_cnt' = clk_cnt + 1 /\ UNCHANGED state
    /\ UNCHANGED <<cmd_index, test_pixel_cnt, boot_done, cmds, pixel, lcd_ready, pins>>

Sent(words) == bit_loop = 8 * Len(words)

\* Words go out, most significant bit first, with CS low throughout.
Shift(words) ==
    IF bit_loop = 0
    THEN lcd_cs_r' = 0 /\ lcd_rs_r' = words[1][1] /\ spi_data' = words[1][2] /\ bit_loop' = 1
    ELSE IF Sent(words)
    THEN lcd_cs_r' = 1 /\ lcd_rs_r' = 1 /\ bit_loop' = 0 /\ UNCHANGED spi_data
    ELSE /\ bit_loop' = bit_loop + 1
         /\ spi_data' = IF bit_loop = 8 THEN words[2][2] ELSE (2 * spi_data + 1) % 256
         /\ UNCHANGED <<lcd_cs_r, lcd_rs_r>>

\* A request answered without further ado.
Ignore ==
    /\ lcd_ready' = TRUE
    /\ UNCHANGED <<state, clk_cnt, cmd_index, test_pixel_cnt, boot_done, cmds, pixel,
                   lcd_reset_r, pins>>

Ack ==
    /\ lcd_ready
    /\ lcd_ready' = FALSE
    /\ UNCHANGED <<state, clk_cnt, cmd_index, test_pixel_cnt, boot_done, cmds, pixel,
                   lcd_reset_r, pins>>

InitReset ==
    /\ Delay("INIT_RESET", CNT_100MS, "INIT_PREPARE")
    /\ lcd_reset_r' = IF clk_cnt = CNT_100MS THEN 1 ELSE lcd_reset_r

\* Slip: the panel is not given its time after the reset.
InitPrepare_Short == Delay("INIT_PREPARE", CNT_100MS, "INIT_WAKEUP") /\ UNCHANGED lcd_reset_r

InitPrepare == Delay("INIT_PREPARE", CNT_200MS, "INIT_WAKEUP") /\ UNCHANGED lcd_reset_r

InitWakeup ==
    /\ state = "INIT_WAKEUP"
    /\ Shift(<<SleepOut>>)
    /\ state' = IF Sent(<<SleepOut>>) THEN "INIT_SNOOZE" ELSE state
    /\ UNCHANGED <<clk_cnt, cmd_index, test_pixel_cnt, boot_done, cmds, pixel, lcd_ready,
                   lcd_reset_r>>

InitSnooze == Delay("INIT_SNOOZE", CNT_120MS, "INIT_WORKING") /\ UNCHANGED lcd_reset_r

InitWorking ==
    /\ state = "INIT_WORKING"
    /\ IF cmd_index = Len(init_cmd) THEN state' = "INIT_DONE" /\ UNCHANGED <<cmd_index, pins>>
       ELSE LET words == <<CmdWord(init_cmd[cmd_index + 1])>>
            IN  /\ Shift(words)
                /\ cmd_index' = IF Sent(words) THEN cmd_index + 1 ELSE cmd_index
                /\ UNCHANGED state
    /\ UNCHANGED <<clk_cnt, test_pixel_cnt, boot_done, cmds, pixel, lcd_ready, lcd_reset_r>>

\* The test picture; after it the request of the initialisation is answered.
InitDone ==
    /\ state = "INIT_DONE"
    /\ IF test_pixel_cnt = Len(test_pixels)
       THEN /\ state' = "IDLE" /\ lcd_ready' = TRUE /\ boot_done' = TRUE
            /\ UNCHANGED <<test_pixel_cnt, pins>>
       ELSE LET words == PixelWords(test_pixels[test_pixel_cnt + 1])
            IN  /\ Shift(words)
                /\ test_pixel_cnt' = test_pixel_cnt + (IF Sent(words) THEN 1 ELSE 0)
                /\ UNCHANGED <<state, lcd_ready, boot_done>>
    /\ UNCHANGED <<clk_cnt, cmd_index, cmds, pixel, lcd_reset_r>>

Idle == state = "IDLE" /\ ~lcd_valid /\ UNCHANGED fsm

\* Slip: the second initialisation goes on where the first one ended.
IdleInit_Stale ==
    /\ state = "IDLE" /\ port.kind = "init"
    /\ state' = "INIT_RESET"
    /\ clk_cnt' = 0 /\ lcd_reset_r' = 0
    /\ lcd_cs_r' = 1 /\ lcd_rs_r' = 1 /\ spi_data' = 255 /\ bit_loop' = 0
    /\ UNCHANGED <<cmd_index, test_pixel_cnt, boot_done, cmds, pixel, lcd_ready>>

\* The first time everything is as the reset left it, which is the same.
IdleInit ==
    /\ state = "IDLE" /\ port.kind = "init"
    /\ state' = "INIT_RESET"
    /\ IF boot_done
       THEN /\ clk_cnt' = 0 /\ cmd_index' = 0 /\ test_pixel_cnt' = 0 /\ lcd_reset_r' = 0
            /\ lcd_cs_r' = 1 /\ lcd_rs_r' = 1 /\ spi_data' = 255 /\ bit_loop' = 0
       ELSE UNCHANGED <<clk_cnt, cmd_index, test_pixel_cnt, lcd_reset_r, pins>>
    /\ UNCHANGED <<boot_done, cmds, pixel, lcd_ready>>

\* Slip: before the initialisation nothing is answered.
IdleOther_Silent ==
    /\ state = "IDLE" /\ lcd_valid /\ port.kind # "init"
    /\ \/ ~boot_done /\ UNCHANGED fsm
       \/ boot_done /\ port.kind = "other" /\ Ignore

IdleOther ==
    /\ state = "IDLE" /\ lcd_valid /\ port.kind # "init"
    /\ ~boot_done \/ port.kind = "other"
    /\ Ignore

IdleCmd ==
    /\ state = "IDLE" /\ boot_done /\ port.kind = "cmd"
    /\ cmds' = port.data /\ state' = "U_CMD"
    /\ UNCHANGED <<clk_cnt, cmd_index, test_pixel_cnt, boot_done, pixel, lcd_ready,
                   lcd_reset_r, pins>>

IdlePixel ==
    /\ state = "IDLE" /\ boot_done /\ port.kind = "pixel"
    /\ pixel' = port.data /\ state' = "U_PIXEL_DATA"
    /\ UNCHANGED <<clk_cnt, cmd_index, test_pixel_cnt, boot_done, cmds, lcd_ready,
                   lcd_reset_r, pins>>

\* The CPU's words go out and the request is answered.
User(here, words) ==
    /\ state = here
    /\ Shift(words)
    /\ IF Sent(words) THEN state' = "IDLE" /\ lcd_ready' = TRUE
                      ELSE UNCHANGED <<state, lcd_ready>>
    /\ UNCHANGED <<clk_cnt, cmd_index, test_pixel_cnt, boot_done, cmds, pixel, lcd_reset_r>>

UCmd       == User("U_CMD", <<CmdWord(cmds)>>)
UPixelData == User("U_PIXEL_DATA", PixelWords(pixel))

Lcd ==
    \/ Ack
    \/ /\ ~lcd_ready
       /\ \/ InitReset \/ InitPrepare \/ InitWakeup \/ InitSnooze \/ InitWorking \/ InitDone
          \/ Idle \/ IdleInit \/ IdleOther \/ IdleCmd \/ IdlePixel
          \/ UCmd \/ UPixelData
-----------------------------------------------------------------------------
(* The CPU and the panel, external. *)

\* The words a request stands for.
Words(p) == CASE p.kind = "cmd"   -> <<CmdWord(p.data)>>
              [] p.kind = "pixel" -> PixelWords(p.data)
              [] OTHER            -> <<>>

Requests ==
    {[kind |-> "cmd", data |-> c] : c \in Cmds}
    \cup {[kind |-> "pixel", data |-> p] : p \in Pixels}
    \cup {[kind |-> k, data |-> 0] : k \in {"init", "other"}}

Cpu ==
    \/ /\ lcd_valid /\ lcd_ready
       /\ port' = NoRequest
       /\ inited' = (inited \/ port.kind = "init")
       /\ written' = IF port.kind = "init" THEN <<>>
                     ELSE IF inited THEN written \o Words(port) ELSE written
       /\ UNCHANGED ops
    \/ ~(lcd_valid /\ lcd_ready) /\ UNCHANGED cpu
    \/ /\ ~lcd_valid /\ ops < MaxOps
       /\ port' \in Requests /\ ops' = ops + 1
       /\ UNCHANGED <<inited, written>>

\* Eight bits, the first the most significant.
ByteOf(s) == 128 * s[1] + 64 * s[2] + 32 * s[3] + 16 * s[4] + 8 * s[5] + 4 * s[6] + 2 * s[7] + s[8]

\* The pause the panel needs before the next word.
Pause == CASE heard = <<>>          -> CNT_200MS
           [] heard = <<SleepOut>>  -> CNT_120MS
           [] OTHER                 -> 0

MaxPause == CNT_100MS + CNT_120MS + CNT_200MS   \* bound on `since`
OneMore  == IF since = MaxPause THEN since ELSE since + 1

Panel ==
    LET taken == Append(bits, spi_data \div 128)
        full  == Len(taken) = 8
    IN  \/ /\ lcd_reset_r = 0
           /\ bits' = <<>> /\ heard' = <<>>
           /\ since' = IF lcd_reset_r' = 1 THEN 0 ELSE OneMore
           /\ early' = (early \/ (lcd_reset_r' = 1 /\ since < CNT_100MS))
        \/ /\ lcd_reset_r = 1 /\ lcd_cs_r = 1
           /\ bits' = <<>>
           /\ since' = IF lcd_reset_r' = 0 THEN 0 ELSE OneMore
           /\ UNCHANGED <<heard, early>>
        \/ /\ lcd_reset_r = 1 /\ lcd_cs_r = 0
           /\ bits'  = IF full THEN <<>> ELSE taken
           /\ heard' = IF full THEN Append(heard, <<lcd_rs_r, ByteOf(taken)>>) ELSE heard
           /\ since' = 0
           /\ early' = (early \/ (bits = <<>> /\ since < Pause))

\* The reset button: resetn is low for at least 15 clocks, and with it the
\* panel's reset and the CPU's.
Reset ==
    /\ state' = "IDLE" /\ clk_cnt' = 0 /\ cmd_index' = 0 /\ test_pixel_cnt' = 0
    /\ bit_loop' = 0 /\ boot_done' = FALSE /\ lcd_ready' = FALSE
    /\ lcd_reset_r' = 0 /\ lcd_cs_r' = 1 /\ lcd_rs_r' = 1 /\ spi_data' = 255
    /\ port' = NoRequest /\ inited' = FALSE /\ written' = <<>>
    /\ bits' = <<>> /\ heard' = <<>> /\ since' = 0
    /\ UNCHANGED <<cmds, pixel, ops, early>>

Edge == Lcd /\ Cpu /\ Panel

Next == Edge \/ Reset

Spec == Init /\ [][Next]_vars

\* clk is free-running.
FairSpec == Spec /\ WF_vars(Edge /\ lcd_valid)
-----------------------------------------------------------------------------
\* The initialisation: wake up, the table, the picture with two words a pixel.
InitStream ==
    <<SleepOut>> \o [k \in 1..Len(init_cmd) |-> CmdWord(init_cmd[k])]
                 \o [k \in 1..2 * Len(test_pixels) |->
                       PixelWords(test_pixels[(k + 1) \div 2])[2 - (k % 2)]]

\* lcd114.v:188-368: once the initialisation has been answered, the panel has
\* heard it whole and, after it, what the CPU was told is written, each word
\* once, in order and with its RS, also after a second initialisation or a
\* reset; no other access adds to it.
PanelFaithful ==
    /\ inited /\ port.kind # "init" =>
         /\ IsPrefix(InitStream \o written, heard)
         /\ IsPrefix(heard, InitStream \o written \o Words(port))
         /\ lcd_ready => heard = InitStream \o written \o Words(port)
    /\ port.kind = "init" /\ lcd_ready => heard = InitStream

\* lcd114.v:95-98 "delay 100ms while reset", "delay 200ms after reset", "delay
\* 120ms after wakeup": the panel is held in reset and left alone that long, in
\* a second initialisation too.
PausesKept == ~early

\* A request holds the CPU no longer than the panel takes for it.
Served == lcd_valid ~> (lcd_ready \/ ~lcd_valid)
=============================================================================
