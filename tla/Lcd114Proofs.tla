----------------------------- MODULE Lcd114Proofs -----------------------------
(***************************************************************************)
(* The pauses of the panel and the words it hears, for every delay,        *)
(* initialisation, test picture and sequence of requests, second           *)
(* initialisations and resets.                                             *)
(*                                                                         *)
(* The controller counts clocks in its states; the panel counts them from  *)
(* the edges of its own pins.  IInv ties the two counts together.          *)
(*                                                                         *)
(* The controller shifts a byte out of a register; the panel gathers its   *)
(* bits.  SoFar says in each state what the panel has heard of the words   *)
(* that are due, to the bit, and Asked where the controller is with the    *)
(* request.                                                                *)
(***************************************************************************)
EXTENDS Lcd114, SequenceTheorems, TLAPS

HeardWord == {<<r, ByteOf(t)>> : r \in Int, t \in Seq(Int)}

States == {"IDLE", "INIT_RESET", "INIT_PREPARE", "INIT_WAKEUP", "INIT_SNOOZE", "INIT_WORKING",
           "INIT_DONE", "U_CMD", "U_PIXEL_DATA"}

FsmType ==
    /\ state \in States
    /\ clk_cnt \in Nat /\ bit_loop \in 0..16
    /\ cmd_index \in 0..Len(init_cmd) /\ test_pixel_cnt \in 0..Len(test_pixels)
    /\ boot_done \in BOOLEAN /\ lcd_ready \in BOOLEAN
    /\ cmds \in Int /\ pixel \in Int
    /\ lcd_reset_r \in 0..1 /\ lcd_cs_r \in 0..1 /\ lcd_rs_r \in Int /\ spi_data \in Int

PanelType ==
    /\ bits \in Seq(Int) /\ heard \in Seq(HeardWord)
    /\ since \in 0..MaxPause /\ early \in BOOLEAN

CpuType == port \in [kind : {"none", "cmd", "pixel", "init", "other"}, data : Int]

\* Where words may be on their way, and how far the panel is with them.
Sending == {"INIT_WAKEUP", "INIT_WORKING", "INIT_DONE", "U_CMD", "U_PIXEL_DATA"}

WireInv ==
    /\ lcd_cs_r = 0 <=> bit_loop > 0
    /\ Len(bits) = IF bit_loop = 0 THEN 0 ELSE (bit_loop - 1) % 8
    /\ bit_loop > 0 => state \in Sending
    /\ state \in {"INIT_WAKEUP", "INIT_WORKING", "U_CMD"} => bit_loop <= 8
    /\ state = "INIT_WORKING" /\ cmd_index = Len(init_cmd) => bit_loop = 0
    /\ state = "INIT_DONE" /\ test_pixel_cnt = Len(test_pixels) => bit_loop = 0
    /\ lcd_ready => state = "IDLE"

\* After the words of the initialisation began.
Started == state \in {"INIT_WORKING", "INIT_DONE", "U_CMD", "U_PIXEL_DATA"}
              \/ (state = "IDLE" /\ boot_done)

\* What each state has left of the delays, on the panel's clock.
TimeInv ==
    /\ ~early
    /\ lcd_reset_r = 0 <=> state = "INIT_RESET" \/ (state = "IDLE" /\ ~boot_done)
    /\ state = "IDLE" /\ ~boot_done => clk_cnt = 0 /\ heard = <<>>
    /\ state \in {"U_CMD", "U_PIXEL_DATA"} => boot_done
    /\ state = "INIT_RESET" =>
          /\ clk_cnt <= CNT_100MS /\ clk_cnt <= since
          /\ clk_cnt = 0 \/ heard = <<>>
    /\ state = "INIT_PREPARE" => clk_cnt <= CNT_200MS /\ clk_cnt <= since /\ heard = <<>>
    /\ state = "INIT_WAKEUP" =>
          /\ clk_cnt = 0 /\ heard = <<>>
          /\ bit_loop <= 1 => CNT_200MS <= since
    /\ state = "INIT_SNOOZE" => clk_cnt <= CNT_120MS /\ clk_cnt <= since /\ Len(heard) >= 1
    /\ Started =>
          /\ clk_cnt = 0 /\ Len(heard) >= 1
          /\ Len(heard) >= 2 \/ bit_loop \in 2..8 \/ (bit_loop <= 1 /\ CNT_120MS <= since)

IInv == FsmType /\ CpuType /\ PanelType /\ WireInv /\ TimeInv
-----------------------------------------------------------------------------
\* The bound on the panel's count is none for the pauses.
LEMMA Bounds ==
    /\ CNT_100MS \in Nat /\ CNT_120MS \in Nat /\ CNT_200MS \in Nat /\ MaxPause \in Nat
    /\ CNT_100MS <= MaxPause /\ CNT_120MS <= MaxPause /\ CNT_200MS <= MaxPause
<1>1. CNT_100MS \in Nat /\ CNT_120MS \in Nat /\ CNT_200MS \in Nat
  BY LcdAssumption
<1> QED
  BY <1>1, SMTT(40) DEF MaxPause

\* A clock more, to the bound.
LEMMA OneMoreIs ==
    ASSUME since \in 0..MaxPause
    PROVE  /\ OneMore \in 0..MaxPause /\ OneMore >= since
           /\ \A n \in 0..MaxPause : n > 0 /\ n - 1 <= since => n <= OneMore
BY Bounds DEF OneMore

\* One word or two go out, a bit a clock, and CS rises behind the last.
LEMMA ShiftIs ==
    ASSUME FsmType, lcd_cs_r = 0 <=> bit_loop > 0,
           NEW words \in Seq(Int \X Int), Len(words) \in 1..2, bit_loop <= 8 * Len(words),
           Shift(words)
    PROVE  /\ bit_loop' = IF Sent(words) THEN 0 ELSE bit_loop + 1
           /\ bit_loop' \in 0..16 /\ bit_loop' <= 8 * Len(words)
           /\ lcd_cs_r' = IF Sent(words) THEN 1 ELSE 0
           /\ lcd_rs_r' \in Int /\ spi_data' \in Int
<1>1. /\ words[1][1] \in Int /\ words[1][2] \in Int
      /\ Len(words) = 2 => words[2][2] \in Int
  <2>1. words[1] \in Int \X Int /\ (Len(words) = 2 => words[2] \in Int \X Int)
    OBVIOUS
  <2> QED
    BY <2>1
<1>2. /\ bit_loop \in 0..16 /\ lcd_cs_r \in 0..1 /\ lcd_rs_r \in Int /\ spi_data \in Int
  BY DEF FsmType
<1>3. (2 * spi_data + 1) % 256 \in Int
  BY <1>2
<1>4. CASE bit_loop = 0
  BY <1>1, <1>2, <1>4 DEF Shift, Sent
<1>5. CASE bit_loop # 0 /\ Sent(words)
  BY <1>2, <1>5 DEF Shift, Sent
<1>6. CASE bit_loop # 0 /\ ~Sent(words)
  <2>1. bit_loop' = bit_loop + 1 /\ lcd_cs_r' = lcd_cs_r /\ lcd_rs_r' = lcd_rs_r
        /\ spi_data' = IF bit_loop = 8 THEN words[2][2] ELSE (2 * spi_data + 1) % 256
    BY <1>6 DEF Shift
  <2>2. spi_data' \in Int
    BY <1>1, <1>2, <1>3, <1>6, <2>1 DEF Sent
  <2>3. lcd_cs_r' = 0
    BY <1>2, <1>6, <2>1
  <2>4. bit_loop' \in 0..16 /\ bit_loop' <= 8 * Len(words)
    <3> DEFINE n == Len(words)
    <3>1. bit_loop # 8 * n /\ bit_loop <= 8 * n /\ n \in 1..2
      BY <1>6 DEF Sent
    <3> HIDE DEF n
    <3>2. bit_loop' \in 0..16 /\ bit_loop' <= 8 * n
      BY <1>2, <2>1, <3>1
    <3> QED
      BY <3>2 DEF n
  <2> QED
    BY <1>2, <1>6, <2>1, <2>2, <2>3, <2>4
<1> QED
  BY <1>4, <1>5, <1>6

\* The words the controller sends are pairs of numbers.
LEMMA WordsTyped ==
    /\ <<SleepOut>> \in Seq(Int \X Int) /\ Len(<<SleepOut>>) = 1
    /\ \A c \in Int : <<CmdWord(c)>> \in Seq(Int \X Int) /\ Len(<<CmdWord(c)>>) = 1
    /\ \A p \in Int : PixelWords(p) \in Seq(Int \X Int) /\ Len(PixelWords(p)) = 2
<1>1. SleepOut \in Int \X Int
  BY DEF SleepOut
<1>2. \A c \in Int : CmdWord(c) \in Int \X Int
  BY DEF CmdWord
<1>3. ASSUME NEW p \in Int
      PROVE  PixelWords(p) \in Seq(Int \X Int) /\ Len(PixelWords(p)) = 2
  <2>1. <<1, p \div 256>> \in Int \X Int /\ <<1, p % 256>> \in Int \X Int
    OBVIOUS
  <2> QED
    BY <2>1 DEF PixelWords
<1> QED
  BY <1>1, <1>2, <1>3

\* The panel's clock edge, by what its pins show.
LEMMA PanelIs ==
    ASSUME FsmType, PanelType, Panel, lcd_reset_r' \in 0..1
    PROVE  /\ PanelType'
           /\ lcd_reset_r = 0 =>
                /\ Len(bits') = 0 /\ heard' = <<>>
                /\ since' = IF lcd_reset_r' = 1 THEN 0 ELSE OneMore
                /\ early' => early \/ (lcd_reset_r' = 1 /\ since < CNT_100MS)
           /\ lcd_reset_r = 1 /\ lcd_cs_r = 1 =>
                /\ Len(bits') = 0 /\ heard' = heard
                /\ since' = IF lcd_reset_r' = 0 THEN 0 ELSE OneMore
                /\ early' => early
           /\ lcd_reset_r = 1 /\ lcd_cs_r = 0 =>
                /\ Len(bits') = IF Len(bits) = 7 THEN 0 ELSE Len(bits) + 1
                /\ Len(bits) = 7 => Len(heard') = Len(heard) + 1
                /\ Len(bits) # 7 => heard' = heard
                /\ early' => early \/ (Len(bits) = 0 /\ since < Pause)
<1> DEFINE b == spi_data \div 128
           taken == Append(bits, b)
           full == Len(taken) = 8
           word == <<lcd_rs_r, ByteOf(taken)>>
<1>1. /\ bits \in Seq(Int) /\ heard \in Seq(HeardWord) /\ since \in 0..MaxPause
      /\ early \in BOOLEAN /\ b \in Int /\ lcd_rs_r \in Int
      /\ lcd_reset_r \in 0..1 /\ lcd_cs_r \in 0..1
  BY DEF FsmType, PanelType
<1>2. taken \in Seq(Int) /\ Len(taken) = Len(bits) + 1 /\ Len(bits) \in Nat
  <2> HIDE DEF b
  <2> QED
    BY <1>1
<1>3. full <=> Len(bits) = 7
  <2> DEFINE m == Len(bits)
             n == Len(taken)
  <2>1. n = m + 1 /\ m \in Nat
    BY <1>2
  <2> HIDE DEF m, n
  <2>2. n = 8 <=> m = 7
    BY <2>1
  <2> QED
    BY <2>2 DEF m, n
<1>4. word \in HeardWord
  <2> HIDE DEF taken
  <2> QED
    BY <1>1, <1>2 DEF HeardWord
<1>5. Append(heard, word) \in Seq(HeardWord) /\ Len(Append(heard, word)) = Len(heard) + 1
  <2> HIDE DEF word
  <2> QED
    BY <1>1, <1>4
<1>6. OneMore \in 0..MaxPause /\ 0 \in 0..MaxPause
  BY <1>1, Bounds, OneMoreIs
<1>7. \A q : q = <<>> => q \in Seq(Int) /\ q \in Seq(HeardWord) /\ Len(q) = 0
  OBVIOUS
<1>8. CASE lcd_reset_r = 0
  <2>1. /\ bits' = <<>> /\ heard' = <<>>
        /\ since' = IF lcd_reset_r' = 1 THEN 0 ELSE OneMore
        /\ early' = (early \/ (lcd_reset_r' = 1 /\ since < CNT_100MS))
    BY <1>8 DEF Panel
  <2>2. early' \in BOOLEAN /\ (early' => early \/ (lcd_reset_r' = 1 /\ since < CNT_100MS))
    BY <2>1, Zenon
  <2> QED
    BY <1>6, <1>7, <1>8, <2>1, <2>2 DEF PanelType
<1>9. CASE lcd_reset_r = 1 /\ lcd_cs_r = 1
  <2>1. /\ bits' = <<>> /\ heard' = heard /\ early' = early
        /\ since' = IF lcd_reset_r' = 0 THEN 0 ELSE OneMore
    BY <1>9 DEF Panel
  <2> QED
    BY <1>1, <1>6, <1>7, <1>9, <2>1 DEF PanelType
<1>10. CASE lcd_reset_r = 1 /\ lcd_cs_r = 0
  <2>1. /\ bits' = IF full THEN <<>> ELSE taken
        /\ heard' = IF full THEN Append(heard, word) ELSE heard
        /\ since' = 0
        /\ early' = (early \/ (bits = <<>> /\ since < Pause))
    BY <1>10 DEF Panel
  <2> HIDE DEF full, taken, word
  <2>2. early' \in BOOLEAN /\ (early' => early \/ (bits = <<>> /\ since < Pause))
    BY <2>1, Zenon
  <2> HIDE DEF Pause
  <2>3. bits = <<>> => Len(bits) = 0
    OBVIOUS
  <2>4. bits' \in Seq(Int) /\ Len(bits') = IF Len(bits) = 7 THEN 0 ELSE Len(bits) + 1
    BY <1>2, <1>3, <1>7, <2>1
  <2>5. heard' \in Seq(HeardWord)
    BY <1>1, <1>5, <2>1
  <2> QED
    BY <1>3, <1>5, <1>6, <1>10, <2>1, <2>2, <2>3, <2>4, <2>5 DEF PanelType
<1> QED
  BY <1>1, <1>8, <1>9, <1>10

\* The tables' words are numbers.
LEMMA TablesTyped ==
    /\ \A k \in 0..Len(init_cmd) : k # Len(init_cmd) => init_cmd[k + 1] \in Int
    /\ \A k \in 0..Len(test_pixels) : k # Len(test_pixels) => test_pixels[k + 1] \in Int
    /\ Len(init_cmd) \in Nat /\ Len(test_pixels) \in Nat
<1>1. /\ Len(init_cmd) \in Nat
      /\ \A k \in 0..Len(init_cmd) : k # Len(init_cmd) => init_cmd[k + 1] \in Int
  <2> DEFINE S == Command
             n == Len(init_cmd)
  <2>1. init_cmd \in Seq(S) /\ \A x \in S : x \in Int
    BY LcdAssumption DEF Command
  <2> HIDE DEF S
  <2>2. n \in Nat /\ \A k \in 1..n : init_cmd[k] \in Int
    BY <2>1
  <2> HIDE DEF n
  <2>3. \A k \in 0..n : k # n => k + 1 \in 1..n
    BY <2>2
  <2>4. \A k \in 0..n : k # n => init_cmd[k + 1] \in Int
    BY <2>2, <2>3, SMTT(40)
  <2> QED
    BY <2>2, <2>4, SMTT(40) DEF n
<1>2. /\ Len(test_pixels) \in Nat
      /\ \A k \in 0..Len(test_pixels) : k # Len(test_pixels) => test_pixels[k + 1] \in Int
  <2> DEFINE S == Colour
             n == Len(test_pixels)
  <2>1. test_pixels \in Seq(S) /\ \A x \in S : x \in Int
    BY LcdAssumption DEF Colour
  <2> HIDE DEF S
  <2>2. n \in Nat /\ \A k \in 1..n : test_pixels[k] \in Int
    BY <2>1
  <2> HIDE DEF n
  <2>3. \A k \in 0..n : k # n => k + 1 \in 1..n
    BY <2>2
  <2>4. \A k \in 0..n : k # n => test_pixels[k + 1] \in Int
    BY <2>2, <2>3
  <2> QED
    BY <2>2, <2>4 DEF n
<1> QED
  BY <1>1, <1>2

\* A sending state, in terms of what it does to the wires.
LEMMA SendIs ==
    ASSUME FsmType, WireInv, NEW words \in Seq(Int \X Int), Len(words) \in 1..2,
           state \in {"INIT_WAKEUP", "INIT_WORKING", "U_CMD"} \/ Len(words) = 2,
           Shift(words)
    PROVE  /\ bit_loop' = IF Sent(words) THEN 0 ELSE bit_loop + 1
           /\ bit_loop' \in 0..16
           /\ Len(words) = 1 => bit_loop' <= 8 /\ (Sent(words) <=> bit_loop = 8)
           /\ Sent(words) => bit_loop \in {8, 16}
           /\ lcd_cs_r' = IF Sent(words) THEN 1 ELSE 0
           /\ lcd_rs_r' \in Int /\ spi_data' \in Int
<1> DEFINE n == Len(words)
<1>1. bit_loop \in 0..16 /\ n \in 1..2 /\ bit_loop <= 8 * n
  <2>1. bit_loop \in 0..16 /\ n \in 1..2
    BY DEF FsmType
  <2>2. bit_loop <= 8 \/ n = 2
    BY DEF WireInv
  <2> HIDE DEF n
  <2> QED
    BY <2>1, <2>2
<1>2. Sent(words) <=> bit_loop = 8 * n
  BY DEF Sent
<1>3. /\ bit_loop' = IF Sent(words) THEN 0 ELSE bit_loop + 1
      /\ bit_loop' \in 0..16 /\ bit_loop' <= 8 * n
      /\ lcd_cs_r' = IF Sent(words) THEN 1 ELSE 0
      /\ lcd_rs_r' \in Int /\ spi_data' \in Int
  BY <1>1, ShiftIs DEF WireInv
<1> HIDE DEF n
<1>4. n = 1 => bit_loop' <= 8 /\ (Sent(words) <=> bit_loop = 8)
  BY <1>1, <1>2, <1>3
<1>5. Sent(words) => bit_loop \in {8, 16}
  BY <1>1, <1>2
<1> QED
  BY <1>3, <1>4, <1>5 DEF n

\* The registers keep their types.
LEMMA FsmTypeNext ==
    ASSUME FsmType, CpuType, WireInv, Lcd
    PROVE  FsmType'
<1> USE DEF FsmType, States
<1>1. CASE Ack
  BY <1>1 DEF Ack, pins
<1>2. CASE InitReset \/ InitPrepare \/ InitSnooze
  <2>1. /\ state' \in {state, "INIT_PREPARE", "INIT_WAKEUP", "INIT_WORKING"}
        /\ clk_cnt' \in {0, clk_cnt + 1} /\ lcd_reset_r' \in {1, lcd_reset_r}
    BY <1>2 DEF InitReset, InitPrepare, InitSnooze, Delay
  <2>2. UNCHANGED <<cmd_index, test_pixel_cnt, boot_done, cmds, pixel, lcd_ready, pins>>
    BY <1>2 DEF InitReset, InitPrepare, InitSnooze, Delay
  <2> QED
    BY <2>1, <2>2 DEF pins
<1>3. CASE InitWakeup
  <2> DEFINE words == <<SleepOut>>
  <2>1. words \in Seq(Int \X Int) /\ Len(words) = 1
    BY WordsTyped
  <2>2. /\ state = "INIT_WAKEUP" /\ Shift(words)
        /\ state' \in {state, "INIT_SNOOZE"}
        /\ UNCHANGED <<clk_cnt, cmd_index, test_pixel_cnt, boot_done, cmds, pixel, lcd_ready,
                       lcd_reset_r>>
    BY <1>3 DEF InitWakeup
  <2> HIDE DEF words
  <2>3. /\ bit_loop' \in 0..16 /\ lcd_cs_r' \in 0..1 /\ lcd_rs_r' \in Int /\ spi_data' \in Int
    BY <2>1, <2>2, SendIs
  <2> QED
    BY <2>2, <2>3
<1>4. CASE InitWorking /\ cmd_index = Len(init_cmd)
  BY <1>4 DEF InitWorking, pins
<1>5. CASE InitWorking /\ cmd_index # Len(init_cmd)
  <2> DEFINE words == <<CmdWord(init_cmd[cmd_index + 1])>>
  <2>1. words \in Seq(Int \X Int) /\ Len(words) = 1
    BY <1>5, TablesTyped, WordsTyped
  <2>2. /\ state = "INIT_WORKING" /\ Shift(words) /\ state' = state
        /\ cmd_index' = IF Sent(words) THEN cmd_index + 1 ELSE cmd_index
        /\ UNCHANGED <<clk_cnt, test_pixel_cnt, boot_done, cmds, pixel, lcd_ready, lcd_reset_r>>
    BY <1>5 DEF InitWorking
  <2> HIDE DEF words
  <2>3. /\ bit_loop' \in 0..16 /\ lcd_cs_r' \in 0..1 /\ lcd_rs_r' \in Int /\ spi_data' \in Int
    BY <2>1, <2>2, SendIs
  <2>4. cmd_index' \in 0..Len(init_cmd)
    BY <1>5, <2>2, TablesTyped
  <2> QED
    BY <2>2, <2>3, <2>4
<1>6. CASE InitDone /\ test_pixel_cnt = Len(test_pixels)
  BY <1>6 DEF InitDone, pins
<1>7. CASE InitDone /\ test_pixel_cnt # Len(test_pixels)
  <2> DEFINE words == PixelWords(test_pixels[test_pixel_cnt + 1])
  <2>1. words \in Seq(Int \X Int) /\ Len(words) = 2
    BY <1>7, TablesTyped, WordsTyped
  <2>2. /\ Shift(words) /\ state' = state
        /\ test_pixel_cnt' = test_pixel_cnt + (IF Sent(words) THEN 1 ELSE 0)
        /\ UNCHANGED <<clk_cnt, cmd_index, boot_done, cmds, pixel, lcd_ready, lcd_reset_r>>
    BY <1>7 DEF InitDone
  <2> HIDE DEF words
  <2>3. /\ bit_loop' \in 0..16 /\ lcd_cs_r' \in 0..1 /\ lcd_rs_r' \in Int /\ spi_data' \in Int
    BY <2>1, <2>2, SendIs
  <2>4. test_pixel_cnt' \in 0..Len(test_pixels)
    BY <1>7, <2>2, TablesTyped
  <2> QED
    BY <2>2, <2>3, <2>4
<1>8. CASE Idle
  BY <1>8 DEF Idle, fsm, pins
<1>9. CASE IdleInit
  <2>1. 0 \in 0..Len(init_cmd) /\ 0 \in 0..Len(test_pixels)
    BY TablesTyped
  <2>2. /\ state' = "INIT_RESET"
        /\ UNCHANGED <<boot_done, cmds, pixel, lcd_ready>>
    BY <1>9 DEF IdleInit
  <2>3. CASE boot_done
    BY <1>9, <2>1, <2>2, <2>3 DEF IdleInit
  <2>4. CASE ~boot_done
    BY <1>9, <2>2, <2>4 DEF IdleInit, pins
  <2> QED
    BY <2>3, <2>4
<1>10. CASE IdleOther
  BY <1>10 DEF IdleOther, Ignore, pins
<1>11. CASE IdleCmd \/ IdlePixel
  BY <1>11 DEF IdleCmd, IdlePixel, CpuType, pins
<1>12. CASE UCmd
  <2> DEFINE words == <<CmdWord(cmds)>>
  <2>1. words \in Seq(Int \X Int) /\ Len(words) = 1
    BY WordsTyped
  <2>2. /\ state = "U_CMD" /\ Shift(words)
        /\ state' \in {state, "IDLE"} /\ lcd_ready' \in BOOLEAN
        /\ UNCHANGED <<clk_cnt, cmd_index, test_pixel_cnt, boot_done, cmds, pixel, lcd_reset_r>>
    BY <1>12 DEF UCmd, User
  <2> HIDE DEF words
  <2>3. /\ bit_loop' \in 0..16 /\ lcd_cs_r' \in 0..1 /\ lcd_rs_r' \in Int /\ spi_data' \in Int
    BY <2>1, <2>2, SendIs
  <2> QED
    BY <2>2, <2>3
<1>13. CASE UPixelData
  <2> DEFINE words == PixelWords(pixel)
  <2>1. words \in Seq(Int \X Int) /\ Len(words) = 2
    BY WordsTyped
  <2>2. /\ Shift(words)
        /\ state' \in {state, "IDLE"} /\ lcd_ready' \in BOOLEAN
        /\ UNCHANGED <<clk_cnt, cmd_index, test_pixel_cnt, boot_done, cmds, pixel, lcd_reset_r>>
    BY <1>13 DEF UPixelData, User
  <2> HIDE DEF words
  <2>3. /\ bit_loop' \in 0..16 /\ lcd_cs_r' \in 0..1 /\ lcd_rs_r' \in Int /\ spi_data' \in Int
    BY <2>1, <2>2, SendIs
  <2> QED
    BY <2>2, <2>3
<1> QED
  BY <1>1, <1>2, <1>3, <1>4, <1>5, <1>6, <1>7, <1>8, <1>9, <1>10, <1>11, <1>12, <1>13 DEF Lcd

\* What the panel wants, by the number of words it has heard.
LEMMA PauseIs ==
    ASSUME PanelType
    PROVE  /\ heard = <<>> /\ CNT_200MS <= since => ~(since < Pause)
           /\ Len(heard) >= 1 /\ CNT_120MS <= since => ~(since < Pause)
           /\ Len(heard) >= 2 => ~(since < Pause)
<1>1. since \in Nat /\ heard \in Seq(HeardWord)
  BY Bounds DEF PanelType
<1>2. CASE heard = <<>>
  <2>1. Pause = CNT_200MS /\ Len(heard) = 0
    BY <1>2 DEF Pause
  <2> QED
    BY <1>1, <1>2, <2>1, Bounds
<1>3. CASE heard = <<SleepOut>>
  <2>1. Pause = CNT_120MS /\ Len(heard) = 1
    BY <1>3 DEF Pause
  <2> QED
    BY <1>1, <1>2, <1>3, <2>1, Bounds
<1>4. CASE heard # <<>> /\ heard # <<SleepOut>>
  <2>1. Pause = 0
    BY <1>4 DEF Pause
  <2> QED
    BY <1>1, <1>4, <2>1
<1> QED
  BY <1>2, <1>3, <1>4

\* A clock in which nothing is sent, outside the panel's reset.
LEMMA StillClock ==
    ASSUME IInv, Panel, lcd_reset_r = 1, bit_loop = 0, lcd_reset_r' \in 0..1
    PROVE  /\ Len(bits') = 0 /\ heard' = heard /\ ~early'
           /\ since' = IF lcd_reset_r' = 0 THEN 0 ELSE OneMore
<1>1. lcd_cs_r = 1
  BY DEF IInv, WireInv, FsmType
<1> QED
  BY <1>1, PanelIs DEF IInv, TimeInv

\* A clock of a sending state: eight bits to a word.
LEMMA SendClock ==
    ASSUME IInv, Panel, lcd_reset_r = 1, lcd_reset_r' = 1,
           \/ bit_loop \in {8, 16} /\ bit_loop' = 0 /\ lcd_cs_r' = 1
           \/ bit_loop' = bit_loop + 1 /\ lcd_cs_r' = 0
    PROVE  /\ lcd_cs_r' = 0 <=> bit_loop' > 0
           /\ Len(bits') = IF bit_loop' = 0 THEN 0 ELSE (bit_loop' - 1) % 8
           /\ bit_loop = 0 => since' = OneMore
           /\ bit_loop \in {8, 16} => Len(heard') = Len(heard) + 1
           /\ bit_loop \notin {8, 16} => heard' = heard
           /\ early' => bit_loop \in {1, 9} /\ since < Pause
<1>1. /\ bit_loop \in 0..16 /\ lcd_cs_r \in 0..1 /\ ~early
      /\ lcd_cs_r = 0 <=> bit_loop > 0
      /\ Len(bits) = IF bit_loop = 0 THEN 0 ELSE (bit_loop - 1) % 8
  BY DEF IInv, WireInv, FsmType, TimeInv
<1>2. /\ lcd_cs_r = 1 =>
           /\ Len(bits') = 0 /\ heard' = heard
           /\ since' = OneMore
           /\ early' => early
      /\ lcd_cs_r = 0 =>
           /\ Len(bits') = IF Len(bits) = 7 THEN 0 ELSE Len(bits) + 1
           /\ Len(bits) = 7 => Len(heard') = Len(heard) + 1
           /\ Len(bits) # 7 => heard' = heard
           /\ early' => early \/ (Len(bits) = 0 /\ since < Pause)
  BY PanelIs DEF IInv
<1>3. CASE bit_loop = 0
  BY <1>1, <1>2, <1>3
<1>4. CASE bit_loop # 0
  <2> DEFINE m == Len(bits)
             n == Len(bits')
  <2>1. /\ bit_loop \in 1..16 /\ m = (bit_loop - 1) % 8 /\ n = IF m = 7 THEN 0 ELSE m + 1
        /\ m = 7 => Len(heard') = Len(heard) + 1
        /\ m # 7 => heard' = heard
        /\ early' => m = 0 /\ since < Pause
    BY <1>1, <1>2, <1>4
  <2> HIDE DEF m, n, Pause
  <2>2. (m = 7 <=> bit_loop \in {8, 16}) /\ (m = 0 <=> bit_loop \in {1, 9})
    BY <2>1
  <2>3. (lcd_cs_r' = 0 <=> bit_loop' > 0) /\ n = IF bit_loop' = 0 THEN 0 ELSE (bit_loop' - 1) % 8
    BY <2>1, <2>2
  <2> QED
    BY <1>4, <2>1, <2>2, <2>3 DEF n
<1> QED
  BY <1>3, <1>4

\* The same once the first word is behind: no pause is wanted any more, or it has
\* been kept.
LEMMA StartedClock ==
    ASSUME IInv, Panel, Started, lcd_reset_r = 1, lcd_reset_r' = 1,
           \/ bit_loop \in {8, 16} /\ bit_loop' = 0 /\ lcd_cs_r' = 1
           \/ bit_loop' = bit_loop + 1 /\ lcd_cs_r' = 0
    PROVE  /\ ~early' /\ Len(heard') >= 1
           /\ Len(heard') >= 2 \/ bit_loop' \in 2..8 \/ (bit_loop' <= 1 /\ CNT_120MS <= since')
<1>1. /\ bit_loop \in 0..16 /\ Len(heard) >= 1
      /\ Len(heard) >= 2 \/ bit_loop \in 2..8 \/ (bit_loop <= 1 /\ CNT_120MS <= since)
      /\ heard \in Seq(HeardWord) /\ since \in 0..MaxPause
  BY DEF IInv, FsmType, TimeInv, PanelType
<1>2. /\ bit_loop = 0 => since' = OneMore
      /\ bit_loop \in {8, 16} => Len(heard') = Len(heard) + 1
      /\ bit_loop \notin {8, 16} => heard' = heard
      /\ early' => bit_loop \in {1, 9} /\ since < Pause
  BY SendClock
<1>3. ~early'
  <2>1. bit_loop \in {1, 9} => ~(since < Pause)
    BY <1>1, PauseIs DEF IInv
  <2> HIDE DEF Pause
  <2> QED
    BY <1>2, <2>1
<1>4. OneMore >= since /\ OneMore \in Nat /\ since \in Nat /\ CNT_120MS \in Nat
  BY <1>1, OneMoreIs, Bounds
<1>5. Len(heard) \in Nat
  BY <1>1
<1> DEFINE m == Len(heard)
           n == Len(heard')
<1>6. /\ m \in Nat /\ m >= 1 /\ (m >= 2 \/ bit_loop \in 2..8 \/ (bit_loop <= 1 /\ CNT_120MS <= since))
      /\ bit_loop \in {8, 16} => n = m + 1
      /\ bit_loop \notin {8, 16} => n = m
      /\ bit_loop \in 0..16
  BY <1>1, <1>2, <1>5
<1> HIDE DEF m, n
<1>7. n >= 1 /\ (n >= 2 \/ bit_loop' \in 2..8 \/ (bit_loop' <= 1 /\ CNT_120MS <= since'))
  <2> HIDE DEF OneMore
  <2>1. CASE bit_loop = 0
    BY <1>2, <1>4, <1>6, <2>1
  <2>2. CASE bit_loop \in 1..7
    <3>1. bit_loop' = bit_loop + 1
      BY <2>2
    <3> QED
      BY <1>6, <2>2, <3>1
  <2>3. CASE bit_loop \in 8..16
    <3>2. CASE bit_loop = 8
      BY <1>6, <3>2
    <3>3. CASE bit_loop \in 9..16
      BY <1>6, <3>3
    <3> QED
      BY <2>3, <3>2, <3>3
  <2> QED
    BY <1>6, <2>1, <2>2, <2>3
<1> QED
  BY <1>3, <1>7 DEF n
-----------------------------------------------------------------------------
\* The wires in a clock in which nothing is sent.
LEMMA StillWires ==
    ASSUME IInv, Panel, bit_loop = 0, UNCHANGED <<lcd_cs_r, bit_loop>>,
           lcd_reset_r' \in 0..1, lcd_ready' => state' = "IDLE"
    PROVE  WireInv'
<1>1. lcd_cs_r' = 1 /\ bit_loop' = 0 /\ lcd_reset_r \in 0..1
  BY DEF IInv, WireInv, FsmType
<1>2. Len(bits') = 0
  BY <1>1, StillClock, PanelIs DEF IInv
<1> QED
  BY <1>1, <1>2 DEF WireInv

\* And in one in which a bit is.
LEMMA SendWires ==
    ASSUME IInv, Panel, lcd_reset_r = 1, lcd_reset_r' = 1, FsmType',
           \/ bit_loop \in {8, 16} /\ bit_loop' = 0 /\ lcd_cs_r' = 1
           \/ /\ bit_loop' = bit_loop + 1 /\ lcd_cs_r' = 0 /\ state' = state
              /\ state \in Sending
              /\ state \in {"INIT_WAKEUP", "INIT_WORKING", "U_CMD"} => bit_loop' <= 8
              /\ state = "INIT_WORKING" => cmd_index' # Len(init_cmd)
              /\ state = "INIT_DONE" => test_pixel_cnt' # Len(test_pixels),
           lcd_ready' => state' = "IDLE"
    PROVE  WireInv'
<1>1. /\ lcd_cs_r' = 0 <=> bit_loop' > 0
      /\ Len(bits') = IF bit_loop' = 0 THEN 0 ELSE (bit_loop' - 1) % 8
  BY SendClock
<1>2. bit_loop' \in 0..16
  BY DEF FsmType
<1> QED
  BY <1>1, <1>2 DEF WireInv

\* The controller waits for a request, or for the one before to be dropped.
LEMMA IdleEdge ==
    ASSUME IInv, Panel, state = "IDLE",
           UNCHANGED <<clk_cnt, boot_done, lcd_reset_r, lcd_cs_r, bit_loop>>,
           state' = "IDLE" \/ (boot_done /\ state' \in {"U_CMD", "U_PIXEL_DATA"} /\ ~lcd_ready')
    PROVE  WireInv' /\ TimeInv'
<1>1. bit_loop = 0 /\ lcd_reset_r' \in 0..1
  BY DEF IInv, WireInv, FsmType, Sending
<1>2. WireInv'
  BY <1>1, StillWires
<1>3. CASE boot_done
  <2>1. lcd_reset_r = 1 /\ clk_cnt = 0 /\ Len(heard) >= 1
        /\ (Len(heard) >= 2 \/ CNT_120MS <= since)
    BY <1>1, <1>3 DEF IInv, TimeInv, FsmType, Started
  <2>2. heard' = heard /\ ~early' /\ since' = OneMore
    BY <1>1, <2>1, StillClock
  <2>3. CNT_120MS <= since => CNT_120MS <= since'
    BY <2>2, OneMoreIs, Bounds DEF IInv, PanelType
  <2> QED
    BY <1>1, <1>2, <1>3, <2>1, <2>2, <2>3 DEF TimeInv, Started
<1>4. CASE ~boot_done
  <2>1. lcd_reset_r = 0 /\ clk_cnt = 0 /\ ~early
    BY <1>4 DEF IInv, TimeInv
  <2>2. heard' = <<>> /\ (early' => early \/ (lcd_reset_r' = 1 /\ since < CNT_100MS))
    BY <1>1, <2>1, PanelIs DEF IInv
  <2> QED
    BY <1>2, <1>4, <2>1, <2>2 DEF TimeInv, Started
<1> QED
  BY <1>3, <1>4

\* The initialisation begins: the panel's count with it.
LEMMA IdleInitEdge ==
    ASSUME IInv, Panel, IdleInit, ~lcd_ready
    PROVE  WireInv' /\ TimeInv'
<1>1. /\ state = "IDLE" /\ bit_loop = 0 /\ lcd_cs_r = 1 /\ ~early
      /\ since \in 0..MaxPause /\ boot_done \in BOOLEAN
  BY DEF IdleInit, IInv, WireInv, FsmType, PanelType, TimeInv, Sending
<1>2. /\ state' = "INIT_RESET" /\ ~lcd_ready' /\ boot_done' = boot_done
      /\ bit_loop' = 0 /\ lcd_cs_r' = 1 /\ lcd_reset_r' = 0 /\ clk_cnt' = 0
  <2>1. state' = "INIT_RESET" /\ lcd_ready' = lcd_ready /\ boot_done' = boot_done
    BY DEF IdleInit
  <2>2. CASE boot_done
    BY <2>1, <2>2 DEF IdleInit
  <2>3. CASE ~boot_done
    <3>1. UNCHANGED <<clk_cnt, lcd_reset_r, pins>>
      BY <2>3 DEF IdleInit
    <3>2. clk_cnt = 0 /\ lcd_reset_r = 0
      BY <1>1, <2>3 DEF IInv, TimeInv
    <3> QED
      BY <1>1, <2>1, <3>1, <3>2 DEF pins
  <2> QED
    BY <2>2, <2>3
<1>3. WireInv'
  BY <1>1, <1>2, StillWires
<1>4. ~early' /\ since' \in Nat
  <2>1. PanelType'
    BY <1>2, PanelIs DEF IInv
  <2>2. lcd_reset_r = 1 => ~early'
    BY <1>1, <1>2, StillClock
  <2>3. lcd_reset_r = 0 => ~early'
    BY <1>1, <1>2, PanelIs DEF IInv
  <2>4. lcd_reset_r \in 0..1
    BY DEF IInv, FsmType
  <2> QED
    BY <2>1, <2>2, <2>3, <2>4, Bounds DEF PanelType
<1> QED
  BY <1>2, <1>3, <1>4, Bounds DEF TimeInv, Started

\* The delays: one clock, or the end.
LEMMA DelayEdge ==
    ASSUME IInv, Panel, InitReset \/ InitPrepare \/ InitSnooze, ~lcd_ready
    PROVE  WireInv' /\ TimeInv'
<1>1. /\ state \in {"INIT_RESET", "INIT_PREPARE", "INIT_SNOOZE"} /\ bit_loop = 0
      /\ UNCHANGED <<boot_done, lcd_cs_r, bit_loop>> /\ ~lcd_ready'
      /\ clk_cnt \in Nat /\ clk_cnt <= since /\ since \in 0..MaxPause /\ ~early
  <2>1. /\ state \in {"INIT_RESET", "INIT_PREPARE", "INIT_SNOOZE"}
        /\ UNCHANGED <<boot_done, lcd_cs_r, bit_loop>> /\ ~lcd_ready'
    BY DEF InitReset, InitPrepare, InitSnooze, Delay, pins
  <2> QED
    BY <2>1 DEF IInv, WireInv, FsmType, PanelType, TimeInv, Sending
<1>2. OneMore >= since /\ OneMore \in Nat
  BY <1>1, OneMoreIs, Bounds
<1>3. \A n \in Nat : clk_cnt < n /\ n <= MaxPause => clk_cnt + 1 <= OneMore
  <2> SUFFICES ASSUME NEW n \in Nat, clk_cnt < n, n <= MaxPause PROVE clk_cnt + 1 <= OneMore
    OBVIOUS
  <2>1. clk_cnt + 1 \in 0..MaxPause /\ clk_cnt + 1 > 0 /\ (clk_cnt + 1) - 1 <= since
    BY <1>1, Bounds
  <2> QED
    BY <1>1, <2>1, OneMoreIs
<1>4. CASE InitReset
  <2>1. /\ lcd_reset_r = 0 /\ clk_cnt <= CNT_100MS /\ state = "INIT_RESET"
    BY <1>4 DEF InitReset, Delay, IInv, TimeInv
  <2>2. IF clk_cnt = CNT_100MS
        THEN state' = "INIT_PREPARE" /\ clk_cnt' = 0 /\ lcd_reset_r' = 1
        ELSE state' = "INIT_RESET" /\ clk_cnt' = clk_cnt + 1 /\ lcd_reset_r' = 0
    BY <1>4, <2>1 DEF InitReset, Delay
  <2>3. /\ heard' = <<>> /\ since' = IF lcd_reset_r' = 1 THEN 0 ELSE OneMore
        /\ early' => early \/ (lcd_reset_r' = 1 /\ since < CNT_100MS)
    BY <2>1, <2>2, PanelIs DEF IInv
  <2>4. WireInv'
    BY <1>1, <2>2, StillWires
  <2>5. ~early'
    BY <1>1, <2>1, <2>2, <2>3, Bounds
  <2>6. CASE clk_cnt = CNT_100MS
    BY <2>2, <2>3, <2>4, <2>5, <2>6, Bounds DEF TimeInv, Started
  <2>7. CASE clk_cnt # CNT_100MS
    <3>1. clk_cnt' <= CNT_100MS /\ clk_cnt' <= since'
      BY <1>1, <1>3, <2>1, <2>2, <2>3, <2>7, Bounds
    <3> QED
      BY <2>2, <2>3, <2>4, <2>5, <2>7, <3>1 DEF TimeInv, Started
  <2> QED
    BY <2>6, <2>7
<1>5. CASE InitPrepare
  <2>1. /\ lcd_reset_r = 1 /\ clk_cnt <= CNT_200MS /\ state = "INIT_PREPARE" /\ heard = <<>>
    BY <1>5 DEF InitPrepare, Delay, IInv, TimeInv, FsmType
  <2>2. /\ lcd_reset_r' = 1
        /\ IF clk_cnt = CNT_200MS THEN state' = "INIT_WAKEUP" /\ clk_cnt' = 0
                                  ELSE state' = "INIT_PREPARE" /\ clk_cnt' = clk_cnt + 1
    BY <1>5, <2>1 DEF InitPrepare, Delay
  <2>3. heard' = <<>> /\ since' = OneMore /\ ~early'
    BY <1>1, <2>1, <2>2, StillClock
  <2>4. WireInv'
    BY <1>1, <2>2, StillWires
  <2>5. CASE clk_cnt = CNT_200MS
    <3>1. CNT_200MS <= since'
      BY <1>1, <1>2, <2>3, <2>5, Bounds
    <3> QED
      BY <2>2, <2>3, <2>4, <2>5, <3>1 DEF TimeInv, Started
  <2>6. CASE clk_cnt # CNT_200MS
    <3>1. clk_cnt' <= CNT_200MS /\ clk_cnt' <= since'
      BY <1>1, <1>3, <2>1, <2>2, <2>3, <2>6, Bounds
    <3> QED
      BY <2>2, <2>3, <2>4, <2>6, <3>1 DEF TimeInv, Started
  <2> QED
    BY <2>5, <2>6
<1>6. CASE InitSnooze
  <2>1. /\ lcd_reset_r = 1 /\ clk_cnt <= CNT_120MS /\ state = "INIT_SNOOZE" /\ Len(heard) >= 1
    BY <1>6 DEF InitSnooze, Delay, IInv, TimeInv, FsmType
  <2>2. /\ lcd_reset_r' = 1
        /\ IF clk_cnt = CNT_120MS THEN state' = "INIT_WORKING" /\ clk_cnt' = 0
                                  ELSE state' = "INIT_SNOOZE" /\ clk_cnt' = clk_cnt + 1
    BY <1>6, <2>1 DEF InitSnooze, Delay
  <2>3. heard' = heard /\ since' = OneMore /\ ~early'
    BY <1>1, <2>1, <2>2, StillClock
  <2>4. WireInv'
    BY <1>1, <2>2, StillWires
  <2>5. CASE clk_cnt = CNT_120MS
    <3>1. CNT_120MS <= since' /\ bit_loop' <= 1
      BY <1>1, <1>2, <2>3, <2>5, Bounds
    <3> QED
      BY <2>1, <2>2, <2>3, <2>4, <2>5, <3>1 DEF TimeInv, Started
  <2>6. CASE clk_cnt # CNT_120MS
    <3>1. clk_cnt' <= CNT_120MS /\ clk_cnt' <= since'
      BY <1>1, <1>3, <2>1, <2>2, <2>3, <2>6, Bounds
    <3> QED
      BY <2>1, <2>2, <2>3, <2>4, <2>6, <3>1 DEF TimeInv, Started
  <2> QED
    BY <2>5, <2>6
<1> QED
  BY <1>4, <1>5, <1>6

\* The first word: sleep out, after the pause behind the panel's reset.
LEMMA WakeupEdge ==
    ASSUME IInv, Panel, InitWakeup, ~lcd_ready, FsmType'
    PROVE  WireInv' /\ TimeInv'
<1> DEFINE words == <<SleepOut>>
<1>1. words \in Seq(Int \X Int) /\ Len(words) = 1
  BY WordsTyped
<1>2. /\ state = "INIT_WAKEUP" /\ Shift(words)
      /\ state' = IF Sent(words) THEN "INIT_SNOOZE" ELSE state
      /\ UNCHANGED <<clk_cnt, boot_done, lcd_ready, lcd_reset_r>>
  BY DEF InitWakeup
<1> HIDE DEF words
<1>3. /\ bit_loop' = IF bit_loop = 8 THEN 0 ELSE bit_loop + 1
      /\ bit_loop' <= 8 /\ lcd_cs_r' = IF bit_loop = 8 THEN 1 ELSE 0
      /\ Sent(words) <=> bit_loop = 8
  BY <1>1, <1>2, SendIs DEF IInv
<1>4. /\ state' = IF bit_loop = 8 THEN "INIT_SNOOZE" ELSE "INIT_WAKEUP"
      /\ ~lcd_ready'
  BY <1>2, <1>3
<1>5. /\ lcd_reset_r = 1 /\ lcd_reset_r' = 1 /\ bit_loop \in 0..8
      /\ clk_cnt' = 0 /\ heard = <<>> /\ Len(heard) = 0
      /\ bit_loop <= 1 => CNT_200MS <= since
  <2>1. /\ lcd_reset_r = 1 /\ clk_cnt = 0 /\ heard = <<>> /\ bit_loop \in 0..16 /\ bit_loop <= 8
        /\ bit_loop <= 1 => CNT_200MS <= since
    BY <1>2 DEF IInv, FsmType, WireInv, TimeInv
  <2>2. Len(heard) = 0
    BY <2>1
  <2> QED
    BY <1>2, <2>1, <2>2
<1>6. WireInv'
  BY <1>2, <1>3, <1>4, <1>5, SendWires DEF Sending
<1>7. /\ bit_loop = 0 => since' = OneMore
      /\ bit_loop \in {8, 16} => Len(heard') = Len(heard) + 1
      /\ bit_loop \notin {8, 16} => heard' = heard
      /\ early' => bit_loop \in {1, 9} /\ since < Pause
  BY <1>3, <1>5, SendClock
<1>8. ~early'
  <2>1. bit_loop = 1 => ~(since < Pause)
    BY <1>5, PauseIs DEF IInv
  <2>2. bit_loop # 9
    BY <1>5
  <2>3. early' => bit_loop = 1 /\ since < Pause
    BY <1>7, <2>2, Zenon
  <2> QED
    BY <2>1, <2>3, Zenon
<1>9. CASE bit_loop = 8
  <2>1. Len(heard') >= 1
    BY <1>5, <1>7, <1>9
  <2>2. since' \in Nat
    BY <1>5, PanelIs, Bounds DEF IInv, PanelType
  <2> QED
    BY <1>4, <1>5, <1>6, <1>8, <1>9, <2>1, <2>2, Bounds DEF TimeInv, Started
<1>10. CASE bit_loop # 8
  <2>1. heard' = <<>>
    BY <1>5, <1>7, <1>10
  <2>2. bit_loop' <= 1 => CNT_200MS <= since'
    <3>1. OneMore >= since /\ since \in Nat /\ OneMore \in Nat
      BY OneMoreIs, Bounds DEF IInv, PanelType
    <3> QED
      BY <1>3, <1>5, <1>7, <1>10, <3>1, Bounds
  <2> QED
    BY <1>4, <1>5, <1>6, <1>8, <1>10, <2>1, <2>2 DEF TimeInv, Started
<1> QED
  BY <1>9, <1>10

\* Every word after it.
LEMMA StartedEdge ==
    ASSUME IInv, Panel, FsmType', ~lcd_ready,
           state \in {"INIT_WORKING", "INIT_DONE", "U_CMD", "U_PIXEL_DATA"},
           NEW words \in Seq(Int \X Int), Len(words) \in 1..2,
           state \in {"INIT_WORKING", "U_CMD"} => Len(words) = 1,
           state \in {"INIT_DONE", "U_PIXEL_DATA"} => Len(words) = 2,
           Shift(words), UNCHANGED <<clk_cnt, boot_done, lcd_reset_r>>,
           \/ /\ Sent(words)
              /\ state' = IF state \in {"U_CMD", "U_PIXEL_DATA"} THEN "IDLE" ELSE state
           \/ /\ ~Sent(words) /\ state' = state
              /\ state = "INIT_WORKING" => cmd_index' # Len(init_cmd)
              /\ state = "INIT_DONE" => test_pixel_cnt' # Len(test_pixels),
           lcd_ready' => state' = "IDLE"
    PROVE  WireInv' /\ TimeInv'
<1>1. /\ bit_loop' = IF Sent(words) THEN 0 ELSE bit_loop + 1
      /\ Len(words) = 1 => bit_loop' <= 8
      /\ Sent(words) => bit_loop \in {8, 16}
      /\ lcd_cs_r' = IF Sent(words) THEN 1 ELSE 0
  BY SendIs DEF IInv
<1>2. lcd_reset_r = 1 /\ lcd_reset_r' = 1 /\ Started /\ clk_cnt' = 0
  BY DEF IInv, TimeInv, FsmType, Started
<1>3. \/ bit_loop \in {8, 16} /\ bit_loop' = 0 /\ lcd_cs_r' = 1
      \/ /\ bit_loop' = bit_loop + 1 /\ lcd_cs_r' = 0 /\ state' = state
         /\ state \in Sending
         /\ state \in {"INIT_WAKEUP", "INIT_WORKING", "U_CMD"} => bit_loop' <= 8
         /\ state = "INIT_WORKING" => cmd_index' # Len(init_cmd)
         /\ state = "INIT_DONE" => test_pixel_cnt' # Len(test_pixels)
  BY <1>1 DEF Sending
<1>4. WireInv'
  BY <1>2, <1>3, SendWires
<1>5. /\ ~early' /\ Len(heard') >= 1
      /\ Len(heard') >= 2 \/ bit_loop' \in 2..8 \/ (bit_loop' <= 1 /\ CNT_120MS <= since')
  BY <1>2, <1>3, StartedClock
<1>6. state' \in {"INIT_WORKING", "INIT_DONE", "U_CMD", "U_PIXEL_DATA"}
      \/ (state' = "IDLE" /\ boot_done')
  BY DEF IInv, TimeInv
<1>7. state' \in {"U_CMD", "U_PIXEL_DATA"} => boot_done'
  BY DEF IInv, TimeInv
<1> QED
  BY <1>2, <1>4, <1>5, <1>6, <1>7 DEF TimeInv, Started

\* The end of the commands and the end of the picture: a clock without a bit.
LEMMA TurnEdge ==
    ASSUME IInv, Panel, FsmType', bit_loop = 0,
           UNCHANGED <<clk_cnt, lcd_reset_r, lcd_cs_r, bit_loop>>,
           \/ state = "INIT_WORKING" /\ state' = "INIT_DONE" /\ ~lcd_ready'
           \/ state = "INIT_DONE" /\ state' = "IDLE" /\ boot_done'
    PROVE  WireInv' /\ TimeInv'
<1>1. /\ lcd_reset_r = 1 /\ clk_cnt = 0 /\ Len(heard) >= 1
      /\ Len(heard) >= 2 \/ CNT_120MS <= since
  BY DEF IInv, TimeInv, FsmType, Started
<1>2. WireInv'
  BY <1>1, StillWires
<1>3. heard' = heard /\ ~early' /\ since' = OneMore
  BY <1>1, StillClock
<1>4. CNT_120MS <= since => CNT_120MS <= since'
  BY <1>3, OneMoreIs, Bounds DEF IInv, PanelType
<1> QED
  BY <1>1, <1>2, <1>3, <1>4 DEF TimeInv, Started
-----------------------------------------------------------------------------
\* Every clock edge of the controller.
LEMMA LcdEdge ==
    ASSUME IInv, Lcd, Panel, FsmType'
    PROVE  WireInv' /\ TimeInv'
<1>1. CASE Ack
  <2>1. state = "IDLE" /\ state' = "IDLE"
    BY <1>1 DEF Ack, IInv, WireInv
  <2>2. UNCHANGED <<clk_cnt, boot_done, lcd_reset_r, lcd_cs_r, bit_loop>>
    BY <1>1 DEF Ack, pins
  <2> QED
    BY <2>1, <2>2, IdleEdge
<1>2. CASE ~lcd_ready
  <2>1. CASE InitReset \/ InitPrepare \/ InitSnooze
    BY <1>2, <2>1, DelayEdge
  <2>2. CASE InitWakeup
    BY <1>2, <2>2, WakeupEdge
  <2>3. CASE InitWorking /\ cmd_index = Len(init_cmd)
    <3>1. bit_loop = 0
      BY <2>3 DEF InitWorking, IInv, WireInv
    <3>2. /\ UNCHANGED <<clk_cnt, lcd_reset_r, lcd_cs_r, bit_loop>>
          /\ state = "INIT_WORKING" /\ state' = "INIT_DONE" /\ ~lcd_ready'
      BY <1>2, <2>3 DEF InitWorking, pins
    <3> QED
      BY <3>1, <3>2, TurnEdge
  <2>4. CASE InitWorking /\ cmd_index # Len(init_cmd)
    <3> DEFINE words == <<CmdWord(init_cmd[cmd_index + 1])>>
    <3>1. words \in Seq(Int \X Int) /\ Len(words) = 1
      BY <2>4, TablesTyped, WordsTyped DEF IInv, FsmType
    <3>2. /\ state = "INIT_WORKING" /\ Shift(words) /\ state' = state
          /\ cmd_index' = IF Sent(words) THEN cmd_index + 1 ELSE cmd_index
          /\ UNCHANGED <<clk_cnt, boot_done, lcd_ready, lcd_reset_r>>
      BY <2>4 DEF InitWorking
    <3> HIDE DEF words
    <3> QED
      BY <1>2, <2>4, <3>1, <3>2, StartedEdge
  <2>5. CASE InitDone /\ test_pixel_cnt = Len(test_pixels)
    <3>1. bit_loop = 0
      BY <2>5 DEF InitDone, IInv, WireInv
    <3>2. /\ UNCHANGED <<clk_cnt, lcd_reset_r, lcd_cs_r, bit_loop>>
          /\ state = "INIT_DONE" /\ state' = "IDLE" /\ boot_done'
      BY <2>5 DEF InitDone, pins
    <3> QED
      BY <3>1, <3>2, TurnEdge
  <2>6. CASE InitDone /\ test_pixel_cnt # Len(test_pixels)
    <3> DEFINE words == PixelWords(test_pixels[test_pixel_cnt + 1])
    <3>1. words \in Seq(Int \X Int) /\ Len(words) = 2
      BY <2>6, TablesTyped, WordsTyped DEF IInv, FsmType
    <3>2. /\ state = "INIT_DONE" /\ Shift(words) /\ state' = state
          /\ test_pixel_cnt' = test_pixel_cnt + (IF Sent(words) THEN 1 ELSE 0)
          /\ UNCHANGED <<clk_cnt, boot_done, lcd_ready, lcd_reset_r>>
      BY <2>6 DEF InitDone
    <3> HIDE DEF words
    <3>3. ~Sent(words) => test_pixel_cnt' # Len(test_pixels)
      BY <2>6, <3>2 DEF IInv, FsmType
    <3> QED
      BY <1>2, <3>1, <3>2, <3>3, StartedEdge
  <2>7. CASE Idle \/ IdleOther
    <3>1. /\ state = "IDLE" /\ state' = "IDLE"
          /\ UNCHANGED <<clk_cnt, boot_done, lcd_reset_r, lcd_cs_r, bit_loop>>
      BY <2>7 DEF Idle, IdleOther, Ignore, fsm, pins
    <3> QED
      BY <3>1, IdleEdge
  <2>8. CASE IdleInit
    BY <1>2, <2>8, IdleInitEdge
  <2>9. CASE IdleCmd \/ IdlePixel
    <3>1. /\ state = "IDLE" /\ boot_done /\ state' \in {"U_CMD", "U_PIXEL_DATA"} /\ ~lcd_ready'
          /\ UNCHANGED <<clk_cnt, boot_done, lcd_reset_r, lcd_cs_r, bit_loop>>
      BY <1>2, <2>9 DEF IdleCmd, IdlePixel, pins
    <3> QED
      BY <3>1, IdleEdge
  <2>10. CASE UCmd
    <3> DEFINE words == <<CmdWord(cmds)>>
    <3>1. words \in Seq(Int \X Int) /\ Len(words) = 1
      BY WordsTyped DEF IInv, FsmType
    <3>2. /\ state = "U_CMD" /\ Shift(words)
          /\ IF Sent(words) THEN state' = "IDLE" ELSE state' = state /\ lcd_ready' = lcd_ready
          /\ UNCHANGED <<clk_cnt, boot_done, lcd_reset_r>>
      BY <2>10 DEF UCmd, User
    <3> HIDE DEF words
    <3> QED
      BY <1>2, <3>1, <3>2, StartedEdge
  <2>11. CASE UPixelData
    <3> DEFINE words == PixelWords(pixel)
    <3>1. words \in Seq(Int \X Int) /\ Len(words) = 2
      BY WordsTyped DEF IInv, FsmType
    <3>2. /\ state = "U_PIXEL_DATA" /\ Shift(words)
          /\ IF Sent(words) THEN state' = "IDLE" ELSE state' = state /\ lcd_ready' = lcd_ready
          /\ UNCHANGED <<clk_cnt, boot_done, lcd_reset_r>>
      BY <2>11 DEF UPixelData, User
    <3> HIDE DEF words
    <3> QED
      BY <1>2, <3>1, <3>2, StartedEdge
  <2> QED
    BY <1>1, <1>2, <2>1, <2>2, <2>3, <2>4, <2>5, <2>6, <2>7, <2>8, <2>9, <2>10, <2>11 DEF Lcd
<1> QED
  BY <1>1, <1>2 DEF Lcd

\* What the CPU asks for is a number.
LEMMA CpuTypeNext ==
    ASSUME CpuType, Cpu
    PROVE  CpuType'
<1>1. Requests \subseteq [kind : {"none", "cmd", "pixel", "init", "other"}, data : Int]
  <2>1. Cmds \subseteq Int /\ Pixels \subseteq Int
    BY LcdAssumption DEF Command, Colour
  <2> QED
    BY <2>1 DEF Requests
<1> QED
  BY <1>1 DEF Cpu, CpuType, cpu, NoRequest

\* The button takes everything back to the start, the panel too.
LEMMA ResetKeeps ==
    ASSUME IInv, Reset
    PROVE  IInv'
<1>1. /\ state' = "IDLE" /\ clk_cnt' = 0 /\ cmd_index' = 0 /\ test_pixel_cnt' = 0
      /\ bit_loop' = 0 /\ boot_done' = FALSE /\ lcd_ready' = FALSE
      /\ lcd_reset_r' = 0 /\ lcd_cs_r' = 1 /\ lcd_rs_r' = 1 /\ spi_data' = 255
      /\ port' = NoRequest
      /\ bits' = <<>> /\ heard' = <<>> /\ since' = 0
      /\ cmds' = cmds /\ pixel' = pixel /\ early' = early
  BY DEF Reset
<1>2. cmds \in Int /\ pixel \in Int /\ early \in BOOLEAN /\ ~early
  BY DEF IInv, FsmType, PanelType, TimeInv
<1>3. FsmType'
  <2>1. 0 \in 0..Len(init_cmd) /\ 0 \in 0..Len(test_pixels)
    BY TablesTyped
  <2>2. boot_done' \in BOOLEAN /\ lcd_ready' \in BOOLEAN
    BY <1>1, Zenon
  <2> QED
    BY <1>1, <1>2, <2>1, <2>2 DEF FsmType, States
<1>4. CpuType'
  BY <1>1 DEF CpuType, NoRequest
<1>5. bits' \in Seq(Int) /\ Len(bits') = 0 /\ heard' \in Seq(HeardWord)
  BY <1>1
<1>6. PanelType'
  BY <1>1, <1>2, <1>5, Bounds DEF PanelType
<1>7. WireInv'
  BY <1>1, <1>5 DEF WireInv
<1>8. TimeInv'
  BY <1>1, <1>2 DEF TimeInv, Started
<1> QED
  BY <1>3, <1>4, <1>6, <1>7, <1>8 DEF IInv

\* The invariant holds at the start,
LEMMA PausesInit ==
    ASSUME Init
    PROVE  IInv
<1>1. bits \in Seq(Int) /\ Len(bits) = 0 /\ heard \in Seq(HeardWord)
  BY DEF Init
<1>2. FsmType
  <2>1. 0 \in 0..Len(init_cmd) /\ 0 \in 0..Len(test_pixels)
    BY TablesTyped
  <2>2. boot_done \in BOOLEAN /\ lcd_ready \in BOOLEAN
    BY Zenon DEF Init
  <2> QED
    BY <2>1, <2>2 DEF Init, FsmType, States
<1>3. CpuType
  BY DEF Init, CpuType, NoRequest
<1>4. PanelType
  <2>1. since = 0 /\ early \in BOOLEAN
    BY Zenon DEF Init
  <2> QED
    BY <1>1, <2>1, Bounds DEF PanelType
<1>5. WireInv
  BY <1>1 DEF Init, WireInv
<1>6. TimeInv
  BY DEF Init, TimeInv, Started
<1> QED
  BY <1>2, <1>3, <1>4, <1>5, <1>6 DEF IInv

\* and every step keeps it.
LEMMA PausesNext ==
    ASSUME IInv, [Next]_vars
    PROVE  IInv'
<1>1. CASE Edge
  <2>1. FsmType' /\ CpuType'
    BY <1>1, FsmTypeNext, CpuTypeNext DEF IInv, Edge
  <2>2. PanelType'
    <3>1. lcd_reset_r' \in 0..1
      BY <2>1 DEF FsmType
    <3> QED
      BY <1>1, <3>1, PanelIs DEF IInv, Edge
  <2>3. WireInv' /\ TimeInv'
    BY <1>1, <2>1, LcdEdge DEF Edge
  <2> QED
    BY <2>1, <2>2, <2>3 DEF IInv
<1>2. CASE Reset
  BY <1>2, ResetKeeps
<1>3. CASE UNCHANGED vars
  BY <1>3 DEF IInv, FsmType, CpuType, PanelType, WireInv, TimeInv, Started, vars, fsm, pins,
              cpu, panel
<1> QED
  BY <1>1, <1>2, <1>3 DEF Next

\* lcd114.v:95-98 for every length of the delays, every table and every sequence of
\* requests, second initialisations and resets: the panel is never spoken to
\* before its pause is over.
THEOREM PausesAreKept == Spec => []PausesKept
<1>1. Init => IInv
  BY PausesInit
<1>2. IInv /\ [Next]_vars => IInv'
  BY PausesNext
<1>3. IInv => PausesKept
  BY DEF IInv, TimeInv, PausesKept
<1> QED
  BY <1>1, <1>2, <1>3, PTL DEF Spec
-----------------------------------------------------------------------------
(* The words.                                                              *)

\* A word's byte after j bits of it went out, ones behind it; a bit of it.
OnWire(b, j) ==
    CASE j = 0 -> b                         [] j = 1 -> (2 * b + 1) % 256
      [] j = 2 -> (4 * b + 3) % 256         [] j = 3 -> (8 * b + 7) % 256
      [] j = 4 -> (16 * b + 15) % 256       [] j = 5 -> (32 * b + 31) % 256
      [] j = 6 -> (64 * b + 63) % 256       [] j = 7 -> (128 * b + 127) % 256
BitOf(b, i) ==
    CASE i = 1 -> b \div 128                [] i = 2 -> (b \div 64) % 2
      [] i = 3 -> (b \div 32) % 2           [] i = 4 -> (b \div 16) % 2
      [] i = 5 -> (b \div 8) % 2            [] i = 6 -> (b \div 4) % 2
      [] i = 7 -> (b \div 2) % 2            [] i = 8 -> b % 2

\* Of words the controller has sent n clocks' worth, and the panel has heard
\* them behind those before: h is what it heard, r, d the pins, p the bits.
Under(before, words, n, h, r, d, p) ==
    /\ h = IF n <= 8 THEN before ELSE Append(before, words[1])
    /\ n > 0 => LET w == words[IF n <= 8 THEN 1 ELSE 2]
                    j == (n - 1) % 8
                IN  r = w[1] /\ d = OnWire(w[2], j) /\ \A i \in 1..j : p[i] = BitOf(w[2], i)

Hearing(before, words) == Under(before, words, bit_loop, heard, lcd_rs_r, spi_data, bits)

\* The first n words of the initialisation; all it was told since.
First(n) == SubSeq(InitStream, 1, n)
Told == InitStream \o written

Word == Int \X (0..255)

\* What is asked for, and how far the controller is with it.
Asked ==
    /\ written \in Seq(Word)
    /\ lcd_ready => lcd_valid
    /\ lcd_ready /\ port.kind = "init" => boot_done
    /\ state \in {"IDLE", "U_CMD", "U_PIXEL_DATA"} \/ port.kind = "init"
    /\ state = "IDLE" /\ ~boot_done => cmd_index = 0 /\ test_pixel_cnt = 0
    /\ state \in {"INIT_RESET", "INIT_PREPARE", "INIT_WAKEUP", "INIT_SNOOZE"} => cmd_index = 0
    /\ state \in {"INIT_RESET", "INIT_PREPARE", "INIT_WAKEUP", "INIT_SNOOZE", "INIT_WORKING"} =>
         test_pixel_cnt = 0
    /\ state = "U_CMD" => port.kind = "cmd" /\ cmds = port.data
    /\ state = "U_PIXEL_DATA" => port.kind = "pixel" /\ pixel = port.data
    /\ inited => boot_done
    /\ boot_done /\ ~inited => state = "IDLE" /\ lcd_ready /\ port.kind = "init"

\* What the panel has heard in each state.
SoFar ==
    /\ state = "INIT_WAKEUP" => Hearing(First(0), <<SleepOut>>)
    /\ state = "INIT_SNOOZE" => heard = First(1)
    /\ state = "INIT_WORKING" =>
         IF cmd_index = Len(init_cmd) THEN heard = First(1 + cmd_index)
         ELSE Hearing(First(1 + cmd_index), <<CmdWord(init_cmd[cmd_index + 1])>>)
    /\ state = "INIT_DONE" =>
         LET n == 1 + Len(init_cmd) + 2 * test_pixel_cnt
         IN  IF test_pixel_cnt = Len(test_pixels) THEN heard = First(n)
             ELSE Hearing(First(n), PixelWords(test_pixels[test_pixel_cnt + 1]))
    /\ state = "U_CMD" => Hearing(Told, <<CmdWord(cmds)>>)
    /\ state = "U_PIXEL_DATA" => Hearing(Told, PixelWords(pixel))
    /\ state = "IDLE" /\ boot_done =>
         heard = IF ~lcd_ready THEN Told
                 ELSE IF port.kind = "init" THEN InitStream ELSE Told \o Words(port)

\* What the CPU writes is a command or a colour.
PortInv == /\ port.kind = "cmd" => port.data \in Command
           /\ port.kind = "pixel" => port.data \in Colour

WordsInv == IInv /\ Asked /\ SoFar /\ PortInv

-----------------------------------------------------------------------------
(* Bytes and their bits.                                                   *)

\* A byte is its bits.
LEMMA BitsOfByte ==
    ASSUME NEW b \in 0..255, NEW t, \A i \in 1..8 : t[i] = BitOf(b, i)
    PROVE  ByteOf(t) = b
<1>1. /\ t[1] = b \div 128 /\ t[2] = (b \div 64) % 2 /\ t[3] = (b \div 32) % 2
      /\ t[4] = (b \div 16) % 2 /\ t[5] = (b \div 8) % 2 /\ t[6] = (b \div 4) % 2
      /\ t[7] = (b \div 2) % 2 /\ t[8] = b % 2
  BY DEF BitOf
<1>2. 128 * (b \div 128) + 64 * ((b \div 64) % 2) + 32 * ((b \div 32) % 2)
        + 16 * ((b \div 16) % 2) + 8 * ((b \div 8) % 2) + 4 * ((b \div 4) % 2)
        + 2 * ((b \div 2) % 2) + (b % 2) = b
  OBVIOUS
<1> QED
  BY <1>1, <1>2 DEF ByteOf

\* The highest bit of what is on the wire is the byte's next, and a shift goes on.
LEMMA NextBit ==
    ASSUME NEW b \in 0..255
    PROVE  /\ \A j \in 0..7 : OnWire(b, j) \div 128 = BitOf(b, j + 1)
           /\ \A j \in 0..6 : OnWire(b, j + 1) = (2 * OnWire(b, j) + 1) % 256
           /\ OnWire(b, 0) = b /\ BitOf(b, 8) = OnWire(b, 7) \div 128 /\ BitOf(b, 8) \in Int
<1>1. /\ OnWire(b, 0) = b /\ OnWire(b, 1) = (2 * b + 1) % 256
      /\ OnWire(b, 2) = (4 * b + 3) % 256 /\ OnWire(b, 3) = (8 * b + 7) % 256
      /\ OnWire(b, 4) = (16 * b + 15) % 256 /\ OnWire(b, 5) = (32 * b + 31) % 256
      /\ OnWire(b, 6) = (64 * b + 63) % 256 /\ OnWire(b, 7) = (128 * b + 127) % 256
  BY DEF OnWire
<1>2. /\ BitOf(b, 1) = b \div 128 /\ BitOf(b, 2) = (b \div 64) % 2
      /\ BitOf(b, 3) = (b \div 32) % 2 /\ BitOf(b, 4) = (b \div 16) % 2
      /\ BitOf(b, 5) = (b \div 8) % 2 /\ BitOf(b, 6) = (b \div 4) % 2
      /\ BitOf(b, 7) = (b \div 2) % 2 /\ BitOf(b, 8) = b % 2
  BY DEF BitOf
<1>3. /\ ((2 * b + 1) % 256) \div 128 = (b \div 64) % 2
      /\ ((4 * b + 3) % 256) \div 128 = (b \div 32) % 2
      /\ ((8 * b + 7) % 256) \div 128 = (b \div 16) % 2
      /\ ((16 * b + 15) % 256) \div 128 = (b \div 8) % 2
      /\ ((32 * b + 31) % 256) \div 128 = (b \div 4) % 2
      /\ ((64 * b + 63) % 256) \div 128 = (b \div 2) % 2
      /\ ((128 * b + 127) % 256) \div 128 = b % 2
  BY SMTT(40)
<1>4. /\ (4 * b + 3) % 256 = (2 * ((2 * b + 1) % 256) + 1) % 256
      /\ (8 * b + 7) % 256 = (2 * ((4 * b + 3) % 256) + 1) % 256
      /\ (16 * b + 15) % 256 = (2 * ((8 * b + 7) % 256) + 1) % 256
      /\ (32 * b + 31) % 256 = (2 * ((16 * b + 15) % 256) + 1) % 256
      /\ (64 * b + 63) % 256 = (2 * ((32 * b + 31) % 256) + 1) % 256
      /\ (128 * b + 127) % 256 = (2 * ((64 * b + 63) % 256) + 1) % 256
  OBVIOUS
<1>5. ASSUME NEW j \in 0..7 PROVE OnWire(b, j) \div 128 = BitOf(b, j + 1)
  <2>1. j \in {0, 1, 2, 3, 4, 5, 6, 7}
    OBVIOUS
  <2> QED
    BY <1>1, <1>2, <1>3, <2>1
<1>6. ASSUME NEW j \in 0..6 PROVE OnWire(b, j + 1) = (2 * OnWire(b, j) + 1) % 256
  <2>1. j \in {0, 1, 2, 3, 4, 5, 6}
    OBVIOUS
  <2> QED
    BY <1>1, <1>4, <2>1
<1>7. BitOf(b, 8) = OnWire(b, 7) \div 128 /\ BitOf(b, 8) \in Int
  BY <1>1, <1>2, <1>3
<1> QED
  BY <1>1, <1>5, <1>6, <1>7

\* A sequence with one more at its end: what it was,
LEMMA AppendLow ==
    ASSUME NEW S, NEW s \in Seq(S), NEW x \in S, NEW i \in 1..Len(s)
    PROVE  Append(s, x)[i] = s[i]
OBVIOUS

\* and the one.
LEMMA AppendTop ==
    ASSUME NEW S, NEW s \in Seq(S), NEW x \in S
    PROVE  Append(s, x) \in Seq(S) /\ Append(s, x)[Len(s) + 1] = x
BY AppendProperties

\* A bit behind seven.
LEMMA SevenAndOne ==
    ASSUME NEW p \in Seq(Int), Len(p) = 7, NEW x \in Int
    PROVE  Append(p, x)[8] = x /\ \A i \in 1..7 : Append(p, x)[i] = p[i]
<1>1. Append(p, x)[Len(p) + 1] = x
  BY AppendTop
<1>2. ASSUME NEW i \in 1..7 PROVE Append(p, x)[i] = p[i]
  <2>1. i \in 1..Len(p)
    OBVIOUS
  <2> QED
    BY <2>1, AppendLow
<1>3. Len(p) + 1 = 8
  OBVIOUS
<1> QED
  BY <1>1, <1>2, <1>3, Zenon

\* The eighth bit makes the word whole.
LEMMA WholeWord ==
    ASSUME NEW w \in Word, NEW p \in Seq(Int), Len(p) = 7,
           \A i \in 1..7 : p[i] = BitOf(w[2], i),
           NEW d, d = OnWire(w[2], 7)
    PROVE  <<w[1], ByteOf(Append(p, d \div 128))>> = w
<1> DEFINE b == w[2]
           e == d \div 128
           t == Append(p, e)
<1>1. b \in 0..255 /\ w = <<w[1], b>>
  BY DEF Word
<1> HIDE DEF b
<1>2. e = BitOf(b, 8) /\ e \in Int
  <2>1. d = OnWire(b, 7)
    BY DEF b
  <2>2. OnWire(b, 7) \div 128 = BitOf(b, 8) /\ BitOf(b, 8) \in Int
    BY <1>1, NextBit, ZenonT(40)
  <2> QED
    BY <2>1, <2>2, Zenon
<1>3. t[8] = e /\ \A i \in 1..7 : t[i] = p[i]
  <2> HIDE DEF e
  <2>1. e \in Int
    BY <1>2
  <2> QED
    BY <2>1, SevenAndOne
<1> HIDE DEF e
<1> HIDE DEF t
<1>4. \A i \in 1..8 : t[i] = BitOf(b, i)
  <2> TAKE i \in 1..8
  <2>1. i = 8 \/ i \in 1..7
    OBVIOUS
  <2> QED
    BY <1>2, <1>3, <2>1 DEF b
<1>5. ByteOf(t) = b
  BY <1>1, <1>4, BitsOfByte
<1> QED
  BY <1>1, <1>5 DEF b, t, e

\* A sequence of one or of two, spelled out.
LEMMA FewWords ==
    ASSUME NEW S, NEW s \in Seq(S)
    PROVE  /\ Len(s) = 1 => s = <<s[1]>>
           /\ Len(s) = 2 => s = <<s[1]>> \o <<s[2]>> /\ <<s[1]>> \in Seq(S) /\ <<s[2]>> \in Seq(S)
<1>1. ASSUME Len(s) = 1 PROVE s = <<s[1]>>
  <2> DEFINE a == s[1]
  <2>1. a \in S
    BY <1>1
  <2> HIDE DEF a
  <2>2. <<a>> \in Seq(S) /\ Len(<<a>>) = 1 /\ <<a>>[1] = a
    BY <2>1
  <2>3. \A i \in 1..Len(s) : s[i] = <<a>>[i]
    BY <1>1, <2>2 DEF a
  <2> QED
    BY <1>1, <2>2, <2>3, SeqEqual DEF a
<1>2. ASSUME Len(s) = 2
      PROVE  s = <<s[1]>> \o <<s[2]>> /\ <<s[1]>> \in Seq(S) /\ <<s[2]>> \in Seq(S)
  <2> DEFINE a == s[1]
             b == s[2]
             t == <<a>> \o <<b>>
  <2>1. a \in S /\ b \in S
    <3>1. 1 \in 1..Len(s) /\ 2 \in 1..Len(s)
      BY <1>2
    <3> QED
      BY <3>1
  <2> HIDE DEF a, b
  <2>2. /\ <<a>> \in Seq(S) /\ Len(<<a>>) = 1 /\ <<a>>[1] = a
        /\ <<b>> \in Seq(S) /\ Len(<<b>>) = 1 /\ <<b>>[1] = b
    BY <2>1
  <2>3. /\ t \in Seq(S) /\ Len(t) = 2 /\ t[1] = a /\ t[2] = b
    <3>1. /\ t \in Seq(S) /\ Len(t) = 1 + 1
          /\ \A i \in 1..1 + 1 : t[i] = IF i <= 1 THEN <<a>>[i] ELSE <<b>>[i - 1]
      BY <2>2, ConcatProperties
    <3> HIDE DEF t
    <3> QED
      BY <2>2, <3>1
  <2> HIDE DEF t
  <2>4. \A i \in 1..Len(s) : s[i] = t[i]
    <3>1. s[1] = t[1] /\ s[2] = t[2]
      BY <2>3 DEF a, b
    <3> QED
      BY <1>2, <3>1
  <2>5. s = t
    BY <1>2, <2>3, <2>4, SeqEqual
  <2> QED
    BY <2>2, <2>5 DEF a, b, t
<1> QED
  BY <1>1, <1>2

\* One or two, behind a sequence.
LEMMA Behind ==
    ASSUME NEW S, NEW q \in Seq(S), NEW s \in Seq(S)
    PROVE  /\ Len(s) = 1 => q \o s = Append(q, s[1])
           /\ Len(s) = 2 => q \o s = Append(Append(q, s[1]), s[2])
<1>1. ASSUME NEW a \in S PROVE q \o <<a>> = Append(q, a)
  BY AppendIsConcat
<1>2. ASSUME NEW a \in S, NEW b \in S
      PROVE  q \o (<<a>> \o <<b>>) = Append(Append(q, a), b)
  <2>1. <<a>> \in Seq(S) /\ <<b>> \in Seq(S) /\ Append(q, a) \in Seq(S)
    BY AppendProperties
  <2>2. q \o (<<a>> \o <<b>>) = (q \o <<a>>) \o <<b>>
    BY <2>1, ConcatAssociative
  <2>3. Append(q, a) \o <<b>> = Append(Append(q, a), b)
    BY <2>1, AppendIsConcat
  <2> QED
    BY <1>1, <2>2, <2>3, Zenon
<1>3. ASSUME Len(s) = 1 PROVE q \o s = Append(q, s[1])
  <2>1. s = <<s[1]>> /\ s[1] \in S
    BY <1>3, FewWords
  <2> QED
    BY <1>1, <2>1, Zenon
<1>4. ASSUME Len(s) = 2 PROVE q \o s = Append(Append(q, s[1]), s[2])
  <2>1. s = <<s[1]>> \o <<s[2]>> /\ s[1] \in S /\ s[2] \in S
    BY <1>4, FewWords
  <2> QED
    BY <1>2, <2>1, Zenon
<1> QED
  BY <1>3, <1>4

\* A clock of the words: the panel has heard a bit more of them, and all of
\* them when the last has been sent.
LEMMA HearingNext ==
    ASSUME IInv, Panel, lcd_reset_r = 1, lcd_reset_r' = 1,
           NEW before \in Seq(Word), NEW words \in Seq(Word), Len(words) \in 1..2,
           Len(words) = 2 => words[2][1] = words[1][1],
           bit_loop <= 8 * Len(words),
           Shift(words), Hearing(before, words)
    PROVE  /\ Sent(words) => heard' = before \o words
           /\ ~Sent(words) =>
                Under(before, words, bit_loop', heard', lcd_rs_r', spi_data', bits')
<1> DEFINE m == Len(words)
           k == Len(bits)
           w1 == words[1]
           w2 == words[2]
<1>1. /\ bit_loop \in 0..16 /\ m \in 1..2 /\ bit_loop <= 8 * m
      /\ Sent(words) <=> bit_loop = 8 * m
      /\ bits \in Seq(Int) /\ k = IF bit_loop = 0 THEN 0 ELSE (bit_loop - 1) % 8
      /\ lcd_cs_r = IF bit_loop > 0 THEN 0 ELSE 1
  BY DEF IInv, FsmType, PanelType, WireInv, Sent
<1>2. /\ w1 \in Word /\ (m = 2 => w2 \in Word /\ w2[1] = w1[1])
      /\ m = 1 => before \o words = Append(before, w1)
      /\ m = 2 => before \o words = Append(Append(before, w1), w2)
  <2>1. w1 \in Word /\ (m = 2 => w2 \in Word /\ w2[1] = w1[1])
    OBVIOUS
  <2>2. /\ m = 1 => before \o words = Append(before, w1)
        /\ m = 2 => before \o words = Append(Append(before, w1), w2)
    BY Behind
  <2> QED
    BY <2>1, <2>2
<1> HIDE DEF m, k, w1, w2
<1>3. /\ bits' = IF bit_loop = 0 \/ k = 7 THEN <<>> ELSE Append(bits, spi_data \div 128)
      /\ heard' = IF bit_loop > 0 /\ k = 7
                  THEN Append(heard, <<lcd_rs_r, ByteOf(Append(bits, spi_data \div 128))>>)
                  ELSE heard
  <2> DEFINE b == spi_data \div 128
             t == Append(bits, b)
  <2>1. Len(t) = 8 <=> k = 7
    <3> HIDE DEF b
    <3>1. Len(t) = Len(bits) + 1 /\ Len(bits) \in Nat
      BY <1>1
    <3>2. Len(t) = k + 1 /\ k \in Nat
      BY <3>1 DEF k
    <3> HIDE DEF t
    <3> QED
      BY <3>2
  <2> HIDE DEF t
  <2>2. CASE bit_loop = 0
    <3>1. lcd_cs_r = 1
      BY <1>1, <2>2
    <3> QED
      BY <2>2, <3>1 DEF Panel
  <2>3. CASE bit_loop # 0
    <3>1. lcd_cs_r = 0 /\ bit_loop > 0
      BY <1>1, <2>3
    <3>2. /\ bits' = IF Len(t) = 8 THEN <<>> ELSE t
          /\ heard' = IF Len(t) = 8 THEN Append(heard, <<lcd_rs_r, ByteOf(t)>>) ELSE heard
      BY <3>1 DEF Panel, t
    <3> QED
      BY <2>1, <2>3, <3>1, <3>2 DEF t, b
  <2> QED
    BY <2>2, <2>3
<1> DEFINE n == bit_loop
           w == IF n <= 8 THEN w1 ELSE w2
           e == spi_data \div 128
<1>4. /\ heard = IF n <= 8 THEN before ELSE Append(before, w1)
      /\ n > 0 => /\ lcd_rs_r = w[1] /\ spi_data = OnWire(w[2], k)
                  /\ \A i \in 1..k : bits[i] = BitOf(w[2], i)
  <2>1. n > 0 => k = (n - 1) % 8
    BY <1>1
  <2> QED
    BY <2>1 DEF Hearing, Under, w1, w2
<1>5. n > 0 => w \in Word /\ w[1] = w1[1] /\ w[1] \in Int /\ w[2] \in 0..255
  <2>1. n > 8 => m = 2
    BY <1>1
  <2>2. n > 0 => w \in Word /\ w[1] = w1[1]
    <3>1. CASE n <= 8
      BY <1>2, <3>1
    <3>2. CASE ~(n <= 8)
      <4>1. m = 2
        BY <1>1, <2>1, <3>2
      <4> QED
        BY <1>2, <3>2, <4>1
    <3> QED
      BY <3>1, <3>2
  <2>3. \A v \in Word : v[1] \in Int /\ v[2] \in 0..255
    BY DEF Word
  <2> QED
    BY <2>2, <2>3
<1>6. /\ n = 0 => bit_loop' = 1 /\ lcd_rs_r' = w1[1] /\ spi_data' = w1[2]
      /\ n # 0 /\ ~Sent(words) =>
           /\ bit_loop' = n + 1 /\ lcd_rs_r' = lcd_rs_r
           /\ spi_data' = IF n = 8 THEN w2[2] ELSE (2 * spi_data + 1) % 256
  BY DEF Shift, w1, w2
<1> HIDE DEF e
<1>7. CASE n = 0
  <2>1. heard' = before /\ ~Sent(words) /\ bit_loop' = 1
    BY <1>1, <1>3, <1>4, <1>6, <1>7, SMTT(40)
  <2>2. spi_data' = OnWire(w1[2], 0) /\ lcd_rs_r' = w1[1]
    <3>1. w1[2] \in 0..255
      BY <1>2 DEF Word
    <3> QED
      BY <1>6, <1>7, <3>1, NextBit
  <2> QED
    BY <2>1, <2>2 DEF Under, w1
<1>8. CASE n # 0 /\ k = 7
  <2>1. n \in {8, 16}
    <3>1. n \in 1..16 /\ (n - 1) % 8 = 7
      BY <1>1, <1>8
    <3> QED
      BY <3>1
  <2>2. <<lcd_rs_r, ByteOf(Append(bits, e))>> = w
    <3>1. w \in Word /\ bits \in Seq(Int) /\ Len(bits) = 7 /\ n > 0
      <4>1. bits \in Seq(Int) /\ n > 0
        BY <1>1, <1>8
      <4>2. Len(bits) = 7
        BY <1>8 DEF k
      <4> QED
        BY <1>5, <4>1, <4>2
    <3>2. lcd_rs_r = w[1] /\ spi_data = OnWire(w[2], 7) /\ \A i \in 1..7 : bits[i] = BitOf(w[2], i)
      BY <1>4, <1>8, <3>1
    <3> HIDE DEF w
    <3>3. <<w[1], ByteOf(Append(bits, e))>> = w
      BY <3>1, <3>2, WholeWord, ZenonT(40) DEF e
    <3> QED
      BY <3>2, <3>3
  <2>3. heard' = Append(heard, w)
    <3>1. heard' = Append(heard, <<lcd_rs_r, ByteOf(Append(bits, e))>>)
      <4>1. bit_loop > 0
        BY <1>1, <1>8
      <4> QED
        BY <1>3, <1>8, <4>1 DEF e
    <3> QED
      BY <2>2, <3>1, Zenon
  <2>4. CASE Sent(words)
    <3>1. (m = 1 /\ n = 8) \/ (m = 2 /\ n = 16)
      BY <1>1, <2>1, <2>4
    <3>2. heard' = before \o words
      BY <1>2, <1>4, <2>3, <3>1, SMTT(40)
    <3> QED
      BY <2>4, <3>2
  <2>5. CASE ~Sent(words)
    <3>1. m = 2 /\ n = 8
      BY <1>1, <2>1, <2>5, SMTT(40)
    <3>2. heard' = Append(before, w1) /\ bit_loop' = 9
      BY <1>4, <1>6, <2>3, <2>5, <3>1
    <3>3. spi_data' = OnWire(w2[2], 0) /\ lcd_rs_r' = w2[1]
      <4>1. w2[2] \in 0..255 /\ w2[1] = w1[1]
        BY <1>2, <3>1 DEF Word
      <4>2. lcd_rs_r' = w1[1] /\ spi_data' = w2[2]
        BY <1>4, <1>6, <2>5, <3>1
      <4> QED
        BY <4>1, <4>2, NextBit
    <3> QED
      BY <2>5, <3>2, <3>3 DEF Under, w1, w2
  <2> QED
    BY <2>4, <2>5
<1>9. CASE n # 0 /\ k # 7
  <2>1. n \in 1..7 \cup 9..15 /\ ~Sent(words) /\ k \in 0..6 /\ k = (n - 1) % 8 /\ n > 0
    <3>1. n \in 0..16 /\ m \in 1..2 /\ (Sent(words) <=> n = 8 * m) /\ k = (n - 1) % 8
      BY <1>1, <1>9
    <3>2. n \in 1..7 \cup 9..15
      BY <1>9, <3>1
    <3> QED
      BY <3>1, <3>2, SMTT(40)
  <2>2. bits' = Append(bits, e) /\ heard' = heard
    BY <1>1, <1>3, <1>9 DEF e
  <2>3. bit_loop' = n + 1 /\ lcd_rs_r' = w[1] /\ spi_data' = (2 * OnWire(w[2], k) + 1) % 256
    BY <1>4, <1>6, <2>1
  <2> DEFINE j == k + 1
             b == w[2]
  <2>4. b \in 0..255
    BY <1>5, <2>1
  <2> HIDE DEF b
  <2>5. /\ spi_data' = OnWire(b, j) /\ e = BitOf(b, j) /\ e \in Int
        /\ \A i \in 1..k : bits[i] = BitOf(b, i)
    <3>1. /\ OnWire(b, k) \div 128 = BitOf(b, k + 1)
          /\ OnWire(b, k + 1) = (2 * OnWire(b, k) + 1) % 256
      <4>1. k \in 0..6 /\ k \in 0..7
        BY <2>1
      <4> QED
        BY <2>4, <4>1, NextBit, ZenonT(40)
    <3>2. spi_data = OnWire(b, k) /\ \A i \in 1..k : bits[i] = BitOf(b, i)
      BY <1>4, <2>1 DEF b
    <3>3. e \in Int
      BY DEF e, IInv, FsmType
    <3> QED
      BY <2>3, <3>1, <3>2, <3>3 DEF b, e
  <2>6. \A i \in 1..j : bits'[i] = BitOf(b, i)
    <3> TAKE i \in 1..j
    <3>1. CASE i = j
      <4>1. Append(bits, e)[Len(bits) + 1] = e
        BY <1>1, <2>5, AppendTop
      <4> QED
        BY <2>2, <2>5, <3>1, <4>1 DEF k
    <3>2. CASE i # j
      <4>1. i \in 1..k
        BY <2>1, <3>2
      <4>2. i \in 1..Len(bits)
        BY <4>1 DEF k
      <4>3. Append(bits, e)[i] = bits[i]
        BY <1>1, <2>5, <4>2, AppendLow
      <4> QED
        BY <2>2, <2>5, <4>1, <4>3
    <3> QED
      BY <3>1, <3>2
  <2> HIDE DEF j
  <2>7. j = (bit_loop' - 1) % 8 /\ bit_loop' > 0 /\ (bit_loop' <= 8 <=> n <= 8)
    BY <2>1, <2>3, SMTT(40) DEF j
  <2>8. heard' = IF bit_loop' <= 8 THEN before ELSE Append(before, w1)
    BY <1>4, <2>2, <2>7
  <2>9. /\ lcd_rs_r' = words[IF bit_loop' <= 8 THEN 1 ELSE 2][1]
        /\ b = words[IF bit_loop' <= 8 THEN 1 ELSE 2][2]
    BY <2>3, <2>7 DEF b, w1, w2
  <2> QED
    BY <2>1, <2>5, <2>6, <2>7, <2>8, <2>9 DEF Under, w1
<1> QED
  BY <1>7, <1>8, <1>9

-----------------------------------------------------------------------------
(* The stream of the initialisation.                                       *)

\* A function on 1..n is a sequence.
LEMMA FunIsSeq ==
    ASSUME NEW S, NEW n \in Nat, NEW f \in [1..n -> S]
    PROVE  f \in Seq(S) /\ Len(f) = n
OBVIOUS

\* The words of a command,
LEMMA CommandWord ==
    /\ SleepOut \in Word
    /\ \A c \in Command : CmdWord(c) \in Word
<1>1. SleepOut \in Word
  BY DEF SleepOut, Word
<1>2. \A c \in Command : CmdWord(c) \in Word
  BY DEF CmdWord, Word, Command
<1> QED
  BY <1>1, <1>2

\* and of a pixel.
LEMMA ColourWords ==
    \A p \in Colour :
       /\ PixelWords(p)[1] \in Word /\ PixelWords(p)[2] \in Word
       /\ PixelWords(p)[2][1] = PixelWords(p)[1][1]
       /\ PixelWords(p) \in Seq(Word) /\ Len(PixelWords(p)) = 2
       /\ PixelWords(p) = <<PixelWords(p)[1]>> \o <<PixelWords(p)[2]>>
<1> TAKE p \in Colour
<1> DEFINE h == p \div 256
           l == p % 256
           a == <<1, h>>
           b == <<1, l>>
<1>1. h \in 0..255 /\ l \in 0..255
  <2>1. p \in Int /\ 0 <= p /\ p <= 65535
    BY DEF Colour
  <2>2. p \div 256 \in 0..255
    BY <2>1
  <2>3. p % 256 \in 0..255
    BY <2>1
  <2> QED
    BY <2>2, <2>3
<1>2. PixelWords(p) = <<a, b>>
  BY DEF PixelWords
<1> HIDE DEF h, l
<1>3. a \in Word /\ b \in Word /\ a[1] = b[1]
  BY <1>1 DEF Word
<1> HIDE DEF a, b
<1>4. /\ PixelWords(p) \in Seq(Word) /\ Len(PixelWords(p)) = 2
      /\ PixelWords(p)[1] = a /\ PixelWords(p)[2] = b
  BY <1>2, <1>3
<1>5. PixelWords(p) = <<PixelWords(p)[1]>> \o <<PixelWords(p)[2]>>
  BY <1>4, FewWords
<1> QED
  BY <1>3, <1>4, <1>5

\* What the tables hold.
LEMMA TablesAre ==
    /\ \A k \in 1..Len(init_cmd) : init_cmd[k] \in Command
    /\ \A k \in 1..Len(test_pixels) : test_pixels[k] \in Colour
    /\ Len(init_cmd) \in Nat /\ Len(test_pixels) \in Nat
<1>1. init_cmd \in Seq(Command) /\ test_pixels \in Seq(Colour)
  BY LcdAssumption
<1> QED
  BY <1>1

\* The stream, word by word.
LEMMA StreamIs ==
    /\ InitStream \in Seq(Word)
    /\ Len(InitStream) = 1 + Len(init_cmd) + 2 * Len(test_pixels)
    /\ InitStream[1] = SleepOut
    /\ \A k \in 1..Len(init_cmd) : InitStream[1 + k] = CmdWord(init_cmd[k])
    /\ \A k \in 1..Len(test_pixels) :
         /\ InitStream[1 + Len(init_cmd) + 2 * k - 1] = PixelWords(test_pixels[k])[1]
         /\ InitStream[1 + Len(init_cmd) + 2 * k] = PixelWords(test_pixels[k])[2]
<1> DEFINE c == Len(init_cmd)
           t == Len(test_pixels)
           A == [k \in 1..c |-> CmdWord(init_cmd[k])]
           B == [k \in 1..2 * t |-> PixelWords(test_pixels[(k + 1) \div 2])[2 - (k % 2)]]
<1>1. c \in Nat /\ t \in Nat
  BY TablesAre
<1>2. A \in Seq(Word) /\ Len(A) = c /\ \A k \in 1..c : A[k] = CmdWord(init_cmd[k])
  <2>1. \A k \in 1..c : CmdWord(init_cmd[k]) \in Word
    BY TablesAre, CommandWord
  <2> HIDE DEF c
  <2>2. A \in [1..c -> Word] /\ \A k \in 1..c : A[k] = CmdWord(init_cmd[k])
    BY <2>1
  <2> HIDE DEF A
  <2> QED
    BY <1>1, <2>2, FunIsSeq
<1>3. /\ B \in Seq(Word) /\ Len(B) = 2 * t
      /\ \A k \in 1..t : /\ B[2 * k - 1] = PixelWords(test_pixels[k])[1]
                         /\ B[2 * k] = PixelWords(test_pixels[k])[2]
  <2>1. \A k \in 1..t : /\ PixelWords(test_pixels[k])[1] \in Word
                        /\ PixelWords(test_pixels[k])[2] \in Word
    BY TablesAre, ColourWords
  <2> HIDE DEF t
  <2>2. 2 * t \in Nat
    BY <1>1
  <2>3. ASSUME NEW k \in 1..2 * t
        PROVE  PixelWords(test_pixels[(k + 1) \div 2])[2 - (k % 2)] \in Word
    <3>1. (k + 1) \div 2 \in 1..t /\ (2 - (k % 2) = 1 \/ 2 - (k % 2) = 2)
      BY <1>1
    <3> QED
      BY <2>1, <3>1
  <2>4. B \in [1..2 * t -> Word]
    BY <2>3
  <2>5. ASSUME NEW k \in 1..t
        PROVE  /\ B[2 * k - 1] = PixelWords(test_pixels[k])[1]
               /\ B[2 * k] = PixelWords(test_pixels[k])[2]
    <3>1. 2 * k - 1 \in 1..2 * t /\ 2 * k \in 1..2 * t
      BY <1>1
    <3>2. (2 * k - 1 + 1) \div 2 = k /\ 2 - ((2 * k - 1) % 2) = 1
      OBVIOUS
    <3>3. (2 * k + 1) \div 2 = k /\ 2 - ((2 * k) % 2) = 2
      OBVIOUS
    <3>4. B[2 * k - 1] = PixelWords(test_pixels[(2 * k - 1 + 1) \div 2])[2 - ((2 * k - 1) % 2)]
      BY <3>1, Zenon
    <3>5. B[2 * k] = PixelWords(test_pixels[(2 * k + 1) \div 2])[2 - ((2 * k) % 2)]
      BY <3>1, Zenon
    <3> QED
      BY <3>2, <3>3, <3>4, <3>5, Zenon
  <2> HIDE DEF B
  <2>6. B \in Seq(Word) /\ Len(B) = 2 * t
    BY <2>2, <2>4, FunIsSeq
  <2> QED
    BY <2>5, <2>6
<1> DEFINE Z == <<SleepOut>>
           ZA == Z \o A
<1>4. InitStream = ZA \o B
  BY DEF InitStream
<1> HIDE DEF A, B, c, t
<1>5. Z \in Seq(Word) /\ Len(Z) = 1 /\ Z[1] = SleepOut
  <2>1. SleepOut \in Word
    BY CommandWord
  <2> QED
    BY <2>1
<1> HIDE DEF Z
<1>6. /\ ZA \in Seq(Word) /\ Len(ZA) = 1 + c /\ ZA[1] = SleepOut
      /\ \A k \in 1..c : ZA[1 + k] = A[k]
  <2>1. /\ ZA \in Seq(Word) /\ Len(ZA) = Len(Z) + Len(A)
        /\ \A i \in 1..Len(Z) + Len(A) : ZA[i] = IF i <= Len(Z) THEN Z[i] ELSE A[i - Len(Z)]
    BY <1>2, <1>5, ConcatProperties
  <2> HIDE DEF ZA
  <2>2. \A i \in 1..1 + c : ZA[i] = IF i <= 1 THEN Z[i] ELSE A[i - 1]
    BY <1>2, <1>5, <2>1, Zenon
  <2>3. Len(ZA) = 1 + c
    BY <1>2, <1>5, <2>1, Zenon
  <2>4. ASSUME NEW k \in 1..c PROVE ZA[1 + k] = A[k]
    <3>1. 1 + k \in 1..1 + c /\ ~(1 + k <= 1) /\ 1 + k - 1 = k
      BY <1>1
    <3> QED
      BY <2>2, <3>1
  <2>5. ZA[1] = SleepOut
    BY <1>1, <1>5, <2>2
  <2> QED
    BY <2>1, <2>3, <2>4, <2>5
<1> HIDE DEF ZA
<1>7. /\ InitStream \in Seq(Word) /\ Len(InitStream) = 1 + c + 2 * t
      /\ \A i \in 1..1 + c : InitStream[i] = ZA[i]
      /\ \A i \in 1..2 * t : InitStream[1 + c + i] = B[i]
  <2> DEFINE s == ZA \o B
             d == 1 + c
             u == 2 * t
  <2>1. /\ s \in Seq(Word) /\ Len(s) = Len(ZA) + Len(B)
        /\ \A i \in 1..Len(ZA) + Len(B) : s[i] = IF i <= Len(ZA) THEN ZA[i] ELSE B[i - Len(ZA)]
    BY <1>3, <1>6, ConcatProperties
  <2>2. Len(ZA) = d /\ Len(B) = u
    BY <1>3, <1>6
  <2>3. d \in Nat /\ u \in Nat
    BY <1>1
  <2> HIDE DEF s, d, u
  <2>4. Len(s) = d + u /\ \A i \in 1..d + u : s[i] = IF i <= d THEN ZA[i] ELSE B[i - d]
    BY <2>1, <2>2, Zenon
  <2>5. ASSUME NEW i \in 1..d PROVE s[i] = ZA[i]
    <3>1. i \in 1..d + u /\ i <= d
      BY <2>3
    <3> QED
      BY <2>4, <3>1, Zenon
  <2>6. ASSUME NEW i \in 1..u PROVE s[d + i] = B[i]
    <3> DEFINE j == d + i
    <3>1. j \in 1..d + u /\ ~(j <= d) /\ j - d = i
      BY <2>3
    <3> HIDE DEF j
    <3>2. s[j] = B[j - d]
      BY <2>4, <3>1
    <3> QED
      BY <3>1, <3>2, Zenon DEF j
  <2>7. InitStream = s
    BY <1>4 DEF s
  <2> QED
    BY <2>1, <2>4, <2>5, <2>6, <2>7 DEF d, u
<1>8. ASSUME NEW k \in 1..c PROVE InitStream[1 + k] = CmdWord(init_cmd[k])
  <2>1. 1 + k \in 1..1 + c
    BY <1>1
  <2>2. InitStream[1 + k] = ZA[1 + k]
    BY <1>7, <2>1, Zenon
  <2> QED
    BY <1>2, <1>6, <2>2, Zenon
<1>9. ASSUME NEW k \in 1..t
      PROVE  /\ InitStream[1 + c + 2 * k - 1] = PixelWords(test_pixels[k])[1]
             /\ InitStream[1 + c + 2 * k] = PixelWords(test_pixels[k])[2]
  <2>1. 2 * k - 1 \in 1..2 * t /\ 2 * k \in 1..2 * t /\ 1 + c + (2 * k - 1) = 1 + c + 2 * k - 1
    BY <1>1
  <2>2. /\ InitStream[1 + c + (2 * k - 1)] = B[2 * k - 1]
        /\ InitStream[1 + c + 2 * k] = B[2 * k]
    BY <1>7, <2>1, Zenon
  <2>3. InitStream[1 + c + 2 * k - 1] = B[2 * k - 1]
    BY <2>1, <2>2, Zenon
  <2> QED
    BY <1>3, <2>2, <2>3, Zenon
<1>10. InitStream[1] = SleepOut
  <2>1. 1 \in 1..1 + c
    BY <1>1
  <2> QED
    BY <1>6, <1>7, <2>1, Zenon
<1> QED
  BY <1>7, <1>8, <1>9, <1>10 DEF c, t

\* A stretch of a sequence, and one or two of its words behind it.
LEMMA Stretch ==
    ASSUME NEW S, NEW s \in Seq(S), NEW n \in 0..Len(s)
    PROVE  /\ SubSeq(s, 1, n) \in Seq(S) /\ SubSeq(s, 1, 0) = <<>> /\ SubSeq(s, 1, Len(s)) = s
           /\ n + 1 <= Len(s) => SubSeq(s, 1, n) \o <<s[n + 1]>> = SubSeq(s, 1, n + 1)
           /\ n + 2 <= Len(s) =>
                SubSeq(s, 1, n) \o (<<s[n + 1]>> \o <<s[n + 2]>>) = SubSeq(s, 1, n + 2)
<1>1. Len(s) \in Nat /\ n \in Nat
  OBVIOUS
<1>2. SubSeq(s, 1, n) \in Seq(S)
  <2>1. \A i \in 1..n : s[i] \in S
    OBVIOUS
  <2> QED
    BY <1>1, <2>1, SubSeqProperties
<1>3. SubSeq(s, 1, 0) = <<>> /\ SubSeq(s, 1, Len(s)) = s
  BY SubSeqEmpty, SubSeqFull
<1>4. ASSUME NEW m \in 0..Len(s), m + 1 <= Len(s)
      PROVE  SubSeq(s, 1, m) \o <<s[m + 1]>> = SubSeq(s, 1, m + 1)
  <2> DEFINE k == Len(s)
  <2>1. 1 \in 1..Len(s) /\ m + 1 \in 1..Len(s) /\ m + 1 - 1 = m
    <3>1. k \in Nat /\ m \in 0..k /\ m + 1 <= k
      BY <1>1, <1>4
    <3> HIDE DEF k
    <3>2. 1 \in 1..k /\ m + 1 \in 1..k /\ m + 1 - 1 = m
      BY <3>1
    <3> QED
      BY <3>2 DEF k
  <2>2. SubSeq(s, 1, m + 1) = SubSeq(s, 1, m + 1 - 1) \o <<s[m + 1]>>
    BY <2>1, SubSeqRecursiveSecond
  <2> QED
    BY <2>1, <2>2, Zenon
<1>5. ASSUME n + 2 <= Len(s)
      PROVE  SubSeq(s, 1, n) \o (<<s[n + 1]>> \o <<s[n + 2]>>) = SubSeq(s, 1, n + 2)
  <2> DEFINE a == <<s[n + 1]>>
             b == <<s[n + 2]>>
             f == SubSeq(s, 1, n)
  <2>1. n + 1 \in 0..Len(s) /\ n + 1 <= Len(s) /\ n + 1 + 1 = n + 2 /\ n + 1 + 1 <= Len(s)
    BY <1>5
  <2>2. f \o a = SubSeq(s, 1, n + 1)
    BY <1>4, <2>1, Zenon
  <2>3. SubSeq(s, 1, n + 1) \o b = SubSeq(s, 1, n + 2)
    <3>1. SubSeq(s, 1, n + 1) \o <<s[n + 1 + 1]>> = SubSeq(s, 1, n + 1 + 1)
      BY <1>4, <2>1, Zenon
    <3> QED
      BY <2>1, <3>1, Zenon
  <2>4. s[n + 1] \in S /\ s[n + 2] \in S
    BY <1>5
  <2>5. a \in Seq(S) /\ b \in Seq(S) /\ f \in Seq(S)
    BY <1>2, <2>4
  <2> HIDE DEF a, b, f
  <2>6. (f \o a) \o b = f \o (a \o b)
    BY <2>5, ConcatAssociative
  <2> QED
    BY <2>2, <2>3, <2>6, Zenon DEF a, b, f
<1> QED
  BY <1>2, <1>3, <1>4, <1>5

-----------------------------------------------------------------------------
(* The steps.                                                              *)

\* Before the first bit all that was heard is what was heard before.
LEMMA HearingStart ==
    \A before, words, r, d, p : Under(before, words, 0, before, r, d, p)
BY DEF Under

\* What there is to say about the CPU's half of a clock.
LEMMA CpuIs ==
    ASSUME Asked, Lcd, Cpu
    PROVE  \/ /\ lcd_ready /\ lcd_valid /\ Ack /\ port' = NoRequest
              /\ inited' = (inited \/ port.kind = "init")
              /\ written' = IF port.kind = "init" THEN <<>>
                            ELSE IF inited THEN written \o Words(port) ELSE written
           \/ ~lcd_ready /\ UNCHANGED <<port, inited, written>>
           \/ ~lcd_ready /\ ~lcd_valid /\ port' \in Requests /\ UNCHANGED <<inited, written>>
<1>1. CASE lcd_ready
  <2>1. lcd_valid /\ Ack
    BY <1>1 DEF Asked, Lcd
  <2> QED
    BY <1>1, <2>1 DEF Cpu
<1>2. CASE ~lcd_ready
  BY <1>2 DEF Cpu, cpu
<1> QED
  BY <1>1, <1>2

\* Nothing is asked for outside IDLE but what the state says.
LEMMA NotAsked ==
    ASSUME Asked, Lcd, ~lcd_ready, ~lcd_valid
    PROVE  Idle
<1>1. state = "IDLE" /\ port.kind = "none"
  BY DEF Asked, lcd_valid
<1> QED
  BY <1>1 DEF Lcd, Ack, Delay, InitReset, InitPrepare, InitWakeup, InitSnooze, InitWorking, InitDone,
              IdleInit, IdleOther, IdleCmd, IdlePixel, UCmd, UPixelData, User, lcd_valid

\* The words of a request are words.
LEMMA RequestWords ==
    ASSUME PortInv, CpuType
    PROVE  /\ Words(port) \in Seq(Word)
           /\ port.kind = "cmd" => Words(port) = <<CmdWord(port.data)>>
           /\ port.kind = "pixel" => Words(port) = PixelWords(port.data)
           /\ port.kind \notin {"cmd", "pixel"} => Words(port) = <<>>
<1>1. CASE port.kind = "cmd"
  <2>1. Words(port) = <<CmdWord(port.data)>>
    BY <1>1 DEF Words
  <2>2. CmdWord(port.data) \in Word
    BY <1>1, CommandWord DEF PortInv
  <2> QED
    BY <1>1, <2>1, <2>2
<1>2. CASE port.kind = "pixel"
  <2>1. Words(port) = PixelWords(port.data)
    BY <1>2 DEF Words
  <2>2. PixelWords(port.data) \in Seq(Word)
    BY <1>2, ColourWords DEF PortInv
  <2> QED
    BY <1>2, <2>1, <2>2
<1>3. CASE port.kind \notin {"cmd", "pixel"}
  <2>1. Words(port) = <<>>
    BY <1>3 DEF Words
  <2>2. <<>> \in Seq(Word)
    OBVIOUS
  <2> QED
    BY <1>3, <2>1, <2>2
<1> QED
  BY <1>1, <1>2, <1>3

\* The CPU writes commands and colours.
LEMMA PortNext ==
    ASSUME PortInv, Cpu
    PROVE  PortInv'
<1>1. \A r \in Requests : /\ r.kind = "cmd" => r.data \in Command
                          /\ r.kind = "pixel" => r.data \in Colour
  BY LcdAssumption DEF Requests
<1>2. CASE port' = NoRequest
  BY <1>2 DEF PortInv, NoRequest
<1>3. CASE port' = port
  BY <1>3 DEF PortInv
<1>4. CASE port' \in Requests
  BY <1>1, <1>4 DEF PortInv
<1> QED
  BY <1>2, <1>3, <1>4 DEF Cpu, cpu

\* Nothing is heard while nothing is sent.
LEMMA StillHeard ==
    ASSUME IInv, Panel, lcd_reset_r' \in 0..1, bit_loop = 0, lcd_reset_r = 1
    PROVE  heard' = heard
BY StillClock

\* The answer: what was asked for joins what the CPU was told is written.
LEMMA AnswerStep ==
    ASSUME WordsInv, Panel, Ack, lcd_ready, port' = NoRequest,
           inited' = (inited \/ port.kind = "init"),
           written' = IF port.kind = "init" THEN <<>>
                      ELSE IF inited THEN written \o Words(port) ELSE written
    PROVE  Asked' /\ SoFar'
<1>1. /\ state = "IDLE" /\ bit_loop = 0 /\ (boot_done => lcd_reset_r = 1)
      /\ lcd_reset_r \in 0..1
  BY DEF WordsInv, IInv, WireInv, TimeInv, Sending, FsmType
<1>2. /\ lcd_ready' = FALSE /\ state' = "IDLE" /\ port'.kind = "none"
      /\ UNCHANGED <<cmd_index, test_pixel_cnt, boot_done, lcd_reset_r>>
  BY <1>1 DEF Ack, NoRequest
<1>3. boot_done => heard' = heard
  BY <1>1, <1>2, StillHeard DEF WordsInv
<1>4. /\ written \in Seq(Word) /\ Words(port) \in Seq(Word)
      /\ written \o Words(port) \in Seq(Word) /\ <<>> \in Seq(Word)
  <2>1. written \in Seq(Word) /\ Words(port) \in Seq(Word)
    BY RequestWords DEF WordsInv, Asked, IInv
  <2> QED
    BY <2>1, ConcatProperties
<1>5. written' \in Seq(Word)
  BY <1>4
<1>6. boot_done /\ ~inited => port.kind = "init"
  BY DEF WordsInv, Asked
<1>7. inited' => boot_done
  BY DEF WordsInv, Asked
<1>8. boot_done => inited'
  BY <1>6
<1>9. Asked'
  <2>1. state = "IDLE" /\ ~boot_done => cmd_index = 0 /\ test_pixel_cnt = 0
    BY DEF WordsInv, Asked
  <2> QED
    BY <1>1, <1>2, <1>5, <1>7, <1>8, <2>1 DEF Asked
<1>10. ASSUME boot_done PROVE heard' = Told'
  <2>1. heard = IF port.kind = "init" THEN InitStream ELSE Told \o Words(port)
    BY <1>1, <1>10 DEF WordsInv, SoFar
  <2>2. CASE port.kind = "init"
    <3>1. InitStream \o <<>> = InitStream
      BY StreamIs, ConcatEmptySeq
    <3> QED
      BY <1>3, <1>10, <2>1, <2>2, <3>1 DEF Told
  <2>3. CASE port.kind # "init"
    <3>1. inited /\ written' = written \o Words(port)
      BY <1>6, <1>10, <2>3
    <3>2. (InitStream \o written) \o Words(port) = InitStream \o (written \o Words(port))
      BY <1>4, StreamIs, ConcatAssociative, SMTT(40)
    <3> QED
      BY <1>3, <1>10, <2>1, <2>3, <3>1, <3>2 DEF Told
  <2> QED
    BY <2>2, <2>3
<1> QED
  BY <1>2, <1>9, <1>10 DEF SoFar

\* IDLE without a word to send: nobody asks, somebody does, or the answer is at once.
LEMMA IdleStep ==
    ASSUME WordsInv, Panel, ~lcd_ready, state = "IDLE", state' = "IDLE",
           UNCHANGED <<cmd_index, test_pixel_cnt, boot_done, lcd_reset_r, inited, written>>,
           \/ ~lcd_ready'
           \/ lcd_ready' = TRUE /\ lcd_valid /\ port' = port /\ port.kind # "init"
              /\ (boot_done => port.kind = "other")
    PROVE  Asked' /\ SoFar'
<1>1. bit_loop = 0 /\ (boot_done => lcd_reset_r = 1) /\ lcd_reset_r \in 0..1
  BY DEF WordsInv, IInv, WireInv, TimeInv, Sending, FsmType
<1>2. boot_done => heard' = heard
  BY <1>1, StillHeard DEF WordsInv
<1>3. /\ written \in Seq(Word) /\ (boot_done => inited) /\ (inited => boot_done)
      /\ ~boot_done => cmd_index = 0 /\ test_pixel_cnt = 0
  BY DEF WordsInv, Asked
<1>4. Asked'
  BY <1>3 DEF Asked, lcd_valid
<1>5. boot_done => heard' = Told
  BY <1>2 DEF WordsInv, SoFar
<1>6. boot_done /\ lcd_ready' => heard' = Told \o Words(port)
  <2> SUFFICES ASSUME boot_done, lcd_ready' PROVE heard' = Told \o Words(port)
    OBVIOUS
  <2>1. Words(port) = <<>>
    BY RequestWords DEF WordsInv, IInv
  <2>2. Told \in Seq(Word)
    BY <1>3, StreamIs, ConcatProperties DEF Told
  <2> QED
    BY <1>5, <2>1, <2>2, ConcatEmptySeq
<1>7. Told' = Told
  BY DEF Told
<1> QED
  BY <1>4, <1>5, <1>6, <1>7 DEF SoFar

\* A request is taken.
LEMMA TakenStep ==
    ASSUME WordsInv, Panel, ~lcd_ready, IdleInit \/ IdleCmd \/ IdlePixel,
           UNCHANGED <<port, inited, written>>
    PROVE  Asked' /\ SoFar'
<1>1. state = "IDLE" /\ ~lcd_ready' /\ boot_done' = boot_done
  BY DEF IdleInit, IdleCmd, IdlePixel
<1>2. /\ bit_loop = 0 /\ (boot_done => lcd_reset_r = 1) /\ lcd_reset_r \in 0..1
      /\ written \in Seq(Word) /\ (boot_done => inited) /\ (inited => boot_done)
      /\ ~boot_done => cmd_index = 0 /\ test_pixel_cnt = 0
      /\ boot_done => heard = Told
  BY <1>1 DEF WordsInv, IInv, WireInv, TimeInv, Sending, FsmType, Asked, SoFar
<1>3. CASE IdleInit
  <2>1. state' = "INIT_RESET" /\ port.kind = "init" /\ cmd_index' = 0 /\ test_pixel_cnt' = 0
    BY <1>2, <1>3 DEF IdleInit
  <2> QED
    BY <1>1, <1>2, <2>1 DEF Asked, SoFar
<1>4. CASE IdleCmd \/ IdlePixel
  <2>1. boot_done /\ UNCHANGED <<cmd_index, test_pixel_cnt, lcd_reset_r, bit_loop>>
    BY <1>4 DEF IdleCmd, IdlePixel, pins
  <2>2. heard' = Told /\ bit_loop' = 0
    BY <1>2, <2>1, StillHeard DEF WordsInv
  <2>3. Told' = Told
    BY DEF Told
  <2>4. Hearing(Told, <<CmdWord(cmds)>>)' /\ Hearing(Told, PixelWords(pixel))'
    BY <2>2, <2>3, HearingStart DEF Hearing
  <2>5. \/ state' = "U_CMD" /\ port.kind = "cmd" /\ cmds' = port.data
        \/ state' = "U_PIXEL_DATA" /\ port.kind = "pixel" /\ pixel' = port.data
    BY <1>4 DEF IdleCmd, IdlePixel
  <2> QED
    BY <1>1, <1>2, <2>1, <2>4, <2>5 DEF Asked, SoFar
<1> QED
  BY <1>3, <1>4

\* The controls while nothing is answered and the request stands.
LEMMA AskedOn ==
    ASSUME Asked, ~lcd_ready, UNCHANGED <<port, inited, written, boot_done>>, ~lcd_ready',
           state # "IDLE", state' # "IDLE",
           \/ state' = state /\ UNCHANGED <<cmds, pixel>>
           \/ port.kind = "init" /\ state' \notin {"U_CMD", "U_PIXEL_DATA"},
           state' \in {"INIT_RESET", "INIT_PREPARE", "INIT_WAKEUP", "INIT_SNOOZE"} =>
              cmd_index' = 0,
           state' \in {"INIT_RESET", "INIT_PREPARE", "INIT_WAKEUP", "INIT_SNOOZE",
                       "INIT_WORKING"} => test_pixel_cnt' = 0
    PROVE  Asked'
BY DEF Asked

\* The delays: the panel hears nothing.
LEMMA DelayStep ==
    ASSUME WordsInv, Panel, IInv', ~lcd_ready, InitReset \/ InitPrepare \/ InitSnooze,
           UNCHANGED <<port, inited, written>>
    PROVE  Asked' /\ SoFar'
<1>1. /\ UNCHANGED <<cmd_index, test_pixel_cnt, boot_done, cmds, pixel, bit_loop>> /\ ~lcd_ready'
      /\ \/ state = "INIT_RESET" /\ state' \in {"INIT_RESET", "INIT_PREPARE"}
         \/ state = "INIT_PREPARE" /\ state' \in {"INIT_PREPARE", "INIT_WAKEUP"}
         \/ state = "INIT_SNOOZE" /\ state' \in {"INIT_SNOOZE", "INIT_WORKING"}
  BY DEF InitReset, InitPrepare, InitSnooze, Delay, pins
<1>2. bit_loop = 0 /\ lcd_reset_r' \in 0..1 /\ (state = "INIT_SNOOZE" => lcd_reset_r = 1)
  BY <1>1 DEF WordsInv, IInv, WireInv, TimeInv, Sending, FsmType
<1>3. state = "INIT_SNOOZE" => heard' = heard
  BY <1>2, StillHeard DEF WordsInv
<1>4. cmd_index = 0 /\ test_pixel_cnt = 0 /\ port.kind = "init"
  BY <1>1 DEF WordsInv, Asked
<1>5. Asked'
  BY <1>1, <1>4, AskedOn DEF WordsInv
<1>6. CASE state' \in {"INIT_RESET", "INIT_PREPARE"}
  BY <1>5, <1>6 DEF SoFar
<1>7. CASE state' = "INIT_WAKEUP"
  <2>1. heard' = <<>>
    BY <1>7 DEF IInv, TimeInv
  <2>2. First(0) = <<>>
    BY StreamIs, Stretch DEF First
  <2>3. Hearing(First(0), <<SleepOut>>)'
    BY <1>1, <1>2, <2>1, <2>2, HearingStart DEF Hearing
  <2> QED
    BY <1>5, <1>7, <2>3 DEF SoFar
<1>8. CASE state' = "INIT_SNOOZE"
  BY <1>1, <1>3, <1>5, <1>8 DEF WordsInv, SoFar
<1>9. CASE state' = "INIT_WORKING"
  <2>1. heard' = First(1) /\ cmd_index' = 0
    BY <1>1, <1>3, <1>4, <1>9 DEF WordsInv, SoFar
  <2>2. heard' = First(1 + cmd_index')
    BY <2>1
  <2>3. Hearing(First(1 + cmd_index), <<CmdWord(init_cmd[cmd_index + 1])>>)'
    BY <1>1, <1>2, <2>2, HearingStart DEF Hearing
  <2> QED
    BY <1>5, <1>9, <2>2, <2>3 DEF SoFar
<1> QED
  BY <1>1, <1>5, <1>6, <1>7, <1>8, <1>9

\* A clock of a sending state, for the panel that has heard what was before.
LEMMA SendHeard ==
    ASSUME WordsInv, Panel, FsmType', UNCHANGED lcd_reset_r,
           state \in Sending,
           NEW before \in Seq(Word), NEW words \in Seq(Word), Len(words) \in 1..2,
           state \in {"INIT_WAKEUP", "INIT_WORKING", "U_CMD"} \/ Len(words) = 2,
           Len(words) = 2 => words[2][1] = words[1][1],
           Shift(words), Hearing(before, words)
    PROVE  /\ Sent(words) => heard' = before \o words /\ bit_loop' = 0
           /\ ~Sent(words) =>
                Under(before, words, bit_loop', heard', lcd_rs_r', spi_data', bits')
<1>1. lcd_reset_r = 1 /\ lcd_reset_r' = 1
  BY DEF WordsInv, IInv, TimeInv, FsmType, Sending
<1> DEFINE n == Len(words)
<1>2. bit_loop <= 8 * n
  <2>1. bit_loop \in 0..16 /\ n \in 1..2 /\ (bit_loop <= 8 \/ n = 2)
    BY DEF WordsInv, IInv, FsmType, WireInv
  <2> HIDE DEF n
  <2> QED
    BY <2>1
<1>3. /\ Sent(words) => heard' = before \o words
      /\ ~Sent(words) =>
           Under(before, words, bit_loop', heard', lcd_rs_r', spi_data', bits')
  BY <1>1, <1>2, HearingNext DEF WordsInv
<1>4. Sent(words) => bit_loop' = 0
  <2> SUFFICES ASSUME Sent(words) PROVE bit_loop' = 0
    OBVIOUS
  <2>1. bit_loop # 0
    <3>1. bit_loop = 8 * n /\ n \in 1..2
      BY DEF Sent
    <3> HIDE DEF n
    <3> QED
      BY <3>1
  <2> QED
    BY <2>1 DEF Shift
<1> QED
  BY <1>3, <1>4

\* The stream's first n words are words; it is longer than the command and the
\* pixel that are next.
LEMMA FirstIs ==
    /\ First(0) = <<>> /\ First(Len(InitStream)) = InitStream
    /\ \A n \in 0..Len(InitStream) : First(n) \in Seq(Word)
    /\ First(0) \o <<SleepOut>> = First(1)
<1>1. /\ InitStream \in Seq(Word) /\ Len(InitStream) \in Nat /\ Len(InitStream) >= 1
      /\ InitStream[0 + 1] = SleepOut
  <2>1. /\ InitStream \in Seq(Word) /\ InitStream[1] = SleepOut
        /\ Len(InitStream) = 1 + Len(init_cmd) + 2 * Len(test_pixels)
    BY StreamIs
  <2>2. Len(InitStream) \in Nat /\ Len(InitStream) >= 1
    BY <2>1, TablesAre
  <2>3. 0 + 1 = 1
    OBVIOUS
  <2> QED
    BY <2>1, <2>2, <2>3, Zenon
<1>2. 0 \in 0..Len(InitStream) /\ Len(InitStream) \in 0..Len(InitStream) /\ 0 + 1 <= Len(InitStream)
  BY <1>1
<1>3. \A n \in 0..Len(InitStream) : First(n) \in Seq(Word)
  BY <1>1, Stretch DEF First
<1>4. First(0) = <<>> /\ First(Len(InitStream)) = InitStream
  BY <1>1, <1>2, Stretch DEF First
<1>5. First(0) \o <<InitStream[0 + 1]>> = First(0 + 1)
  BY <1>1, <1>2, Stretch DEF First
<1>6. 0 + 1 = 1
  OBVIOUS
<1> QED
  BY <1>1, <1>3, <1>4, <1>5, <1>6, Zenon

\* The next command.
LEMMA FirstCommand ==
    ASSUME NEW k \in 0..Len(init_cmd), k # Len(init_cmd)
    PROVE  /\ init_cmd[k + 1] \in Command /\ First(1 + k) \in Seq(Word)
           /\ First(1 + k) \o <<CmdWord(init_cmd[k + 1])>> = First(1 + (k + 1))
<1> DEFINE c == Len(init_cmd)
           t == Len(test_pixels)
           m == Len(InitStream)
           n == 1 + k
<1>1. c \in Nat /\ t \in Nat /\ m = 1 + c + 2 * t /\ k \in 0..c /\ k # c
  BY TablesAre, StreamIs
<1> HIDE DEF c, t, m
<1>2. k + 1 \in 1..c /\ n \in 0..m /\ n + 1 <= m /\ n + 1 = 1 + (k + 1)
  BY <1>1
<1>3. init_cmd[k + 1] \in Command
  BY <1>2, TablesAre DEF c
<1>4. InitStream[n + 1] = CmdWord(init_cmd[k + 1])
  <2>1. InitStream[1 + (k + 1)] = CmdWord(init_cmd[k + 1])
    BY <1>2, StreamIs, Zenon DEF c
  <2> QED
    BY <1>2, <2>1, Zenon
<1>5. First(n) \in Seq(Word)
  BY <1>2, FirstIs DEF m
<1>6. First(n) \o <<InitStream[n + 1]>> = First(n + 1)
  BY <1>2, StreamIs, Stretch DEF First, m
<1> HIDE DEF n
<1>7. First(n) \o <<CmdWord(init_cmd[k + 1])>> = First(1 + (k + 1))
  BY <1>2, <1>4, <1>6, Zenon
<1> QED
  BY <1>3, <1>5, <1>7 DEF n

\* The next pixel.
LEMMA FirstPixel ==
    ASSUME NEW k \in 0..Len(test_pixels), k # Len(test_pixels)
    PROVE  LET n == 1 + Len(init_cmd) + 2 * k
           IN  /\ test_pixels[k + 1] \in Colour /\ First(n) \in Seq(Word)
               /\ First(n) \o PixelWords(test_pixels[k + 1]) = First(1 + Len(init_cmd) + 2 * (k + 1))
<1> DEFINE c == Len(init_cmd)
           t == Len(test_pixels)
           m == Len(InitStream)
           n == 1 + c + 2 * k
           p == PixelWords(test_pixels[k + 1])
<1>1. c \in Nat /\ t \in Nat /\ m = 1 + c + 2 * t /\ k \in 0..t /\ k # t
  BY TablesAre, StreamIs
<1> HIDE DEF t, m
<1>2. /\ k + 1 \in 1..t /\ n \in 0..m /\ n + 2 <= m /\ n + 1 = 1 + c + 2 * (k + 1) - 1
      /\ n + 2 = 1 + c + 2 * (k + 1)
  <2> HIDE DEF c
  <2> QED
    BY <1>1
<1>3. test_pixels[k + 1] \in Colour
  BY <1>2, TablesAre DEF t
<1>4. p = <<p[1]>> \o <<p[2]>>
  BY <1>3, ColourWords
<1>5. InitStream[n + 1] = p[1] /\ InitStream[n + 2] = p[2]
  <2>1. /\ InitStream[1 + c + 2 * (k + 1) - 1] = p[1]
        /\ InitStream[1 + c + 2 * (k + 1)] = p[2]
    BY <1>2, StreamIs, Zenon DEF t
  <2> QED
    BY <1>2, <2>1, Zenon
<1>6. First(n) \in Seq(Word)
  BY <1>2, FirstIs DEF m
<1>7. First(n) \o (<<InitStream[n + 1]>> \o <<InitStream[n + 2]>>) = First(n + 2)
  BY <1>2, StreamIs, Stretch DEF First, m
<1>8. First(n) \o p = First(1 + c + 2 * (k + 1))
  BY <1>2, <1>4, <1>5, <1>7, Zenon
<1> QED
  BY <1>3, <1>6, <1>8, Zenon

\* Sleep out.
LEMMA WakeupStep ==
    ASSUME WordsInv, Panel, FsmType', ~lcd_ready, InitWakeup,
           UNCHANGED <<port, inited, written>>
    PROVE  Asked' /\ SoFar'
<1> DEFINE words == <<SleepOut>>
<1>1. /\ state = "INIT_WAKEUP" /\ Shift(words)
      /\ state' = IF Sent(words) THEN "INIT_SNOOZE" ELSE state
      /\ UNCHANGED <<cmd_index, test_pixel_cnt, boot_done, cmds, pixel, lcd_ready, lcd_reset_r>>
  BY DEF InitWakeup
<1>2. cmd_index = 0 /\ test_pixel_cnt = 0 /\ port.kind = "init" /\ Hearing(First(0), words)
  BY <1>1 DEF WordsInv, Asked, SoFar
<1>3. words \in Seq(Word) /\ Len(words) \in 1..2 /\ Len(words) # 2
  BY CommandWord
<1>4. First(0) \in Seq(Word) /\ First(0) \o words = First(1)
  <2>1. First(0) = <<>> /\ First(0) \o words = First(1)
    BY FirstIs
  <2>2. <<>> \in Seq(Word)
    OBVIOUS
  <2> QED
    BY <2>1, <2>2
<1>5. Asked'
  BY <1>1, <1>2, AskedOn DEF WordsInv
<1> HIDE DEF words
<1>6. /\ Sent(words) => heard' = First(1)
      /\ ~Sent(words) => Under(First(0), words, bit_loop', heard', lcd_rs_r', spi_data', bits')
  BY <1>1, <1>2, <1>3, <1>4, SendHeard DEF Sending
<1>7. CASE Sent(words)
  BY <1>1, <1>5, <1>6, <1>7 DEF SoFar
<1>8. CASE ~Sent(words)
  <2>1. Hearing(First(0), <<SleepOut>>)'
    BY <1>6, <1>8 DEF Hearing, words
  <2>2. state' = "INIT_WAKEUP"
    BY <1>1, <1>8
  <2> QED
    BY <1>5, <2>1, <2>2 DEF SoFar
<1> QED
  BY <1>7, <1>8

\* The end of the commands: what was heard is the stream before the picture.
LEMMA WorkedStep ==
    ASSUME WordsInv, Panel, FsmType', ~lcd_ready, InitWorking, cmd_index = Len(init_cmd),
           UNCHANGED <<port, inited, written>>
    PROVE  Asked' /\ SoFar'
<1>1. /\ state = "INIT_WORKING" /\ state' = "INIT_DONE"
      /\ UNCHANGED <<cmd_index, test_pixel_cnt, boot_done, lcd_ready, lcd_reset_r, bit_loop>>
  BY DEF InitWorking, pins
<1>2. /\ test_pixel_cnt = 0 /\ port.kind = "init" /\ bit_loop = 0 /\ lcd_reset_r = 1
      /\ heard = First(1 + Len(init_cmd))
  BY <1>1 DEF WordsInv, Asked, SoFar, IInv, WireInv, TimeInv, FsmType
<1>3. Asked'
  BY <1>1, <1>2, AskedOn DEF WordsInv
<1>4. heard' = heard
  BY <1>1, <1>2, StillHeard DEF WordsInv
<1>5. heard' = First(1 + Len(init_cmd) + 2 * test_pixel_cnt')
  <2>1. 1 + Len(init_cmd) + 2 * test_pixel_cnt' = 1 + Len(init_cmd)
    BY <1>1, <1>2, TablesAre
  <2> QED
    BY <1>2, <1>4, <2>1, Zenon
<1>6. Hearing(First(1 + Len(init_cmd) + 2 * test_pixel_cnt),
              PixelWords(test_pixels[test_pixel_cnt + 1]))'
  BY <1>1, <1>2, <1>5, HearingStart DEF Hearing
<1> QED
  BY <1>1, <1>3, <1>5, <1>6 DEF SoFar

\* A bit of a command of the initialisation, or its end.
LEMMA WorkingStep ==
    ASSUME WordsInv, Panel, FsmType', ~lcd_ready, InitWorking, cmd_index # Len(init_cmd),
           UNCHANGED <<port, inited, written>>
    PROVE  Asked' /\ SoFar'
<1> DEFINE c == CmdWord(init_cmd[cmd_index + 1])
           words == <<c>>
           before == First(1 + cmd_index)
<1>1. /\ state = "INIT_WORKING" /\ Shift(words) /\ state' = state
      /\ cmd_index' = IF Sent(words) THEN cmd_index + 1 ELSE cmd_index
      /\ UNCHANGED <<test_pixel_cnt, boot_done, cmds, pixel, lcd_ready, lcd_reset_r>>
  BY DEF InitWorking
<1>2. /\ test_pixel_cnt = 0 /\ port.kind = "init" /\ Hearing(before, words)
      /\ cmd_index \in 0..Len(init_cmd)
  BY <1>1 DEF WordsInv, Asked, SoFar, IInv, FsmType
<1>3. /\ before \in Seq(Word) /\ before \o words = First(1 + (cmd_index + 1))
      /\ c \in Word
  BY <1>2, FirstCommand, CommandWord
<1>4. Asked'
  BY <1>1, <1>2, AskedOn DEF WordsInv
<1> HIDE DEF c
<1>5. words \in Seq(Word) /\ Len(words) \in 1..2 /\ Len(words) # 2
  BY <1>3
<1> HIDE DEF words, before
<1>6. /\ Sent(words) => heard' = First(1 + (cmd_index + 1)) /\ bit_loop' = 0
      /\ ~Sent(words) => Under(before, words, bit_loop', heard', lcd_rs_r', spi_data', bits')
  BY <1>1, <1>2, <1>3, <1>5, SendHeard DEF Sending
<1>7. CASE Sent(words)
  <2>1. heard' = First(1 + cmd_index') /\ bit_loop' = 0
    BY <1>1, <1>6, <1>7
  <2>2. Hearing(First(1 + cmd_index), <<CmdWord(init_cmd[cmd_index + 1])>>)'
    BY <2>1, HearingStart DEF Hearing
  <2> QED
    BY <1>1, <1>4, <2>1, <2>2 DEF SoFar
<1>8. CASE ~Sent(words)
  <2>1. cmd_index' = cmd_index /\ state' = "INIT_WORKING"
    BY <1>1, <1>8
  <2>2. Hearing(First(1 + cmd_index), <<CmdWord(init_cmd[cmd_index + 1])>>)'
    BY <1>6, <1>8, <2>1 DEF Hearing, before, words, c
  <2> QED
    BY <1>4, <2>1, <2>2 DEF SoFar
<1> QED
  BY <1>7, <1>8

\* The end of the picture: the panel has heard the whole stream.
LEMMA DoneStep ==
    ASSUME WordsInv, Panel, FsmType', ~lcd_ready, InitDone, test_pixel_cnt = Len(test_pixels),
           UNCHANGED <<port, inited, written>>
    PROVE  Asked' /\ SoFar'
<1>1. /\ state = "INIT_DONE" /\ state' = "IDLE" /\ lcd_ready' = TRUE /\ boot_done' = TRUE
      /\ UNCHANGED <<cmd_index, test_pixel_cnt, lcd_reset_r, bit_loop>>
  BY DEF InitDone, pins
<1>2. /\ port.kind = "init" /\ bit_loop = 0 /\ lcd_reset_r = 1 /\ written \in Seq(Word)
      /\ heard = First(1 + Len(init_cmd) + 2 * test_pixel_cnt)
  BY <1>1 DEF WordsInv, Asked, SoFar, IInv, WireInv, TimeInv, FsmType
<1>3. Asked'
  BY <1>1, <1>2 DEF Asked, lcd_valid
<1>4. heard' = heard
  BY <1>1, <1>2, StillHeard DEF WordsInv
<1>5. heard' = InitStream
  <2>1. First(1 + Len(init_cmd) + 2 * Len(test_pixels)) = InitStream
    BY FirstIs, StreamIs, Zenon
  <2> QED
    BY <1>2, <1>4, <2>1, Zenon
<1> QED
  BY <1>1, <1>2, <1>3, <1>5 DEF SoFar

\* A bit of the picture, or the end of a pixel.
LEMMA PictureStep ==
    ASSUME WordsInv, Panel, FsmType', ~lcd_ready, InitDone, test_pixel_cnt # Len(test_pixels),
           UNCHANGED <<port, inited, written>>
    PROVE  Asked' /\ SoFar'
<1> DEFINE words == PixelWords(test_pixels[test_pixel_cnt + 1])
           before == First(1 + Len(init_cmd) + 2 * test_pixel_cnt)
           after == First(1 + Len(init_cmd) + 2 * (test_pixel_cnt + 1))
<1>1. /\ state = "INIT_DONE" /\ Shift(words) /\ state' = state
      /\ test_pixel_cnt' = test_pixel_cnt + (IF Sent(words) THEN 1 ELSE 0)
      /\ UNCHANGED <<cmd_index, boot_done, cmds, pixel, lcd_ready, lcd_reset_r>>
  BY DEF InitDone
<1>2. /\ port.kind = "init" /\ Hearing(before, words)
      /\ test_pixel_cnt \in 0..Len(test_pixels)
  BY <1>1 DEF WordsInv, Asked, SoFar, IInv, FsmType
<1>3. /\ before \in Seq(Word) /\ test_pixels[test_pixel_cnt + 1] \in Colour
      /\ before \o words = after
  BY <1>2, FirstPixel
<1>4. Asked'
  BY <1>1, <1>2, AskedOn DEF WordsInv
<1>5. /\ words \in Seq(Word) /\ Len(words) = 2 /\ words[2][1] = words[1][1]
      /\ Len(words) \in 1..2
  <2> HIDE DEF before, after
  <2>1. words \in Seq(Word) /\ Len(words) = 2 /\ words[2][1] = words[1][1]
    BY <1>3, ColourWords, Zenon
  <2> QED
    BY <2>1
<1> HIDE DEF words, before, after
<1>6. /\ Sent(words) => heard' = after /\ bit_loop' = 0
      /\ ~Sent(words) => Under(before, words, bit_loop', heard', lcd_rs_r', spi_data', bits')
  <2>1. /\ state \in Sending /\ UNCHANGED lcd_reset_r /\ Shift(words) /\ Hearing(before, words)
        /\ before \in Seq(Word) /\ before \o words = after
    BY <1>1, <1>2, <1>3 DEF Sending
  <2> QED
    BY <1>5, <2>1, SendHeard
<1>7. CASE Sent(words)
  <2>1. /\ heard' = First(1 + Len(init_cmd) + 2 * test_pixel_cnt') /\ bit_loop' = 0
        /\ state' = "INIT_DONE"
    BY <1>1, <1>6, <1>7 DEF after
  <2>2. Hearing(First(1 + Len(init_cmd) + 2 * test_pixel_cnt),
                PixelWords(test_pixels[test_pixel_cnt + 1]))'
    BY <2>1, HearingStart DEF Hearing
  <2> QED
    BY <1>4, <2>1, <2>2 DEF SoFar
<1>8. CASE ~Sent(words)
  <2>1. test_pixel_cnt' = test_pixel_cnt /\ state' = "INIT_DONE"
    BY <1>1, <1>2, <1>8
  <2>2. Hearing(First(1 + Len(init_cmd) + 2 * test_pixel_cnt),
                PixelWords(test_pixels[test_pixel_cnt + 1]))'
    BY <1>6, <1>8, <2>1 DEF Hearing, before, words
  <2>3. test_pixel_cnt' # Len(test_pixels)
    BY <2>1
  <2> QED
    BY <1>4, <2>1, <2>2, <2>3 DEF SoFar
<1> QED
  BY <1>7, <1>8

\* A bit of what the CPU writes, or its end and the answer.
LEMMA UserStep ==
    ASSUME WordsInv, Panel, FsmType', ~lcd_ready, UCmd \/ UPixelData,
           UNCHANGED <<port, inited, written>>
    PROVE  Asked' /\ SoFar'
<1> DEFINE words == Words(port)
<1>1. /\ state \in {"U_CMD", "U_PIXEL_DATA"} /\ Shift(words) /\ Hearing(Told, words)
      /\ IF Sent(words) THEN state' = "IDLE" /\ lcd_ready' = TRUE
                        ELSE UNCHANGED <<state, lcd_ready>>
      /\ UNCHANGED <<cmd_index, test_pixel_cnt, boot_done, cmds, pixel, lcd_reset_r>>
      /\ words \in Seq(Word) /\ Len(words) \in 1..2
      /\ state = "U_PIXEL_DATA" => Len(words) = 2
      /\ Len(words) = 2 => words[2][1] = words[1][1]
      /\ port.kind \in {"cmd", "pixel"}
      /\ state = "U_CMD" => words = <<CmdWord(cmds)>>
      /\ state = "U_PIXEL_DATA" => words = PixelWords(pixel)
  <2>1. CASE UCmd
    <3>1. /\ state = "U_CMD" /\ port.kind = "cmd" /\ cmds = port.data
          /\ Hearing(Told, <<CmdWord(cmds)>>)
      BY <2>1 DEF UCmd, User, WordsInv, Asked, SoFar
    <3>2. words = <<CmdWord(cmds)>> /\ words \in Seq(Word) /\ Len(words) = 1
      <4>1. words = <<CmdWord(port.data)>> /\ words \in Seq(Word)
        BY <3>1, RequestWords DEF WordsInv, IInv
      <4> QED
        BY <3>1, <4>1
    <3> HIDE DEF words
    <3> QED
      BY <2>1, <3>1, <3>2 DEF UCmd, User
  <2>2. CASE UPixelData
    <3>1. /\ state = "U_PIXEL_DATA" /\ port.kind = "pixel" /\ pixel = port.data
          /\ pixel \in Colour /\ Hearing(Told, PixelWords(pixel))
      BY <2>2 DEF UPixelData, User, WordsInv, Asked, SoFar, PortInv
    <3>2. words = PixelWords(pixel) /\ words \in Seq(Word) /\ Len(words) = 2
          /\ words[2][1] = words[1][1]
      <4>1. words = PixelWords(pixel)
        BY <3>1, RequestWords DEF WordsInv, IInv
      <4>2. /\ PixelWords(pixel) \in Seq(Word) /\ Len(PixelWords(pixel)) = 2
            /\ PixelWords(pixel)[2][1] = PixelWords(pixel)[1][1]
        BY <3>1, ColourWords
      <4> QED
        BY <4>1, <4>2, Zenon
    <3> HIDE DEF words
    <3> QED
      BY <2>2, <3>1, <3>2 DEF UPixelData, User
  <2> QED
    BY <2>1, <2>2
<1>2. Told \in Seq(Word) /\ Told' = Told /\ written \in Seq(Word)
  <2>1. written \in Seq(Word)
    BY DEF WordsInv, Asked
  <2> QED
    BY <2>1, StreamIs, ConcatProperties DEF Told
<1> HIDE DEF words
<1>3. /\ Sent(words) => heard' = Told \o words
      /\ ~Sent(words) => Under(Told, words, bit_loop', heard', lcd_rs_r', spi_data', bits')
  BY <1>1, <1>2, SendHeard DEF Sending
<1>4. /\ state = "U_CMD" => port.kind = "cmd" /\ cmds = port.data
      /\ state = "U_PIXEL_DATA" => port.kind = "pixel" /\ pixel = port.data
      /\ inited /\ boot_done
  BY <1>1 DEF WordsInv, Asked, IInv, TimeInv
<1>5. CASE Sent(words)
  <2>1. state' = "IDLE" /\ lcd_ready' = TRUE /\ heard' = Told' \o Words(port')
    BY <1>1, <1>2, <1>3, <1>5 DEF words
  <2>2. Asked'
    BY <1>1, <1>2, <1>4, <2>1 DEF Asked, lcd_valid
  <2>3. port'.kind # "init"
    BY <1>1
  <2> QED
    BY <2>1, <2>2, <2>3 DEF SoFar
<1>6. CASE ~Sent(words)
  <2>1. state' = state /\ ~lcd_ready'
    BY <1>1, <1>6
  <2>2. Asked'
    BY <1>1, <1>4, <2>1, AskedOn DEF WordsInv
  <2>3. /\ state = "U_CMD" => Hearing(Told, <<CmdWord(cmds)>>)'
        /\ state = "U_PIXEL_DATA" => Hearing(Told, PixelWords(pixel))'
    BY <1>1, <1>2, <1>3, <1>6 DEF Hearing
  <2> QED
    BY <1>1, <2>1, <2>2, <2>3 DEF SoFar
<1> QED
  BY <1>5, <1>6

\* A clock edge, the CPU's half and the panel's included.
LEMMA EdgeStep ==
    ASSUME WordsInv, Edge, IInv'
    PROVE  Asked' /\ SoFar'
<1>1. Lcd /\ Cpu /\ Panel /\ FsmType'
  BY DEF Edge, IInv
<1>2. CASE lcd_ready
  <2>1. /\ Ack /\ port' = NoRequest /\ inited' = (inited \/ port.kind = "init")
        /\ written' = IF port.kind = "init" THEN <<>>
                      ELSE IF inited THEN written \o Words(port) ELSE written
    BY <1>1, <1>2, CpuIs DEF WordsInv
  <2> QED
    BY <1>1, <1>2, <2>1, AnswerStep
<1>3. CASE ~lcd_ready /\ UNCHANGED <<port, inited, written>>
  <2>1. CASE InitReset \/ InitPrepare \/ InitSnooze
    BY <1>1, <1>3, <2>1, DelayStep
  <2>2. CASE InitWakeup
    BY <1>1, <1>3, <2>2, WakeupStep
  <2>3. CASE InitWorking
    BY <1>1, <1>3, <2>3, WorkedStep, WorkingStep
  <2>4. CASE InitDone
    BY <1>1, <1>3, <2>4, DoneStep, PictureStep
  <2>5. CASE IdleInit \/ IdleCmd \/ IdlePixel
    BY <1>1, <1>3, <2>5, TakenStep
  <2>6. CASE UCmd \/ UPixelData
    BY <1>1, <1>3, <2>6, UserStep
  <2>7. CASE Idle
    <3>1. /\ state = "IDLE" /\ state' = "IDLE" /\ ~lcd_ready'
          /\ UNCHANGED <<cmd_index, test_pixel_cnt, boot_done, lcd_reset_r, inited, written>>
      BY <1>3, <2>7 DEF Idle, fsm
    <3> QED
      BY <1>1, <1>3, <3>1, IdleStep
  <2>8. CASE IdleOther
    <3>1. /\ state = "IDLE" /\ state' = "IDLE" /\ lcd_ready' = TRUE /\ lcd_valid
          /\ port' = port /\ port.kind # "init" /\ (boot_done => port.kind = "other")
          /\ UNCHANGED <<cmd_index, test_pixel_cnt, boot_done, lcd_reset_r, inited, written>>
      BY <1>3, <2>8 DEF IdleOther, Ignore
    <3> QED
      BY <1>1, <1>3, <3>1, IdleStep
  <2> QED
    BY <1>1, <1>3, <2>1, <2>2, <2>3, <2>4, <2>5, <2>6, <2>7, <2>8 DEF Lcd, Ack
<1>4. CASE ~lcd_ready /\ ~lcd_valid /\ UNCHANGED <<inited, written>>
  <2>1. Idle
    BY <1>1, <1>4, NotAsked DEF WordsInv
  <2>2. /\ state = "IDLE" /\ state' = "IDLE" /\ ~lcd_ready'
        /\ UNCHANGED <<cmd_index, test_pixel_cnt, boot_done, lcd_reset_r, inited, written>>
    BY <1>4, <2>1 DEF Idle, fsm
  <2> QED
    BY <1>1, <1>4, <2>2, IdleStep
<1> QED
  BY <1>1, <1>2, <1>3, <1>4, CpuIs DEF WordsInv

\* The button: nothing was asked for and nothing written.
LEMMA ResetStep ==
    ASSUME Reset
    PROVE  Asked' /\ SoFar' /\ PortInv'
<1>1. /\ state' = "IDLE" /\ cmd_index' = 0 /\ test_pixel_cnt' = 0 /\ ~boot_done' /\ ~lcd_ready'
      /\ port'.kind = "none" /\ ~inited' /\ written' = <<>>
  BY DEF Reset, NoRequest
<1>2. written' \in Seq(Word)
  BY <1>1
<1> QED
  BY <1>1, <1>2 DEF Asked, SoFar, PortInv

\* A sequence is a prefix of what begins with it.
LEMMA PrefixOf ==
    ASSUME NEW S, NEW s \in Seq(S), NEW q \in Seq(S)
    PROVE  IsPrefix(s, s \o q)
<1> DEFINE m == Len(s)
           k == Len(q)
<1>1. m \in Nat /\ k \in Nat
  OBVIOUS
<1>2. s \o q \in Seq(S) /\ Len(s \o q) = m + k
  BY ConcatProperties
<1>3. SubSeq(s, 1, m) = s
  BY SubSeqFull
<1>4. SubSeq(s \o q, 1, m) = s
  <2>1. CASE m = 0
    <3>1. s = <<>>
      BY <2>1
    <3>2. SubSeq(s \o q, 1, 0) = <<>>
      BY SubSeqEmpty
    <3> QED
      BY <2>1, <3>1, <3>2
  <2>2. CASE m # 0
    <3>1. 1 \in 1..m /\ m \in 1..m
      BY <1>1, <2>2
    <3>2. SubSeq(s \o q, 1, m) = SubSeq(s, 1, m)
      BY <3>1, SubSeqOfConcat1
    <3> QED
      BY <1>3, <3>2
  <2> QED
    BY <2>1, <2>2
<1>5. Len(s) <= Len(s \o q)
  <2> HIDE DEF m, k
  <2>1. m <= m + k
    BY <1>1
  <2> QED
    BY <1>2, <2>1 DEF m
<1> QED
  BY <1>3, <1>4, <1>5, Zenon DEF IsPrefix

\* Whole words at a time the panel goes from what is written to the request's.
LEMMA Between ==
    ASSUME NEW S, NEW s \in Seq(S), NEW q \in Seq(S), NEW h,
           h = s \/ (Len(q) = 2 /\ h = Append(s, q[1])) \/ h = s \o q
    PROVE  IsPrefix(s, h) /\ IsPrefix(h, s \o q)
<1>1. \A v \in Seq(S) : IsPrefix(v, v)
  <2> TAKE v \in Seq(S)
  <2>1. <<>> \in Seq(S) /\ v \o <<>> = v
    BY ConcatEmptySeq
  <2> QED
    BY <2>1, PrefixOf
<1>2. CASE h = s
  BY <1>1, <1>2, PrefixOf
<1>3. CASE h = s \o q
  <2>1. s \o q \in Seq(S)
    BY ConcatProperties
  <2> QED
    BY <1>1, <1>3, <2>1, PrefixOf
<1>4. CASE Len(q) = 2 /\ h = Append(s, q[1])
  <2>1. q[1] \in S /\ q[2] \in S
    BY <1>4, FewWords
  <2>2. <<q[1]>> \in Seq(S) /\ <<q[2]>> \in Seq(S)
    BY <1>4, FewWords
  <2>3. h \in Seq(S) /\ h = s \o <<q[1]>>
    BY <1>4, <2>1, AppendIsConcat, AppendTop
  <2>4. s \o q = h \o <<q[2]>>
    <3>1. s \o q = Append(Append(s, q[1]), q[2])
      BY <1>4, Behind
    <3>2. Append(h, q[2]) = h \o <<q[2]>>
      BY <2>1, <2>3, AppendIsConcat
    <3> QED
      BY <1>4, <3>1, <3>2, Zenon
  <2>5. IsPrefix(s, s \o <<q[1]>>)
    BY <2>2, PrefixOf
  <2>6. IsPrefix(h, h \o <<q[2]>>)
    BY <2>2, <2>3, PrefixOf
  <2> QED
    BY <2>3, <2>4, <2>5, <2>6, Zenon
<1> QED
  BY <1>2, <1>3, <1>4

\* What the invariant says of the panel is what the property asks.
LEMMA FaithfulThen ==
    ASSUME WordsInv
    PROVE  PanelFaithful
<1>1. ASSUME port.kind = "init", lcd_ready PROVE heard = InitStream
  BY <1>1 DEF WordsInv, IInv, WireInv, Asked, SoFar
<1>2. ASSUME inited, port.kind # "init"
      PROVE  /\ IsPrefix(InitStream \o written, heard)
             /\ IsPrefix(heard, InitStream \o written \o Words(port))
             /\ lcd_ready => heard = InitStream \o written \o Words(port)
  <2> DEFINE q == Words(port)
  <2>1. /\ boot_done /\ state \in {"IDLE", "U_CMD", "U_PIXEL_DATA"}
        /\ state # "IDLE" => ~lcd_ready
    BY <1>2 DEF WordsInv, Asked, IInv, WireInv
  <2>2. Told \in Seq(Word) /\ q \in Seq(Word)
    <3>1. written \in Seq(Word)
      BY DEF WordsInv, Asked
    <3>2. q \in Seq(Word)
      BY RequestWords DEF WordsInv, IInv
    <3> QED
      BY <3>1, <3>2, StreamIs, ConcatProperties DEF Told
  <2>3. heard = Told \/ (Len(q) = 2 /\ heard = Append(Told, q[1])) \/ heard = Told \o q
    <3>1. CASE state = "IDLE"
      BY <1>2, <2>1, <3>1 DEF WordsInv, SoFar
    <3>2. CASE state = "U_CMD"
      BY <3>2 DEF WordsInv, SoFar, Hearing, Under, IInv, WireInv
    <3>3. CASE state = "U_PIXEL_DATA"
      <4>1. /\ heard = Told \/ heard = Append(Told, PixelWords(pixel)[1])
            /\ port.kind = "pixel" /\ pixel = port.data /\ pixel \in Colour
        BY <3>3 DEF WordsInv, Asked, SoFar, PortInv, Hearing, Under
      <4>2. q = PixelWords(pixel)
        BY <4>1, RequestWords DEF WordsInv, IInv
      <4>3. Len(PixelWords(pixel)) = 2
        BY <4>1, ColourWords
      <4> HIDE DEF q
      <4> QED
        BY <4>1, <4>2, <4>3, Zenon
    <3> QED
      BY <2>1, <3>1, <3>2, <3>3
  <2>4. lcd_ready => heard = Told \o q
    BY <1>2, <2>1 DEF WordsInv, SoFar
  <2> HIDE DEF q
  <2>5. IsPrefix(Told, heard) /\ IsPrefix(heard, Told \o q)
    BY <2>2, <2>3, Between
  <2> QED
    BY <2>4, <2>5, Zenon DEF Told, q
<1> QED
  BY <1>1, <1>2, Zenon DEF PanelFaithful

\* lcd114.v:188-368 for every table, every delay and every sequence of requests, second
\* initialisations and resets: the panel hears the initialisation whole and behind it
\* what the CPU writes, each word once, in order, with its RS, and nothing else.
THEOREM WordsAreHeard == Spec => []PanelFaithful
<1>1. Init => WordsInv
  <2> SUFFICES ASSUME Init PROVE WordsInv
    OBVIOUS
  <2>1. IInv
    BY PausesInit
  <2>2. written \in Seq(Word)
    BY DEF Init
  <2> QED
    BY <2>1, <2>2 DEF Init, WordsInv, Asked, SoFar, PortInv, NoRequest
<1>2. WordsInv /\ [Next]_vars => WordsInv'
  <2> SUFFICES ASSUME WordsInv, [Next]_vars PROVE WordsInv'
    OBVIOUS
  <2>1. IInv'
    BY PausesNext DEF WordsInv
  <2>2. CASE Edge
    <3>1. Asked' /\ SoFar'
      BY <2>1, <2>2, EdgeStep
    <3>2. PortInv'
      BY <2>2, PortNext DEF Edge, WordsInv
    <3> QED
      BY <2>1, <3>1, <3>2 DEF WordsInv
  <2>3. CASE Reset
    BY <2>1, <2>3, ResetStep DEF WordsInv
  <2>4. CASE UNCHANGED vars
    <3>1. /\ UNCHANGED <<state, cmd_index, test_pixel_cnt, bit_loop, boot_done, cmds, pixel>>
          /\ UNCHANGED <<lcd_ready, lcd_rs_r, spi_data, port, bits, heard, inited, written>>
      BY <2>4 DEF vars, fsm, pins, cpu, panel
    <3>2. Asked' /\ PortInv'
      BY <3>1 DEF WordsInv, Asked, PortInv, lcd_valid
    <3>3. SoFar'
      BY <3>1 DEF WordsInv, SoFar, Hearing, Told
    <3> QED
      BY <2>1, <3>2, <3>3 DEF WordsInv
  <2> QED
    BY <2>2, <2>3, <2>4 DEF Next
<1> QED
  BY <1>1, <1>2, FaithfulThen, PTL DEF Spec
===============================================================================
