------------------------------ MODULE SimpleUart ------------------------------
(***************************************************************************)
(* The UART (src/hw/simpleuart.v with its bus glue PicoMem_UART in         *)
(* src/hw/picoperipheral.v), one clock edge at a time, between the program *)
(* on the CPU and a serial peer with a clock of its own.                   *)
(*                                                                         *)
(* The program sets the divider first (isp_flasher.c:141) and may set it   *)
(* again, to the same value, at any time, also in the middle of a byte:    *)
(* that is what the jump to the reset vector does right after 0xF1.  The   *)
(* peer is external; a bit of it takes rate[1]/rate[2] clocks, and its     *)
(* edges fall anywhere between two of ours.                                *)
(***************************************************************************)
EXTENDS Integers, Sequences, SequencesExt

CONSTANTS
    Divider,      \* what the program writes to CLKDIV
    Rates,        \* bit times of the peer, as fractions <<num, den>>
    PutBytes,     \* what the program sends
    PeerBytes,    \* what the peer sends
    MaxDivs,      \* bound on the writes of CLKDIV
    MaxPuts,      \* bound on the bytes sent by the program
    MaxSends      \* bound on the bytes sent by the peer

Byte == 0..255

\* The frame of a byte, least significant bit first: start, data, stop.
Frame(b)  == 512 + 2 * b
Bit(v, k) == (v \div 2^k) % 2

\* Clocks in a bit, and from the edge that saw the start bit to its middle.
BitTime  == Divider + 2
HalfTime == 2 + Divider \div 2

\* In which bit of the peer the clock t of a frame falls; f is the phase.
BitAt(r, t, f) == (t * r[2] + f) \div r[1]

\* The rates are close enough: each of the receiver's samples is in its bit, the
\* stop bit's too, which is not looked at but is where the receiver begins to look
\* for the next byte; likewise the peer's samples.
RateMatches(r) ==
    /\ \A k \in 1..9, f \in 0..(r[2] - 1) : BitAt(r, HalfTime + k * BitTime, f) = k
    /\ \A k \in 0..9 : (((2*k + 1) * r[1]) \div (2 * r[2])) \div BitTime = k

ASSUME UartAssumption ==
    /\ Divider \in Nat \ {0}
    /\ Rates \subseteq (Nat \ {0}) \X (Nat \ {0}) /\ \A r \in Rates : RateMatches(r)
    /\ PutBytes \subseteq Byte /\ PeerBytes \subseteq Byte
    /\ MaxDivs \in Nat \ {0} /\ MaxPuts \in Nat /\ MaxSends \in Nat

VARIABLES
    cfg_divider,
    recv_state, recv_divcnt, recv_pattern, recv_buf_data, recv_buf_valid,
    send_pattern, send_bitcnt, send_divcnt, send_dummy,
    port, divs,                 \* the program: its bus request; writes of CLKDIV
    rate, peer, hear,           \* the peer: its bit time, transmitter, receiver
    puts, heard,                \* history: bytes accepted for sending; frames heard
    sent, got, overrun          \* history: bytes sent by the peer; bytes read

recv  == <<recv_state, recv_divcnt, recv_pattern, recv_buf_data, recv_buf_valid>>
send  == <<send_pattern, send_bitcnt, send_divcnt, send_dummy>>
vars  == <<cfg_divider, recv, send, port, divs, rate, peer, hear,
           puts, heard, sent, got, overrun>>

NoRequest == [op |-> "none", byte |-> 0]
Silent    == [on |-> FALSE, byte |-> 0, t |-> 0, f |-> 0]
Deaf      == [on |-> FALSE, t |-> 0, k |-> 0, bits |-> 0]

ser_rx == IF peer.on THEN Bit(Frame(peer.byte), BitAt(rate, peer.t, peer.f)) ELSE 1
ser_tx == send_pattern % 2

Init ==
    /\ cfg_divider = 1
    /\ recv_state = 0 /\ recv_divcnt = 0 /\ recv_pattern = 0
    /\ recv_buf_data = 0 /\ recv_buf_valid = FALSE
    /\ send_pattern = 1023 /\ send_bitcnt = 0 /\ send_divcnt = 0 /\ send_dummy = TRUE
    /\ port = NoRequest /\ divs = 0
    /\ rate \in Rates /\ peer = Silent /\ hear = Deaf
    /\ puts = <<>> /\ heard = <<>> /\ sent = <<>> /\ got = <<>>
    /\ overrun = FALSE
-----------------------------------------------------------------------------
(* The bus port: at most one request is up, held until it is ready. *)

reg_dat_we   == port.op = "put"
reg_dat_re   == port.op = "get"
reg_div_we   == port.op = "div"
reg_dat_wait == reg_dat_we /\ (send_bitcnt # 0 \/ send_dummy)
reg_dat_do   == IF recv_buf_valid THEN <<recv_buf_data>> ELSE <<>>   \* ~0 is no byte

Request ==
    /\ port = NoRequest
    /\ \/ UNCHANGED <<port, divs>>
       \/ divs < MaxDivs /\ port' = [op |-> "div", byte |-> 0] /\ divs' = divs + 1
       \/ /\ divs > 0 /\ UNCHANGED divs
          /\ \/ port' = [op |-> "get", byte |-> 0]
             \/ Len(puts) < MaxPuts /\ \E b \in PutBytes : port' = [op |-> "put", byte |-> b]

Held == reg_dat_wait /\ UNCHANGED port

Answered == port # NoRequest /\ ~reg_dat_wait /\ port' = NoRequest

Cpu ==
    /\ Request \/ ((Held \/ Answered) /\ UNCHANGED divs)
    /\ puts' = IF reg_dat_we /\ ~reg_dat_wait THEN Append(puts, port.byte) ELSE puts
    /\ got'  = IF reg_dat_re THEN got \o reg_dat_do ELSE got
    /\ cfg_divider' = IF reg_div_we THEN Divider ELSE cfg_divider
-----------------------------------------------------------------------------
(* The receiver. *)

\* The buffer when no byte arrives: a read empties it.
KeepBuffer ==
    /\ recv_buf_valid' = (recv_buf_valid /\ ~reg_dat_re)
    /\ UNCHANGED <<recv_buf_data, overrun>>

RxIdle ==
    /\ recv_state = 0
    /\ recv_state' = 1 - ser_rx /\ recv_divcnt' = 0
    /\ KeepBuffer /\ UNCHANGED recv_pattern

RxStart ==
    /\ recv_state = 1
    /\ IF 2 * recv_divcnt > cfg_divider
       THEN recv_state' = 2 /\ recv_divcnt' = 0
       ELSE recv_divcnt' = recv_divcnt + 1 /\ UNCHANGED recv_state
    /\ KeepBuffer /\ UNCHANGED recv_pattern

RxBit ==
    /\ recv_state \in 2..9
    /\ IF recv_divcnt > cfg_divider
       THEN /\ recv_pattern' = 128 * ser_rx + recv_pattern \div 2
            /\ recv_state' = recv_state + 1 /\ recv_divcnt' = 0
       ELSE recv_divcnt' = recv_divcnt + 1 /\ UNCHANGED <<recv_state, recv_pattern>>
    /\ KeepBuffer

\* Slip: a read in the clock of the arrival takes the new byte's flag with it.
RxStop_ReadWins ==
    /\ recv_state = 10
    /\ IF recv_divcnt > cfg_divider
       THEN /\ recv_buf_data' = recv_pattern /\ recv_buf_valid' = ~reg_dat_re
            /\ overrun' = (overrun \/ (recv_buf_valid /\ ~reg_dat_re))
            /\ recv_state' = 0 /\ recv_divcnt' = 0
       ELSE /\ recv_divcnt' = recv_divcnt + 1 /\ UNCHANGED recv_state
            /\ KeepBuffer
    /\ UNCHANGED recv_pattern

\* In the middle of the stop bit, whose value is not looked at.  A byte that
\* is still unread is replaced.
RxStop ==
    /\ recv_state = 10
    /\ IF recv_divcnt > cfg_divider
       THEN /\ recv_buf_data' = recv_pattern /\ recv_buf_valid' = TRUE
            /\ overrun' = (overrun \/ (recv_buf_valid /\ ~reg_dat_re))
            /\ recv_state' = 0
            /\ recv_divcnt' = 0   \* state 0 clears it
       ELSE /\ recv_divcnt' = recv_divcnt + 1 /\ UNCHANGED recv_state
            /\ KeepBuffer
    /\ UNCHANGED recv_pattern

Receiver == RxIdle \/ RxStart \/ RxBit \/ RxStop
-----------------------------------------------------------------------------
(* The transmitter.  send_divcnt runs on when send_bitcnt is 0, unread. *)

TxDummy ==
    /\ send_dummy /\ send_bitcnt = 0
    /\ send_pattern' = 1023 /\ send_bitcnt' = 15 /\ send_divcnt' = 0
    /\ send_dummy' = FALSE

TxLoad ==
    /\ ~send_dummy /\ send_bitcnt = 0 /\ reg_dat_we
    /\ send_pattern' = Frame(port.byte) /\ send_bitcnt' = 10 /\ send_divcnt' = 0
    /\ UNCHANGED send_dummy

\* Slip: a divider write restarts the transmitter at once.
TxShift_Abort ==
    /\ send_bitcnt # 0
    /\ IF send_divcnt > cfg_divider
       THEN /\ send_pattern' = 512 + send_pattern \div 2
            /\ send_bitcnt' = (IF reg_div_we THEN 0 ELSE send_bitcnt - 1)
            /\ send_divcnt' = 0
       ELSE send_divcnt' = send_divcnt + 1 /\ UNCHANGED <<send_pattern, send_bitcnt>>
    /\ send_dummy' = (send_dummy \/ reg_div_we)

\* Slip: the dummy is asked for again in every bit of the dummy.
TxShift_Redummy ==
    /\ send_bitcnt # 0
    /\ IF send_divcnt > cfg_divider
       THEN /\ send_pattern' = 512 + send_pattern \div 2
            /\ send_bitcnt' = send_bitcnt - 1 /\ send_divcnt' = 0
       ELSE send_divcnt' = send_divcnt + 1 /\ UNCHANGED <<send_pattern, send_bitcnt>>
    /\ send_dummy' = (send_dummy \/ reg_div_we \/ send_pattern = 1023)

TxShift ==
    /\ send_bitcnt # 0
    /\ IF send_divcnt > cfg_divider
       THEN /\ send_pattern' = 512 + send_pattern \div 2
            /\ send_bitcnt' = send_bitcnt - 1 /\ send_divcnt' = 0
       ELSE send_divcnt' = send_divcnt + 1 /\ UNCHANGED <<send_pattern, send_bitcnt>>
    /\ send_dummy' = (send_dummy \/ reg_div_we)

TxIdle ==
    /\ ~send_dummy /\ send_bitcnt = 0 /\ ~reg_dat_we
    /\ send_dummy' = reg_div_we
    /\ UNCHANGED <<send_pattern, send_bitcnt, send_divcnt>>

Transmitter == TxDummy \/ TxLoad \/ TxShift \/ TxIdle
-----------------------------------------------------------------------------
(* The peer, external. *)

FrameOver == ~peer.on \/ BitAt(rate, peer.t + 1, peer.f) = 10

PeerSends ==
    \/ ~FrameOver /\ peer' = [peer EXCEPT !.t = @ + 1] /\ UNCHANGED sent
    \/ FrameOver /\ peer' = Silent /\ UNCHANGED sent
    \/ /\ FrameOver /\ divs > 0 /\ Len(sent) < MaxSends
       /\ \E b \in PeerBytes : \E f \in 0..(rate[2] - 1) :
            /\ peer' = [on |-> TRUE, byte |-> b, t |-> 0, f |-> f]
            /\ sent' = Append(sent, b)

\* It samples the middle of each bit, from the falling edge on.
SampleTime(k) == ((2*k + 1) * rate[1]) \div (2 * rate[2])

PeerHears ==
    \/ /\ ~hear.on
       /\ hear' = IF ser_tx = 1 THEN Deaf ELSE [Deaf EXCEPT !.on = TRUE, !.t = 1]
       /\ UNCHANGED heard
    \/ /\ hear.on /\ hear.t # SampleTime(hear.k)
       /\ hear' = [hear EXCEPT !.t = @ + 1] /\ UNCHANGED heard
    \/ /\ hear.on /\ hear.t = SampleTime(hear.k)
       /\ LET bits == 512 * ser_tx + hear.bits \div 2
          IN  IF hear.k = 9
              THEN hear' = Deaf /\ heard' = Append(heard, bits)
              ELSE /\ hear' = [hear EXCEPT !.t = @ + 1, !.k = @ + 1, !.bits = bits]
                   /\ UNCHANGED heard
-----------------------------------------------------------------------------
Next ==
    /\ Cpu /\ Receiver /\ Transmitter
    /\ PeerSends /\ PeerHears
    /\ UNCHANGED rate

Spec == Init /\ [][Next]_vars

\* clk is free-running.
FairSpec == Spec /\ WF_vars(Next /\ (port # NoRequest \/ send_bitcnt # 0))
-----------------------------------------------------------------------------
\* simpleuart.v:66-105: what the peer sends reaches the program unchanged, in
\* order, each byte once, whatever the phase of its clock, when the program
\* reads, and whether bytes follow each other without a pause; as long as no
\* unread byte was replaced.
RxComplete ==
    LET buffered == got \o reg_dat_do
    IN  ~overrun =>
           /\ IsPrefix(buffered, sent) /\ Len(sent) - Len(buffered) <= 1
           /\ ~peer.on => buffered = sent

\* simpleuart.v:107-136: what the program was told is sent is heard by the peer
\* as well-formed frames, in order, each once, also when the divider is
\* written in the middle of a byte (isp_flasher.c:225-229, then :141).
TxFaithful ==
    LET due == [i \in 1..Len(puts) |-> Frame(puts[i])]
    IN  /\ IsPrefix(heard, due)
        /\ send_bitcnt = 0 => heard = due

\* reg_dat_wait holds the CPU up to 26 bits long, never for good.
PutTaken == (port.op = "put") ~> (port = NoRequest)
=============================================================================
