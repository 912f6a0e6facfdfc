--------------------------------- MODULE Isp ---------------------------------
(***************************************************************************)
(* In-system programming over the serial line: the host tool               *)
(* sw/pico-programmer.py, the boot ROM fw/tangnano9k/brom/isp_flasher.c,   *)
(* the UART between them and the SPI flash (external).                     *)
(*                                                                         *)
(* Bytes are the real ones and share one space, so image data may look     *)
(* like commands.  The page and the sector are scaled down; an address is  *)
(* what its three bytes decode to (module IspAddress is about the bytes).  *)
(* The host's input buffer is unbounded, the ROM's UART holds one byte.    *)
(*                                                                         *)
(* Time: the line is slow.  A ROM that is waiting for a byte takes it      *)
(* before the next can arrive, and whatever is on its way is delivered and *)
(* answered within the host's sleeps of 0.1 s.                             *)
(***************************************************************************)
EXTENDS Integers, Sequences, FiniteSets

CONSTANTS
    PAGE,        \* bytes in a flash page and in the page buffer (256)
    SECTPAGES,   \* pages in an erase sector (16)
    FLASHSECTS,  \* sectors in the flash
    Images,      \* programs to be flashed
    OldByte,     \* what the flash holds everywhere before
    MaxTries,    \* probes of the host (100)
    RetryLimit,  \* wbufRetryLimit
    Noise,       \* bytes that noise puts in place of a data byte
    Banner,      \* the text the ROM prints before it boots the flash
    Cleared(_, _) \* what programming a byte over another leaves: bits only clear

Byte   == 0..255
SECTOR == PAGE * SECTPAGES
Flash  == 0..(SECTOR * FLASHSECTS - 1)

ASSUME IspAssumption ==
    /\ PAGE \in 1..256 /\ SECTPAGES \in Nat \ {0} /\ FLASHSECTS \in Nat \ {0}
    /\ SECTOR * FLASHSECTS <= 256 * 256 * 256
    /\ \A m \in Images : /\ m \in Seq(Byte) /\ Len(m) \in 1..(SECTOR * FLASHSECTS)
    /\ OldByte \in Byte /\ Noise \subseteq Byte
    /\ MaxTries \in Nat \ {0} /\ RetryLimit \in Nat
    /\ Banner \in Seq(Byte)
    /\ \A x \in Byte : Cleared(255, x) = x

VARIABLES
    image,                               \* the host's program
    hpc, tries, sect, page, curraddr, retry,   \* the host
    inq,                                 \* bytes received by the host, unread
    h2d, d2h,                            \* bytes on the line
    rx,                                  \* the ROM's receive buffer: <<>> or <<b>>
    rpc, instr, args, buflen, buf,       \* the ROM
    op, flash,                           \* the flash and the operation it is busy with
    hit,                                 \* noise already hit this page transfer
    buflen0, genuine, overrun            \* history

host == <<image, tries, sect, page, curraddr, retry>>
rom  == <<rpc, instr, args, buflen, buf, op, flash>>
hist == <<buflen0, genuine, overrun>>
vars == <<host, hpc, inq, h2d, d2h, rx, rom, hit, hist>>

NoOp == [kind |-> "none", at |-> 0, data |-> <<>>]

Least(a, b) == IF a < b THEN a ELSE b
sectreq == ((Len(image) - 1) \div SECTOR) + 1
pagereq == ((Len(image) - 1) \div PAGE) + 1
PagesIn(i) == Least(SECTPAGES, pagereq - i * SECTPAGES)

\* wrdat: the slice of the program at curraddr.
PageData == SubSeq(image, curraddr + 1, Least(curraddr + PAGE, Len(image)))

\* The sum after each byte of a page.
Sums(s) == LET sum[n \in 0..Len(s)] == IF n = 0 THEN 0 ELSE sum[n - 1] + s[n] IN sum
Chksum(s) == Sums(s)[Len(s)] % 256

AddressBytes(a) == <<(a \div 65536) % 256, (a \div 256) % 256, a % 256>>
\* ESEC's bytes leave out the offset in the sector.
SectorBytes(a)  == AddressBytes(a - (a % SECTOR))
Address(b)      == b[1] * 65536 + b[2] * 256 + b[3]

Init ==
    /\ image \in Images
    /\ hpc = "probe" /\ tries = 0 /\ sect = 0 /\ page = 0 /\ curraddr = 0 /\ retry = 0
    /\ inq = <<>> /\ h2d = <<>> /\ d2h = <<>> /\ rx = <<>>
    /\ rpc = "off" /\ instr = 0 /\ args = <<>> /\ buf = [k \in 1..PAGE |-> 255]
    /\ buflen \in {0, 1}                     \* never initialised: zero or not
    /\ op = NoOp /\ flash = [a \in Flash |-> OldByte]
    /\ hit = FALSE
    /\ buflen0 = buflen /\ genuine = FALSE /\ overrun = FALSE
-----------------------------------------------------------------------------
(* pico-programmer.py *)

\* Everything sent has arrived and has been answered.
Settled ==
    /\ h2d = <<>> /\ d2h = <<>>
    /\ rpc \in {"off", "wait", "cmd", "app"} /\ (rpc \in {"wait", "cmd"} => rx = <<>>)

\* Lines 121-123; lines 125-135 after the sleep.
Probe ==
    /\ hpc = "probe"
    /\ inq' = <<>> /\ h2d' = h2d \o <<85, 85>> /\ hpc' = "sleep"
    /\ UNCHANGED <<host, d2h, rx, rom, hit, hist>>

ReadProbe ==
    /\ hpc = "sleep" /\ Settled
    /\ inq' = IF inq = <<>> THEN inq ELSE Tail(inq)
    /\ IF inq # <<>> /\ Head(inq) = 86
       THEN hpc' = "drain" /\ genuine' = (rpc = "cmd") /\ UNCHANGED tries
       ELSE /\ tries' = tries + 1
            /\ hpc' = IF tries + 1 = MaxTries THEN "undetected" ELSE "probe"
            /\ UNCHANGED genuine
    /\ UNCHANGED <<image, sect, page, curraddr, retry, h2d, d2h, rx, rom, hit,
                   buflen0, overrun>>

\* Lines 143-144: the second 0x56.
Drain ==
    /\ hpc = "drain" /\ Settled
    /\ inq' = IF inq = <<>> THEN inq ELSE Tail(inq)
    /\ hpc' = "esec"
    /\ UNCHANGED <<host, h2d, d2h, rx, rom, hit, hist>>

\* ser.write(bytes) in step `here` of the host.
Send(here, bytes, next) ==
    /\ hpc = here
    /\ h2d' = h2d \o bytes /\ hpc' = next
    /\ UNCHANGED <<host, inq, d2h, rx, rom, hist>>

\* Slip: the acknowledgement is not waited for.
Await_Not(here, next) ==
    /\ hpc = here
    /\ hpc' = next
    /\ UNCHANGED <<host, inq, h2d, d2h, rx, rom, hit, hist>>

\* isp_wait_byte where the caller ignores its result: any byte will do.
Await(here, next) ==
    /\ hpc = here /\ inq # <<>>
    /\ inq' = Tail(inq) /\ hpc' = next
    /\ UNCHANGED <<host, h2d, d2h, rx, rom, hit, hist>>

Esec ==
    \/ Send("esec", <<48>>, "esec_go") /\ UNCHANGED hit
    \/ Await("esec_go", "esec_addr")
    \/ Send("esec_addr", SectorBytes(curraddr), "esec_done") /\ UNCHANGED hit
    \/ Await("esec_done", "wbuf")

Wbuf ==
    \/ Send("wbuf", <<16>>, "wbuf_go") /\ hit' = FALSE
    \/ Await("wbuf_go", "wbuf_data")
    \/ Send("wbuf_data", <<Len(PageData) - 1>> \o PageData, "chksum") /\ UNCHANGED hit

\* Slip: the result of the checksum test is dropped.
CheckSum_Ignored ==
    /\ hpc = "chksum" /\ inq # <<>>
    /\ inq' = Tail(inq)
    /\ hpc' = "wpag" /\ retry' = 0
    /\ UNCHANGED <<image, tries, sect, page, curraddr, h2d, d2h, rx, rom, hit, hist>>

\* Lines 44-49 and the retry loop, lines 180-190.
CheckSum ==
    /\ hpc = "chksum" /\ inq # <<>>
    /\ inq' = Tail(inq)
    /\ IF Head(inq) = Chksum(PageData)
       THEN hpc' = "wpag" /\ retry' = 0
       ELSE /\ retry' = retry + 1
            /\ hpc' = IF retry + 1 > RetryLimit THEN "failed" ELSE "wbuf"
    /\ UNCHANGED <<image, tries, sect, page, curraddr, h2d, d2h, rx, rom, hit, hist>>

Wpag ==
    \/ Send("wpag", <<64>>, "wpag_go") /\ UNCHANGED hit
    \/ Await("wpag_go", "wpag_addr")
    \/ Send("wpag_addr", AddressBytes(curraddr), "wpag_done") /\ UNCHANGED hit

\* Slip: the erase is done once, for the first sector.
NextPage_EraseOnce ==
    /\ hpc = "wpag_done" /\ inq # <<>>
    /\ inq' = Tail(inq)
    /\ curraddr' = curraddr + PAGE
    /\ \/ /\ page + 1 < PagesIn(sect)
          /\ page' = page + 1 /\ hpc' = "wbuf" /\ UNCHANGED sect
       \/ /\ page + 1 = PagesIn(sect) /\ sect + 1 < sectreq
          /\ page' = 0 /\ sect' = sect + 1 /\ hpc' = "wbuf"
       \/ /\ page + 1 = PagesIn(sect) /\ sect + 1 = sectreq
          /\ hpc' = "rst" /\ UNCHANGED <<page, sect>>
    /\ UNCHANGED <<image, tries, retry, h2d, d2h, rx, rom, hit, hist>>

\* Slip: a sector more than the program needs is erased.
NextPage_OneMore ==
    /\ hpc = "wpag_done" /\ inq # <<>>
    /\ inq' = Tail(inq)
    /\ curraddr' = curraddr + PAGE
    /\ \/ /\ page + 1 < PagesIn(sect)
          /\ page' = page + 1 /\ hpc' = "wbuf" /\ UNCHANGED sect
       \/ /\ page + 1 = PagesIn(sect) /\ sect < sectreq
          /\ page' = 0 /\ sect' = sect + 1 /\ hpc' = "esec"
    /\ UNCHANGED <<image, tries, retry, h2d, d2h, rx, rom, hit, hist>>

\* The acknowledgement of WPAG and the two loops, lines 164-202.
NextPage ==
    /\ hpc = "wpag_done" /\ inq # <<>>
    /\ inq' = Tail(inq)
    /\ curraddr' = curraddr + PAGE
    /\ \/ /\ page + 1 < PagesIn(sect)
          /\ page' = page + 1 /\ hpc' = "wbuf" /\ UNCHANGED sect
       \/ /\ page + 1 = PagesIn(sect) /\ sect + 1 < sectreq
          /\ page' = 0 /\ sect' = sect + 1 /\ hpc' = "esec"
       \/ /\ page + 1 = PagesIn(sect) /\ sect + 1 = sectreq
          /\ hpc' = "rst" /\ UNCHANGED <<page, sect>>
    /\ UNCHANGED <<image, tries, retry, h2d, d2h, rx, rom, hit, hist>>

\* ser.read() of the reply gives up after 10 ms; nothing depends on it.
Rst == Send("rst", <<240>>, "done") /\ UNCHANGED hit

Host == Probe \/ ReadProbe \/ Drain \/ Esec \/ Wbuf \/ CheckSum \/ Wpag \/ NextPage \/ Rst
-----------------------------------------------------------------------------
(* The line, and the receive buffer of simpleuart.v. *)

Listening == rpc \in {"wait", "cmd", "len", "data", "addr"}

\* A byte that arrives over an unread one replaces it (simpleuart.v:91).
Receive(b) ==
    /\ Listening => rx = <<>>
    /\ IF rpc \in {"off", "app"} THEN UNCHANGED <<rx, overrun>>
       ELSE rx' = <<b>> /\ overrun' = (overrun \/ rx # <<>>)

ToBoard ==
    /\ h2d # <<>>
    /\ h2d' = Tail(h2d)
    /\ Receive(Head(h2d))
    /\ UNCHANGED <<host, hpc, inq, d2h, rom, hit, buflen0, genuine>>

\* Noise changes a data byte, one in a page transfer.
ToBoardNoisy ==
    /\ h2d # <<>> /\ rpc = "data" /\ ~hit
    /\ h2d' = Tail(h2d) /\ hit' = TRUE
    /\ \E b \in Noise \ {Head(h2d)} : Receive(b)
    /\ UNCHANGED <<host, hpc, inq, d2h, rom, buflen0, genuine>>

ToHost ==
    /\ d2h # <<>>
    /\ d2h' = Tail(d2h) /\ inq' = Append(inq, Head(d2h))
    /\ UNCHANGED <<host, hpc, h2d, rx, rom, hit, hist>>
-----------------------------------------------------------------------------
(* isp_flasher.c *)

\* Power-up or the reset button, while the host probes.
Boot ==
    /\ rpc = "off"
    /\ rpc' = "wait"
    /\ UNCHANGED <<host, hpc, inq, h2d, d2h, rx, instr, args, buflen, buf, op, flash,
                   hit, hist>>

\* Lines 143-148: anything but 0x55 is dropped.
RomWait ==
    /\ rpc = "wait" /\ rx # <<>>
    /\ rx' = <<>>
    /\ IF rx = <<85>> THEN rpc' = "cmd" /\ d2h' = Append(d2h, 86) ELSE UNCHANGED <<rpc, d2h>>
    /\ UNCHANGED <<host, hpc, inq, h2d, instr, args, buflen, buf, op, flash, hit, hist>>

\* Lines 150-155.
RomTimeout ==
    /\ rpc = "wait"
    /\ rpc' = "app" /\ d2h' = d2h \o Banner /\ rx' = <<>>
    /\ UNCHANGED <<host, hpc, inq, h2d, instr, args, buflen, buf, op, flash, hit, hist>>

\* Lines 158-234: the byte is taken and, if it is a command, answered; 0xF0
\* enters the ROM again, whose buflen then is whatever the stack holds.
RomCmd ==
    /\ rpc = "cmd" /\ rx # <<>>
    /\ rx' = <<>> /\ instr' = rx[1] /\ args' = <<>>
    /\ \/ /\ rx[1] = 85
          /\ d2h' = Append(d2h, 86) /\ UNCHANGED <<rpc, buflen>>
       \/ /\ rx[1] = 16
          /\ d2h' = Append(d2h, 17) /\ rpc' = "len" /\ UNCHANGED buflen
       \/ /\ rx[1] \in {48, 64}
          /\ d2h' = Append(d2h, rx[1] + 1) /\ rpc' = "addr" /\ UNCHANGED buflen
       \/ /\ rx[1] = 240
          /\ d2h' = Append(d2h, 241) /\ rpc' = "wait" /\ buflen' \in {0, buflen}
       \/ /\ rx[1] \notin {85, 16, 48, 64, 240}
          /\ UNCHANGED <<d2h, rpc, buflen>>
    /\ UNCHANGED <<host, hpc, inq, h2d, buf, op, flash, hit, hist>>

RomLen ==
    /\ rpc = "len" /\ rx # <<>>
    /\ rx' = <<>> /\ buflen' = rx[1] + 1 /\ rpc' = "data"
    /\ UNCHANGED <<host, hpc, inq, h2d, d2h, instr, args, buf, op, flash, hit, hist>>

\* Lines 174-180.
RomData ==
    /\ rpc = "data" /\ rx # <<>>
    /\ rx' = <<>>
    /\ LET got == Append(args, rx[1])
       IN  /\ buf' = [k \in 1..PAGE |-> IF k <= Len(got) THEN got[k] ELSE buf[k]]
           /\ IF Len(got) = buflen
              THEN rpc' = "cmd" /\ d2h' = Append(d2h, Chksum(got)) /\ args' = <<>>
              ELSE args' = got /\ UNCHANGED <<rpc, d2h>>
    /\ UNCHANGED <<host, hpc, inq, h2d, instr, buflen, op, flash, hit, hist>>

\* Slip: the instruction is not counted in the length of the transfer.
StartOp_Short(a) ==
    IF instr = 48
    THEN op' = [kind |-> "erase", at |-> a, data |-> <<>>] /\ UNCHANGED buf
    ELSE /\ op' = [kind |-> "program", at |-> a, data |-> SubSeq(buf, 1, buflen - 1)]
         /\ UNCHANGED buf

\* spi_flashio: write enable and the operation, whose length takes in the page
\* buffer; each byte sent is replaced by the one the idle MISO line shows.
StartOp(a) ==
    IF instr = 48
    THEN op' = [kind |-> "erase", at |-> a, data |-> <<>>] /\ UNCHANGED buf
    ELSE /\ op' = [kind |-> "program", at |-> a, data |-> SubSeq(buf, 1, buflen)]
         /\ \E miso \in {0, 255} :
              buf' = [k \in 1..PAGE |-> IF k <= buflen THEN miso ELSE buf[k]]

\* Lines 190-199 and 210-218: after the third byte either the flash gets the
\* operation or, with no buffer length, the ROM answers at once.
RomAddr ==
    /\ rpc = "addr" /\ rx # <<>>
    /\ rx' = <<>>
    /\ LET got == Append(args, rx[1])
       IN  IF Len(got) < 3 THEN args' = got /\ UNCHANGED <<rpc, d2h, op, buf>>
           ELSE /\ args' = <<>>
                /\ IF buflen = 0
                   THEN rpc' = "cmd" /\ d2h' = Append(d2h, instr + 2) /\ UNCHANGED <<op, buf>>
                   ELSE rpc' = "flash" /\ StartOp(Address(got)) /\ UNCHANGED d2h
    /\ UNCHANGED <<host, hpc, inq, h2d, instr, buflen, flash, hit, hist>>

\* Slip: the operation is not acknowledged.
RomPoll_Silent ==
    /\ rpc = "flash" /\ op = NoOp
    /\ rpc' = "cmd"
    /\ UNCHANGED <<host, hpc, inq, h2d, d2h, rx, instr, args, buflen, buf, op, flash,
                   hit, hist>>

\* The status poll ends and the ROM acknowledges.
RomPoll ==
    /\ rpc = "flash" /\ op = NoOp
    /\ rpc' = "cmd" /\ d2h' = Append(d2h, instr + 2)
    /\ UNCHANGED <<host, hpc, inq, h2d, rx, instr, args, buflen, buf, op, flash, hit, hist>>

\* The flash, external: an erase sets a sector, programming clears bits and
\* wraps within a page.
SectorOf(a) == a \div SECTOR
Programmed(a) ==
    LET first == (op.at \div PAGE) * PAGE
        k == ((a - op.at) % PAGE) + 1
    IN  IF a \in first..(first + PAGE - 1) /\ k <= Len(op.data)
        THEN Cleared(flash[a], op.data[k]) ELSE flash[a]

FlashDone ==
    /\ op # NoOp
    /\ flash' = [a \in Flash |->
                   IF op.kind = "program" THEN Programmed(a)
                   ELSE IF SectorOf(a) = SectorOf(op.at) THEN 255 ELSE flash[a]]
    /\ op' = NoOp
    /\ UNCHANGED <<host, hpc, inq, h2d, d2h, rx, rpc, instr, args, buflen, buf, hit, hist>>

Rom == RomWait \/ RomTimeout \/ RomCmd \/ RomLen \/ RomData \/ RomAddr \/ RomPoll

Ended == hpc \in {"done", "failed", "undetected"}

Next == Host \/ ToBoard \/ ToBoardNoisy \/ ToHost \/ Boot \/ Rom \/ FlashDone

Spec == Init /\ [][Next]_vars

\* The tool and the ROM run on, the line delivers, the flash finishes.  Nobody
\* needs to press the button, and the ROM's timeout need not strike.
FairSpec ==
    /\ Spec
    /\ WF_vars(Host) /\ WF_vars(ToBoard) /\ WF_vars(ToHost) /\ WF_vars(FlashDone)
    /\ WF_vars(RomWait \/ RomCmd \/ RomLen \/ RomData \/ RomAddr \/ RomPoll)
-----------------------------------------------------------------------------
\* The probe found the ROM in its command loop, and the garbage in buflen did
\* not suppress the first erase (findings IspErase and IspBanner).
Sound == genuine /\ buflen0 # 0

\* pico-programmer.py:211 "Flashing completed": the flash holds the program,
\* and the rest of its last sector is erased.
Completed ==
    hpc = "done" /\ Sound =>
        \A a \in 0..(sectreq * SECTOR - 1) :
            flash[a] = IF a < Len(image) THEN image[a + 1] ELSE 255

\* No sector beyond the program's is touched, however the session goes.
RestUntouched == \A a \in Flash : a >= sectreq * SECTOR => flash[a] = OldByte

\* isp_flasher.c:214: what is programmed is the page the host has verified by
\* its checksum, noise or not, at the address the host means.
VerifiedProgram ==
    [][op'.kind = "program" /\ op = NoOp
          => op'.data = PageData /\ op'.at = curraddr]_vars

\* Programming only clears bits, so it must find the page erased.
ProgramErased ==
    [][op'.kind = "program" /\ op = NoOp /\ Sound
          => \A a \in Flash : a \div PAGE = op'.at \div PAGE => flash[a] = 255]_vars

\* The ROM's UART holds one byte and has no flow control: while the ROM waits
\* for the flash the host must have nothing more to say.
NoOverrun == ~overrun

\* isp_flasher.c:186 "Reply: 0x31 [erase] 0x32": the acknowledgement says that
\* the sector is erased.
EraseAcknowledged ==
    [][hpc = "esec_done" /\ hpc' = "wbuf" /\ genuine
          => \A a \in Flash : SectorOf(a) = sect => flash[a] = 255]_vars

\* pico-programmer.py:138 "Picorv32-isp not detected or not in isp mode": who
\* gets past the probe talks to the ROM in ISP mode.
DetectedInIspMode == hpc = "drain" => genuine

\* The probing ends, and so does a session with the ROM, in success or after too
\* many retries.
SessionEnds == /\ hpc = "probe" ~> (hpc \in {"drain", "undetected"})
               /\ (hpc = "esec" /\ genuine) ~> (hpc \in {"done", "failed"})
=============================================================================
