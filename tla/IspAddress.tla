------------------------------ MODULE IspAddress ------------------------------
(***************************************************************************)
(* The addresses of an ISP session: the loops of sw/pico-programmer.py     *)
(* over sectors and pages, the three bytes they are sent in, and what the  *)
(* flash makes of the bytes isp_flasher.c hands it, with the real sizes    *)
(* and divisors.  Module Isp is the conversation around these commands.    *)
(***************************************************************************)
EXTENDS Integers

CONSTANT Lengths    \* sizes of the programs, in bytes

PAGE      == 256
SECTOR    == 4096

\* 0xFFFF00: in the last page of 16 MB, which this board's flash does not have,
\* the divisors below would be felt.
LIMIT == 16776960

ASSUME LengthsAssumption == Lengths \subseteq 1..LIMIT

VARIABLES
    rembyte, i, j, curraddr,   \* the host
    phase,                     \* "esec", "wpag" or "done": its next command
    erased,                    \* sector the flash erased last
    top                        \* history: one past the last page programmed

addressVars == <<rembyte, i, j, curraddr, phase, erased, top>>

sectreq == ((rembyte - 1) \div 4096) + 1
pagereq == ((rembyte - 1) \div 256) + 1

\* The divisor of the first byte is 65535, in both.
EsecBytes(a) == <<(a \div 65535) % 256, (((a \div 256) % 256) \div 16) * 16, 0>>

\* Slip: the middle byte is taken with the first byte's divisor.
WpagBytes_Swapped(a) == <<(a \div 65535) % 256, (a \div 255) % 256, a % 256>>

WpagBytes(a) == <<(a \div 65535) % 256, (a \div 256) % 256, a % 256>>

\* isp_flasher.c:190-192, 210-212: most significant byte first.
Decoded(b) == b[1] * 65536 + b[2] * 256 + b[3]

AddressInit ==
    /\ rembyte \in Lengths
    /\ i = 0 /\ j = 0 /\ curraddr = 0
    /\ phase = "esec" /\ erased = -1 /\ top = 0

\* The flash erases the sector that holds the address.
EraseSector ==
    /\ phase = "esec"
    /\ erased' = Decoded(EsecBytes(curraddr)) \div SECTOR
    /\ j' = 0 /\ phase' = "wpag"
    /\ UNCHANGED <<rembyte, i, curraddr, top>>

\* Slip: a full sector's pages are counted from 1 on.
LastPage_Off == j + 1 >= 16 - 1 \/ j + 1 >= pagereq - i * 16

LastPage == j + 1 >= 16 \/ j + 1 >= pagereq - i * 16

ProgramPage ==
    /\ phase = "wpag"
    /\ top' = Decoded(WpagBytes(curraddr)) + PAGE
    /\ curraddr' = curraddr + PAGE
    /\ \/ ~LastPage /\ j' = j + 1 /\ UNCHANGED <<i, phase>>
       \/ LastPage /\ i + 1 < sectreq /\ i' = i + 1 /\ phase' = "esec" /\ UNCHANGED j
       \/ LastPage /\ i + 1 = sectreq /\ phase' = "done" /\ UNCHANGED <<i, j>>
    /\ UNCHANGED <<rembyte, erased>>

AddressNext == EraseSector \/ ProgramPage

AddressSpec == AddressInit /\ [][AddressNext]_addressVars
-----------------------------------------------------------------------------
\* Every variable keeps its type.
TypeOK ==
    /\ rembyte \in Lengths /\ i \in Nat /\ j \in 0..15
    /\ curraddr \in Nat /\ phase \in {"esec", "wpag", "done"}
    /\ erased \in Int /\ top \in Nat

\* pico-programmer.py:25,56: although the bytes are taken with a divisor of
\* 65535, the flash programs the page the host means, right behind the one
\* before it and inside the sector erased last; and a sector is erased when the
\* data programmed so far ends where it begins.  So no page is programmed twice,
\* skipped, or erased again.
PagesInOrder ==
    [][/\ phase = "wpag" => top' = top + PAGE /\ top \div SECTOR = erased
       /\ phase = "esec" => erased' * SECTOR = top]_addressVars

\* pico-programmer.py:155: when the loops end, every page of the program is in
\* the flash, and none besides.
AllPages == phase = "done" => top = pagereq * PAGE
===============================================================================
