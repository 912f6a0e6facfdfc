----------------------------- MODULE WordMemory -----------------------------
(***************************************************************************)
(* What a memory slave promises to the PicoRV32 master on the PicoMem bus. *)
(*                                                                         *)
(* The master raises `valid` with an address, a byte strobe and data and   *)
(* holds them; the slave answers each request with `ready` for one clock;  *)
(* the master drops `valid` on that clock.  A request with an empty strobe *)
(* reads the word as the writes answered before it left it; a request with *)
(* strobes replaces exactly the bytes the strobes name.  The answer to a   *)
(* write may come before its bytes are in the cells; they are there before *)
(* the next write is answered, and nothing but them changes there.         *)
(*                                                                         *)
(* A reset drops the request.  Each byte of the write under way, answered  *)
(* or not, is then stored or lost; every other byte stays as it was.       *)
(***************************************************************************)

CONSTANTS
    Addr,     \* word addresses
    Value,    \* byte values
    Lanes     \* byte lanes of a word

VARIABLES
    resetn,                      \* the system reset, active low
    valid, addr, wdata, wstrb,   \* driven by the master
    ready, rdata,                \* driven by the slave
    mem,                         \* the words as the answered writes left them
    array                        \* the words the cells hold

master == <<valid, addr, wdata, wstrb>>
vars   == <<resetn, valid, addr, wdata, wstrb, ready, rdata, mem, array>>

Word == [Lanes -> Value]

Init ==
    /\ resetn = FALSE
    /\ valid = FALSE /\ ready = FALSE
    /\ addr \in Addr /\ wdata \in Word /\ wstrb \in SUBSET Lanes
    /\ rdata \in Word
    /\ mem \in [Addr -> Word] /\ array = mem
-----------------------------------------------------------------------------
\* The word `old` after the bytes in the lanes `strb` are overwritten by `new`.
Merge(old, new, strb) == [l \in Lanes |-> IF l \in strb THEN new[l] ELSE old[l]]

\* The memory after the write that is being asked for.
Written == [mem EXCEPT ![addr] = Merge(@, wdata, wstrb)]

\* A write that can be taken: the one before it is in the cells.
CanWrite == valid /\ ~ready /\ wstrb # {} /\ array = mem

\* Some of the bytes in which the cells are behind `goal` reach them.
Landing(goal) ==
    /\ array' \in [Addr -> Word]
    /\ \A a \in Addr : \A l \in Lanes : array'[a][l] \in {array[a][l], goal[a][l]}

Request ==
    /\ ~valid
    /\ valid'
    /\ addr' \in Addr /\ wdata' \in Word /\ wstrb' \in SUBSET Lanes
    /\ UNCHANGED <<ready, mem>> /\ Landing(mem)
    /\ rdata' \in Word

RespondRead ==
    /\ valid /\ ~ready /\ wstrb = {}
    /\ ready' /\ rdata' = mem[addr]
    /\ UNCHANGED <<master, mem>> /\ Landing(mem)

RespondWrite ==
    /\ CanWrite
    /\ ready' /\ rdata' \in Word
    /\ mem' = Written /\ Landing(Written)
    /\ UNCHANGED master

Accept ==
    /\ valid /\ ready
    /\ ~valid' /\ ~ready'
    /\ UNCHANGED <<addr, wdata, wstrb, mem>> /\ Landing(mem)
    /\ rdata' \in Word

\* rdata may take any value while no read is being answered.
Wait ==
    /\ ~ready /\ rdata' \in Word
    /\ UNCHANGED <<master, ready, mem>> /\ Landing(mem)

\* The master is busy with another slave; its lines show that.
Elsewhere ==
    /\ ~valid /\ ~valid' /\ ~ready
    /\ addr' \in Addr /\ wdata' \in Word /\ wstrb' \in SUBSET Lanes
    /\ UNCHANGED <<ready, mem>> /\ Landing(mem)
    /\ rdata' \in Word

\* A clock under reset.  The write under way is the one answered last, if its
\* bytes are not all in the cells, or else the one being asked for.
Reset ==
    /\ ~valid' /\ ~ready'
    /\ UNCHANGED <<addr, wdata, wstrb>>
    /\ rdata' \in Word
    /\ Landing(mem) \/ (CanWrite /\ Landing(Written))
    /\ mem' = array'

Operation ==
    Request \/ RespondRead \/ RespondWrite \/ Accept \/ Wait \/ Elsewhere

Next ==
    /\ resetn' \in BOOLEAN
    /\ IF resetn THEN Operation ELSE Reset

Spec == Init /\ [][Next]_vars
=============================================================================
