------------------------------ MODULE CoreState ------------------------------
(***************************************************************************)
(* The state machine benchmark of CoreMark, core_state.c: a block of       *)
(* numbers between commas is scanned, damaged at every step-th byte,       *)
(* scanned again and repaired.  A block is a function from its offsets to  *)
(* bytes.                                                                  *)
(***************************************************************************)
EXTENDS CoreUtil, Integers, Sequences

Comma == 44
Plus == 43
Minus == 45
Dot == 46
Exponents == {69, 101}
Digits == 48 .. 57

(* The enumeration of coremark.h; the final counts enter the CRC in its    *)
(* order.                                                                   *)
CORE_STATE == <<"START", "INVALID", "S1", "S2", "INT", "FLOAT", "EXPONENT", "SCIENTIFIC">>
States == {CORE_STATE[i] : i \in 1 .. 8}
NoCounts == [s \in States |-> 0]

intpat == << <<53,48,49,50>>, <<49,50,51,52>>, <<45,56,55,52>>, <<43,49,50,50>> >>
floatpat == << <<51,53,46,53,52,52,48,48>>, <<46,49,50,51,52,53,48,48>>,
               <<45,49,49,48,46,55,48,48>>, <<43,48,46,54,52,52,48,48>> >>
scipat == << <<53,46,53,48,48,101,43,51>>, <<45,46,49,50,51,101,45,50>>,
             <<45,56,55,101,43,56,51,50>>, <<43,48,46,54,101,45,49,50>> >>
errpat == << <<84,48,46,51,101,45,49,70>>, <<45,84,46,84,43,43,84,113>>,
             <<49,84,51,46,52,101,52,122>>, <<51,52,46,48,101,45,84,94>> >>

Pattern(seed) ==
  LET kind == CASE seed % 8 \in 0 .. 2 -> intpat
                [] seed % 8 \in 3 .. 4 -> floatpat
                [] seed % 8 \in 5 .. 6 -> scipat
                [] OTHER -> errpat
  IN  kind[((seed \div 8) % 4) + 1]

(* The patterns that fit, each with its comma; the one that does not fit    *)
(* any more is dropped.                                                     *)
NextPattern(s) ==
  [written |-> IF s.buf = << >> THEN s.written ELSE Append(s.written \o s.buf, Comma),
   buf     |-> Pattern(U16(s.seed + 1)),
   seed    |-> U16(s.seed + 1)]

Patterns(room, seed) ==
  LET write[s \in [written : Seq(Nat), buf : Seq(Nat), seed : Word16]] ==
        IF Len(s.written) + Len(s.buf) + 1 >= room THEN s.written ELSE write[NextPattern(s)]
  IN  write[[written |-> << >>, buf |-> << >>, seed |-> seed]]

PatternRoom_Whole(size) == size    \* slip: no byte is kept for the final zero
PatternRoom(size) == size - 1

core_init_state(size, seed) ==
  LET w == Patterns(PatternRoom(size), seed)
  IN  [i \in 0 .. size - 1 |-> IF i < Len(w) THEN w[i + 1] ELSE 0]

ee_isdigit(c) == c \in Digits

(* One character: the new state, and the states whose transition_count     *)
(* goes up.                                                                *)
Transition(state, c) ==
  CASE state = "START" ->
         IF ee_isdigit(c) THEN <<"INT", "START">>
         ELSE IF c \in {Plus, Minus} THEN <<"S1", "START">>
         ELSE IF c = Dot THEN <<"FLOAT", "START">>
         ELSE <<"INVALID", "START", "INVALID">>
    [] state = "S1" ->
         <<IF ee_isdigit(c) THEN "INT" ELSE IF c = Dot THEN "FLOAT" ELSE "INVALID", "S1">>
    [] state = "INT" ->
         IF c = Dot THEN <<"FLOAT", "INT">>
         ELSE IF ee_isdigit(c) THEN <<"INT">> ELSE <<"INVALID", "INT">>
    [] state = "FLOAT" ->
         IF c \in Exponents THEN <<"S2", "FLOAT">>
         ELSE IF ee_isdigit(c) THEN <<"FLOAT">> ELSE <<"INVALID", "FLOAT">>
    [] state = "S2" -> <<IF c \in {Plus, Minus} THEN "EXPONENT" ELSE "INVALID", "S2">>
    [] state = "EXPONENT" -> <<IF ee_isdigit(c) THEN "SCIENTIFIC" ELSE "INVALID", "EXPONENT">>
    [] state = "SCIENTIFIC" ->
         IF ee_isdigit(c) THEN <<"SCIENTIFIC">> ELSE <<"INVALID", "INVALID">>

Counted(track, t) ==
  CASE Len(t) = 1 -> track
    [] Len(t) = 2 -> [track EXCEPT ![t[2]] = @ + 1]
    [] Len(t) = 3 -> [track EXCEPT ![t[2]] = @ + 1, ![t[3]] = @ + 1]

(* What a scan past the end of the block would find there is not the       *)
(* benchmark's; `far` keeps the farthest offset read.                      *)
ByteAt(block, i) == IF i \in DOMAIN block THEN block[i] ELSE 0

Scans == [at : Nat, state : States, final : [States -> Nat], track : [States -> Nat]]

Character(block, s) ==
  LET t == Transition(s.state, ByteAt(block, s.at))
  IN  [s EXCEPT !.at = @ + 1, !.state = t[1], !.track = Counted(@, t)]

core_state_transition(block, start) ==
  LET read[s \in Scans] ==
        IF ByteAt(block, s.at) = 0 \/ s.state = "INVALID" THEN s
        ELSE IF ByteAt(block, s.at) = Comma THEN [s EXCEPT !.at = @ + 1]
        ELSE read[Character(block, s)]
  IN  read[start]

(* The loop over the tokens of the block, for both scans: one turn of it.   *)
Token(block, s) ==
  LET Ended(t) == [t EXCEPT !.final[t.state] = @ + 1]
  IN  Ended(core_state_transition(block, [s EXCEPT !.state = "START"]))

Scan(block, start) ==
  LET scan[s \in Scans] == IF ByteAt(block, s.at) = 0 THEN s ELSE scan[Token(block, s)]
  IN  scan[start]

Corrupted(block, step, seed) ==
  [i \in DOMAIN block |->
     IF i % step = 0 /\ block[i] # Comma THEN Xor(block[i], LowByte(seed)) ELSE block[i]]

CountsCrc(s, crc0) ==
  LET crc[i \in 0 .. 8] ==
        IF i = 0 THEN crc0
        ELSE crcu32(s.track[CORE_STATE[i]], crcu32(s.final[CORE_STATE[i]], crc[i - 1]))
  IN  crc[8]

core_bench_state(block, seed1, seed2, step, crc) ==
  LET damaged == Corrupted(block, step, seed1)
      Results(far, s2) == [block |-> Corrupted(damaged, step, seed2),
                           crc   |-> CountsCrc(s2, crc),
                           far   |-> IF far < s2.at THEN s2.at ELSE far]
      Rescan(s1) == Results(s1.at, Scan(damaged, [s1 EXCEPT !.at = 0]))
  IN  Rescan(Scan(block, [at |-> 0, state |-> "START", final |-> NoCounts, track |-> NoCounts]))

===============================================================================
