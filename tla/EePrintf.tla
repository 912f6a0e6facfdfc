------------------------------- MODULE EePrintf -------------------------------
(***************************************************************************)
(* ee_printf of the CoreMark ports, ee_printf.c.  A directive of the       *)
(* format is a record of what follows its `%`; a text is a sequence of     *)
(* one-character strings, with CR, NL and BS by name; a word of 32 bits is *)
(* its signed value.                                                       *)
(***************************************************************************)
EXTENDS Integers, Sequences, SequencesExt

CONSTANTS
  Directives,   \* [flags, width, star, precision, conv, long]: width and precision
                \* are -1 when absent; star: the width is an argument
  Words,        \* integer arguments
  Strings,      \* of %s
  Addresses     \* of %a: sequences of six bytes

VARIABLE pf     \* the call: directive, argument, text, what went to the UART, result

MinWord == -2147483647 - 1
MaxWord == 2147483647
Dig == << "0", "1", "2", "3", "4", "5", "6", "7", "8", "9", "a", "b", "c", "d", "e", "f" >>
UpperDig == << "0", "1", "2", "3", "4", "5", "6", "7", "8", "9", "A", "B", "C", "D", "E", "F" >>

Copies(c, n) == [i \in 1 .. (IF n > 0 THEN n ELSE 0) |-> c]
Longer(m, n) == IF m > n THEN m ELSE n

(***************************************************************************)
(* number                                                                  *)
(***************************************************************************)

(* Division of a word as an unsigned long.                                 *)
URem(w, b) ==
  IF w >= 0 THEN w % b ELSE (((w - MinWord) % b) + (MaxWord % b) + 1) % b
UDiv(w, b) ==
  IF w >= 0 THEN w \div b
  ELSE ((w - MinWord) \div b) + (MaxWord \div b)
         + ((((w - MinWord) % b) + (MaxWord % b) + 1) \div b)

RECURSIVE DigitsOf(_, _, _)
DigitsOf(w, base, dig) ==
  (IF UDiv(w, base) = 0 THEN << >> ELSE DigitsOf(UDiv(w, base), base, dig))
    \o <<dig[URem(w, base) + 1]>>

(* -num of the most negative word is that word again.                      *)
Negated(w) == IF w = MinWord THEN w ELSE -w

Sign(num, type) ==
  IF "SIGN" \notin type THEN << >>
  ELSE IF num < 0 THEN <<"-">>
  ELSE IF "PLUS" \in type THEN <<"+">>
  ELSE IF "SPACE" \in type THEN <<" ">> ELSE << >>

Prefix(base, type) ==
  CASE "HEX_PREP" \in type /\ base = 16 -> <<"0", "x">>
    [] "HEX_PREP" \in type /\ base = 8 -> <<"0">>
    [] OTHER -> << >>

Magnitude_Signed(num, base, type) ==    \* slip: the sign is not taken off
  DigitsOf(num, base, IF "UPPERCASE" \in type THEN UpperDig ELSE Dig)
Magnitude(num, base, type) ==
  DigitsOf(IF "SIGN" \in type /\ num < 0 THEN Negated(num) ELSE num, base,
           IF "UPPERCASE" \in type THEN UpperDig ELSE Dig)

number(num, base, size, precision, type) ==
  LET tmp == Magnitude(num, base, type)
      sign == Sign(num, type)
      prefix == Prefix(base, type)
      body == Copies("0", precision - Len(tmp)) \o tmp
      room == size - Len(sign) - Len(prefix) - Len(body)
  IN  CASE "LEFT" \in type -> sign \o prefix \o body \o Copies(" ", room)
        [] "LEFT" \notin type /\ "ZEROPAD" \in type -> sign \o prefix \o Copies("0", room) \o body
        [] OTHER -> Copies(" ", room) \o sign \o prefix \o body

(***************************************************************************)
(* Addresses, strings, characters.                                         *)
(***************************************************************************)
Padded(text, size, type) ==
  IF "LEFT" \in type THEN text \o Copies(" ", size - Len(text))
                     ELSE Copies(" ", size - Len(text)) \o text

eaddr(addr, size, type) ==
  LET dig == IF "UPPERCASE" \in type THEN UpperDig ELSE Dig
      Byte(i) == (IF i = 1 THEN << >> ELSE <<":">>)
                   \o <<dig[(addr[i] \div 16) + 1], dig[(addr[i] % 16) + 1]>>
  IN  Padded(FlattenSeq([i \in 1 .. 6 |-> Byte(i)]), size, type)

iaddr(addr, size, type) ==
  LET Hundreds(n) == IF n >= 100 THEN <<Dig[(n \div 100) + 1]>> ELSE << >>
      Tens(n) == IF n >= 10 THEN <<Dig[((n \div 10) % 10) + 1]>> ELSE << >>
      Byte(i) == (IF i = 1 THEN << >> ELSE <<".">>)
                   \o Hundreds(addr[i]) \o Tens(addr[i]) \o <<Dig[(addr[i] % 10) + 1]>>
  IN  Padded(FlattenSeq([i \in 1 .. 4 |-> Byte(i)]), size, type)

(* A missing precision is -1, as a count more than any string has.         *)
strnlen(s, count) == IF count < 0 \/ Len(s) < count THEN Len(s) ELSE count

(***************************************************************************)
(* One directive of ee_vsprintf.                                           *)
(***************************************************************************)

(* A negative width from the arguments asks for the left.                  *)
Width(d) == IF d.star /\ d.width < 0 THEN -d.width ELSE d.width

Flags(d) ==
  d.flags \cup (IF d.star /\ d.width < 0 THEN {"LEFT"} ELSE {})
          \cup (IF d.conv \in {"X", "A"} THEN {"UPPERCASE"} ELSE {})
          \cup (IF d.conv \in {"d", "i"} THEN {"SIGN"} ELSE {})

Base(conv) == CASE conv = "o" -> 8 [] conv \in {"x", "X"} -> 16 [] OTHER -> 10
NumberConv == {"d", "i", "u", "o", "x", "X"}

Pointer(d, w) ==
  IF Width(d) = -1
  THEN number(w, 16, 8, d.precision, Flags(d) \cup {"ZEROPAD"})
  ELSE number(w, 16, Width(d), d.precision, Flags(d))

(* An unknown directive comes out as it went in, at the end of the format  *)
(* as its `%`.                                                             *)
Verbatim(conv) ==
  CASE conv = "%" -> <<"%">> [] conv = "end" -> <<"%">> [] OTHER -> <<"%", conv>>

ee_vsprintf(d, arg) ==
  CASE d.conv = "c" -> Padded(<<arg>>, Width(d), Flags(d))
    [] d.conv = "s" -> Padded(SubSeq(arg, 1, strnlen(arg, d.precision)), Width(d), Flags(d))
    [] d.conv = "p" -> Pointer(d, arg)
    [] d.conv \in {"a", "A"} /\ d.long -> eaddr(arg, Width(d), Flags(d))
    [] d.conv \in {"a", "A"} /\ ~d.long -> iaddr(arg, Width(d), Flags(d))
    [] d.conv \in NumberConv -> number(arg, Base(d.conv), Width(d), d.precision, Flags(d))
    [] OTHER -> Verbatim(d.conv)

(***************************************************************************)
(* Sending.                                                                *)
(***************************************************************************)
uart_send_char(c) ==
  CASE c = "NL" -> <<"CR", "NL">> [] c = "BS" -> <<"BS", " ", "BS">> [] OTHER -> <<c>>

Args(d) ==
  CASE d.conv \in NumberConv \cup {"p"} -> Words
    [] d.conv = "c" -> {"q", "NL", "BS"}
    [] d.conv = "s" -> Strings
    [] d.conv \in {"a", "A"} -> Addresses
    [] OTHER -> {""}

NoCall == [conv |-> ""]
EePrintfIdle == pf = NoCall

(* ee_printf of one directive and a new line; the text is written to a      *)
(* buffer of its own and sent from there.                                  *)
ee_printf ==
  \E d \in Directives : \E arg \in Args(d) :
    LET text == ee_vsprintf(d, arg) \o <<"NL">>
    IN  pf' = [conv |-> d.conv, d |-> d, arg |-> arg, text |-> text, n |-> Len(text),
               sent |-> FlattenSeq([i \in DOMAIN text |-> uart_send_char(text[i])])]

EePrintfNext == EePrintfIdle /\ ee_printf

(***************************************************************************)
(* Properties.                                                             *)
(***************************************************************************)
Halves(w) == <<(w \div 65536) % 65536, w % 65536>>

(* A numeral read back, modulo 2^32 and in halves.                         *)
RECURSIVE ReadWord(_, _)
ReadWord(s, base) ==
  IF s = << >> THEN <<0, 0>>
  ELSE LET v == ReadWord(Front(s), base)
           digit == (CHOOSE k \in 1 .. 16 : Last(s) \in {Dig[k], UpperDig[k]}) - 1
           low == v[2] * base + digit
       IN  <<(v[1] * base + (low \div 65536)) % 65536, low % 65536>>

NotBlank(c) == c # " "
NotZero(c) == c # "0"
Text == Front(pf.text)

(* What %d, %u, %o, %x and %X print is, between its blanks, the sign the   *)
(* flags ask for, the prefix and a numeral that reads back as the word,    *)
(* the most negative one and the largest unsigned ones too; it fills the   *)
(* width and is longer only where sign, prefix, digits or precision are.    *)
PrintedReadsBack ==
  pf.conv \in NumberConv =>
    LET d == pf.d
        base == Base(d.conv)
        dense == SelectSeq(Text, NotBlank)
        minus == d.conv \in {"d", "i"} /\ pf.arg < 0
        plus == d.conv \in {"d", "i"} /\ ~minus /\ "PLUS" \in d.flags
        space == d.conv \in {"d", "i"} /\ ~minus /\ ~plus /\ "SPACE" \in d.flags
        signed == IF minus \/ plus THEN 1 ELSE 0
        marked == Len(Prefix(base, d.flags))
        numeral == SubSeq(dense, signed + marked + 1, Len(dense))
        first == CHOOSE k \in 1 .. Len(numeral) + 1 :
                   /\ \A j \in 1 .. k - 1 : numeral[j] = "0"
                   /\ k <= Len(numeral) => numeral[k] # "0"
        needed == Longer(Longer(Len(numeral) - first + 1, 1), d.precision)
    IN  /\ minus <=> Head(dense) = "-"
        /\ plus <=> Head(dense) = "+"
        /\ SubSeq(dense, signed + 1, signed + marked) = Prefix(base, d.flags)
        /\ ReadWord(numeral, base) = Halves(IF minus THEN Negated(pf.arg) ELSE pf.arg)
        /\ Len(Text) = Longer(Width(d), signed + (IF space THEN 1 ELSE 0) + marked + needed)
        /\ "LEFT" \in Flags(d) /\ ~space => Head(Text) # " "

===============================================================================
