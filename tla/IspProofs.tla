------------------------------ MODULE IspProofs ------------------------------
(***************************************************************************)
(* Theorems about in-system programming, for every program, size of page   *)
(* and sector, noise, number of retries and banner: what is programmed is  *)
(* what the host has verified, no byte is lost, nothing beyond the program *)
(* is touched, and a session that completes leaves the program behind.     *)
(***************************************************************************)
EXTENDS Isp, SequenceTheorems, WellFoundedInduction, TLAPS

-----------------------------------------------------------------------------
(* Bytes on the line.                                                      *)

\* h is what is left of a message behind its first k bytes.
Rest(m, k, h) == k <= Len(m) /\ Len(h) = Len(m) - k /\ \A i \in 1..Len(h) : h[i] = m[k + i]

\* The ROM has taken k bytes of a message; the next may be in its buffer.
Sent(m, k, r, h) ==
    \/ r = <<>> /\ Rest(m, k, h)
    \/ k < Len(m) /\ r = <<m[k + 1]>> /\ Rest(m, k + 1, h)

(* A byte leaves the line.                                                 *)
LEMMA RestTail ==
  ASSUME NEW m \in Seq(Byte), NEW k \in Nat, NEW h \in Seq(Byte), h # <<>>
  PROVE  /\ Head(h) \in Byte /\ Tail(h) \in Seq(Byte) /\ Len(Tail(h)) = Len(h) - 1
         /\ Head(h) = h[1] /\ \A i \in 1..Len(Tail(h)) : Tail(h)[i] = h[i + 1]
         /\ Len(h) \in Nat /\ Len(h) >= 1
         /\ Rest(m, k, h) => k < Len(m) /\ Head(h) = m[k + 1] /\ Rest(m, k + 1, Tail(h))
<1>1. /\ Head(h) \in Byte /\ Tail(h) \in Seq(Byte) /\ Len(Tail(h)) = Len(h) - 1
      /\ Head(h) = h[1] /\ \A i \in 1..Len(Tail(h)) : Tail(h)[i] = h[i + 1]
  BY HeadTailProperties
<1>2. Len(h) \in Nat /\ Len(h) >= 1 /\ Len(m) \in Nat
  BY EmptySeq
<1> DEFINE t == Tail(h)
<1> HIDE DEF t
<1>3. ASSUME Rest(m, k, h) PROVE k < Len(m) /\ h[1] = m[k + 1] /\ Rest(m, k + 1, t)
  <2>1. Len(h) = Len(m) - k /\ \A i \in 1..Len(h) : h[i] = m[k + i]
    BY <1>3 DEF Rest
  <2>2. k < Len(m) /\ h[1] = m[k + 1]
    BY <1>2, <2>1
  <2>3. Len(t) = Len(m) - (k + 1)
    BY <1>1, <1>2, <2>1 DEF t
  <2>4. \A i \in 1..Len(t) : t[i] = m[(k + 1) + i]
    <3> TAKE i \in 1..Len(t)
    <3>1. t[i] = h[i + 1] /\ i \in Nat /\ i + 1 \in 1..Len(h)
      BY <1>1, <1>2, <2>3, <2>1 DEF t
    <3>2. h[i + 1] = m[k + (i + 1)]
      BY <2>1, <3>1
    <3>3. k + (i + 1) = (k + 1) + i
      BY <3>1
    <3> QED
      BY <3>1, <3>2, <3>3
  <2> QED
    BY <1>2, <2>2, <2>3, <2>4 DEF Rest
<1> QED
  BY <1>1, <1>2, <1>3 DEF t

(* The line delivers, and the ROM takes what was delivered.                *)
LEMMA SentMoves ==
  ASSUME NEW m \in Seq(Byte), NEW k \in Nat, NEW r, NEW h \in Seq(Byte), Sent(m, k, r, h)
  PROVE  /\ r = <<>> /\ h # <<>> => Sent(m, k, <<Head(h)>>, Tail(h))
         /\ r # <<>> => k < Len(m) /\ r = <<m[k + 1]>> /\ Sent(m, k + 1, <<>>, h)
         /\ k = Len(m) => r = <<>> /\ h = <<>>
<1>1. ASSUME r = <<>>, h # <<>> PROVE Sent(m, k, <<Head(h)>>, Tail(h))
  <2>1. Rest(m, k, h)
    BY <1>1 DEF Sent
  <2>2. k < Len(m) /\ Head(h) = m[k + 1] /\ Rest(m, k + 1, Tail(h))
    BY <1>1, <2>1, RestTail
  <2> QED
    BY <2>2 DEF Sent
<1>2. ASSUME r # <<>> PROVE k < Len(m) /\ r = <<m[k + 1]>> /\ Sent(m, k + 1, <<>>, h)
  BY <1>2 DEF Sent
<1>3. ASSUME k = Len(m) PROVE r = <<>> /\ h = <<>>
  <2>1. r = <<>> /\ Rest(m, k, h)
    BY <1>3 DEF Sent
  <2>2. Len(h) = 0
    BY <1>3, <2>1 DEF Rest
  <2> QED
    BY <2>1, <2>2, EmptySeq
<1> QED
  BY <1>1, <1>2, <1>3

(* A message goes out whole.                                               *)
LEMMA SentNow ==
  ASSUME NEW m \in Seq(Byte)
  PROVE  Sent(m, 0, <<>>, m)
BY DEF Sent, Rest

(* A message of one byte.                                                  *)
LEMMA SentOne ==
  ASSUME NEW c \in Byte, NEW r, NEW h \in Seq(Byte), Sent(<<c>>, 0, r, h)
  PROVE  /\ r # <<>> => r = <<c>> /\ h = <<>>
         /\ h # <<>> => r = <<>>
<1> DEFINE m == <<c>>
<1>1. m \in Seq(Byte) /\ Len(m) = 1 /\ m[1] = c
  OBVIOUS
<1>2. Sent(m, 0, r, h)
  OBVIOUS
<1> HIDE DEF m
<1>3. r = <<>> \/ (r = <<m[1]>> /\ Len(h) = 0)
  BY <1>1, <1>2 DEF Sent, Rest
<1> QED
  BY <1>1, <1>3, EmptySeq

-----------------------------------------------------------------------------
(* The checksum.                                                           *)

(* Of the numbers with a property one is the least: induction, stated of   *)
(* sets.                                                                   *)
LEMMA Minimal ==
  ASSUME NEW R, NEW S, IsWellFoundedOn(R, S)
  PROVE  \A T : T \subseteq S /\ T # {} => \E x \in T : \A y \in T : ~ (<<y, x>> \in R)
BY WFMin

(* Every set of numbers with a member has a least one.                     *)
LEMMA Smallest == \A T : T \subseteq Nat /\ T # {} => \E x \in T : \A y \in T : x <= y
<1> DEFINE R == OpToRel(<, Nat)
<1>1. \A x, y \in Nat : x < y => <<x, y>> \in R
  BY DEF OpToRel
<1>2. IsWellFoundedOn(R, Nat)
  BY NatLessThanWellFounded
<1> HIDE DEF R
<1>3. \A T : T \subseteq Nat /\ T # {} => \E x \in T : \A y \in T : ~ (<<y, x>> \in R)
  BY <1>2, Minimal
<1> SUFFICES ASSUME NEW T, T \subseteq Nat, T # {} PROVE \E x \in T : \A y \in T : x <= y
  OBVIOUS
<1>4. PICK x \in T : \A y \in T : ~ (<<y, x>> \in R)
  BY <1>3
<1>5. \A y \in T : x \in Nat /\ y \in Nat /\ ~(y < x)
  BY <1>1, <1>4
<1>6. \A y \in T : x <= y
  BY <1>5
<1> QED
  BY <1>6

(* Bytes are numbers.                                                      *)
LEMMA ByteIs == \A b \in Byte : b \in Nat /\ b <= 255
BY DEF Byte

\* The sums after the first n bytes.
AreSums(f, s, n) ==
    /\ f \in [0..n -> Nat] /\ f[0] = 0
    /\ \A i \in 1..n : f[i] = f[i - 1] + s[i]

(* The sums exist for every length, and Sums is them.                      *)
LEMMA SumsExist ==
  ASSUME NEW s \in Seq(Byte)
  PROVE  \A n \in 0..Len(s) : \E f : AreSums(f, s, n)
<1> DEFINE Bad == {n \in 0..Len(s) : ~ \E f : AreSums(f, s, n)}
<1> SUFFICES ASSUME Bad # {} PROVE FALSE
  OBVIOUS
<1>1. PICK n \in Bad : \A k \in Bad : n <= k
  <2>1. Bad \subseteq Nat
    OBVIOUS
  <2> HIDE DEF Bad
  <2> QED
    BY <2>1, Smallest
<1>2. n \in 0..Len(s) /\ ~ \E f : AreSums(f, s, n)
  BY <1>1
<1>3. n # 0
  <2>1. AreSums([i \in 0..0 |-> 0], s, 0)
    BY DEF AreSums
  <2> QED
    BY <1>2, <2>1
<1>4. n - 1 \in 0..Len(s) /\ n \in 1..Len(s) /\ n - 1 \notin Bad
  BY <1>1, <1>2, <1>3
<1>5. PICK g : AreSums(g, s, n - 1)
  BY <1>4
<1> HIDE DEF Bad
<1>6. s[n] \in Nat
  <2>1. s[n] \in Byte
    BY <1>4, ElementOfSeq
  <2> QED
    BY <2>1, ByteIs
<1> DEFINE f == [i \in 0..n |-> IF i = n THEN g[n - 1] + s[n] ELSE g[i]]
<1>7. AreSums(f, s, n)
  <2>1. /\ n \in Nat /\ n >= 1 /\ g \in [0..n - 1 -> Nat] /\ g[0] = 0
        /\ \A i \in 1..n - 1 : g[i] = g[i - 1] + s[i]
    BY <1>4, <1>5 DEF AreSums
  <2>2. g[n - 1] \in Nat
    BY <2>1
  <2>3. f \in [0..n -> Nat] /\ f[0] = 0
    BY <1>6, <2>1, <2>2
  <2>4. \A i \in 1..n : f[i] = f[i - 1] + s[i]
    BY <2>1
  <2> HIDE DEF f
  <2> QED
    BY <2>3, <2>4 DEF AreSums
<1> QED
  BY <1>2, <1>7

(* The sums of a page are what the recursion says.                         *)
LEMMA SumsAre == ASSUME NEW s \in Seq(Byte) PROVE AreSums(Sums(s), s, Len(s))
<1> DEFINE Rec(f) == f = [n \in 0..Len(s) |-> IF n = 0 THEN 0 ELSE f[n - 1] + s[n]]
<1>1. Len(s) \in Nat
  OBVIOUS
<1>2. PICK g : AreSums(g, s, Len(s))
  BY <1>1, SumsExist
<1>3. Rec(g)
  <2>1. g \in [0..Len(s) -> Nat] /\ g[0] = 0 /\ \A i \in 1..Len(s) : g[i] = g[i - 1] + s[i]
    BY <1>2 DEF AreSums
  <2>2. \A n \in 0..Len(s) : g[n] = IF n = 0 THEN 0 ELSE g[n - 1] + s[n]
    BY <1>1, <2>1
  <2> QED
    BY <2>1, <2>2
<1>4. Sums(s) = CHOOSE f : Rec(f)
  BY DEF Sums
<1>5. Rec(Sums(s))
  <2> HIDE DEF Rec
  <2> QED
    BY <1>3, <1>4, Zenon
<1> DEFINE f == Sums(s)
<1>6. f = [n \in 0..Len(s) |-> IF n = 0 THEN 0 ELSE f[n - 1] + s[n]]
  BY <1>5
<1> HIDE DEF f
<1>7. f[0] = 0 /\ DOMAIN f = 0..Len(s) /\ \A n \in 1..Len(s) : f[n] = f[n - 1] + s[n]
  BY <1>1, <1>6
<1>8. \A n \in 0..Len(s) : f[n] \in Nat
  <2> DEFINE Bad == {n \in 0..Len(s) : f[n] \notin Nat}
  <2> SUFFICES ASSUME Bad # {} PROVE FALSE
    OBVIOUS
  <2>1. PICK n \in Bad : \A k \in Bad : n <= k
    <3>1. Bad \subseteq Nat
      OBVIOUS
    <3> HIDE DEF Bad
    <3> QED
      BY <3>1, Smallest
  <2>2. n \in 1..Len(s)
    BY <1>1, <1>7, <2>1
  <2>3. n - 1 \in 0..Len(s) /\ n - 1 \notin Bad
    BY <1>1, <2>1, <2>2
  <2>4. f[n - 1] \in Nat /\ s[n] \in Nat
    <3>1. s[n] \in Byte
      BY <2>2, ElementOfSeq
    <3> QED
      BY <2>3, <3>1, ByteIs
  <2> QED
    BY <1>7, <2>1, <2>2, <2>4
<1>9. f \in [0..Len(s) -> Nat]
  BY <1>6, <1>7, <1>8
<1> QED
  BY <1>7, <1>9 DEF AreSums, f

(* A change of less than 256 changes a sum modulo 256.                     *)
LEMMA SameSum ==
  \A f, g, x, y \in Nat :
    x <= 255 /\ y <= 255 /\ f - g = x - y /\ f % 256 = g % 256 => x = y
OBVIOUS

(* A checksum that is right says that the page is: noise changes one byte  *)
(* at most, and one changed byte changes the sum.                          *)
LEMMA OneByte ==
  ASSUME NEW s \in Seq(Byte), NEW t \in Seq(Byte), Len(s) = Len(t), NEW j \in Nat,
         \A i \in 1..Len(s) : i # j => s[i] = t[i],
         Chksum(s) = Chksum(t)
  PROVE  \A i \in 1..Len(s) : s[i] = t[i]
<1> DEFINE f == Sums(s)
           g == Sums(t)
           n == Len(s)
<1>1. AreSums(f, s, n) /\ AreSums(g, t, n) /\ n \in Nat
  BY SumsAre
<1>2. f[n] % 256 = g[n] % 256
  BY DEF Chksum
<1> HIDE DEF f, g, n
<1>3. /\ f \in [0..n -> Nat] /\ f[0] = 0 /\ \A i \in 1..n : f[i] = f[i - 1] + s[i]
      /\ g \in [0..n -> Nat] /\ g[0] = 0 /\ \A i \in 1..n : g[i] = g[i - 1] + t[i]
  BY <1>1 DEF AreSums
<1>4. \A i \in 1..n : i # j => s[i] = t[i]
  BY DEF n
<1>5. \A i \in 1..n : s[i] \in Nat /\ s[i] <= 255 /\ t[i] \in Nat /\ t[i] <= 255
  <2> TAKE i \in 1..n
  <2>1. s[i] \in Byte /\ t[i] \in Byte
    BY ElementOfSeq DEF n
  <2> QED
    BY <2>1, ByteIs
<1> SUFFICES ASSUME j \in 1..n, s[j] # t[j] PROVE FALSE
  BY <1>4 DEF n
<1>6. j \in Nat /\ s[j] \in Nat /\ t[j] \in Nat
  BY <1>5
<1> DEFINE Bad == {i \in 0..n : ~ (IF i < j THEN f[i] = g[i] ELSE f[i] - g[i] = s[j] - t[j])}
<1>7. \A i \in 0..n : IF i < j THEN f[i] = g[i] ELSE f[i] - g[i] = s[j] - t[j]
  <2> SUFFICES ASSUME Bad # {} PROVE FALSE
    OBVIOUS
  <2>1. PICK i \in Bad : \A k \in Bad : i <= k
    <3>1. Bad \subseteq Nat
      OBVIOUS
    <3> HIDE DEF Bad
    <3> QED
      BY <3>1, Smallest
  <2>2. i \in 0..n /\ ~ (IF i < j THEN f[i] = g[i] ELSE f[i] - g[i] = s[j] - t[j])
    BY <2>1
  <2>3. i # 0
    BY <1>3, <1>6, <2>2
  <2>4. i \in 1..n /\ i - 1 \in 0..n /\ i \in Nat
    BY <1>1, <2>2, <2>3
  <2>5. i - 1 \notin Bad
    <3>1. \A k \in Bad : i <= k
      BY <2>1
    <3> HIDE DEF Bad
    <3> QED
      BY <3>1, <2>4
  <2>6. IF i - 1 < j THEN f[i - 1] = g[i - 1] ELSE f[i - 1] - g[i - 1] = s[j] - t[j]
    BY <2>4, <2>5
  <2>7. /\ f[i] = f[i - 1] + s[i] /\ g[i] = g[i - 1] + t[i]
        /\ f[i] \in Nat /\ g[i] \in Nat /\ f[i - 1] \in Nat /\ g[i - 1] \in Nat
        /\ s[i] \in Nat /\ t[i] \in Nat
    BY <1>3, <1>5, <2>4, ZenonT(40)
  <2>8. i # j => s[i] = t[i]
    BY <1>4, <2>4
  <2> HIDE DEF Bad
  <2>9. CASE i < j
    BY <1>6, <2>2, <2>4, <2>6, <2>7, <2>8, <2>9
  <2>10. CASE i = j
    BY <1>6, <2>2, <2>4, <2>6, <2>7, <2>10
  <2>11. CASE i > j
    BY <1>6, <2>2, <2>4, <2>6, <2>7, <2>8, <2>11, SMTT(40)
  <2> QED
    BY <1>6, <2>4, <2>9, <2>10, <2>11
<1>8. f[n] - g[n] = s[j] - t[j]
  BY <1>1, <1>7
<1>9. f[n] \in Nat /\ g[n] \in Nat /\ s[j] <= 255 /\ t[j] <= 255
  <2>1. n \in 0..n
    BY <1>1
  <2>2. f[n] \in Nat /\ g[n] \in Nat
    BY <1>3, <2>1
  <2>3. s[j] <= 255 /\ t[j] <= 255
    BY <1>5
  <2> QED
    BY <2>2, <2>3
<1> QED
  BY <1>2, <1>6, <1>8, <1>9, SameSum

-----------------------------------------------------------------------------
(* Pages and sectors.                                                      *)

(* Division with remainder.                                                *)
LEMMA DivIs ==
  \A a \in Nat, d \in Nat \ {0} :
    /\ a \div d \in Nat /\ (a \div d) * d <= a /\ a < (a \div d) * d + d
    /\ a % d = a - (a \div d) * d
OBVIOUS

(* The quotient is the one number that fits.                               *)
LEMMA DivBy ==
  \A a, q \in Nat, d \in Nat \ {0} : q * d <= a /\ a < q * d + d => a \div d = q
OBVIOUS

(* Multiplication keeps an order ...                                       *)
LEMMA Monotone == \A x, y, d \in Nat : x <= y => x * d <= y * d
OBVIOUS

(* ... and comes from one.                                                 *)
LEMMA Fewer == \A x, y, d \in Nat : x * d < y * d => x < y
OBVIOUS

(* Products of numbers.                                                    *)
LEMMA Products ==
  \A x, y, d \in Nat :
    /\ x * y \in Nat
    /\ (x * y) * d = x * (d * y)
    /\ (x + y) * d = x * d + y * d
OBVIOUS

\* The units of d bytes that n bytes need.
Units(n, d) == ((n - 1) \div d) + 1

\* Of p pages of d bytes and s sectors of k pages, for n bytes.
Enough(n, d, k, p, s) ==
         /\ p \in Nat \ {0} /\ s \in Nat \ {0} /\ d * k \in Nat \ {0}
         /\ (p - 1) * d <= n - 1 /\ n - 1 < p * d
         /\ (s - 1) * (d * k) <= n - 1 /\ n - 1 < s * (d * k)
         /\ p <= s * k
         /\ \A i \in 0..s - 1 : i * k < p

(* A program needs so many pages and sectors.                              *)
LEMMA Needed ==
  ASSUME NEW n \in Nat \ {0}, NEW d \in Nat \ {0}, NEW k \in Nat \ {0}
  PROVE  Enough(n, d, k, Units(n, d), Units(n, d * k))
<1> DEFINE p == Units(n, d)
           s == Units(n, d * k)
           m == n - 1
           z == d * k
           a == m \div d
           b == m \div z
<1>1. m \in Nat /\ z \in Nat \ {0} /\ p = a + 1 /\ s = b + 1
  BY DEF Units
<1> HIDE DEF p, s
<1>2. /\ a \in Nat /\ a * d <= m /\ m < a * d + d
  BY <1>1, DivIs
<1>3. /\ b \in Nat /\ b * z <= m /\ m < b * z + z
  <2> HIDE DEF m, z
  <2> QED
    BY <1>1, DivIs
<1> HIDE DEF m, a, b
<1>4. (a + 1) * d = a * d + d /\ a * d \in Nat /\ a + 1 \in Nat
  BY <1>2
<1>5. (b + 1) * z = b * z + z /\ b * z \in Nat /\ b + 1 \in Nat
  <2> HIDE DEF z
  <2> QED
    BY <1>1, <1>3, Products
<1>6. a * d < ((b + 1) * k) * d
  <2> DEFINE w == ((b + 1) * k) * d
  <2>1. w = (b + 1) * z
    BY <1>5
  <2> HIDE DEF w, z
  <2>2. a * d < (b + 1) * z
    BY <1>1, <1>2, <1>3, <1>4, <1>5
  <2>3. a * d < w
    BY <2>1, <2>2
  <2> QED
    BY <2>3 DEF w
<1>7. (b + 1) * k \in Nat
  BY <1>3
<1>8. a < (b + 1) * k
  <2> DEFINE y == (b + 1) * k
  <2> HIDE DEF y
  <2>1. y \in Nat /\ a * d < y * d
    BY <1>6, <1>7 DEF y
  <2>2. a < y
    BY <1>2, <2>1, Fewer
  <2> QED
    BY <2>2 DEF y
<1>9. \A i \in 0..s - 1 : i * k < p
  <2> TAKE i \in 0..s - 1
  <2>1. i \in Nat /\ i <= b
    BY <1>1, <1>3
  <2>2. i * z <= b * z
    BY <1>1, <1>3, <2>1, Monotone
  <2>3. (i * k) * d = i * z /\ i * k \in Nat /\ i * z \in Nat
    BY <2>1
  <2> DEFINE y == i * k
  <2> HIDE DEF y, z
  <2>4. y \in Nat /\ y * d < (a + 1) * d
    BY <1>1, <1>2, <1>3, <1>4, <1>5, <2>2, <2>3 DEF y
  <2>5. y < a + 1
    BY <1>4, <2>4, Fewer
  <2> QED
    BY <1>1, <2>5 DEF y
<1>10. p - 1 = a /\ s - 1 = b /\ n - 1 = m
  BY <1>1, <1>2, <1>3 DEF m
<1> QED
  BY <1>1, <1>2, <1>3, <1>4, <1>5, <1>8, <1>9, <1>10 DEF z, p, s, Enough

(* The sizes of a program and of the flash.                                *)
LEMMA Sizes ==
  ASSUME image \in Images
  PROVE  /\ image \in Seq(Byte) /\ Len(image) \in Nat \ {0}
         /\ PAGE \in Nat \ {0} /\ PAGE <= 256 /\ SECTPAGES \in Nat \ {0}
         /\ SECTOR \in Nat \ {0} /\ SECTOR = PAGE * SECTPAGES
         /\ sectreq \in Nat \ {0} /\ pagereq \in Nat \ {0}
         /\ (pagereq - 1) * PAGE < Len(image) /\ Len(image) <= pagereq * PAGE
         /\ (sectreq - 1) * SECTOR < Len(image) /\ Len(image) <= sectreq * SECTOR
         /\ pagereq <= sectreq * SECTPAGES
         /\ \A i \in 0..sectreq - 1 : i * SECTPAGES < pagereq /\ PagesIn(i) \in 1..SECTPAGES
<1>1. /\ image \in Seq(Byte) /\ Len(image) \in Nat \ {0} /\ Len(image) <= SECTOR * FLASHSECTS
      /\ PAGE \in Nat \ {0} /\ PAGE <= 256 /\ SECTPAGES \in Nat \ {0} /\ FLASHSECTS \in Nat \ {0}
  BY IspAssumption
<1> DEFINE n == Len(image)
           p == pagereq
           s == sectreq
<1>2. p = Units(n, PAGE) /\ s = Units(n, PAGE * SECTPAGES)
  BY DEF pagereq, sectreq, SECTOR, Units
<1> HIDE DEF n, p, s
<1>3. n \in Nat \ {0}
  BY <1>1 DEF n
<1>4. /\ p \in Nat \ {0} /\ s \in Nat \ {0} /\ PAGE * SECTPAGES \in Nat \ {0}
      /\ (p - 1) * PAGE <= n - 1 /\ n - 1 < p * PAGE
      /\ (s - 1) * (PAGE * SECTPAGES) <= n - 1 /\ n - 1 < s * (PAGE * SECTPAGES)
      /\ p <= s * SECTPAGES
      /\ \A i \in 0..s - 1 : i * SECTPAGES < p
  <2>1. Enough(n, PAGE, SECTPAGES, p, s)
    BY <1>1, <1>2, <1>3, Needed
  <2> QED
    BY <2>1 DEF Enough
<1>5. SECTOR \in Nat \ {0} /\ SECTOR = PAGE * SECTPAGES
  BY <1>4 DEF SECTOR
<1>6. /\ p \in Nat \ {0} /\ s \in Nat \ {0}
      /\ (p - 1) * PAGE <= n - 1 /\ n - 1 < p * PAGE
      /\ (s - 1) * SECTOR <= n - 1 /\ n - 1 < s * SECTOR
  BY <1>4, <1>5
<1>7. /\ (p - 1) * PAGE \in Nat /\ p * PAGE \in Nat
      /\ (s - 1) * SECTOR \in Nat /\ s * SECTOR \in Nat
  <2>1. p - 1 \in Nat /\ s - 1 \in Nat
    BY <1>6
  <2> QED
    BY <1>1, <1>5, <1>6, <2>1, Products
<1>8. /\ (p - 1) * PAGE < n /\ n <= p * PAGE
      /\ (s - 1) * SECTOR < n /\ n <= s * SECTOR
  BY <1>3, <1>6, <1>7
<1>9. \A i \in 0..s - 1 : i * SECTPAGES < p /\ PagesIn(i) \in 1..SECTPAGES
  <2> TAKE i \in 0..s - 1
  <2>1. i * SECTPAGES < p /\ i \in Nat
    BY <1>4
  <2>2. i * SECTPAGES \in Nat
    BY <1>1, <2>1, Products
  <2>3. PagesIn(i) = Least(SECTPAGES, p - i * SECTPAGES)
    BY DEF PagesIn, p
  <2> QED
    BY <1>1, <1>4, <2>1, <2>2, <2>3 DEF Least
<1> QED
  BY <1>1, <1>4, <1>5, <1>8, <1>9 DEF n, p, s

(* The program fits the flash.                                             *)
LEMMA Fits ==
  ASSUME image \in Images
  PROVE  /\ \A i \in Nat : i <= sectreq => i * SECTOR <= sectreq * SECTOR
         /\ sectreq * SECTOR <= SECTOR * FLASHSECTS
         /\ sectreq * SECTOR \in Nat /\ SECTOR * FLASHSECTS \in Nat
         /\ SECTOR * FLASHSECTS <= 256 * 256 * 256
         /\ Flash = {a \in Nat : a < SECTOR * FLASHSECTS}
<1>1. SECTOR \in Nat \ {0} /\ sectreq \in Nat \ {0} /\ (sectreq - 1) * SECTOR < Len(image)
  BY Sizes
<1>2. FLASHSECTS \in Nat \ {0} /\ Len(image) <= SECTOR * FLASHSECTS /\ Len(image) \in Nat
      /\ SECTOR * FLASHSECTS <= 256 * 256 * 256
  BY IspAssumption
<1> DEFINE s == sectreq - 1
<1>3. s \in Nat /\ sectreq = s + 1 /\ s * SECTOR < Len(image)
  BY <1>1
<1> HIDE DEF s
<1>4. SECTOR * FLASHSECTS = FLASHSECTS * SECTOR /\ SECTOR * FLASHSECTS \in Nat
      /\ s * SECTOR \in Nat
  BY <1>1, <1>2, <1>3
<1>5. s * SECTOR < FLASHSECTS * SECTOR
  BY <1>2, <1>3, <1>4
<1>6. s < FLASHSECTS
  BY <1>1, <1>2, <1>3, <1>5, Fewer
<1>7. sectreq * SECTOR <= FLASHSECTS * SECTOR
  <2>1. sectreq \in Nat /\ FLASHSECTS \in Nat /\ SECTOR \in Nat /\ sectreq <= FLASHSECTS
    BY <1>1, <1>2, <1>3, <1>6
  <2> QED
    BY <2>1, Monotone
<1>8. sectreq * SECTOR \in Nat
  BY <1>1, Products
<1>9. \A i \in Nat : i <= sectreq => i * SECTOR <= sectreq * SECTOR
  BY <1>1, Monotone
<1>10. Flash = {a \in Nat : a < SECTOR * FLASHSECTS}
  <2> DEFINE z == SECTOR * FLASHSECTS
  <2>1. z \in Nat /\ Flash = 0..(z - 1)
    BY <1>4 DEF Flash
  <2> HIDE DEF z
  <2>2. Flash = {a \in Nat : a < z}
    BY <2>1
  <2> QED
    BY <2>2 DEF z
<1> QED
  BY <1>2, <1>4, <1>7, <1>8, <1>9, <1>10

\* The page the host is at.
AtPage ==
    /\ image \in Images /\ sect \in 0..sectreq - 1
    /\ page \in Nat /\ page < PagesIn(sect)
    /\ curraddr = sect * SECTOR + page * PAGE

(* A page is within the program, its sector and the flash.                 *)
LEMMA PageWithin ==
  ASSUME AtPage
  PROVE  /\ curraddr \in Nat /\ curraddr < Len(image) /\ sect * SECTOR \in Nat
         /\ sect * SECTOR <= curraddr /\ curraddr + PAGE <= (sect + 1) * SECTOR
         /\ (sect + 1) * SECTOR = sect * SECTOR + SECTOR
         /\ curraddr = (sect * SECTPAGES + page) * PAGE
<1>1. /\ Len(image) \in Nat \ {0} /\ PAGE \in Nat \ {0} /\ SECTPAGES \in Nat \ {0}
      /\ SECTOR \in Nat \ {0} /\ SECTOR = PAGE * SECTPAGES
      /\ sectreq \in Nat \ {0} /\ pagereq \in Nat \ {0}
      /\ (pagereq - 1) * PAGE < Len(image)
      /\ sect * SECTPAGES < pagereq /\ PagesIn(sect) \in 1..SECTPAGES
  BY Sizes DEF AtPage
<1>2. sect \in Nat /\ page \in Nat /\ sect + 1 \in Nat /\ sect * SECTPAGES \in Nat
  BY <1>1, Products DEF AtPage
<1>3. page < SECTPAGES /\ page < pagereq - sect * SECTPAGES
  <2>1. PagesIn(sect) = Least(SECTPAGES, pagereq - sect * SECTPAGES)
    BY DEF PagesIn
  <2> DEFINE q == sect * SECTPAGES
  <2> HIDE DEF q
  <2> QED
    BY <1>1, <1>2, <2>1 DEF Least, AtPage, q
<1> DEFINE q == sect * SECTPAGES
<1>4. sect * SECTOR = q * PAGE
  BY <1>1, <1>2, Products
<1>5. q \in Nat /\ q + page <= pagereq - 1 /\ pagereq - 1 \in Nat
  BY <1>1, <1>2, <1>3
<1> HIDE DEF q
<1>6. curraddr = (q + page) * PAGE /\ curraddr \in Nat /\ q * PAGE \in Nat /\ page * PAGE \in Nat
  <2>1. curraddr = q * PAGE + page * PAGE
    BY <1>4 DEF AtPage
  <2>2. (q + page) * PAGE = q * PAGE + page * PAGE /\ q * PAGE \in Nat /\ page * PAGE \in Nat
    BY <1>1, <1>2, <1>5, Products
  <2> QED
    BY <2>1, <2>2
<1>7. curraddr < Len(image)
  <2>1. (q + page) * PAGE <= (pagereq - 1) * PAGE
    <3>1. q + page \in Nat /\ PAGE \in Nat
      BY <1>1, <1>2, <1>5
    <3> QED
      BY <1>5, <3>1, Monotone
  <2>2. (pagereq - 1) * PAGE \in Nat
    BY <1>1, <1>5, Products
  <2> DEFINE u == (pagereq - 1) * PAGE
  <2>3. curraddr <= u /\ u < Len(image) /\ u \in Nat
    BY <1>1, <1>6, <2>1, <2>2
  <2> HIDE DEF u
  <2> QED
    BY <1>1, <1>6, <2>3
<1>8. (sect + 1) * SECTOR = sect * SECTOR + SECTOR /\ sect * SECTOR \in Nat
  BY <1>1, <1>2, Products
<1>9. page * PAGE + PAGE <= SECTOR
  <2>1. page + 1 <= SECTPAGES /\ page + 1 \in Nat
    BY <1>1, <1>2, <1>3
  <2>2. (page + 1) * PAGE <= SECTPAGES * PAGE
    BY <1>1, <2>1, Monotone
  <2>3. (page + 1) * PAGE = page * PAGE + PAGE /\ SECTPAGES * PAGE = SECTOR
    BY <1>1, <1>2
  <2> QED
    BY <2>2, <2>3
<1>10. curraddr = sect * SECTOR + page * PAGE
  BY DEF AtPage
<1> DEFINE y == sect * SECTOR
           x == page * PAGE
<1>11. y \in Nat /\ x \in Nat /\ curraddr = y + x /\ x + PAGE <= SECTOR /\ (sect + 1) * SECTOR = y + SECTOR
  BY <1>6, <1>8, <1>9, <1>10
<1> HIDE DEF x, y
<1>12. y <= curraddr /\ curraddr + PAGE <= (sect + 1) * SECTOR
  BY <1>1, <1>11
<1> QED
  BY <1>6, <1>7, <1>8, <1>12 DEF y, q

(* Three bytes are enough for its address.                                 *)
LEMMA AddressFits ==
  ASSUME AtPage
  PROVE  curraddr \in Nat /\ curraddr < 256 * 256 * 256
<1> DEFINE f == SECTOR * FLASHSECTS
<1>1. Len(image) \in 1..f
  BY IspAssumption DEF AtPage
<1>2. f \in Nat /\ f <= 256 * 256 * 256
  BY Fits DEF AtPage
<1>3. curraddr \in Nat /\ curraddr < Len(image)
  BY PageWithin
<1> HIDE DEF f
<1> QED
  BY <1>1, <1>2, <1>3

(* What follows a page.                                                    *)
LEMMA PageAfter ==
  ASSUME AtPage
  PROVE  /\ page + 1 < PagesIn(sect) => curraddr + PAGE = sect * SECTOR + (page + 1) * PAGE
         /\ page + 1 = PagesIn(sect) /\ sect + 1 < sectreq => curraddr + PAGE = (sect + 1) * SECTOR
         /\ page + 1 = PagesIn(sect) /\ sect + 1 = sectreq => curraddr + PAGE = pagereq * PAGE
<1>1. /\ PAGE \in Nat \ {0} /\ SECTPAGES \in Nat \ {0}
      /\ SECTOR \in Nat \ {0} /\ SECTOR = PAGE * SECTPAGES
      /\ sectreq \in Nat \ {0} /\ pagereq \in Nat \ {0}
      /\ pagereq <= sectreq * SECTPAGES
      /\ \A i \in 0..sectreq - 1 : i * SECTPAGES < pagereq
  BY Sizes DEF AtPage
<1>2. sect \in Nat /\ page \in Nat /\ sect < sectreq /\ sect * SECTPAGES \in Nat
  BY <1>1, Products DEF AtPage
<1> DEFINE q == sect * SECTPAGES
<1>3. curraddr = (q + page) * PAGE /\ curraddr = sect * SECTOR + page * PAGE
  BY PageWithin DEF AtPage
<1>4. PagesIn(sect) = Least(SECTPAGES, pagereq - q)
  BY DEF PagesIn
<1>5. q \in Nat /\ (sect + 1) * SECTPAGES = q + SECTPAGES /\ sect * SECTOR = q * PAGE
      /\ SECTPAGES * PAGE = SECTOR
  BY <1>1, <1>2, Products
<1> HIDE DEF q
<1>6. curraddr + PAGE = (q + page + 1) * PAGE
  BY <1>1, <1>2, <1>3, <1>5
<1>7. curraddr + PAGE = sect * SECTOR + (page + 1) * PAGE
  <2>1. (page + 1) * PAGE = page * PAGE + PAGE /\ page * PAGE \in Nat
    BY <1>1, <1>2
  <2>2. sect * SECTOR \in Nat
    BY <1>1, <1>2, Products
  <2> DEFINE x == page * PAGE
             y == sect * SECTOR
             z == (page + 1) * PAGE
  <2>3. x \in Nat /\ y \in Nat /\ z = x + PAGE /\ curraddr = y + x
    BY <1>3, <2>1, <2>2
  <2> HIDE DEF x, y, z
  <2>4. curraddr + PAGE = y + z
    BY <1>1, <2>3
  <2> QED
    BY <2>4 DEF y, z
<1>8. ASSUME page + 1 = PagesIn(sect), sect + 1 < sectreq
      PROVE  curraddr + PAGE = (sect + 1) * SECTOR
  <2>1. sect + 1 \in 0..sectreq - 1
    BY <1>1, <1>2, <1>8
  <2>2. q + SECTPAGES < pagereq
    BY <1>1, <1>5, <2>1
  <2>3. page + 1 = SECTPAGES
    BY <1>1, <1>4, <1>5, <1>8, <2>2 DEF Least
  <2>4. curraddr + PAGE = (q + SECTPAGES) * PAGE
    BY <1>2, <1>5, <1>6, <2>3
  <2>5. (q + SECTPAGES) * PAGE = q * PAGE + SECTPAGES * PAGE
    BY <1>1, <1>5
  <2>6. (sect + 1) * SECTOR = sect * SECTOR + SECTOR
    BY <1>1, <1>2
  <2> QED
    BY <1>5, <2>4, <2>5, <2>6
<1>9. ASSUME page + 1 = PagesIn(sect), sect + 1 = sectreq
      PROVE  curraddr + PAGE = pagereq * PAGE
  <2>1. pagereq <= q + SECTPAGES
    BY <1>1, <1>5, <1>9
  <2>2. page + 1 = pagereq - q
    BY <1>1, <1>4, <1>5, <1>9, <2>1 DEF Least
  <2>3. q + page + 1 = pagereq
    BY <1>1, <1>2, <1>5, <2>2
  <2> QED
    BY <1>6, <2>3
<1> QED
  BY <1>7, <1>8, <1>9

(* The bytes of a page.                                                    *)
LEMMA DataOfPage ==
  ASSUME AtPage
  PROVE  /\ PageData \in Seq(Byte) /\ Len(PageData) \in 1..PAGE /\ Len(PageData) \in 1..256
         /\ Len(PageData) \in 0..256 /\ 0 < Len(PageData)
         /\ Len(PageData) = Least(PAGE, Len(image) - curraddr)
         /\ \A i \in 1..Len(PageData) : PageData[i] = image[curraddr + i]
<1>1. /\ image \in Seq(Byte) /\ Len(image) \in Nat /\ PAGE \in Nat \ {0} /\ PAGE <= 256
      /\ curraddr \in Nat /\ curraddr < Len(image)
  BY Sizes, PageWithin DEF AtPage
<1> DEFINE e == Least(curraddr + PAGE, Len(image))
<1>2. e \in Nat /\ e <= Len(image) /\ e > curraddr /\ e - curraddr = Least(PAGE, Len(image) - curraddr)
  BY <1>1 DEF Least
<1>3. PageData = SubSeq(image, curraddr + 1, e)
  BY DEF PageData
<1> HIDE DEF e
<1>4. \A i \in curraddr + 1..e : image[i] \in Byte
  <2>1. \A i \in curraddr + 1..e : i \in 1..Len(image)
    BY <1>1, <1>2
  <2> QED
    BY <1>1, <2>1, ElementOfSeq
<1>5. /\ PageData \in Seq(Byte) /\ Len(PageData) = e - curraddr
      /\ \A i \in 1..Len(PageData) : PageData[i] = image[curraddr + i]
  BY <1>1, <1>2, <1>3, <1>4
<1>6. Len(PageData) \in 1..PAGE
  BY <1>1, <1>2, <1>5 DEF Least
<1> QED
  BY <1>1, <1>2, <1>5, <1>6

(* An address survives its three bytes.                                    *)
LEMMA AddressIs ==
  ASSUME NEW a \in Nat, a < 256 * 256 * 256
  PROVE  /\ AddressBytes(a) \in Seq(Byte) /\ Len(AddressBytes(a)) = 3
         /\ \A b : (b \in Seq(Byte) /\ Len(b) = 3 /\ \A i \in 1..3 : b[i] = AddressBytes(a)[i])
                     => Address(b) = a
<1> DEFINE x == (a \div 65536) % 256
           y == (a \div 256) % 256
           z == a % 256
<1>1. x \in Byte /\ y \in Byte /\ z \in Byte /\ x * 65536 + y * 256 + z = a
  BY DEF Byte
<1>2. AddressBytes(a) = <<x, y, z>>
  BY DEF AddressBytes
<1> HIDE DEF x, y, z
<1> QED
  BY <1>1, <1>2 DEF Address

(* The page in the flash.                                                  *)
LEMMA InPage ==
  ASSUME AtPage
  PROVE  /\ (curraddr \div PAGE) * PAGE = curraddr
         /\ \A a \in Nat : a \div PAGE = curraddr \div PAGE
                             <=> (curraddr <= a /\ a < curraddr + PAGE)
         /\ \A a \in Nat : curraddr <= a /\ a < curraddr + PAGE
                             => (a - curraddr) % PAGE = a - curraddr
<1> DEFINE q == sect * SECTPAGES + page
<1>1. curraddr \in Nat /\ curraddr = q * PAGE
  BY PageWithin
<1>2. PAGE \in Nat \ {0} /\ q \in Nat
  <2>1. /\ PAGE \in Nat \ {0} /\ SECTPAGES \in Nat /\ sectreq \in Nat \ {0}
        /\ sect \in 0..sectreq - 1 /\ page \in Nat
    BY Sizes DEF AtPage
  <2>2. sect \in Nat
    BY <2>1
  <2> QED
    BY <2>1, <2>2
<1> HIDE DEF q
<1>3. curraddr \div PAGE = q
  BY <1>1, <1>2, DivBy
<1>4. \A a \in Nat : a \div PAGE = q <=> (q * PAGE <= a /\ a < q * PAGE + PAGE)
  BY <1>2, DivBy, DivIs
<1>5. \A a \in Nat : curraddr <= a /\ a < curraddr + PAGE => (a - curraddr) % PAGE = a - curraddr
  BY <1>1, <1>2
<1> QED
  BY <1>1, <1>3, <1>4, <1>5

(* The sector in the flash, and the address ESEC gives of it.              *)
LEMMA InSector ==
  ASSUME image \in Images, sect \in 0..sectreq - 1
  PROVE  /\ \A a \in Nat : SectorOf(a) = sect <=> (sect * SECTOR <= a /\ a < (sect + 1) * SECTOR)
         /\ sect * SECTOR \in Nat /\ sect * SECTOR < 256 * 256 * 256
         /\ (sect + 1) * SECTOR <= sectreq * SECTOR /\ (sect + 1) * SECTOR \in Nat
         /\ sect * SECTOR < (sect + 1) * SECTOR
         /\ SectorBytes(sect * SECTOR) = AddressBytes(sect * SECTOR)
<1>1. SECTOR \in Nat \ {0} /\ sectreq \in Nat \ {0} /\ sect \in Nat /\ sect + 1 <= sectreq
      /\ sect + 1 \in Nat
  BY Sizes
<1>2. (sect + 1) * SECTOR = sect * SECTOR + SECTOR /\ sect * SECTOR \in Nat
      /\ (sect + 1) * SECTOR \in Nat
  BY <1>1
<1>3. \A a \in Nat : SectorOf(a) = sect <=> (sect * SECTOR <= a /\ a < sect * SECTOR + SECTOR)
  BY <1>1, DivBy, DivIs DEF SectorOf
<1>4. (sect + 1) * SECTOR <= sectreq * SECTOR /\ sectreq * SECTOR \in Nat
      /\ sectreq * SECTOR <= SECTOR * FLASHSECTS /\ SECTOR * FLASHSECTS \in Nat
      /\ SECTOR * FLASHSECTS <= 256 * 256 * 256
  BY <1>1, Fits
<1> DEFINE y == sect * SECTOR
           z == (sect + 1) * SECTOR
           f == SECTOR * FLASHSECTS
           e == sectreq * SECTOR
<1>5. y \in Nat /\ z = y + SECTOR /\ z <= e /\ e <= f /\ f <= 256 * 256 * 256 /\ e \in Nat /\ f \in Nat
  BY <1>2, <1>4
<1>6. y % SECTOR = 0
  <2>1. y % SECTOR = y - (y \div SECTOR) * SECTOR
    BY <1>1, <1>2, DivIs
  <2>2. y \div SECTOR = sect
    BY <1>1, <1>2, DivBy
  <2> QED
    BY <1>2, <2>1, <2>2
<1>7. SectorBytes(y) = AddressBytes(y)
  <2> HIDE DEF y
  <2>1. y - (y % SECTOR) = y
    BY <1>5, <1>6
  <2> QED
    BY <2>1 DEF SectorBytes
<1> HIDE DEF y, z, e, f
<1>8. y < 256 * 256 * 256 /\ y < z
  BY <1>1, <1>5
<1> QED
  BY <1>2, <1>3, <1>4, <1>7, <1>8 DEF y, z

-----------------------------------------------------------------------------
(* The inductive invariant: where a message and its answer are.            *)

Quiet == rx = <<>> /\ h2d = <<>> /\ inq = <<>> /\ d2h = <<>>

\* The ROM has answered with byte b, and the host has not read it.
Reply(b) ==
    /\ rx = <<>> /\ h2d = <<>>
    /\ (inq = <<b>> /\ d2h = <<>>) \/ (inq = <<>> /\ d2h = <<b>>)

\* The host is sending m, of which the ROM has taken k bytes.
Sending(m, k) == inq = <<>> /\ d2h = <<>> /\ Sent(m, k, rx, h2d)

\* The ROM's buffer holds the page.
Verified == buflen = Len(PageData) /\ \A i \in 1..buflen : buf[i] = PageData[i]

\* Part of the page: what the ROM has taken of it, what its UART holds and what
\* is on the line, with noise in byte j at most.
Heard(p, got, r, h, noise) ==
    /\ Len(got) < Len(p)
    /\ \/ r = <<>> /\ Rest(p, Len(got), h)
       \/ r # <<>> /\ Rest(p, Len(got) + 1, h)
    /\ \E j \in Nat : /\ j # 0 => noise
                      /\ \A i \in 1..Len(got) : i # j => got[i] = p[i]
                      /\ r # <<>> /\ j # Len(got) + 1 => r[1] = p[Len(got) + 1]
HeardPage ==
    /\ inq = <<>> /\ d2h = <<>>
    /\ buflen = Len(PageData) /\ Heard(PageData, args, rx, h2d, hit)
    /\ \A i \in 1..Len(args) : buf[i] = args[i]

\* All of the page, whose checksum is under way to the host.
Almost(p, b) == \E j \in Nat : \A i \in 1..Len(p) : i # j => b[i] = p[i]
HeardAll ==
    /\ buflen = Len(PageData) /\ Almost(PageData, buf)
    /\ Reply(Chksum(SubSeq(buf, 1, Len(PageData))))

\* A command is on its way, or the ROM is ready for its address.
Ready(c) == rpc = "addr" /\ instr = c /\ args = <<>>
Going(c) == (rpc = "cmd" /\ Sending(<<c>>, 0)) \/ (Ready(c) /\ Reply(c + 1))

\* An operation: its address is on its way, it is under way, it is done.
Addressed(c, a) ==
    /\ rpc = "addr" /\ instr = c /\ Len(args) <= 2 /\ Sending(a, Len(args))
    /\ \A i \in 1..Len(args) : args[i] = a[i]
Working(c, o) == rpc = "flash" /\ instr = c /\ Quiet /\ op \in {NoOp, o}
Acknowledged(c) == rpc = "cmd" /\ Reply(c + 2)

EraseOp   == [kind |-> "erase", at |-> sect * SECTOR, data |-> <<>>]
ProgramOp == [kind |-> "program", at |-> curraddr, data |-> PageData]

-----------------------------------------------------------------------------
(* The invariant's parts.                                                  *)

Probing == {"probe", "sleep", "undetected"}
Erasing == {"esec", "esec_go", "esec_addr", "esec_done"}
Paging  == {"wbuf", "wbuf_go", "wbuf_data", "chksum", "wpag", "wpag_go", "wpag_addr", "wpag_done"}

Transfer == <<Len(PageData) - 1>> \o PageData

IspType ==
    /\ image \in Images /\ buf \in [1..PAGE -> Byte]
    /\ buflen \in 0..256 /\ buflen0 \in {0, 1} /\ genuine \in BOOLEAN
    /\ args \in Seq(Byte) /\ h2d \in Seq(Byte)
    /\ rx = <<>> \/ \E b \in Byte : rx = <<b>>
    /\ rpc \in {"off", "wait", "cmd", "len", "data", "addr", "flash", "app"}
    /\ hpc \in Probing \cup Erasing \cup Paging \cup {"drain", "rst", "done", "failed"}
    /\ ~overrun
    /\ op # NoOp => rpc = "flash"
    /\ rpc = "app" => rx = <<>>
    /\ hpc \notin Probing /\ ~genuine => rpc = "app"

\* The host probes; the ROM may be off, waiting, in its loop or gone.
Asked == h2d \in {<<>>, <<85>>, <<85, 85>>} /\ Len(rx) + Len(h2d) <= 2
Answered ==
    /\ <<inq, d2h>> \in {<<<<86>>, <<>>>>, <<<<>>, <<86>>>>}
                          \cup (IF rx = <<>> /\ h2d = <<>>
                                THEN {<<<<86, 86>>, <<>>>>, <<<<86>>, <<86>>>>, <<<<>>, <<86, 86>>>>}
                                ELSE {})
    /\ Len(rx) + Len(h2d) <= 1
Greeting ==
    /\ sect = 0 /\ page = 0 /\ curraddr = 0
    /\ ~genuine /\ args = <<>> /\ buflen = buflen0
    /\ rpc \in {"off", "wait", "cmd", "app"}
    /\ rx \in {<<>>, <<85>>} /\ Asked
    /\ rpc = "off" => rx = <<>>
    /\ rpc \in {"off", "wait"} => inq = <<>> /\ d2h = <<>>
    /\ hpc # "sleep" => rpc # "cmd" /\ rx = <<>> /\ h2d = <<>>
    /\ rpc = "cmd" => Answered

Drained == rpc = "cmd" /\ rx = <<>> /\ h2d = <<>> /\ d2h = <<>> /\ inq \in {<<>>, <<86>>}

Session ==
    /\ hpc \in {"esec", "wbuf", "wpag", "rst", "failed"} => rpc = "cmd" /\ Quiet
    /\ hpc = "esec_go" => Going(48)
    /\ hpc = "esec_addr" => Ready(48) /\ Quiet
    /\ hpc = "esec_done" => \/ Addressed(48, AddressBytes(curraddr))
                            \/ Working(48, EraseOp)
                            \/ Acknowledged(48)
    /\ hpc = "wbuf_go" => \/ rpc = "cmd" /\ Sending(<<16>>, 0)
                          \/ rpc = "len" /\ args = <<>> /\ Reply(17)
    /\ hpc = "wbuf_data" => rpc = "len" /\ args = <<>> /\ Quiet
    /\ hpc = "chksum" => \/ rpc = "len" /\ args = <<>> /\ Sending(Transfer, 0)
                         \/ rpc = "data" /\ HeardPage
                         \/ rpc = "cmd" /\ HeardAll
    /\ hpc \in {"wpag", "wpag_go", "wpag_addr"} => Verified
    /\ hpc = "wpag_go" => Going(64)
    /\ hpc = "wpag_addr" => Ready(64) /\ Quiet
    /\ hpc = "wpag_done" => \/ Addressed(64, AddressBytes(curraddr)) /\ Verified
                            \/ Working(64, ProgramOp) /\ buflen # 0
                            \/ Acknowledged(64)
    /\ hpc = "done" => \/ rpc = "cmd" /\ Sending(<<240>>, 0)
                       \/ rpc \in {"wait", "app"} /\ rx = <<>> /\ h2d = <<>>

Phase ==
    /\ hpc \in Probing => Greeting
    /\ hpc = "drain" /\ genuine => Drained
    /\ hpc \notin Probing \cup {"drain"} /\ genuine => Session

Place ==
    /\ sect \in 0..sectreq - 1
    /\ hpc \in Probing \cup Erasing \cup {"drain"} => curraddr = sect * SECTOR /\ page = 0
    /\ hpc \in Paging \cup {"failed"} => AtPage
    /\ hpc \in {"rst", "done"} => sect = sectreq - 1 /\ curraddr = pagereq * PAGE

\* The flash: old from some address on, the program up to another, blank between.
Old(f, lo) == \A a \in Flash : a >= lo => f[a] = OldByte
Holds(f, m, hi) == \A a \in Flash : a < hi => f[a] = IF a < Len(m) THEN m[a + 1] ELSE 255
Blank(f, lo, hi) == \A a \in Flash : lo <= a /\ a < hi => f[a] = 255

\* The operation is over, acknowledged or not.
Over   == rpc = "cmd" \/ (rpc = "flash" /\ op = NoOp)
Erased == hpc \in Paging \cup {"failed", "rst", "done"} \/ (hpc = "esec_done" /\ Over)
Written == IF hpc = "wpag_done" /\ Over THEN curraddr + PAGE ELSE curraddr
Contents ==
    /\ Old(flash, (sect + 1) * SECTOR)
    /\ Sound => /\ Holds(flash, image, Written)
                /\ Erased => Blank(flash, Written, (sect + 1) * SECTOR)
                /\ hpc \notin {"done"} => buflen # 0

IspInv == IspType /\ Phase /\ Place /\ Contents

(* A step that leaves the host's place leaves what hangs on it.            *)
LEMMA PlaceKept ==
  ASSUME UNCHANGED <<image, sect, page, curraddr>>
  PROVE  /\ sectreq' = sectreq /\ pagereq' = pagereq /\ (AtPage => AtPage')
         /\ PageData' = PageData /\ Transfer' = Transfer
         /\ EraseOp' = EraseOp /\ ProgramOp' = ProgramOp
<1>1. sectreq' = sectreq /\ pagereq' = pagereq /\ PageData' = PageData
  BY DEF sectreq, pagereq, PageData
<1>2. PagesIn(sect)' = PagesIn(sect)
  BY <1>1 DEF PagesIn
<1>3. AtPage => AtPage'
  BY <1>1, <1>2 DEF AtPage
<1>4. Transfer' = Transfer /\ EraseOp' = EraseOp /\ ProgramOp' = ProgramOp
  BY <1>1 DEF Transfer, EraseOp, ProgramOp
<1> QED
  BY <1>1, <1>3, <1>4

(* The first state.                                                        *)
LEMMA Starts == Init => IspInv
<1> SUFFICES ASSUME Init PROVE IspInv
  OBVIOUS
<1> USE DEF Init
<1>1. /\ SECTOR \in Nat \ {0} /\ sectreq \in Nat \ {0}
      /\ Len(image) <= sectreq * SECTOR /\ PAGE \in Nat \ {0}
  BY Sizes
<1>2. IspType
  <2>1. 255 \in Byte /\ PAGE \in Nat
    BY <1>1 DEF Byte
  <2>2. buf \in [1..PAGE -> Byte]
    BY <2>1
  <2>3. args \in Seq(Byte) /\ h2d \in Seq(Byte)
    BY EmptySeq
  <2>4. image \in Images /\ buflen \in 0..256 /\ buflen0 \in {0, 1}
    OBVIOUS
  <2>5. genuine \in BOOLEAN
    BY Zenon
  <2> QED
    BY <2>2, <2>3, <2>4, <2>5 DEF IspType, Probing
<1>3. Phase
  BY DEF Phase, Greeting, Probing, Asked
<1>4. Place
  BY <1>1 DEF Place, Probing, Erasing, Paging
<1>5. Contents
  <2>1. Old(flash, (sect + 1) * SECTOR)
    BY DEF Old
  <2> QED
    BY <2>1 DEF Contents, Sound
<1> QED
  BY <1>2, <1>3, <1>4, <1>5 DEF IspInv

-----------------------------------------------------------------------------
(* The probe.                                                              *)

(* The host sends the two probe bytes.                                     *)
LEMMA ProbeStep == IspInv /\ Probe => IspInv'
<1> SUFFICES ASSUME IspInv, Probe PROVE IspInv'
  OBVIOUS
<1> USE DEF Probe, host, rom, hist
<1>1. IspType /\ Greeting /\ Place /\ Contents /\ rx = <<>> /\ h2d = <<>> /\ rpc # "cmd"
  BY DEF IspInv, Phase, Probing, Greeting
<1>2. h2d' = <<85, 85>>
  BY <1>1
<1>3. IspType'
  BY <1>1, <1>2 DEF IspType, Probing, Byte
<1>4. Phase'
  BY <1>1, <1>2 DEF Phase, Probing, Greeting, Asked
<1>5. Place'
  BY <1>1, PlaceKept DEF Place, Probing, Paging, Erasing
<1>6. Contents'
  BY <1>1 DEF Contents, Sound, Written, Erased, Over, Paging, Greeting
<1> QED
  BY <1>3, <1>4, <1>5, <1>6 DEF IspInv

(* It looks for the answer after the sleep.                                *)
LEMMA ReadProbeStep == IspInv /\ ReadProbe => IspInv'
<1> SUFFICES ASSUME IspInv, ReadProbe PROVE IspInv'
  OBVIOUS
<1> USE DEF ReadProbe, host, rom, hist, Settled
<1>1. IspType /\ Greeting /\ Place /\ Contents /\ h2d = <<>> /\ d2h = <<>> /\ rx = <<>>
  BY DEF IspInv, IspType, Phase, Probing, Greeting
<1>2. rpc = "cmd" => inq = <<86>> \/ inq = <<86, 86>>
  BY <1>1 DEF Greeting, Answered
<1>3. rpc = "cmd" => Head(inq) = 86 /\ inq # <<>> /\ Tail(inq) \in {<<>>, <<86>>}
  <2>1. CASE inq = <<86>>
    BY <2>1
  <2>2. CASE inq = <<86, 86>>
    BY <2>2
  <2> QED
    BY <1>2, <2>1, <2>2
<1>4. /\ hpc' \in {"drain", "undetected", "probe"}
      /\ hpc' = "drain" => genuine' = (rpc = "cmd") /\ inq' = Tail(inq) /\ inq # <<>>
      /\ hpc' # "drain" => genuine' = genuine /\ ~genuine /\ rpc # "cmd"
  <2>1. CASE inq # <<>> /\ Head(inq) = 86
    BY <2>1
  <2>2. CASE ~(inq # <<>> /\ Head(inq) = 86)
    BY <1>1, <1>3, <2>2 DEF Greeting
  <2> QED
    BY <2>1, <2>2
<1>5. genuine' \in BOOLEAN /\ (genuine' => hpc' = "drain" /\ rpc = "cmd")
      /\ (hpc' = "drain" /\ ~genuine' => rpc # "cmd")
  <2>1. CASE hpc' = "drain"
    BY <1>4, <2>1, Zenon
  <2>2. CASE hpc' # "drain"
    <3>1. genuine' = genuine /\ ~genuine /\ genuine \in BOOLEAN
      BY <1>1, <1>4, <2>2 DEF IspType
    <3> QED
      BY <2>2, <3>1, Zenon
  <2> QED
    BY <2>1, <2>2
<1>6. hpc' = "drain" /\ ~genuine' => rpc = "app"
  <2>1. inq # <<>> /\ rpc # "cmd" => rpc = "app"
    BY <1>1 DEF Greeting
  <2> QED
    BY <1>4, <1>5, <2>1
<1>7. IspType'
  BY <1>1, <1>4, <1>5, <1>6 DEF IspType, Probing
<1>8. Phase'
  <2>1. hpc' = "drain" /\ genuine' => Drained'
    BY <1>1, <1>3, <1>4, <1>5 DEF Drained
  <2>2. hpc' \in Probing => Greeting'
    <3> SUFFICES ASSUME hpc' \in Probing PROVE Greeting'
      OBVIOUS
    <3>1. hpc' # "drain" /\ ~genuine' /\ rpc # "cmd"
      BY <1>4, <1>5 DEF Probing
    <3>2. inq' = <<>> \/ rpc = "app"
      BY <1>1, <3>1 DEF Greeting
    <3> QED
      BY <1>1, <3>1, <3>2 DEF Greeting, Asked
  <2> QED
    BY <1>4, <2>1, <2>2 DEF Phase, Probing
<1>9. Place'
  BY <1>1, <1>4, PlaceKept DEF Place, Probing, Paging, Erasing
<1>10. Contents'
  <2>1. ~Erased' /\ Written' = Written /\ Written = 0 /\ Sound' => buflen # 0
    BY <1>1, <1>4 DEF Written, Erased, Paging, Greeting, Sound
  <2>2. Holds(flash, image, 0)
    BY DEF Holds, Flash
  <2> QED
    BY <1>1, <1>4, <2>1, <2>2 DEF Contents, Sound, Written, Greeting, Erased, Paging
<1> QED
  BY <1>7, <1>8, <1>9, <1>10 DEF IspInv

(* It drops the second answer.                                             *)
LEMMA DrainStep == IspInv /\ Drain => IspInv'
<1> SUFFICES ASSUME IspInv, Drain PROVE IspInv'
  OBVIOUS
<1> USE DEF Drain, host, rom, hist, Settled
<1>1. IspType /\ Place /\ Contents /\ (genuine => Drained)
  BY DEF IspInv, Phase
<1>2. IspType'
  BY <1>1 DEF IspType, Probing, Erasing
<1>3. genuine => Quiet' /\ rpc' = "cmd"
  BY <1>1, SMTT(40) DEF Drained, Quiet
<1>4. Phase'
  BY <1>1, <1>3 DEF Phase, Session, Probing
<1>5. Place'
  BY <1>1, PlaceKept DEF Place, Probing, Paging, Erasing
<1>6. Contents'
  BY <1>1 DEF Contents, Sound, Written, Erased, Paging
<1> QED
  BY <1>2, <1>4, <1>5, <1>6 DEF IspInv

-----------------------------------------------------------------------------
(* The host writes and reads at a place.                                   *)

\* A step of the host that reads or writes and stays at its page or sector.
Stays ==
    /\ \/ hpc \in Erasing \ {"esec_done"} /\ hpc' \in Erasing
       \/ hpc \in Paging \ {"wpag_done"} /\ hpc' \in Paging \cup {"failed"}
    /\ hpc' \in {"esec_done", "wpag_done"} => rpc \in {"addr", "app"}
    /\ h2d' \in Seq(Byte)
    /\ UNCHANGED <<image, sect, page, curraddr, rx, rom, hist>>

(* Such a step keeps the invariant.                                        *)
LEMMA StaysStep ==
  ASSUME IspInv, Stays, genuine => Session'
  PROVE  IspInv'
<1> USE DEF Stays, rom, hist
<1>1. IspType /\ Place /\ Contents
  BY DEF IspInv
<1>2. IspType'
  BY <1>1 DEF IspType, Probing, Erasing, Paging
<1>3. Phase'
  BY DEF Phase, Probing, Erasing, Paging
<1>4. Place'
  BY <1>1, PlaceKept DEF Place, Probing, Paging, Erasing
<1>5. Contents'
  <2>1. Written' = Written /\ (Erased' => Erased)
    BY DEF Written, Erased, Erasing, Paging, Over
  <2>2. Sound' => Sound /\ buflen # 0
    BY <1>1 DEF Sound, Contents, Erasing, Paging
  <2> QED
    BY <1>1, <2>1, <2>2 DEF Contents
<1> QED
  BY <1>2, <1>3, <1>4, <1>5 DEF IspInv

(* One byte is read, and nothing is left.                                  *)
LEMMA ReadOne == \A b : <<b>> # <<>> /\ Head(<<b>>) = b /\ Tail(<<b>>) = <<>>
OBVIOUS

(* What the host writes is what is on the line.                            *)
LEMMA Written1 ==
  ASSUME NEW m \in Seq(Byte), h2d \in Seq(Byte), h2d' = h2d \o m
  PROVE  /\ h2d' \in Seq(Byte)
         /\ h2d = <<>> => h2d' = m /\ Sent(m, 0, <<>>, h2d')
<1>1. h2d' \in Seq(Byte)
  OBVIOUS
<1>2. h2d = <<>> => h2d' = m
  BY ConcatEmptySeq
<1> QED
  BY <1>1, <1>2, SentNow

(* The command and the address of an erase are sent.                       *)
LEMMA EsecStep == IspInv /\ Esec /\ ~ (hpc = "esec_done") => IspInv'
<1> SUFFICES ASSUME IspInv, Esec, hpc # "esec_done" PROVE IspInv'
  OBVIOUS
<1> USE DEF Send, Await, host, rom, hist
<1>1. IspType /\ Place /\ (hpc \in Erasing => (genuine => Session) /\ (~genuine => rpc = "app"))
  BY DEF IspInv, Phase, IspType, Probing, Erasing
<1>2. CASE Send("esec", <<48>>, "esec_go")
  <2>1. <<48>> \in Seq(Byte) /\ h2d \in Seq(Byte)
    BY <1>1 DEF Byte, IspType
  <2>2. h2d' \in Seq(Byte) /\ (h2d = <<>> => Sent(<<48>>, 0, <<>>, h2d'))
    BY <1>2, <2>1, Written1
  <2>3. Stays
    BY <1>2, <2>2 DEF Stays, Erasing
  <2>4. genuine => Session'
    <3>1. genuine => rpc = "cmd" /\ Quiet
      BY <1>1, <1>2 DEF Session, Erasing
    <3>2. genuine => rpc' = "cmd" /\ inq' = <<>> /\ d2h' = <<>> /\ Sent(<<48>>, 0, rx', h2d')
      BY <1>2, <2>2, <3>1 DEF Quiet
    <3>3. genuine => Going(48)'
      BY <3>2 DEF Going, Sending
    <3> QED
      BY <1>2, <3>3 DEF Session
  <2> QED
    BY <2>3, <2>4, StaysStep
<1>3. CASE Await("esec_go", "esec_addr")
  <2>1. Stays
    BY <1>1, <1>3 DEF Stays, Erasing, IspType
  <2>2. genuine => Going(48)
    BY <1>1, <1>3 DEF Session, Erasing
  <2>3. genuine => Ready(48) /\ rx = <<>> /\ h2d = <<>> /\ d2h = <<>> /\ inq = <<49>>
    BY <1>3, <2>2 DEF Going, Sending, Reply
  <2>4. genuine => Ready(48)' /\ Quiet'
    BY <1>3, <2>3, ReadOne DEF Quiet, Ready
  <2> QED
    BY <1>3, <2>1, <2>4, StaysStep DEF Session
<1>4. CASE Send("esec_addr", SectorBytes(curraddr), "esec_done")
  <2>1. /\ curraddr = sect * SECTOR /\ image \in Images /\ sect \in 0..sectreq - 1
        /\ h2d \in Seq(Byte)
    BY <1>1, <1>4 DEF Place, IspType, Erasing
  <2> DEFINE m == AddressBytes(curraddr)
  <2>2. SectorBytes(curraddr) = m /\ m \in Seq(Byte) /\ Len(m) = 3
    <3>1. curraddr \in Nat /\ curraddr < 256 * 256 * 256 /\ SectorBytes(curraddr) = m
      BY <2>1, InSector
    <3> QED
      BY <3>1, AddressIs
  <2>3. m' = m
    BY <1>4
  <2> HIDE DEF m
  <2>4. h2d' \in Seq(Byte) /\ (h2d = <<>> => Sent(m, 0, <<>>, h2d'))
    BY <1>4, <2>1, <2>2, Written1
  <2>5. genuine => Ready(48) /\ Quiet
    BY <1>1, <1>4 DEF Session, Erasing
  <2>6. Stays
    BY <1>1, <1>4, <2>4, <2>5 DEF Stays, Erasing, Ready
  <2>7. genuine => Session'
    <3>1. genuine => args' = <<>> /\ rpc' = "addr" /\ instr' = 48
      BY <1>4, <2>5 DEF Ready
    <3>2. genuine => inq' = <<>> /\ d2h' = <<>> /\ Sent(m', 0, rx', h2d')
      BY <1>4, <2>3, <2>4, <2>5 DEF Quiet
    <3>3. genuine => Len(args') = 0
      BY <3>1
    <3>4. genuine => Addressed(48, m)'
      BY <3>1, <3>2, <3>3 DEF Addressed, Sending
    <3>5. genuine => Addressed(48, AddressBytes(curraddr))'
      BY <3>4 DEF m
    <3> QED
      BY <1>4, <3>5 DEF Session
  <2> QED
    BY <2>6, <2>7, StaysStep
<1> QED
  BY <1>2, <1>3, <1>4 DEF Esec

(* The sector has its acknowledgement.                                     *)
LEMMA ErasedStep == IspInv /\ Await("esec_done", "wbuf") => IspInv'
<1> SUFFICES ASSUME IspInv, Await("esec_done", "wbuf") PROVE IspInv'
  OBVIOUS
<1> USE DEF Await, host, rom, hist
<1>1. IspType /\ Place /\ Contents /\ (genuine => Session) /\ (~genuine => rpc = "app")
  BY DEF IspInv, Phase, IspType, Probing
<1>2. genuine => rpc = "cmd" /\ rx = <<>> /\ h2d = <<>> /\ d2h = <<>> /\ inq = <<50>>
  BY <1>1 DEF Session, Addressed, Sending, Working, Quiet, Acknowledged, Reply
<1>3. IspType'
  BY <1>1 DEF IspType, Probing, Paging
<1>4. Phase'
  <2>1. genuine => rpc' = "cmd" /\ Quiet'
    BY <1>2, ReadOne DEF Quiet
  <2> QED
    BY <2>1 DEF Phase, Probing, Session
<1>5. Place'
  <2>1. AtPage
    <3>1. PagesIn(sect) \in 1..SECTPAGES /\ SECTPAGES \in Nat /\ PAGE \in Nat
      BY <1>1, Sizes DEF Place, IspType
    <3>2. curraddr = sect * SECTOR /\ sect * SECTOR \in Nat /\ page = 0
      BY <1>1, InSector DEF Place, Erasing, IspType
    <3>3. page * PAGE = 0 /\ page \in Nat /\ page < PagesIn(sect)
      BY <3>1, <3>2
    <3>4. curraddr = sect * SECTOR + page * PAGE
      BY <3>2, <3>3
    <3> QED
      BY <1>1, <3>3, <3>4 DEF AtPage, Place, IspType
  <2> QED
    BY <1>1, <2>1, PlaceKept DEF Place, Probing, Paging, Erasing
<1>6. Contents'
  BY <1>1, <1>2 DEF Contents, Sound, Written, Erased, Paging, Over
<1> QED
  BY <1>3, <1>4, <1>5, <1>6 DEF IspInv

(* The page and its length are bytes.                                      *)
LEMMA TransferIs ==
  ASSUME AtPage
  PROVE  /\ Transfer \in Seq(Byte) /\ Len(Transfer) = Len(PageData) + 1
         /\ Transfer[1] = Len(PageData) - 1
         /\ \A i \in 1..Len(PageData) : Transfer[1 + i] = PageData[i]
<1>1. PageData \in Seq(Byte) /\ Len(PageData) \in 1..256
  BY DataOfPage
<1> DEFINE p == PageData
           n == Len(PageData) - 1
<1>2. n \in Byte /\ <<n>> \in Seq(Byte) /\ Len(p) = n + 1 /\ Len(p) \in Nat
  BY <1>1 DEF Byte
<1>3. Transfer = <<n>> \o p /\ p \in Seq(Byte)
  BY <1>1 DEF Transfer
<1> HIDE DEF p, n
<1>4. /\ Transfer \in Seq(Byte) /\ Len(Transfer) = Len(p) + 1 /\ Transfer[1] = n
      /\ \A i \in 1..Len(p) : Transfer[1 + i] = p[i]
  BY <1>2, <1>3
<1> QED
  BY <1>4, SMTT(40) DEF p, n

(* A page goes to the ROM.                                                 *)
LEMMA WbufStep == IspInv /\ Wbuf => IspInv'
<1> SUFFICES ASSUME IspInv, Wbuf PROVE IspInv'
  OBVIOUS
<1> USE DEF Send, Await, host, rom, hist
<1>1. IspType /\ (hpc \in Paging => AtPage /\ (genuine => Session) /\ (~genuine => rpc = "app"))
  BY DEF IspInv, Phase, IspType, Probing, Paging, Place
<1>2. h2d \in Seq(Byte)
  BY <1>1 DEF IspType
<1>3. CASE Send("wbuf", <<16>>, "wbuf_go")
  <2>1. <<16>> \in Seq(Byte)
    BY DEF Byte
  <2>2. h2d' \in Seq(Byte) /\ (h2d = <<>> => Sent(<<16>>, 0, <<>>, h2d'))
    BY <1>2, <1>3, <2>1, Written1
  <2>3. Stays
    BY <1>3, <2>2 DEF Stays, Paging
  <2>4. genuine => Session'
    <3>1. genuine => rpc = "cmd" /\ Quiet
      BY <1>1, <1>3 DEF Session, Paging
    <3>2. genuine => rpc' = "cmd" /\ inq' = <<>> /\ d2h' = <<>> /\ Sent(<<16>>, 0, rx', h2d')
      BY <1>3, <2>2, <3>1 DEF Quiet
    <3>3. genuine => rpc' = "cmd" /\ Sending(<<16>>, 0)'
      BY <3>2 DEF Sending
    <3> QED
      BY <1>3, <3>3 DEF Session
  <2> QED
    BY <2>3, <2>4, StaysStep
<1>4. CASE Await("wbuf_go", "wbuf_data")
  <2>1. Stays
    BY <1>2, <1>4 DEF Stays, Paging
  <2>2. genuine => rpc = "len" /\ args = <<>> /\ Reply(17) /\ inq = <<17>>
    BY <1>1, <1>4 DEF Session, Paging, Sending, Reply
  <2>3. genuine => rpc' = "len" /\ args' = <<>> /\ Quiet'
    BY <1>4, <2>2, ReadOne DEF Quiet, Reply
  <2> QED
    BY <1>4, <2>1, <2>3, StaysStep DEF Session
<1>5. CASE Send("wbuf_data", <<Len(PageData) - 1>> \o PageData, "chksum")
  <2>1. Transfer \in Seq(Byte) /\ Transfer' = Transfer /\ h2d' = h2d \o Transfer
    BY <1>1, <1>5, TransferIs, PlaceKept DEF Paging, Transfer
  <2>2. h2d' \in Seq(Byte) /\ (h2d = <<>> => Sent(Transfer, 0, <<>>, h2d'))
    BY <1>2, <2>1, Written1
  <2>3. Stays
    BY <1>5, <2>2 DEF Stays, Paging
  <2>4. genuine => Session'
    <3>1. genuine => rpc = "len" /\ args = <<>> /\ Quiet
      BY <1>1, <1>5 DEF Session, Paging
    <3>2. genuine => rpc' = "len" /\ args' = <<>> /\ Sending(Transfer, 0)'
      BY <1>5, <2>1, <2>2, <3>1 DEF Quiet, Sending
    <3> QED
      BY <1>5, <3>2 DEF Session
  <2> QED
    BY <2>3, <2>4, StaysStep
<1> QED
  BY <1>3, <1>4, <1>5 DEF Wbuf

(* A checksum that is right verifies the ROM's buffer.                     *)
LEMMA ChecksumVerifies ==
  ASSUME AtPage, buf \in [1..PAGE -> Byte], buflen = Len(PageData), Almost(PageData, buf),
         Chksum(SubSeq(buf, 1, Len(PageData))) = Chksum(PageData)
  PROVE  Verified
<1> DEFINE p == PageData
           n == Len(p)
           s == SubSeq(buf, 1, n)
<1>1. p \in Seq(Byte) /\ n \in 1..PAGE /\ PAGE \in Nat
  BY DataOfPage, Sizes DEF AtPage
<1>2. PICK j \in Nat : \A i \in 1..n : i # j => buf[i] = p[i]
  BY DEF Almost
<1>3. Chksum(s) = Chksum(p) /\ buflen = n
  OBVIOUS
<1> HIDE DEF p
<1>4. n \in Nat
  BY <1>1
<1>5. \A i \in 1..n : buf[i] \in Byte
  BY <1>1
<1>6. s \in Seq(Byte) /\ Len(s) = n /\ \A i \in 1..n : s[i] = buf[i]
  <2> HIDE DEF n
  <2> QED
    BY <1>1, <1>4, <1>5
<1> HIDE DEF n, s
<1>7. \A i \in 1..n : s[i] = p[i]
  BY <1>1, <1>2, <1>3, <1>6, OneByte, ZenonT(40) DEF n
<1> QED
  BY <1>3, <1>6, <1>7, SMTT(40) DEF Verified, n, p

(* The checksum is read: the page is verified, or sent again.              *)
LEMMA CheckSumStep == IspInv /\ CheckSum => IspInv'
<1> SUFFICES ASSUME IspInv, CheckSum PROVE IspInv'
  OBVIOUS
<1> USE DEF CheckSum, host, rom, hist
<1>1. IspType /\ AtPage /\ (genuine => Session) /\ (~genuine => rpc = "app")
  BY DEF IspInv, Phase, IspType, Probing, Paging, Place
<1>2. Stays
  BY <1>1 DEF Stays, Paging, IspType
<1>3. genuine => rpc = "cmd" /\ HeardAll
  BY <1>1 DEF Session, Sending, HeardPage
<1>4. genuine => inq = <<Chksum(SubSeq(buf, 1, Len(PageData)))>> /\ rx = <<>> /\ h2d = <<>> /\ d2h = <<>>
  BY <1>3 DEF HeardAll, Reply
<1>5. genuine => Quiet' /\ rpc' = "cmd"
  BY <1>3, <1>4, ReadOne DEF Quiet
<1>6. genuine /\ hpc' = "wpag" => Verified'
  <2> SUFFICES ASSUME genuine, hpc' = "wpag" PROVE Verified'
    OBVIOUS
  <2>1. Head(inq) = Chksum(PageData)
    <3>1. CASE Head(inq) = Chksum(PageData)
      BY <3>1
    <3>2. CASE Head(inq) # Chksum(PageData)
      BY <3>2
    <3> QED
      BY <3>1, <3>2
  <2>2. Chksum(SubSeq(buf, 1, Len(PageData))) = Chksum(PageData)
    BY <1>4, <2>1, ReadOne
  <2>3. Verified
    BY <1>1, <1>3, <2>2, ChecksumVerifies DEF HeardAll, IspType
  <2>4. PageData' = PageData
    BY PlaceKept
  <2> QED
    BY <2>3, <2>4 DEF Verified
<1>7. hpc' \in {"wpag", "failed", "wbuf"}
  OBVIOUS
<1>8. genuine => Session'
  BY <1>5, <1>6, <1>7 DEF Session
<1> QED
  BY <1>2, <1>8, StaysStep

(* The command and the address of a page are sent.                         *)
LEMMA WpagStep == IspInv /\ Wpag => IspInv'
<1> SUFFICES ASSUME IspInv, Wpag PROVE IspInv'
  OBVIOUS
<1> USE DEF Send, Await, host, rom, hist
<1>1. IspType /\ (hpc \in Paging => AtPage /\ (genuine => Session) /\ (~genuine => rpc = "app"))
  BY DEF IspInv, Phase, IspType, Probing, Paging, Place
<1>2. h2d \in Seq(Byte)
  BY <1>1 DEF IspType
<1>3. PageData' = PageData
  BY PlaceKept DEF Wpag
<1>4. CASE Send("wpag", <<64>>, "wpag_go")
  <2>1. <<64>> \in Seq(Byte)
    BY DEF Byte
  <2>2. h2d' \in Seq(Byte) /\ (h2d = <<>> => Sent(<<64>>, 0, <<>>, h2d'))
    BY <1>2, <1>4, <2>1, Written1
  <2>3. Stays
    BY <1>4, <2>2 DEF Stays, Paging
  <2>4. genuine => Session'
    <3>1. genuine => rpc = "cmd" /\ Quiet /\ Verified
      BY <1>1, <1>4 DEF Session, Paging
    <3>2. genuine => rpc' = "cmd" /\ inq' = <<>> /\ d2h' = <<>> /\ Sent(<<64>>, 0, rx', h2d')
      BY <1>4, <2>2, <3>1 DEF Quiet
    <3>3. genuine => Going(64)'
      BY <3>2 DEF Going, Sending
    <3>4. genuine => Verified'
      BY <1>3, <1>4, <3>1 DEF Verified
    <3> QED
      BY <1>4, <3>3, <3>4 DEF Session
  <2> QED
    BY <2>3, <2>4, StaysStep
<1>5. CASE Await("wpag_go", "wpag_addr")
  <2>1. Stays
    BY <1>2, <1>5 DEF Stays, Paging
  <2>2. genuine => Going(64) /\ Verified
    BY <1>1, <1>5 DEF Session, Paging
  <2>3. genuine => Ready(64) /\ rx = <<>> /\ h2d = <<>> /\ d2h = <<>> /\ inq = <<65>>
    BY <1>5, <2>2 DEF Going, Sending, Reply
  <2>4. genuine => Ready(64)' /\ Quiet'
    BY <1>5, <2>3, ReadOne DEF Quiet, Ready
  <2>5. genuine => Verified'
    BY <1>3, <1>5, <2>2 DEF Verified
  <2> QED
    BY <1>5, <2>1, <2>4, <2>5, StaysStep DEF Session
<1>6. CASE Send("wpag_addr", AddressBytes(curraddr), "wpag_done")
  <2> DEFINE m == AddressBytes(curraddr)
  <2>1. m \in Seq(Byte) /\ Len(m) = 3
    <3>1. AtPage
      BY <1>1, <1>6 DEF Paging
    <3>2. curraddr \in Nat /\ curraddr < 256 * 256 * 256
      BY <3>1, AddressFits
    <3> QED
      BY <3>2, AddressIs
  <2>2. m' = m /\ h2d' = h2d \o m
    BY <1>6
  <2> HIDE DEF m
  <2>3. h2d' \in Seq(Byte) /\ (h2d = <<>> => Sent(m, 0, <<>>, h2d'))
    BY <1>2, <2>1, <2>2, Written1
  <2>4. genuine => Ready(64) /\ Quiet /\ Verified
    BY <1>1, <1>6 DEF Session, Paging
  <2>5. Stays
    BY <1>1, <1>6, <2>3, <2>4 DEF Stays, Paging, Ready
  <2>6. genuine => Session'
    <3>1. genuine => args' = <<>> /\ rpc' = "addr" /\ instr' = 64
      BY <1>6, <2>4 DEF Ready
    <3>2. genuine => inq' = <<>> /\ d2h' = <<>> /\ Sent(m', 0, rx', h2d')
      BY <1>6, <2>2, <2>3, <2>4 DEF Quiet
    <3>3. genuine => Len(args') = 0
      BY <3>1
    <3>4. genuine => Addressed(64, m)'
      BY <3>1, <3>2, <3>3 DEF Addressed, Sending
    <3>5. genuine => Addressed(64, AddressBytes(curraddr))'
      BY <3>4 DEF m
    <3>6. genuine => Verified'
      BY <1>3, <1>6, <2>4 DEF Verified
    <3> QED
      BY <1>6, <3>5, <3>6 DEF Session
  <2> QED
    BY <2>5, <2>6, StaysStep
<1> QED
  BY <1>4, <1>5, <1>6 DEF Wpag

(* The page is acknowledged; the next page, sector or the end.             *)
LEMMA NextPageStep == IspInv /\ NextPage => IspInv'
<1> SUFFICES ASSUME IspInv, NextPage PROVE IspInv'
  OBVIOUS
<1> USE DEF NextPage, rom, hist
<1>1. IspType /\ AtPage /\ Contents /\ (genuine => Session) /\ (~genuine => rpc = "app")
  BY DEF IspInv, Phase, IspType, Probing, Paging, Place
<1>2. genuine => rpc = "cmd" /\ rx = <<>> /\ h2d = <<>> /\ d2h = <<>> /\ inq = <<66>>
  BY <1>1 DEF Session, Addressed, Sending, Working, Quiet, Acknowledged, Reply
<1>3. sectreq' = sectreq /\ pagereq' = pagereq /\ image' = image
  BY DEF sectreq, pagereq
<1>4. /\ sect \in Nat /\ sect \in 0..sectreq - 1 /\ page \in Nat
      /\ sectreq \in Nat \ {0} /\ PagesIn(sect) \in Nat /\ curraddr' = curraddr + PAGE
  BY <1>1, Sizes, SMTT(40) DEF AtPage
<1>5. IspType' /\ hpc' \in {"wbuf", "esec", "rst"}
  BY <1>1 DEF IspType, Probing, Paging, Erasing
<1>6. Phase'
  <2>1. genuine => rpc' = "cmd" /\ Quiet'
    BY <1>2, ReadOne DEF Quiet
  <2> QED
    BY <1>5, <2>1 DEF Phase, Probing, Session
<1>7. Sound => /\ Holds(flash, image, curraddr + PAGE) /\ buflen # 0
               /\ Blank(flash, curraddr + PAGE, (sect + 1) * SECTOR)
  BY <1>1, <1>2 DEF Contents, Sound, Written, Erased, Paging, Over
<1>8. Old(flash, (sect + 1) * SECTOR) /\ (Sound' => Sound) /\ flash' = flash /\ buflen' = buflen
  BY <1>1 DEF Contents, Sound
<1>9. CASE page + 1 < PagesIn(sect) /\ page' = page + 1 /\ hpc' = "wbuf" /\ UNCHANGED sect
  <2>1. PagesIn(sect') = PagesIn(sect)
    BY <1>9
  <2>2. AtPage'
    <3>1. page' \in Nat /\ page' < PagesIn(sect)' /\ sect' \in 0..sectreq' - 1 /\ image' \in Images
      BY <1>1, <1>3, <1>4, <1>9 DEF AtPage, PagesIn
    <3>2. curraddr' = sect' * SECTOR + page' * PAGE
      BY <1>1, <1>4, <1>9, PageAfter
    <3> QED
      BY <3>1, <3>2 DEF AtPage
  <2>3. Place'
    BY <1>9, <2>2 DEF Place, Probing, Paging, Erasing, AtPage
  <2>4. Contents'
    BY <1>3, <1>4, <1>7, <1>8, <1>9 DEF Contents, Written, Erased, Paging
  <2> QED
    BY <1>5, <1>6, <2>3, <2>4 DEF IspInv
<1>10. CASE /\ page + 1 = PagesIn(sect) /\ sect + 1 < sectreq
            /\ page' = 0 /\ sect' = sect + 1 /\ hpc' = "esec"
  <2>1. curraddr' = (sect + 1) * SECTOR
    BY <1>1, <1>4, <1>10, PageAfter
  <2>2. Place'
    BY <1>3, <1>4, <1>10, <2>1 DEF Place, Probing, Paging, Erasing
  <2>3. Old(flash, (sect' + 1) * SECTOR)
    <3>1. (sect + 1) * SECTOR <= (sect' + 1) * SECTOR
      <4>1. sect + 1 \in Nat /\ sect' + 1 \in Nat /\ SECTOR \in Nat /\ sect + 1 <= sect' + 1
        BY <1>1, <1>4, <1>10, Sizes DEF AtPage
      <4> QED
        BY <4>1, Monotone
    <3> DEFINE x == (sect + 1) * SECTOR
               y == (sect' + 1) * SECTOR
    <3>2. x \in Nat /\ y \in Nat /\ x <= y /\ Old(flash, x)
      <4>1. sect + 1 \in Nat /\ sect' + 1 \in Nat /\ SECTOR \in Nat
        BY <1>1, <1>4, <1>10, Sizes DEF AtPage
      <4> QED
        BY <1>8, <3>1, <4>1, Products
    <3> HIDE DEF x, y
    <3>3. Old(flash, y)
      BY <3>2, Fits, <1>1 DEF Old, AtPage
    <3> QED
      BY <3>3 DEF y
  <2>4. Contents'
    BY <1>3, <1>4, <1>7, <1>8, <1>10, <2>1, <2>3 DEF Contents, Written, Erased, Paging
  <2> QED
    BY <1>5, <1>6, <2>2, <2>4 DEF IspInv
<1>11. CASE /\ page + 1 = PagesIn(sect) /\ sect + 1 = sectreq
            /\ hpc' = "rst" /\ UNCHANGED <<page, sect>>
  <2>1. curraddr' = pagereq * PAGE
    BY <1>1, <1>4, <1>11, PageAfter
  <2>2. Place'
    BY <1>3, <1>4, <1>11, <2>1 DEF Place, Probing, Paging, Erasing
  <2>3. Contents'
    BY <1>3, <1>4, <1>7, <1>8, <1>11 DEF Contents, Written, Erased, Paging
  <2> QED
    BY <1>5, <1>6, <2>2, <2>3 DEF IspInv
<1> QED
  BY <1>9, <1>10, <1>11

(* The address on the line is bytes.                                       *)
LEMMA AddressTyped ==
  ASSUME IspType, Place
  PROVE  hpc \in Erasing \cup Paging
           => AddressBytes(curraddr) \in Seq(Byte) /\ Len(AddressBytes(curraddr)) = 3
<1>1. hpc \in Erasing => curraddr \in Nat /\ curraddr < 256 * 256 * 256
  BY InSector DEF IspType, Place
<1>2. hpc \in Paging => curraddr \in Nat /\ curraddr < 256 * 256 * 256
  BY AddressFits DEF Place
<1> QED
  BY <1>1, <1>2, AddressIs

(* The reset at the end.                                                   *)
LEMMA RstStep == IspInv /\ Rst => IspInv'
<1> SUFFICES ASSUME IspInv, Rst PROVE IspInv'
  OBVIOUS
<1> USE DEF Rst, Send, host, rom, hist
<1>1. IspType /\ Place /\ Contents /\ (genuine => Session) /\ (~genuine => rpc = "app")
  BY DEF IspInv, Phase, IspType, Probing
<1>2. <<240>> \in Seq(Byte) /\ h2d \in Seq(Byte)
  BY <1>1 DEF Byte, IspType
<1>3. h2d' \in Seq(Byte) /\ (h2d = <<>> => Sent(<<240>>, 0, <<>>, h2d'))
  BY <1>2, Written1
<1>4. IspType'
  BY <1>1, <1>3 DEF IspType, Probing
<1>5. Phase'
  <2>1. genuine => rpc = "cmd" /\ Quiet
    BY <1>1 DEF Session
  <2>2. genuine => rpc' = "cmd" /\ Sending(<<240>>, 0)'
    BY <1>3, <2>1 DEF Quiet, Sending
  <2> QED
    BY <2>2 DEF Phase, Probing, Session
<1>6. Place'
  BY <1>1, PlaceKept DEF Place, Probing, Paging, Erasing
<1>7. Contents'
  BY <1>1 DEF Contents, Sound, Written, Erased
<1> QED
  BY <1>4, <1>5, <1>6, <1>7 DEF IspInv

-----------------------------------------------------------------------------
(* The line.                                                               *)

\* A step of the line or of the ROM: the host and the flash stay.
Aside == UNCHANGED <<host, hpc, op, flash, buflen0, genuine>>

(* What such a step does not touch, and what it must keep.                 *)
LEMMA AsideStep ==
  ASSUME IspInv, Aside, IspType', Phase',
         Sound /\ hpc \in {"esec_done", "wpag_done"} => (Over' <=> Over),
         Sound /\ hpc # "done" => buflen' # 0
  PROVE  IspInv'
<1> USE DEF Aside, host
<1>1. Place /\ Contents
  BY DEF IspInv
<1>2. Place'
  BY <1>1, PlaceKept DEF Place
<1>3. Contents'
  <2>1. Sound => Written' = Written /\ (Erased' => Erased)
    BY DEF Written, Erased
  <2>2. Sound' => Sound
    BY DEF Sound
  <2> QED
    BY <1>1, <2>1, <2>2 DEF Contents
<1> QED
  BY <1>2, <1>3 DEF IspInv

(* A byte of a message reaches the ROM.                                    *)
LEMMA SendingMoves ==
  ASSUME NEW m \in Seq(Byte), NEW k \in Nat, Sending(m, k), h2d \in Seq(Byte), h2d # <<>>,
         rx = <<>>, rx' = <<Head(h2d)>>, h2d' = Tail(h2d), UNCHANGED <<inq, d2h>>
  PROVE  inq' = <<>> /\ d2h' = <<>> /\ Sent(m, k, rx', h2d')
<1>1. Sent(m, k, rx, h2d) /\ inq = <<>> /\ d2h = <<>>
  BY DEF Sending
<1>2. rx = <<>> => Sent(m, k, <<Head(h2d)>>, Tail(h2d))
  BY <1>1, SentMoves
<1> QED
  BY <1>1, <1>2

(* While the flash works nothing is on the line.                           *)
LEMMA FlashQuiet ==
  ASSUME IspInv, rpc = "flash"
  PROVE  /\ genuine /\ Session /\ Quiet /\ hpc \in {"esec_done", "wpag_done"}
         /\ hpc = "esec_done" => Working(48, EraseOp)
         /\ hpc = "wpag_done" => Working(64, ProgramOp) /\ buflen # 0
<1>1. IspType /\ Phase
  BY DEF IspInv
<1>2. hpc \notin Probing \cup {"drain"} /\ genuine /\ Session
  BY <1>1 DEF IspType, Phase, Greeting, Drained
<1>3. hpc \in Erasing \cup Paging \cup {"rst", "done", "failed"}
  BY <1>1, <1>2 DEF IspType
<1>4. hpc \in {"esec_done", "wpag_done"}
  BY <1>2, <1>3 DEF Erasing, Paging, Session, Going, Ready
<1>5. /\ hpc = "esec_done" => Working(48, EraseOp)
      /\ hpc = "wpag_done" => Working(64, ProgramOp) /\ buflen # 0
  BY <1>2 DEF Session, Addressed, Acknowledged
<1> QED
  BY <1>2, <1>4, <1>5 DEF Working

(* A ROM that is off is being probed.                                      *)
LEMMA OffProbing == IspInv /\ rpc = "off" => hpc \in Probing
<1> SUFFICES ASSUME IspInv, rpc = "off", hpc \notin Probing PROVE FALSE
  OBVIOUS
<1>1. IspType /\ Phase
  BY DEF IspInv
<1>2. genuine /\ hpc # "drain" /\ Session
  BY <1>1 DEF IspType, Phase, Drained
<1>3. hpc \in Erasing \cup Paging \cup {"rst", "done", "failed"}
  BY <1>1, <1>2 DEF IspType
<1> QED
  BY <1>2, <1>3 DEF Erasing, Paging, Session, Going, Ready, Addressed, Working, Acknowledged

(* A byte arrives at a ROM that has room for it.                           *)
LEMMA Arrives ==
  ASSUME IspInv, h2d # <<>>, NEW b, Receive(b)
  PROVE  /\ rx = <<>> /\ ~overrun' /\ rpc # "flash"
         /\ rpc \in {"off", "app"} => rx' = <<>>
         /\ rpc \notin {"off", "app"} => rx' = <<b>>
<1>1. IspType /\ Phase
  BY DEF IspInv
<1>2. rpc # "flash"
  BY FlashQuiet DEF Quiet
<1>3. rpc = "off" => rx = <<>>
  BY <1>1, OffProbing DEF Phase, Greeting
<1>4. rx = <<>>
  BY <1>1, <1>2, <1>3 DEF IspType, Receive, Listening
<1>5. rpc \in {"off", "app"} => rx' = <<>> /\ overrun' = overrun
  BY <1>4 DEF Receive
<1>6. rpc \notin {"off", "app"} => rx' = <<b>> /\ overrun' = (overrun \/ rx # <<>>)
  BY DEF Receive
<1>7. ~overrun
  BY <1>1 DEF IspType
<1>8. ~overrun'
  BY <1>4, <1>5, <1>6, <1>7, Zenon
<1> QED
  BY <1>2, <1>4, <1>5, <1>6, <1>8

(* The next byte arrives in the empty buffer of the ROM.                   *)
LEMMA ToBoardStep == IspInv /\ ToBoard => IspInv'
<1> SUFFICES ASSUME IspInv, ToBoard PROVE IspInv'
  OBVIOUS
<1> USE DEF ToBoard, host, rom
<1>1. IspType /\ Place /\ Phase
  BY DEF IspInv
<1>2. /\ h2d \in Seq(Byte) /\ h2d # <<>> /\ Head(h2d) \in Byte /\ Tail(h2d) \in Seq(Byte)
      /\ h2d' = Tail(h2d)
  BY <1>1, HeadTailProperties DEF IspType
<1>3. /\ rx = <<>> /\ ~overrun'
      /\ rpc \in {"off", "app"} => rx' = <<>>
      /\ rpc \notin {"off", "app"} => rx' = <<Head(h2d)>>
  BY <1>2, Arrives
<1>4. IspType'
  BY <1>1, <1>2, <1>3 DEF IspType
<1>5. hpc \in Probing => Greeting'
  <2> SUFFICES ASSUME hpc \in Probing PROVE Greeting'
    OBVIOUS
  <2>1. Greeting /\ h2d \in {<<85>>, <<85, 85>>}
    BY <1>1, <1>2 DEF Phase, Greeting, Asked
  <2>2. Head(h2d) = 85 /\ h2d' \in {<<>>, <<85>>} /\ Len(h2d') <= 1
    <3>1. CASE h2d = <<85>>
      BY <1>2, <3>1
    <3>2. CASE h2d = <<85, 85>>
      BY <1>2, <3>2
    <3> QED
      BY <2>1, <3>1, <3>2
  <2>3. rx' \in {<<>>, <<85>>} /\ Len(rx') <= 1
    <3>1. rx' = <<>> \/ rx' = <<85>>
      BY <1>3, <2>2
    <3>2. Len(<<>>) <= 1 /\ Len(<<85>>) <= 1
      OBVIOUS
    <3> QED
      BY <3>1, <3>2, Zenon
  <2>4. Asked'
    BY <2>2, <2>3 DEF Asked
  <2>5. rpc = "cmd" => Answered'
    <3> SUFFICES ASSUME rpc = "cmd" PROVE Answered'
      OBVIOUS
    <3>1. Answered /\ rx' = <<85>>
      BY <1>3, <2>1, <2>2 DEF Greeting
    <3>2. h2d = <<85>> /\ h2d' = <<>>
      BY <1>2, <1>3, <2>1, <3>1 DEF Answered
    <3>3. <<inq, d2h>> \in {<<<<86>>, <<>>>>, <<<<>>, <<86>>>>}
      BY <3>1, <3>2 DEF Answered
    <3> QED
      BY <3>1, <3>2, <3>3 DEF Answered
  <2> QED
    BY <1>2, <1>3, <2>1, <2>3, <2>4, <2>5 DEF Greeting
<1>6. genuine /\ Session /\ hpc \notin Probing \cup {"drain"} => Session'
  <2> SUFFICES ASSUME genuine, Session, hpc \notin Probing \cup {"drain"} PROVE Session'
    OBVIOUS
  <2>1. /\ PageData' = PageData /\ Transfer' = Transfer /\ UNCHANGED <<inq, d2h, args, buf, hit>>
        /\ UNCHANGED <<hpc, rpc, instr, buflen, op, curraddr, sect>>
    BY PlaceKept
  <2>2. ASSUME NEW m \in Seq(Byte), NEW k \in Nat, Sending(m, k), rpc \notin {"off", "app"}
        PROVE  inq' = <<>> /\ d2h' = <<>> /\ Sent(m, k, rx', h2d')
    BY <1>2, <1>3, <2>2, SendingMoves
  <2>3. Going(48) => Going(48)'
    <3>1. Going(48) => rpc = "cmd" /\ Sending(<<48>>, 0)
      BY <1>2 DEF Going, Reply
    <3>2. <<48>> \in Seq(Byte)
      BY DEF Byte
    <3> QED
      BY <2>1, <2>2, <3>1, <3>2 DEF Going, Sending
  <2>4. Going(64) => Going(64)'
    <3>1. Going(64) => rpc = "cmd" /\ Sending(<<64>>, 0)
      BY <1>2 DEF Going, Reply
    <3>2. <<64>> \in Seq(Byte)
      BY DEF Byte
    <3> QED
      BY <2>1, <2>2, <3>1, <3>2 DEF Going, Sending
  <2>5. ASSUME NEW c, Addressed(c, AddressBytes(curraddr)), AddressBytes(curraddr) \in Seq(Byte)
        PROVE  Addressed(c, AddressBytes(curraddr))'
    <3> DEFINE m == AddressBytes(curraddr)
               k == Len(args)
    <3>1. k \in Nat /\ args \in Seq(Byte)
      BY <1>1 DEF IspType
    <3>2. Sending(m, k) /\ rpc = "addr"
      BY <2>5 DEF Addressed
    <3>3. m' = m /\ k' = k
      BY <2>1
    <3>4. m \in Seq(Byte)
      BY <2>5
    <3> HIDE DEF m, k
    <3>5. inq' = <<>> /\ d2h' = <<>> /\ Sent(m, k, rx', h2d')
      BY <2>2, <3>1, <3>2, <3>4
    <3>6. Sending(m, k)'
      BY <3>3, <3>5 DEF Sending
    <3> QED
      BY <2>1, <2>5, <3>6 DEF Addressed, m, k
  <2>6. HeardPage /\ hpc = "chksum" /\ rpc = "data" => HeardPage'
    <3> SUFFICES ASSUME HeardPage, hpc = "chksum", rpc = "data" PROVE HeardPage'
      BY SMTT(40)
    <3> DEFINE p == PageData
               k == Len(args)
    <3>1. p \in Seq(Byte) /\ k \in Nat
      BY <1>1, DataOfPage, SMTT(40) DEF Place, Paging, IspType
    <3>2. Heard(p, args, rx, h2d, hit)
      BY DEF HeardPage
    <3> HIDE DEF p
    <3>3. k < Len(p) /\ Rest(p, k, h2d)
      BY <1>3, <3>2 DEF Heard
    <3>4. Head(h2d) = p[k + 1] /\ Rest(p, k + 1, Tail(h2d))
      BY <1>2, <3>1, <3>3, RestTail
    <3>5. rx' = <<p[k + 1]>> /\ rx' # <<>> /\ rx'[1] = p[k + 1]
      BY <1>3, <3>4
    <3>6. PICK j \in Nat : (j # 0 => hit) /\ \A i \in 1..Len(args) : i # j => args[i] = p[i]
      BY <3>2 DEF Heard
    <3>7. Heard(p, args, rx', h2d', hit)
      BY <1>2, <3>3, <3>4, <3>5, <3>6 DEF Heard
    <3>8. Heard(PageData', args', rx', h2d', hit')
      BY <2>1, <3>7 DEF p
    <3> QED
      BY <2>1, <3>8 DEF HeardPage
  <2>7. Verified => Verified'
    BY <2>1 DEF Verified
  <2>8. hpc \in Erasing \cup Paging \cup {"rst", "done", "failed"}
    BY <1>1 DEF IspType
  <2>9. ~Quiet /\ \A b : ~Reply(b)
    BY <1>2 DEF Quiet, Reply
  <2>10. hpc \in Paging => Transfer \in Seq(Byte)
    BY <1>1, TransferIs DEF Place, Paging
  <2>11. hpc \in {"esec_done", "wpag_done"} => AddressBytes(curraddr) \in Seq(Byte)
    BY <1>1, AddressTyped DEF Erasing, Paging
  <2>12. hpc = "esec_done" => Addressed(48, AddressBytes(curraddr))'
    BY <2>5, <2>9, <2>11 DEF Session, Working, Acknowledged
  <2>13. hpc = "wpag_done" => Addressed(64, AddressBytes(curraddr))' /\ Verified'
    BY <2>5, <2>7, <2>9, <2>11 DEF Session, Working, Acknowledged
  <2>14. hpc = "wbuf_go" => rpc' = "cmd" /\ Sending(<<16>>, 0)'
    <3>1. <<16>> \in Seq(Byte)
      BY DEF Byte
    <3> QED
      BY <2>1, <2>2, <2>9, <3>1 DEF Session, Sending
  <2>15. hpc = "done" => rpc' = "cmd" /\ Sending(<<240>>, 0)'
    <3>1. <<240>> \in Seq(Byte)
      BY DEF Byte
    <3> QED
      BY <1>2, <2>1, <2>2, <3>1 DEF Session, Sending
  <2>16. hpc = "chksum" => \/ rpc' = "len" /\ args' = <<>> /\ Sending(Transfer, 0)'
                           \/ rpc' = "data" /\ HeardPage'
    <3>1. hpc = "chksum" => \/ rpc = "len" /\ args = <<>> /\ Sending(Transfer, 0)
                            \/ rpc = "data" /\ HeardPage
      BY <2>9 DEF Session, HeardAll
    <3>2. hpc = "chksum" /\ rpc = "len" /\ Sending(Transfer, 0) => Sending(Transfer, 0)'
      BY <2>1, <2>2, <2>10 DEF Paging, Sending
    <3> QED
      BY <2>1, <2>6, <3>1, <3>2
  <2> QED
    BY <2>1, <2>3, <2>4, <2>7, <2>8, <2>9, <2>12, <2>13, <2>14, <2>15, <2>16 DEF Session
<1>7. Phase'
  <2>1. hpc = "drain" => ~genuine
    BY <1>1, <1>2 DEF Phase, Drained
  <2> QED
    BY <1>1, <1>5, <1>6, <2>1 DEF Phase, hist
<1> QED
  BY <1>4, <1>7, AsideStep DEF Aside, IspInv, Contents, Over

(* Where the session is, by what the ROM is doing.                         *)
LEMMA RomAt ==
  ASSUME IspInv
  PROVE  /\ rpc = "data" => genuine /\ Session /\ hpc = "chksum" /\ HeardPage /\ AtPage
         /\ rpc = "len" => /\ genuine /\ Session /\ args = <<>> /\ AtPage
                           /\ hpc \in {"wbuf_go", "wbuf_data", "chksum"}
         /\ rpc = "addr" => /\ genuine /\ Session
                            /\ hpc \in {"esec_go", "esec_addr", "esec_done",
                                        "wpag_go", "wpag_addr", "wpag_done"}
         /\ rpc = "wait" => hpc \in Probing \/ (hpc = "done" /\ genuine /\ rx = <<>> /\ h2d = <<>>)
         /\ rpc = "cmd" /\ rx # <<>> =>
              hpc \in Probing \/ (genuine /\ Session /\ hpc \in {"esec_go", "wbuf_go", "wpag_go", "done"})
<1>1. IspType /\ Phase /\ Place
  BY DEF IspInv
<1>2. hpc \in Probing => rpc \notin {"data", "len", "addr"}
  BY <1>1 DEF Phase, Greeting
<1>3. hpc = "drain" => rpc \notin {"data", "len", "addr", "wait"} /\ (rpc = "cmd" => rx = <<>>)
  BY <1>1 DEF Phase, Drained, IspType, Probing
<1>4. hpc \notin Probing \cup {"drain"} =>
        /\ hpc \in Erasing \cup Paging \cup {"rst", "done", "failed"}
        /\ genuine => Session
        /\ ~genuine => rpc = "app"
  BY <1>1 DEF IspType, Phase
<1>5. hpc \in Paging => AtPage
  BY <1>1 DEF Place
<1>6. ASSUME rpc \in {"data", "len", "addr"}
      PROVE  /\ genuine /\ Session /\ rpc = "data" => hpc = "chksum" /\ HeardPage
             /\ genuine /\ Session /\ rpc = "len" => args = <<>> /\ hpc \in {"wbuf_go", "wbuf_data", "chksum"}
             /\ genuine /\ Session
             /\ rpc = "addr" => hpc \in {"esec_go", "esec_addr", "esec_done",
                                         "wpag_go", "wpag_addr", "wpag_done"}
  <2>1. genuine /\ Session /\ hpc \in Erasing \cup Paging \cup {"rst", "done", "failed"}
    BY <1>2, <1>3, <1>4, <1>6
  <2> QED
    BY <1>6, <2>1 DEF Erasing, Paging, Session, Going, Ready, Addressed, Working, Acknowledged
<1>7. rpc = "wait" => hpc \in Probing \/ (hpc = "done" /\ genuine /\ rx = <<>> /\ h2d = <<>>)
  BY <1>3, <1>4 DEF Erasing, Paging, Session, Going, Ready, Addressed, Working, Acknowledged
<1>8. rpc = "cmd" /\ rx # <<>> =>
        hpc \in Probing \/ (genuine /\ Session /\ hpc \in {"esec_go", "wbuf_go", "wpag_go", "done"})
  BY <1>3, <1>4 DEF Erasing, Paging, Session, Quiet, Going, Ready, Addressed, Working, Acknowledged,
                    Reply, HeardAll
<1> QED
  BY <1>5, <1>6, <1>7, <1>8 DEF Paging

(* Noise changes a byte of the page; the invariant allows for one.         *)
LEMMA ToBoardNoisyStep == IspInv /\ ToBoardNoisy => IspInv'
<1> SUFFICES ASSUME IspInv, ToBoardNoisy PROVE IspInv'
  OBVIOUS
<1>1. PICK b \in Noise \ {Head(h2d)} : Receive(b)
  BY DEF ToBoardNoisy
<1> USE DEF ToBoardNoisy, host, rom
<1>2. IspType /\ Phase
  BY DEF IspInv
<1>3. rx = <<>> /\ ~overrun' /\ rx' = <<b>> /\ b \in Byte
  BY <1>1, Arrives, IspAssumption
<1>4. h2d \in Seq(Byte) /\ h2d # <<>> /\ Tail(h2d) \in Seq(Byte) /\ h2d' = Tail(h2d)
  BY <1>2, HeadTailProperties DEF IspType
<1>5. IspType'
  BY <1>2, <1>3, <1>4 DEF IspType
<1>6. genuine /\ Session /\ hpc = "chksum" /\ HeardPage /\ AtPage
  BY RomAt
<1>7. PageData' = PageData
  BY PlaceKept
<1>8. HeardPage'
  <2> DEFINE p == PageData
             k == Len(args)
  <2>1. p \in Seq(Byte)
    BY <1>6, DataOfPage
  <2>2. args \in Seq(Byte)
    BY <1>2 DEF IspType
  <2>3. k \in Nat
    BY <2>2
  <2>4. Heard(p, args, rx, h2d, hit)
    BY <1>6 DEF HeardPage
  <2> HIDE DEF p
  <2>5. k < Len(p) /\ Rest(p, k, h2d)
    BY <1>3, <2>4 DEF Heard
  <2>6. Rest(p, k + 1, h2d')
    BY <1>4, <2>1, <2>3, <2>5, RestTail
  <2>7. \A i \in 1..k : args[i] = p[i]
    BY <2>4 DEF Heard
  <2>8. rx' # <<>> /\ k + 1 \in Nat /\ hit' = TRUE
    BY <1>3, <2>3
  <2>9. Heard(p, args, rx', h2d', hit')
    BY <2>5, <2>6, <2>7, <2>8 DEF Heard
  <2>10. Heard(PageData', args', rx', h2d', hit')
    BY <1>7, <2>9 DEF p
  <2> QED
    BY <1>6, <1>7, <2>10 DEF HeardPage
<1>9. Phase'
  BY <1>6, <1>8 DEF Phase, Probing, Session
<1> QED
  BY <1>5, <1>9, AsideStep DEF Aside, IspInv, Contents, Over

(* A second answer behind the first.                                       *)
LEMMA TwoBytes == \A b \in Nat : Append(<<b>>, b) = <<b, b>>
<1> TAKE b \in Nat
<1> DEFINE s == Append(<<b>>, b)
           t == <<b, b>>
<1>1. s \in Seq(Nat) /\ t \in Seq(Nat) /\ Len(s) = 2 /\ Len(t) = 2
  OBVIOUS
<1>2. s[1] = b /\ s[2] = b /\ t[1] = b /\ t[2] = b
  OBVIOUS
<1> HIDE DEF s, t
<1>3. \A i \in 1..2 : i = 1 \/ i = 2
  OBVIOUS
<1>4. \A i \in 1..Len(s) : s[i] = t[i]
  BY <1>1, <1>2, <1>3
<1>5. s = t
  BY <1>1, <1>4, SeqEqual
<1> QED
  BY <1>5 DEF s, t

(* An answer arrives at the host.                                          *)
LEMMA ToHostStep == IspInv /\ ToHost => IspInv'
<1> SUFFICES ASSUME IspInv, ToHost PROVE IspInv'
  OBVIOUS
<1> USE DEF ToHost, host, rom, hist
<1>1. IspType /\ Phase
  BY DEF IspInv
<1>2. IspType'
  BY <1>1 DEF IspType
<1>3. \A b : Append(<<>>, b) = <<b>>
  OBVIOUS
<1>4. hpc \in Probing => Greeting'
  <2> SUFFICES ASSUME hpc \in Probing PROVE Greeting'
    OBVIOUS
  <2>1. Greeting /\ rpc \notin {"off", "wait"}
    BY <1>1 DEF Phase, Greeting
  <2>2. rpc = "cmd" => Answered'
    <3> SUFFICES ASSUME rpc = "cmd" PROVE Answered'
      OBVIOUS
    <3>1. Answered
      BY <2>1 DEF Greeting
    <3>2. CASE inq = <<>> /\ d2h = <<86>>
      <4>1. inq' = <<86>> /\ d2h' = <<>>
        BY <1>3, <3>2, ReadOne
      <4> QED
        BY <3>1, <4>1 DEF Answered
    <3>3. CASE inq = <<86>> /\ d2h = <<86>>
      <4>1. inq' = <<86, 86>> /\ d2h' = <<>>
        <5>1. Append(<<86>>, 86) = <<86, 86>> /\ Head(<<86>>) = 86 /\ Tail(<<86>>) = <<>>
          BY TwoBytes, ReadOne
        <5> QED
          BY <3>3, <5>1
      <4>2. rx = <<>> /\ h2d = <<>>
        BY <3>1, <3>3 DEF Answered
      <4> QED
        BY <3>1, <4>1, <4>2 DEF Answered
    <3>4. CASE inq = <<>> /\ d2h = <<86, 86>>
      <4>1. inq' = <<86>> /\ d2h' = <<86>>
        <5>1. Head(<<86, 86>>) = 86 /\ Tail(<<86, 86>>) = <<86>>
          OBVIOUS
        <5> QED
          BY <1>3, <3>4, <5>1
      <4>2. rx = <<>> /\ h2d = <<>>
        BY <3>1, <3>4 DEF Answered
      <4> QED
        BY <3>1, <4>1, <4>2 DEF Answered
    <3> QED
      BY <3>1, <3>2, <3>3, <3>4 DEF Answered
  <2> QED
    BY <2>1, <2>2 DEF Greeting, Asked
<1>5. hpc = "drain" => ~genuine
  BY <1>1 DEF Phase, Drained
<1>6. genuine /\ Session /\ hpc \notin Probing \cup {"drain"} => Session'
  <2> SUFFICES ASSUME genuine, Session, hpc \notin Probing \cup {"drain"} PROVE Session'
    OBVIOUS
  <2>1. /\ PageData' = PageData /\ UNCHANGED <<rx, h2d, args, buf, hit>>
        /\ UNCHANGED <<hpc, rpc, instr, buflen, op, curraddr, sect>>
    BY PlaceKept
  <2>2. hpc \in Erasing \cup Paging \cup {"rst", "done", "failed"}
    BY <1>1 DEF IspType
  <2>3. ~Quiet /\ \A m, k : ~Sending(m, k)
    BY DEF Quiet, Sending
  <2>4. ASSUME NEW b, Reply(b)
        PROVE  rx' = <<>> /\ h2d' = <<>> /\ inq' = <<b>> /\ d2h' = <<>>
    BY <1>3, <2>4, ReadOne DEF Reply
  <2>5. Verified => Verified'
    BY <2>1 DEF Verified
  <2>6. Going(48) => Going(48)'
    BY <2>1, <2>3, <2>4 DEF Going, Ready, Reply
  <2>7. Going(64) => Going(64)'
    BY <2>1, <2>3, <2>4 DEF Going, Ready, Reply
  <2>8. Acknowledged(48) => Acknowledged(48)'
    BY <2>1, <2>4 DEF Acknowledged, Reply
  <2>9. Acknowledged(64) => Acknowledged(64)'
    BY <2>1, <2>4 DEF Acknowledged, Reply
  <2>10. Reply(17) => Reply(17)'
    BY <2>4 DEF Reply
  <2>11. HeardAll => HeardAll'
    BY <2>1, <2>4 DEF HeardAll, Reply
  <2>12. ~HeardPage /\ ~Addressed(48, AddressBytes(curraddr)) /\ ~Addressed(64, AddressBytes(curraddr))
         /\ ~Working(48, EraseOp) /\ ~Working(64, ProgramOp)
    BY <2>3 DEF HeardPage, Addressed, Working
  <2> QED
    BY <2>1, <2>2, <2>3, <2>5, <2>6, <2>7, <2>8, <2>9, <2>10, <2>11, <2>12 DEF Session
<1>7. Phase'
  BY <1>1, <1>4, <1>5, <1>6 DEF Phase
<1> QED
  BY <1>2, <1>7, AsideStep DEF Aside, IspInv, Contents, Over

-----------------------------------------------------------------------------
(* The ROM greets.                                                         *)

(* The board starts while the host probes.                                 *)
LEMMA BootStep == IspInv /\ Boot => IspInv'
<1> SUFFICES ASSUME IspInv, Boot PROVE IspInv'
  OBVIOUS
<1> USE DEF Boot, host, hist
<1>1. IspType /\ Greeting /\ hpc \in Probing
  BY OffProbing DEF IspInv, Phase
<1>2. IspType'
  BY <1>1 DEF IspType
<1>3. Phase'
  <2>1. Greeting'
    BY <1>1 DEF Greeting, Asked
  <2> QED
    BY <1>1, <2>1 DEF Phase, Probing
<1>4. hpc \notin {"esec_done", "wpag_done"}
  BY <1>1 DEF Probing
<1> QED
  BY <1>2, <1>3, <1>4, AsideStep DEF Aside, IspInv, Contents

(* The ROM waits for the first byte.                                       *)
LEMMA RomWaitStep == IspInv /\ RomWait => IspInv'
<1> SUFFICES ASSUME IspInv, RomWait PROVE IspInv'
  OBVIOUS
<1> USE DEF RomWait, host, hist
<1>1. IspType /\ Greeting /\ hpc \in Probing
  BY RomAt DEF IspInv, Phase
<1>2. rx = <<85>> /\ inq = <<>> /\ d2h = <<>> /\ h2d \in {<<>>, <<85>>, <<85, 85>>}
      /\ Len(rx) + Len(h2d) <= 2 /\ hpc = "sleep"
  BY <1>1 DEF Greeting, Asked
<1>3. rpc' = "cmd" /\ d2h' = <<86>> /\ rx' = <<>>
  <2>1. Append(<<>>, 86) = <<86>>
    OBVIOUS
  <2> QED
    BY <1>2, <2>1
<1>4. Len(rx) = 1 /\ Len(rx') = 0 /\ Len(h2d) \in Nat
  <2>1. h2d \in Seq(Byte)
    BY <1>1 DEF IspType
  <2> QED
    BY <1>2, <1>3, <2>1
<1>5. IspType'
  BY <1>1, <1>3 DEF IspType, Probing
<1>6. Phase'
  <2>1. Answered' /\ Asked'
    BY <1>2, <1>3, <1>4 DEF Answered, Asked
  <2>2. Greeting'
    BY <1>1, <1>2, <1>3, <2>1 DEF Greeting
  <2> QED
    BY <1>1, <2>2 DEF Phase, Probing
<1> QED
  BY <1>2, <1>5, <1>6, AsideStep DEF Aside, IspInv, Contents

(* The ROM leaves for the flash; the session is not genuine, or over.      *)
LEMMA RomTimeoutStep == IspInv /\ RomTimeout => IspInv'
<1> SUFFICES ASSUME IspInv, RomTimeout PROVE IspInv'
  OBVIOUS
<1> USE DEF RomTimeout, host, hist
<1>1. IspType /\ Phase /\ (hpc \in Probing \/ (hpc = "done" /\ genuine /\ rx = <<>> /\ h2d = <<>>))
  BY RomAt DEF IspInv
<1>2. IspType'
  BY <1>1 DEF IspType
<1>3. Len(rx) \in Nat /\ Len(h2d) \in Nat /\ Len(rx') = 0
  <2>1. h2d \in Seq(Byte)
    BY <1>1 DEF IspType
  <2>2. \A b : Len(<<b>>) = 1
    OBVIOUS
  <2> QED
    BY <1>1, <2>1, <2>2 DEF IspType
<1>4. Phase'
  <2>1. hpc \in Probing => Greeting'
    BY <1>1, <1>3 DEF Phase, Greeting, Asked
  <2> QED
    BY <1>1, <2>1 DEF Phase, Probing, Session
<1>5. hpc \notin {"esec_done", "wpag_done"}
  BY <1>1 DEF Probing
<1> QED
  BY <1>2, <1>4, <1>5, AsideStep DEF Aside, IspInv, Contents

-----------------------------------------------------------------------------
(* The ROM's command loop.                                                 *)

(* A command of one byte is taken.                                         *)
LEMMA Taken ==
  ASSUME NEW c \in Byte, Sending(<<c>>, 0), h2d \in Seq(Byte), rx # <<>>
  PROVE  rx = <<c>> /\ rx[1] = c /\ h2d = <<>> /\ inq = <<>> /\ d2h = <<>>
<1>1. Sent(<<c>>, 0, rx, h2d) /\ inq = <<>> /\ d2h = <<>>
  BY DEF Sending
<1>2. rx = <<c>> /\ h2d = <<>>
  BY <1>1, SentOne
<1> QED
  BY <1>1, <1>2

(* The ROM takes a command.                                                *)
LEMMA RomCmdStep == IspInv /\ RomCmd => IspInv'
<1> SUFFICES ASSUME IspInv, RomCmd PROVE IspInv'
  OBVIOUS
<1> USE DEF RomCmd, host, hist
<1>1. IspType /\ Phase /\ h2d \in Seq(Byte)
      /\ (hpc \in Probing \/ (genuine /\ Session /\ hpc \in {"esec_go", "wbuf_go", "wpag_go", "done"}))
  BY RomAt DEF IspInv, IspType
<1>2. /\ rx' = <<>> /\ args' = <<>> /\ h2d' = h2d /\ inq' = inq /\ instr' = rx[1] /\ buf' = buf
      /\ UNCHANGED <<host, hpc, op, flash, hit, buflen0, genuine, overrun>>
  OBVIOUS
<1>3. <<>> \in Seq(Byte)
  BY EmptySeq
<1>4. \A b : Append(<<>>, b) = <<b>>
  OBVIOUS
<1>5. PageData' = PageData
  BY PlaceKept
<1>6. hpc \notin {"esec_done", "wpag_done"}
  BY <1>1 DEF Probing
<1>7. CASE hpc \in Probing
  <2>1. Greeting /\ Answered /\ rx = <<85>> /\ rx[1] = 85
    BY <1>1, <1>7 DEF Phase, Greeting
  <2>2. rpc' = "cmd" /\ d2h' = Append(d2h, 86) /\ buflen' = buflen
    BY <2>1
  <2>3. h2d = <<>> /\ <<inq, d2h>> \in {<<<<86>>, <<>>>>, <<<<>>, <<86>>>>}
    <3>1. Len(rx) = 1 /\ Len(h2d) \in Nat
      BY <1>1, <2>1
    <3>2. Len(h2d) = 0
      BY <2>1, <3>1 DEF Answered
    <3> QED
      BY <1>1, <2>1, <3>2, EmptySeq DEF Answered
  <2>4. <<inq, d2h'>> \in {<<<<86>>, <<86>>>>, <<<<>>, <<86, 86>>>>}
    <3>1. Append(<<86>>, 86) = <<86, 86>>
      BY TwoBytes
    <3> QED
      BY <1>4, <2>2, <2>3, <3>1, ZenonT(40)
  <2>5. Answered'
    <3>1. Len(<<>>) = 0
      OBVIOUS
    <3> QED
      BY <1>2, <2>3, <2>4, <3>1 DEF Answered
  <2>6. Asked'
    <3>1. Len(<<>>) = 0
      OBVIOUS
    <3> QED
      BY <1>2, <2>3, <3>1 DEF Asked
  <2>7. Greeting'
    BY <1>2, <2>1, <2>2, <2>5, <2>6 DEF Greeting
  <2>8. IspType'
    BY <1>1, <1>2, <1>3, <2>2 DEF IspType
  <2>9. Phase'
    BY <1>2, <1>7, <2>7 DEF Phase, Probing
  <2> QED
    BY <1>6, <2>2, <2>8, <2>9, AsideStep DEF Aside, IspInv, Contents
<1>8. CASE genuine /\ Session /\ hpc = "esec_go"
  <2>1. Sending(<<48>>, 0) /\ 48 \in Byte
    BY <1>8 DEF Session, Going, Ready, Byte
  <2>2. rx = <<48>> /\ rx[1] = 48 /\ h2d = <<>> /\ inq = <<>> /\ d2h = <<>>
    BY <1>1, <2>1, Taken
  <2>3. rpc' = "addr" /\ d2h' = <<49>> /\ buflen' = buflen
    BY <1>4, <2>2
  <2>4. Going(48)'
    BY <1>2, <2>2, <2>3 DEF Going, Ready, Reply
  <2>5. IspType'
    BY <1>1, <1>2, <1>3, <2>3 DEF IspType
  <2>6. Phase'
    BY <1>2, <1>8, <2>4 DEF Phase, Probing, Session
  <2> QED
    BY <1>6, <2>3, <2>5, <2>6, AsideStep DEF Aside, IspInv, Contents
<1>9. CASE genuine /\ Session /\ hpc = "wbuf_go"
  <2>1. Sending(<<16>>, 0) /\ 16 \in Byte
    BY <1>9 DEF Session, Byte
  <2>2. rx = <<16>> /\ rx[1] = 16 /\ h2d = <<>> /\ inq = <<>> /\ d2h = <<>>
    BY <1>1, <2>1, Taken
  <2>3. rpc' = "len" /\ d2h' = <<17>> /\ buflen' = buflen
    BY <1>4, <2>2
  <2>4. Reply(17)'
    BY <1>2, <2>2, <2>3 DEF Reply
  <2>5. IspType'
    BY <1>1, <1>2, <1>3, <2>3 DEF IspType
  <2>6. Phase'
    BY <1>2, <1>9, <2>3, <2>4 DEF Phase, Probing, Session
  <2> QED
    BY <1>6, <2>3, <2>5, <2>6, AsideStep DEF Aside, IspInv, Contents
<1>10. CASE genuine /\ Session /\ hpc = "wpag_go"
  <2>1. Sending(<<64>>, 0) /\ 64 \in Byte /\ Verified
    BY <1>10 DEF Session, Going, Ready, Byte
  <2>2. rx = <<64>> /\ rx[1] = 64 /\ h2d = <<>> /\ inq = <<>> /\ d2h = <<>>
    BY <1>1, <2>1, Taken
  <2>3. rpc' = "addr" /\ d2h' = <<65>> /\ buflen' = buflen
    BY <1>4, <2>2
  <2>4. Going(64)' /\ Verified'
    BY <1>2, <1>5, <2>1, <2>2, <2>3 DEF Going, Ready, Reply, Verified
  <2>5. IspType'
    BY <1>1, <1>2, <1>3, <2>3 DEF IspType
  <2>6. Phase'
    BY <1>2, <1>10, <2>4 DEF Phase, Probing, Session
  <2> QED
    BY <1>6, <2>3, <2>5, <2>6, AsideStep DEF Aside, IspInv, Contents
<1>11. CASE genuine /\ Session /\ hpc = "done"
  <2>1. Sending(<<240>>, 0) /\ 240 \in Byte
    BY <1>11 DEF Session, Byte
  <2>2. rx = <<240>> /\ rx[1] = 240 /\ h2d = <<>> /\ inq = <<>> /\ d2h = <<>>
    BY <1>1, <2>1, Taken
  <2>3. rpc' = "wait" /\ buflen' \in {0, buflen}
    BY <2>2
  <2>4. IspType'
    BY <1>1, <1>2, <1>3, <2>3 DEF IspType
  <2>5. Phase'
    BY <1>2, <1>11, <2>2, <2>3 DEF Phase, Probing, Session
  <2> QED
    BY <1>6, <1>11, <2>4, <2>5, AsideStep DEF Aside
<1> QED
  BY <1>1, <1>7, <1>8, <1>9, <1>10, <1>11

(* The ROM takes the length of a page.                                     *)
LEMMA RomLenStep == IspInv /\ RomLen => IspInv'
<1> SUFFICES ASSUME IspInv, RomLen PROVE IspInv'
  OBVIOUS
<1>0. /\ rpc = "len" /\ rx # <<>> /\ rx' = <<>> /\ buflen' = rx[1] + 1 /\ rpc' = "data"
      /\ UNCHANGED <<host, hpc, inq, h2d, d2h, instr, args, buf, op, flash, hit, hist>>
  BY DEF RomLen
<1> USE DEF host, hist
<1>1. /\ IspType /\ genuine /\ Session /\ args = <<>> /\ AtPage /\ h2d \in Seq(Byte)
      /\ hpc \in {"wbuf_go", "wbuf_data", "chksum"}
  BY <1>0, RomAt DEF IspInv, IspType
<1>2. hpc = "chksum" /\ Sending(Transfer, 0)
  BY <1>0, <1>1 DEF Session, Quiet, Reply
<1>3. /\ Transfer \in Seq(Byte) /\ Len(Transfer) = Len(PageData) + 1
      /\ Transfer[1] = Len(PageData) - 1
      /\ \A i \in 1..Len(PageData) : Transfer[1 + i] = PageData[i]
  BY <1>1, TransferIs, SMTT(40)
<1>4. PageData \in Seq(Byte) /\ Len(PageData) \in 1..256 /\ PageData' = PageData
  BY <1>0, <1>1, DataOfPage, PlaceKept
<1>5. Sent(Transfer, 0, rx, h2d) /\ inq = <<>> /\ d2h = <<>>
  BY <1>2 DEF Sending
<1>6. rx = <<Transfer[0 + 1]>> /\ Sent(Transfer, 0 + 1, <<>>, h2d)
  BY <1>0, <1>1, <1>3, <1>5, SentMoves
<1>7. rx[1] = Len(PageData) - 1 /\ Rest(Transfer, 1, h2d)
  <2>1. \A b : <<b>>[1] = b /\ <<b>> # <<>>
    OBVIOUS
  <2> QED
    BY <1>3, <1>6, <2>1 DEF Sent
<1>8. buflen' = Len(PageData) /\ rpc' = "data" /\ rx' = <<>> /\ args' = <<>>
  BY <1>0, <1>1, <1>4, <1>7
<1>9. Rest(PageData, 0, h2d)
  <2>1. Len(h2d) = Len(PageData) /\ \A i \in 1..Len(h2d) : h2d[i] = Transfer[1 + i]
    BY <1>3, <1>4, <1>7 DEF Rest
  <2>2. \A i \in 1..Len(h2d) : h2d[i] = PageData[0 + i]
    BY <1>3, <1>4, <2>1, SMTT(40)
  <2> QED
    BY <1>4, <2>1, <2>2 DEF Rest
<1>10. IspType'
  <2>1. buflen' \in 0..256
    <3>1. Len(PageData) \in 0..256
      BY <1>1, DataOfPage
    <3>2. buflen' = Len(PageData)
      BY <1>8
    <3> QED
      BY <3>1, <3>2, Zenon
  <2>2. op = NoOp
    BY <1>0, <1>1 DEF IspType
  <2>3. genuine' = genuine /\ overrun' = overrun /\ buf' = buf /\ image' = image /\ hpc' = hpc
        /\ UNCHANGED <<buflen0, h2d, op>>
    BY <1>0
  <2> QED
    BY <1>1, <1>8, <2>1, <2>2, <2>3 DEF IspType
<1>11. HeardPage'
  <2>1. Len(args) = 0 /\ UNCHANGED <<args, h2d, hit, inq, d2h>>
    BY <1>0, <1>1
  <2> DEFINE p == PageData
  <2>2. p' = p /\ Rest(p, 0, h2d)
    BY <1>4, <1>9, SMTT(40)
  <2>6. 0 < Len(p)
    BY <1>1, DataOfPage DEF p
  <2> HIDE DEF p
  <2>3. Heard(p, args, rx', h2d, hit)
    <3>1. \E j \in Nat : /\ j # 0 => hit
                         /\ \A i \in 1..Len(args) : i # j => args[i] = p[i]
                         /\ rx' # <<>> /\ j # Len(args) + 1 => rx'[1] = p[Len(args) + 1]
      <4>1. rx' = <<>> /\ \A i \in 1..Len(args) : FALSE
        BY <1>0, <2>1
      <4> WITNESS 0 \in Nat
      <4> QED
        BY <4>1, Zenon
    <3>2. Len(args) < Len(p)
      <4>1. Len(args) = 0
        BY <2>1
      <4> QED
        BY <2>6, <4>1, Zenon
    <3>3. Rest(p, Len(args), h2d) /\ rx' = <<>>
      BY <1>0, <2>1, <2>2, Zenon
    <3> QED
      BY <3>1, <3>2, <3>3, Zenon DEF Heard
  <2>4. Heard(p', args', rx', h2d', hit')
    BY <2>1, <2>2, <2>3
  <2>5. \A i \in 1..Len(args') : buf'[i] = args'[i]
    BY <1>8, <2>1
  <2> QED
    BY <1>4, <1>5, <1>8, <2>1, <2>4, <2>5 DEF HeardPage, p
<1>12. Phase'
  BY <1>0, <1>1, <1>2, <1>8, <1>11 DEF Phase, Probing, Session
<1> QED
  <2>1. buflen' # 0
    BY <1>1, <1>8, DataOfPage, SMTT(40)
  <2> QED
    BY <1>0, <1>2, <1>10, <1>12, <2>1, AsideStep, SMTT(40) DEF Aside

(* A byte of the page is taken.                                            *)
LEMMA HeardMore ==
  ASSUME NEW p \in Seq(Byte), NEW old \in Seq(Byte), NEW b \in Byte, NEW h \in Seq(Byte),
         NEW noise, Heard(p, old, <<b>>, h, noise)
  PROVE  LET got == Append(old, b) IN
         /\ got \in Seq(Byte) /\ Len(got) = Len(old) + 1 /\ Len(got) <= Len(p)
         /\ \E j \in Nat : \A i \in 1..Len(got) : i # j => got[i] = p[i]
         /\ Len(got) # Len(p) => Heard(p, got, <<>>, h, noise)
         /\ Len(got) = Len(p) => h = <<>>
<1> DEFINE got == Append(old, b)
           k == Len(old)
<1>1. /\ got \in Seq(Byte) /\ Len(got) = k + 1 /\ k \in Nat /\ Len(p) \in Nat
      /\ \A i \in 1..k : got[i] = old[i]
  BY AppendProperties
<1>2. got[k + 1] = b
  BY AppendProperties
<1>3. <<b>> # <<>> /\ <<b>>[1] = b
  OBVIOUS
<1>4. k < Len(p) /\ Rest(p, k + 1, h)
  BY <1>3 DEF Heard
<1>5. PICK j \in Nat : /\ j # 0 => noise
                       /\ \A i \in 1..k : i # j => old[i] = p[i]
                       /\ <<b>> # <<>> /\ j # k + 1 => <<b>>[1] = p[k + 1]
  BY DEF Heard
<1>6. j # k + 1 => b = p[k + 1]
  BY <1>3, <1>5, Zenon
<1>7. \A i \in 1..k : i # j => old[i] = p[i]
  BY <1>5
<1>8. j # 0 => noise
  BY <1>5
<1> HIDE DEF got, k
<1>9. \A i \in 1..Len(got) : i # j => got[i] = p[i]
  <2> TAKE i \in 1..Len(got)
  <2>1. i \in 1..k \/ i = k + 1
    BY <1>1
  <2> QED
    BY <1>1, <1>2, <1>6, <1>7, <2>1
<1>10. Len(got) <= Len(p)
  BY <1>1, <1>4
<1>11. Rest(p, Len(got), h)
  BY <1>1, <1>4
<1>12. Len(got) # Len(p) => Heard(p, got, <<>>, h, noise)
  <2> SUFFICES ASSUME Len(got) # Len(p) PROVE Heard(p, got, <<>>, h, noise)
    OBVIOUS
  <2>1. Len(got) < Len(p)
    BY <1>1, <1>10
  <2>2. \E x \in Nat : /\ x # 0 => noise
                       /\ \A i \in 1..Len(got) : i # x => got[i] = p[i]
                       /\ <<>> # <<>> /\ x # Len(got) + 1 => <<>>[1] = p[Len(got) + 1]
    BY <1>8, <1>9, Zenon
  <2> QED
    BY <1>11, <2>1, <2>2, Zenon DEF Heard
<1>13. Len(got) = Len(p) => h = <<>>
  <2>1. Len(got) = Len(p) => Len(h) = 0
    BY <1>1, <1>11 DEF Rest
  <2> QED
    BY <2>1, EmptySeq
<1>14. Len(got) = Len(old) + 1
  BY <1>1 DEF k
<1> QED
  BY <1>1, <1>9, <1>10, <1>12, <1>13, <1>14 DEF got

(* The ROM takes a byte of the page, and answers the last with the sum.    *)
LEMMA RomDataStep == IspInv /\ RomData => IspInv'
<1> SUFFICES ASSUME IspInv, RomData PROVE IspInv'
  OBVIOUS
<1> DEFINE got == Append(args, rx[1])
           p == PageData
<1>1. /\ rpc = "data" /\ rx # <<>> /\ rx' = <<>>
      /\ buf' = [k \in 1..PAGE |-> IF k <= Len(got) THEN got[k] ELSE buf[k]]
      /\ Len(got) = buflen => rpc' = "cmd" /\ d2h' = Append(d2h, Chksum(got)) /\ args' = <<>>
      /\ Len(got) # buflen => args' = got /\ UNCHANGED <<rpc, d2h>>
      /\ UNCHANGED <<host, hpc, inq, h2d, instr, buflen, op, flash, hit, hist>>
  BY DEF RomData
<1> USE DEF host, hist
<1>2. /\ IspType /\ genuine /\ Session /\ hpc = "chksum" /\ HeardPage /\ AtPage
  BY <1>1, RomAt DEF IspInv
<1>3. PICK b \in Byte : rx = <<b>>
  BY <1>1, <1>2 DEF IspType
<1>4. got = Append(args, b)
  <2>1. rx[1] = b
    BY <1>3, SMTT(40)
  <2> QED
    BY <2>1
<1>5. /\ p \in Seq(Byte) /\ Len(p) \in 1..PAGE /\ Len(p) \in 0..256 /\ 0 < Len(p)
  BY <1>2, DataOfPage
<1>6. p' = p
  BY <1>1, PlaceKept
<1>7. /\ args \in Seq(Byte) /\ h2d \in Seq(Byte) /\ Heard(p, args, rx, h2d, hit)
      /\ buflen = Len(p) /\ inq = <<>> /\ d2h = <<>>
  BY <1>2 DEF IspType, HeardPage
<1>8. /\ got \in Seq(Byte) /\ Len(got) = Len(args) + 1 /\ Len(got) <= Len(p)
      /\ \E j \in Nat : \A i \in 1..Len(got) : i # j => got[i] = p[i]
      /\ Len(got) # Len(p) => Heard(p, got, <<>>, h2d, hit)
      /\ Len(got) = Len(p) => h2d = <<>>
  <2> HIDE DEF p, got
  <2>1. Heard(p, args, <<b>>, h2d, hit)
    BY <1>3, <1>7
  <2>2. LET e == Append(args, b) IN
        /\ e \in Seq(Byte) /\ Len(e) = Len(args) + 1 /\ Len(e) <= Len(p)
        /\ \E j \in Nat : \A i \in 1..Len(e) : i # j => e[i] = p[i]
        /\ Len(e) # Len(p) => Heard(p, e, <<>>, h2d, hit)
        /\ Len(e) = Len(p) => h2d = <<>>
    BY <1>5, <1>7, <2>1, HeardMore
  <2> QED
    BY <1>4, <2>2
<1> HIDE DEF got, p
<1>9. PAGE \in Nat /\ Len(got) \in Nat /\ Len(got) <= PAGE
  <2>1. PAGE \in Nat /\ Len(got) \in Nat
    BY <1>2, <1>8, Sizes DEF IspType
  <2> DEFINE n == Len(got)
             m == Len(p)
  <2>2. n <= m /\ m \in 1..PAGE
    BY <1>5, <1>8
  <2> HIDE DEF n, m
  <2>3. n \in Nat => n <= PAGE
    BY <2>1, <2>2
  <2> QED
    BY <2>1, <2>3 DEF n
<1>10. /\ buf' \in [1..PAGE -> Byte]
       /\ \A i \in 1..Len(got) : buf'[i] = got[i]
  <2>1. \A k \in 1..PAGE : (IF k <= Len(got) THEN got[k] ELSE buf[k]) \in Byte
    <3> TAKE k \in 1..PAGE
    <3>1. CASE k <= Len(got)
      <4>1. k \in 1..Len(got)
        BY <1>9, <3>1
      <4> QED
        BY <1>8, <3>1, <4>1, ElementOfSeq
    <3>2. CASE ~(k <= Len(got))
      BY <1>2, <3>2 DEF IspType
    <3> QED
      BY <3>1, <3>2
  <2>2. buf' \in [1..PAGE -> Byte]
    BY <1>1, <2>1
  <2>3. \A i \in 1..Len(got) : i \in 1..PAGE /\ i <= Len(got)
    BY <1>9
  <2> QED
    BY <1>1, <2>2, <2>3
<1>11. CASE Len(got) = buflen
  <2>1. rpc' = "cmd" /\ d2h' = <<Chksum(got)>> /\ args' = <<>> /\ h2d = <<>>
    <3>1. \A x : Append(<<>>, x) = <<x>>
      OBVIOUS
    <3> QED
      BY <1>1, <1>7, <1>8, <1>11, <3>1
  <2>2. <<>> \in Seq(Byte)
    BY EmptySeq
  <2>3. IspType'
    BY <1>1, <1>2, <1>10, <2>1, <2>2 DEF IspType
  <2>4. SubSeq(buf', 1, Len(p)) = got
    <3> DEFINE s == SubSeq(buf', 1, Len(got))
    <3>1. s \in Seq(Byte) /\ Len(s) = Len(got) /\ \A i \in 1..Len(got) : s[i] = buf'[i]
      <4> DEFINE n == Len(got)
      <4>1. n \in Nat /\ \A i \in 1..n : buf'[i] \in Byte
        BY <1>9, <1>10
      <4> HIDE DEF n
      <4>2. /\ SubSeq(buf', 1, n) \in Seq(Byte) /\ Len(SubSeq(buf', 1, n)) = n
            /\ \A i \in 1..n : SubSeq(buf', 1, n)[i] = buf'[i]
        BY <4>1
      <4> QED
        BY <4>2 DEF n
    <3> HIDE DEF s
    <3>2. s = got
      BY <1>8, <1>10, <3>1, SeqEqual
    <3> QED
      BY <1>7, <1>11, <3>2 DEF s
  <2>5. Almost(p, buf')
    <3>1. PICK j \in Nat : \A i \in 1..Len(got) : i # j => got[i] = p[i]
      BY <1>8
    <3>2. \A i \in 1..Len(p) : i # j => buf'[i] = p[i]
      BY <1>7, <1>10, <1>11, <3>1
    <3> QED
      BY <3>2 DEF Almost
  <2>6. HeardAll'
    <3>1. Chksum(SubSeq(buf', 1, Len(p'))) = Chksum(got)
      BY <1>6, <2>4
    <3>2. rx' = <<>> /\ h2d' = <<>> /\ inq' = <<>> /\ d2h' = <<Chksum(got)>>
      BY <1>1, <1>7, <2>1
    <3>3. Reply(Chksum(SubSeq(buf, 1, Len(p))))'
      BY <3>1, <3>2 DEF Reply
    <3>4. buflen' = Len(p') /\ Almost(p', buf')
      BY <1>1, <1>6, <1>7, <2>5
    <3> QED
      BY <3>3, <3>4 DEF HeardAll, p
  <2>7. Phase'
    BY <1>1, <1>2, <2>1, <2>6 DEF Phase, Probing, Session
  <2>8. buflen' # 0
    BY <1>1, <1>5, <1>7
  <2> QED
    BY <1>1, <1>2, <2>3, <2>7, <2>8, AsideStep DEF Aside
<1>12. CASE Len(got) # buflen
  <2>1. rpc' = "data" /\ d2h' = <<>> /\ args' = got /\ h2d' = h2d
    BY <1>1, <1>7, <1>12
  <2>2. IspType'
    BY <1>1, <1>2, <1>8, <1>10, <2>1 DEF IspType
  <2>3. Heard(p, got, <<>>, h2d, hit)
    BY <1>7, <1>8, <1>12
  <2>4. HeardPage'
    <3>1. Heard(p', args', rx', h2d', hit')
      BY <1>1, <1>6, <2>1, <2>3
    <3>2. inq' = <<>> /\ d2h' = <<>> /\ buflen' = Len(p')
      BY <1>1, <1>6, <1>7, <2>1
    <3>3. \A i \in 1..Len(args') : buf'[i] = args'[i]
      BY <1>10, <2>1
    <3> QED
      BY <3>1, <3>2, <3>3 DEF HeardPage, p
  <2>5. Phase'
    BY <1>1, <1>2, <2>1, <2>4 DEF Phase, Probing, Session
  <2>6. buflen' # 0
    BY <1>1, <1>5, <1>7
  <2> QED
    BY <1>1, <1>2, <2>2, <2>5, <2>6, AsideStep DEF Aside
<1> QED
  BY <1>11, <1>12

(* A byte of the address is taken.                                         *)
LEMMA AddressMore ==
  ASSUME NEW m \in Seq(Byte), Len(m) = 3, NEW old \in Seq(Byte), NEW r, r # <<>>,
         NEW h \in Seq(Byte), Sent(m, Len(old), r, h), \A i \in 1..Len(old) : old[i] = m[i]
  PROVE  LET got == Append(old, r[1]) IN
         /\ got \in Seq(Byte) /\ Len(got) \in 1..3
         /\ \A i \in 1..Len(got) : got[i] = m[i]
         /\ Sent(m, Len(got), <<>>, h)
         /\ Len(got) = 3 => h = <<>>
<1> DEFINE got == Append(old, r[1])
           k == Len(old)
<1>1. k \in Nat
  OBVIOUS
<1>2. k < Len(m) /\ r = <<m[k + 1]>> /\ Sent(m, k + 1, <<>>, h)
  BY <1>1, SentMoves
<1>3. m[k + 1] \in Byte
  BY <1>1, <1>2, ElementOfSeq
<1>4. r[1] = m[k + 1]
  <2>1. \A x : <<x>>[1] = x
    OBVIOUS
  <2> QED
    BY <1>2, <2>1
<1>5. /\ got \in Seq(Byte) /\ Len(got) = k + 1 /\ got[k + 1] = m[k + 1]
      /\ \A i \in 1..k : got[i] = old[i]
  BY <1>3, <1>4, AppendProperties
<1>6. \A i \in 1..k : old[i] = m[i]
  OBVIOUS
<1> HIDE DEF got, k
<1>7. \A i \in 1..Len(got) : got[i] = m[i]
  <2> TAKE i \in 1..Len(got)
  <2>1. i \in 1..k \/ i = k + 1
    BY <1>1, <1>5
  <2> QED
    BY <1>5, <1>6, <2>1
<1>8. Len(got) \in 1..3
  <2>1. k + 1 \in 1..3
    BY <1>1, <1>2
  <2> QED
    BY <1>5, <2>1
<1>9. Sent(m, Len(got), <<>>, h)
  BY <1>2, <1>5
<1>10. Len(got) = 3 => h = <<>>
  <2>1. ASSUME Len(got) = 3 PROVE h = <<>>
    <3>1. k + 1 = Len(m)
      BY <1>5, <2>1, Zenon
    <3>2. \A x : <<>> # <<x>>
      OBVIOUS
    <3>3. Rest(m, k + 1, h)
      BY <1>2, <3>2 DEF Sent
    <3>4. Len(h) = Len(m) - (k + 1)
      BY <3>3, Zenon DEF Rest
    <3>5. Len(m) \in Nat
      OBVIOUS
    <3>6. Len(h) = 0
      BY <1>1, <3>1, <3>4, <3>5
    <3> QED
      BY <3>6, EmptySeq
  <2> QED
    BY <2>1
<1> QED
  BY <1>5, <1>7, <1>8, <1>9, <1>10 DEF got

(* What the ROM programs is the page.                                      *)
LEMMA VerifiedData ==
  ASSUME AtPage, Verified, buf \in [1..PAGE -> Byte]
  PROVE  SubSeq(buf, 1, buflen) = PageData /\ buflen # 0
<1> DEFINE p == PageData
           s == SubSeq(buf, 1, buflen)
<1>1. /\ p \in Seq(Byte) /\ Len(p) \in 1..PAGE /\ Len(p) \in 0..256 /\ 0 < Len(p)
  BY DataOfPage
<1>2. buflen = Len(p) /\ \A i \in 1..buflen : buf[i] = p[i]
  BY DEF Verified
<1>3. PAGE \in Nat
  BY Sizes DEF AtPage
<1> HIDE DEF p
<1>4. buflen \in Nat
  BY <1>1, <1>2
<1>5. \A i \in 1..buflen : buf[i] \in Byte
  <2> TAKE i \in 1..buflen
  <2>1. i \in 1..Len(p)
    BY <1>2
  <2>2. p[i] \in Byte
    BY <1>1, <2>1, ElementOfSeq
  <2> QED
    BY <1>2, <2>2
<1>6. s \in Seq(Byte) /\ Len(s) = buflen /\ \A i \in 1..buflen : s[i] = buf[i]
  BY <1>4, <1>5
<1> HIDE DEF s
<1>7. s = p
  BY <1>1, <1>2, <1>6, SeqEqual
<1>8. buflen # 0
  BY <1>1, <1>2
<1> QED
  BY <1>7, <1>8, SMTT(40) DEF s, p

(* The ROM takes a byte of an address, and starts the flash on the third.  *)
LEMMA RomAddrStep == IspInv /\ RomAddr => IspInv'
<1> SUFFICES ASSUME IspInv, RomAddr PROVE IspInv'
  OBVIOUS
<1> DEFINE got == Append(args, rx[1])
           m == AddressBytes(curraddr)
<1>1. /\ rpc = "addr" /\ rx # <<>> /\ rx' = <<>>
      /\ Len(got) < 3 => args' = got /\ UNCHANGED <<rpc, d2h, op, buf>>
      /\ ~(Len(got) < 3) => args' = <<>>
      /\ ~(Len(got) < 3) /\ buflen = 0
           => rpc' = "cmd" /\ d2h' = Append(d2h, instr + 2) /\ UNCHANGED <<op, buf>>
      /\ ~(Len(got) < 3) /\ buflen # 0
           => rpc' = "flash" /\ StartOp(Address(got)) /\ UNCHANGED d2h
      /\ UNCHANGED <<host, hpc, inq, h2d, instr, buflen, flash, hit, hist>>
  BY DEF RomAddr
<1> USE DEF host, hist
<1>2. /\ IspType /\ Place /\ genuine /\ Session
      /\ hpc \in {"esec_go", "esec_addr", "esec_done", "wpag_go", "wpag_addr", "wpag_done"}
  BY <1>1, RomAt DEF IspInv
<1>3. \/ hpc = "esec_done" /\ instr = 48 /\ Addressed(48, m)
      \/ hpc = "wpag_done" /\ instr = 64 /\ Addressed(64, m) /\ Verified /\ AtPage
  <2>1. hpc = "wpag_done" => AtPage
    BY <1>2 DEF Place, Paging
  <2> QED
    BY <1>1, <1>2, <2>1 DEF Session, Going, Ready, Reply, Quiet, Addressed, Working, Acknowledged
<1>4. /\ m \in Seq(Byte) /\ Len(m) = 3 /\ args \in Seq(Byte) /\ h2d \in Seq(Byte)
      /\ inq = <<>> /\ d2h = <<>>
      /\ Sent(m, Len(args), rx, h2d) /\ \A i \in 1..Len(args) : args[i] = m[i]
  <2>1. m \in Seq(Byte) /\ Len(m) = 3
    BY <1>2, AddressTyped DEF Erasing, Paging
  <2>2. args \in Seq(Byte) /\ h2d \in Seq(Byte)
    BY <1>2 DEF IspType
  <2> QED
    BY <1>3, <2>1, <2>2 DEF Addressed, Sending
<1>5. m' = m /\ PageData' = PageData /\ ProgramOp' = ProgramOp /\ EraseOp' = EraseOp
  BY <1>1, PlaceKept
<1>6. /\ got \in Seq(Byte) /\ Len(got) \in 1..3
      /\ \A i \in 1..Len(got) : got[i] = m[i]
      /\ Sent(m, Len(got), <<>>, h2d)
      /\ Len(got) = 3 => h2d = <<>>
  <2> HIDE DEF m
  <2> QED
    BY <1>1, <1>4, AddressMore
<1>7. hpc \notin Probing \cup {"drain"}
  BY <1>2 DEF Probing
<1> HIDE DEF got
<1>8. CASE Len(got) < 3
  <2>1. /\ rpc' = "addr" /\ args' = got /\ h2d' = h2d /\ inq' = <<>> /\ d2h' = <<>>
        /\ rx' = <<>> /\ op' = op /\ buf' = buf /\ buflen' = buflen /\ instr' = instr
    BY <1>1, <1>4, <1>8
  <2>2. IspType'
    BY <1>1, <1>2, <1>6, <2>1 DEF IspType
  <2>3. \A c : instr = c => Addressed(c, m)'
    <3> HIDE DEF m
    <3>1. Len(got) <= 2
      BY <1>6, <1>8
    <3>2. Len(args') <= 2 /\ Sent(m', Len(args'), rx', h2d') /\ \A i \in 1..Len(args') : args'[i] = m'[i]
      BY <1>5, <1>6, <2>1, <3>1
    <3> QED
      BY <2>1, <3>2 DEF Addressed, Sending
  <2>4. Verified => Verified'
    BY <1>5, <2>1 DEF Verified
  <2>5. Phase'
    BY <1>1, <1>2, <1>3, <1>7, <2>3, <2>4 DEF Phase, Session
  <2>6. Over' <=> Over
    BY <1>1, <2>1 DEF Over
  <2> QED
    BY <1>1, <1>3, <2>1, <2>2, <2>5, <2>6, AsideStep DEF Aside, IspInv, Contents
<1>9. CASE Len(got) = 3
  <2>1. ~(Len(got) < 3) /\ h2d = <<>>
    BY <1>6, <1>9
  <2>2. Address(got) = curraddr
    <3>1. hpc = "esec_done" => curraddr \in Nat /\ curraddr < 256 * 256 * 256
      BY <1>2, InSector DEF Place, Erasing, IspType
    <3>2. hpc = "wpag_done" => curraddr \in Nat /\ curraddr < 256 * 256 * 256
      BY <1>3, AddressFits
    <3>3. \A i \in 1..3 : got[i] = m[i]
      BY <1>6, <1>9
    <3> QED
      BY <1>3, <1>6, <1>9, <3>1, <3>2, <3>3, AddressIs
  <2>3. args' = <<>> /\ rx' = <<>> /\ h2d' = <<>> /\ inq' = <<>> /\ instr' = instr /\ buflen' = buflen
    BY <1>1, <1>4, <2>1
  <2>4. <<>> \in Seq(Byte)
    BY EmptySeq
  <2>5. CASE buflen = 0
    <3>1. rpc' = "cmd" /\ d2h' = <<instr + 2>> /\ op' = op /\ buf' = buf
      <4>1. \A x : Append(<<>>, x) = <<x>>
        OBVIOUS
      <4> QED
        BY <1>1, <1>4, <2>1, <2>5, <4>1
    <3>2. IspType'
      BY <1>1, <1>2, <2>3, <2>4, <3>1 DEF IspType
    <3>3. hpc = "esec_done" /\ instr = 48
      <4>1. ASSUME Verified, AtPage PROVE FALSE
        BY <1>2, <2>5, <4>1, VerifiedData DEF IspType
      <4> QED
        BY <1>3, <4>1
    <3>4. Acknowledged(48)'
      <4>1. d2h' = <<48 + 2>>
        BY <3>1, <3>3
      <4> QED
        BY <2>3, <3>1, <4>1 DEF Acknowledged, Reply
    <3>5. Phase'
      BY <1>1, <1>2, <1>7, <3>3, <3>4 DEF Phase, Session
    <3>6. ~(Sound /\ hpc # "done")
      BY <2>5, <3>3 DEF IspInv, Contents
    <3> QED
      BY <1>1, <3>1, <3>2, <3>3, <3>5, <3>6, AsideStep DEF Aside
  <2>6. CASE buflen # 0
    <3>1. rpc' = "flash" /\ StartOp(curraddr) /\ d2h' = <<>> /\ h2d' = <<>>
      BY <1>1, <1>4, <2>1, <2>2, <2>3, <2>6
    <3>2. \/ hpc = "esec_done" /\ instr = 48 /\ op' = EraseOp
          \/ hpc = "wpag_done" /\ instr = 64 /\ op' = ProgramOp
      <4>1. CASE hpc = "esec_done" /\ instr = 48
        <5>1. curraddr = sect * SECTOR
          BY <1>2, <4>1 DEF Place, Erasing
        <5>2. op' = [kind |-> "erase", at |-> curraddr, data |-> <<>>]
          BY <3>1, <4>1 DEF StartOp
        <5> QED
          BY <4>1, <5>1, <5>2 DEF EraseOp
      <4>2. CASE hpc = "wpag_done" /\ instr = 64 /\ Verified /\ AtPage
        <5>1. SubSeq(buf, 1, buflen) = PageData
          BY <1>2, <4>2, VerifiedData DEF IspType
        <5>2. op' = [kind |-> "program", at |-> curraddr, data |-> SubSeq(buf, 1, buflen)]
          BY <3>1, <4>2 DEF StartOp
        <5> QED
          BY <4>2, <5>1, <5>2 DEF ProgramOp
      <4> QED
        BY <1>3, <4>1, <4>2
    <3>3. buf' \in [1..PAGE -> Byte]
      <4>1. CASE instr = 48
        BY <1>2, <3>1, <4>1 DEF StartOp, IspType
      <4>2. CASE instr = 64
        <5>1. PICK miso \in {0, 255} : buf' = [k \in 1..PAGE |-> IF k <= buflen THEN miso ELSE buf[k]]
          BY <3>1, <4>2 DEF StartOp
        <5>2. miso \in Byte
          BY <5>1 DEF Byte
        <5> QED
          BY <1>2, <5>1, <5>2 DEF IspType
      <4> QED
        BY <1>3, <4>1, <4>2
    <3>4. IspType'
      BY <1>1, <1>2, <2>3, <2>4, <3>1, <3>3 DEF IspType
    <3>5. Phase'
      <4>1. Quiet'
        BY <2>3, <3>1 DEF Quiet
      <4>2. hpc = "esec_done" => Working(48, EraseOp)'
        BY <1>5, <2>3, <3>1, <3>2, <4>1 DEF Working
      <4>3. hpc = "wpag_done" => Working(64, ProgramOp)' /\ buflen' # 0
        BY <1>5, <2>3, <2>6, <3>1, <3>2, <4>1 DEF Working
      <4> QED
        BY <1>1, <1>3, <1>7, <4>2, <4>3 DEF Phase, Session
    <3>6. Place'
      BY <1>1, <1>2, PlaceKept DEF Place
    <3>7. op' # NoOp
      BY <3>2 DEF EraseOp, ProgramOp, NoOp
    <3>8. Contents'
      <4>1. Contents
        BY DEF IspInv
      <4>2. ~Over /\ ~Over'
        BY <1>1, <3>1, <3>7 DEF Over
      <4>3. Written' = Written /\ (Erased' => Erased)
        BY <1>1, <4>2 DEF Written, Erased
      <4> QED
        BY <1>1, <4>1, <4>3 DEF Contents, Sound
    <3> QED
      BY <3>4, <3>5, <3>6, <3>8 DEF IspInv
  <2> QED
    BY <2>5, <2>6
<1> QED
  BY <1>6, <1>8, <1>9

(* The flash is ready and the ROM acknowledges.                            *)
LEMMA RomPollStep == IspInv /\ RomPoll => IspInv'
<1> SUFFICES ASSUME IspInv, RomPoll PROVE IspInv'
  OBVIOUS
<1>1. /\ rpc = "flash" /\ op = NoOp /\ rpc' = "cmd" /\ d2h' = Append(d2h, instr + 2)
      /\ UNCHANGED <<host, hpc, inq, h2d, rx, instr, args, buflen, buf, op, flash, hit, hist>>
  BY DEF RomPoll
<1> USE DEF host, hist
<1>2. /\ IspType /\ Contents /\ genuine /\ Session /\ Quiet /\ hpc \in {"esec_done", "wpag_done"}
      /\ hpc = "esec_done" => Working(48, EraseOp)
      /\ hpc = "wpag_done" => Working(64, ProgramOp) /\ buflen # 0
  BY <1>1, FlashQuiet DEF IspInv
<1>3. IspType'
  BY <1>1, <1>2 DEF IspType
<1>4. d2h' = <<instr + 2>>
  <2>1. \A x : Append(<<>>, x) = <<x>>
    OBVIOUS
  <2> QED
    BY <1>1, <1>2, <2>1 DEF Quiet
<1>5. rx' = <<>> /\ h2d' = <<>> /\ inq' = <<>>
  BY <1>1, <1>2 DEF Quiet
<1>6. \A c : Working(c, EraseOp) \/ Working(c, ProgramOp) => Acknowledged(c)'
  <2> TAKE c
  <2>1. Working(c, EraseOp) \/ Working(c, ProgramOp) => instr = c
    BY DEF Working
  <2>2. instr = c => d2h' = <<c + 2>>
    BY <1>4
  <2> QED
    BY <1>1, <1>5, <2>1, <2>2 DEF Acknowledged, Reply
<1>7. Phase'
  <2>1. hpc = "esec_done" => Acknowledged(48)'
    BY <1>2, <1>6
  <2>2. hpc = "wpag_done" => Acknowledged(64)'
    BY <1>2, <1>6
  <2> QED
    BY <1>1, <1>2, <2>1, <2>2 DEF Phase, Probing, Session
<1>8. Over' <=> Over
  BY <1>1 DEF Over
<1>9. Sound /\ hpc # "done" => buflen' # 0
  BY <1>1, <1>2 DEF Contents
<1> QED
  BY <1>1, <1>3, <1>7, <1>8, <1>9, AsideStep DEF Aside

-----------------------------------------------------------------------------
(* The flash.                                                              *)

(* An erase ends.                                                          *)
LEMMA EraseContents ==
  ASSUME image \in Images, sect \in 0..sectreq - 1, op = EraseOp,
         flash' = [a \in Flash |->
                   IF op.kind = "program" THEN Programmed(a)
                   ELSE IF SectorOf(a) = SectorOf(op.at) THEN 255 ELSE flash[a]]
  PROVE  /\ Old(flash, (sect + 1) * SECTOR) => Old(flash', (sect + 1) * SECTOR)
         /\ Holds(flash, image, sect * SECTOR) => Holds(flash', image, sect * SECTOR)
         /\ Blank(flash', sect * SECTOR, (sect + 1) * SECTOR)
<1> DEFINE lo == sect * SECTOR
           hi == (sect + 1) * SECTOR
<1>1. op.kind = "erase" /\ op.at = lo
  BY DEF EraseOp
<1>2. /\ \A a \in Nat : SectorOf(a) = sect <=> (lo <= a /\ a < hi)
      /\ lo \in Nat /\ hi \in Nat /\ lo < hi
  BY InSector
<1>3. SectorOf(lo) = sect
  BY <1>2
<1> HIDE DEF lo, hi
<1>4. \A a \in Flash : a \in Nat
  BY Fits
<1>5. \A a \in Flash : flash'[a] = IF SectorOf(a) = sect THEN 255 ELSE flash[a]
  BY <1>1, <1>3
<1>6. \A a \in Flash : a \in Nat /\ flash'[a] = IF lo <= a /\ a < hi THEN 255 ELSE flash[a]
  BY <1>2, <1>4, <1>5
<1>7. Old(flash, hi) => Old(flash', hi)
  BY <1>2, <1>6 DEF Old
<1>8. Holds(flash, image, lo) => Holds(flash', image, lo)
  BY <1>2, <1>6 DEF Holds
<1>9. Blank(flash', lo, hi)
  BY <1>6 DEF Blank
<1> QED
  BY <1>7, <1>8, <1>9 DEF lo, hi

(* Programming ends.                                                       *)
LEMMA ProgramContents ==
  ASSUME AtPage, op = ProgramOp,
         flash' = [a \in Flash |->
                   IF op.kind = "program" THEN Programmed(a)
                   ELSE IF SectorOf(a) = SectorOf(op.at) THEN 255 ELSE flash[a]]
  PROVE  /\ Old(flash, (sect + 1) * SECTOR) => Old(flash', (sect + 1) * SECTOR)
         /\ Holds(flash, image, curraddr) /\ Blank(flash, curraddr, (sect + 1) * SECTOR)
              => /\ Holds(flash', image, curraddr + PAGE)
                 /\ Blank(flash', curraddr + PAGE, (sect + 1) * SECTOR)
<1> DEFINE hi == (sect + 1) * SECTOR
           p == PageData
           n == Len(image)
           f == SECTOR * FLASHSECTS
<1>1. op.kind = "program" /\ op.at = curraddr /\ op.data = p
  BY DEF ProgramOp
<1>2. /\ image \in Seq(Byte) /\ n \in Nat \ {0} /\ PAGE \in Nat \ {0} /\ hi \in Nat
      /\ curraddr \in Nat /\ curraddr < n /\ curraddr + PAGE <= hi
      /\ \A a \in Flash : a \in Nat
  <2>1. sect + 1 \in Nat /\ SECTOR \in Nat
    BY Sizes DEF AtPage
  <2>2. hi \in Nat
    BY <2>1, Products, SMTT(40)
  <2> QED
    BY <2>2, Sizes, PageWithin, Fits DEF AtPage
<1>3. /\ Len(p) = Least(PAGE, n - curraddr)
      /\ \A i \in 1..Len(p) : p[i] = image[curraddr + i]
  BY DataOfPage
<1>4. /\ (curraddr \div PAGE) * PAGE = curraddr
      /\ \A a \in Nat : curraddr <= a /\ a < curraddr + PAGE => (a - curraddr) % PAGE = a - curraddr
  BY InPage
<1>5. \A a \in Flash : flash'[a] = Programmed(a)
  BY <1>1
<1>6. \A a \in Flash : Programmed(a) =
        IF a \in curraddr..(curraddr + PAGE - 1) /\ ((a - curraddr) % PAGE) + 1 <= Len(p)
        THEN Cleared(flash[a], p[((a - curraddr) % PAGE) + 1]) ELSE flash[a]
  BY <1>1, <1>4 DEF Programmed
<1> HIDE DEF hi, p, n
<1>7. \A a \in Flash : a < curraddr \/ a >= curraddr + PAGE => flash'[a] = flash[a]
  <2> TAKE a \in Flash
  <2>1. a \in Nat
    BY <1>2
  <2>2. a < curraddr \/ a >= curraddr + PAGE => a \notin curraddr..(curraddr + PAGE - 1)
    BY <1>2, <2>1
  <2> QED
    BY <1>5, <1>6, <2>2
<1>8. \A a \in Flash : curraddr <= a /\ a < curraddr + PAGE /\ flash[a] = 255
        => flash'[a] = IF a < n THEN image[a + 1] ELSE 255
  <2> SUFFICES ASSUME NEW a \in Flash, curraddr <= a, a < curraddr + PAGE, flash[a] = 255
               PROVE  flash'[a] = IF a < n THEN image[a + 1] ELSE 255
    OBVIOUS
  <2>1. a \in Nat /\ a \in curraddr..(curraddr + PAGE - 1) /\ (a - curraddr) % PAGE = a - curraddr
    <3>1. a \in Nat /\ a \in curraddr..(curraddr + PAGE - 1)
      BY <1>2
    <3>2. \A b \in Nat : curraddr <= b /\ b < curraddr + PAGE => (b - curraddr) % PAGE = b - curraddr
      BY <1>4
    <3> QED
      BY <3>1, <3>2
  <2> DEFINE k == (a - curraddr) + 1
  <2>2. flash'[a] = IF k <= Len(p) THEN Cleared(flash[a], p[k]) ELSE flash[a]
    BY <1>5, <1>6, <2>1
  <2>3. k \in Nat /\ k >= 1 /\ curraddr + k = a + 1 /\ k <= PAGE
    BY <1>2, <2>1
  <2>4. Len(p) \in Nat /\ (k <= Len(p) <=> a < n)
    BY <1>2, <1>3, <2>1, <2>3 DEF Least
  <2> HIDE DEF k
  <2>5. CASE a < n
    <3>1. k \in 1..Len(p)
      BY <2>3, <2>4, <2>5
    <3>2. p[k] = image[a + 1]
      BY <1>3, <2>3, <3>1
    <3>3. image[a + 1] \in Byte
      <4>1. a + 1 \in 1..Len(image)
        BY <1>2, <2>1, <2>5 DEF n
      <4> QED
        BY <1>2, <4>1, ElementOfSeq
    <3>4. Cleared(255, image[a + 1]) = image[a + 1]
      BY <3>3, IspAssumption
    <3> QED
      BY <2>2, <2>4, <2>5, <3>2, <3>4
  <2>6. CASE ~(a < n)
    BY <2>2, <2>4, <2>6
  <2> QED
    BY <2>5, <2>6
<1>9. Old(flash, hi) => Old(flash', hi)
  BY <1>2, <1>7 DEF Old
<1>10. ASSUME Holds(flash, image, curraddr), Blank(flash, curraddr, hi)
       PROVE  Holds(flash', image, curraddr + PAGE)
  <2> SUFFICES ASSUME NEW a \in Flash, a < curraddr + PAGE
               PROVE  flash'[a] = IF a < Len(image) THEN image[a + 1] ELSE 255
    BY DEF Holds
  <2>1. a \in Nat
    BY <1>2
  <2>2. CASE a < curraddr
    BY <1>7, <1>10, <2>2 DEF Holds
  <2>3. CASE ~(a < curraddr)
    <3>1. curraddr <= a /\ a < hi
      BY <1>2, <2>1, <2>3
    <3>2. flash[a] = 255
      BY <1>10, <3>1 DEF Blank
    <3> QED
      BY <1>8, <3>1, <3>2 DEF n
  <2> QED
    BY <2>2, <2>3
<1>11. Blank(flash, curraddr, hi) => Blank(flash', curraddr + PAGE, hi)
  BY <1>2, <1>7 DEF Blank
<1> QED
  BY <1>9, <1>10, <1>11 DEF hi
(* The flash finishes what it is busy with.                                *)
LEMMA FlashDoneStep == IspInv /\ FlashDone => IspInv'
<1> SUFFICES ASSUME IspInv, FlashDone PROVE IspInv'
  OBVIOUS
<1>1. /\ op # NoOp /\ op' = NoOp
      /\ flash' = [a \in Flash |->
                   IF op.kind = "program" THEN Programmed(a)
                   ELSE IF SectorOf(a) = SectorOf(op.at) THEN 255 ELSE flash[a]]
      /\ UNCHANGED <<host, hpc, inq, h2d, d2h, rx, rpc, instr, args, buflen, buf, hit, hist>>
  BY DEF FlashDone
<1> USE DEF host, hist
<1>2. IspType /\ Phase /\ Place /\ Contents /\ rpc = "flash"
  BY <1>1 DEF IspInv, IspType
<1>3. /\ genuine /\ Session /\ hpc \in {"esec_done", "wpag_done"}
      /\ hpc = "esec_done" => Working(48, EraseOp)
      /\ hpc = "wpag_done" => Working(64, ProgramOp) /\ buflen # 0
  BY <1>2, FlashQuiet
<1>4. sectreq' = sectreq /\ (AtPage => AtPage') /\ EraseOp' = EraseOp /\ ProgramOp' = ProgramOp
  BY <1>1, PlaceKept
<1>5. IspType'
  BY <1>1, <1>2 DEF IspType
<1>6. Phase'
  <2>1. hpc = "esec_done" => Working(48, EraseOp)'
    BY <1>1, <1>3, <1>4 DEF Working, Quiet
  <2>2. hpc = "wpag_done" => (Working(64, ProgramOp) /\ buflen # 0)'
    BY <1>1, <1>3, <1>4 DEF Working, Quiet
  <2> QED
    BY <1>1, <1>3, <2>1, <2>2 DEF Phase, Probing, Session
<1>7. Place'
  BY <1>1, <1>2, PlaceKept DEF Place
<1>8. Sound' <=> Sound
  BY <1>1 DEF Sound
<1>9. image \in Images /\ sect \in 0..sectreq - 1
  BY <1>2 DEF IspType, Place
<1>10. ASSUME hpc = "esec_done" PROVE Contents'
  <2>1. op = EraseOp /\ curraddr = sect * SECTOR
    BY <1>1, <1>2, <1>3, <1>10 DEF Working, Place, Erasing
  <2>2. Written = sect * SECTOR /\ Written' = sect * SECTOR
    BY <1>1, <1>10, <2>1 DEF Written
  <2>3. /\ Old(flash, (sect + 1) * SECTOR) => Old(flash', (sect + 1) * SECTOR)
        /\ Holds(flash, image, sect * SECTOR) => Holds(flash', image, sect * SECTOR)
        /\ Blank(flash', sect * SECTOR, (sect + 1) * SECTOR)
    BY <1>1, <1>9, <2>1, EraseContents
  <2> QED
    BY <1>1, <1>2, <1>8, <2>2, <2>3 DEF Contents
<1>11. ASSUME hpc = "wpag_done" PROVE Contents'
  <2>1. op = ProgramOp /\ AtPage
    BY <1>1, <1>2, <1>3, <1>11 DEF Working, Place, Paging
  <2>2. Written = curraddr /\ Written' = curraddr + PAGE /\ Erased
    BY <1>1, <1>2, <1>11 DEF Written, Over, Erased, Paging
  <2>3. /\ Old(flash, (sect + 1) * SECTOR) => Old(flash', (sect + 1) * SECTOR)
        /\ Holds(flash, image, curraddr) /\ Blank(flash, curraddr, (sect + 1) * SECTOR)
             => /\ Holds(flash', image, curraddr + PAGE)
                /\ Blank(flash', curraddr + PAGE, (sect + 1) * SECTOR)
    BY <1>1, <2>1, ProgramContents
  <2> QED
    BY <1>1, <1>2, <1>8, <2>2, <2>3 DEF Contents
<1>12. Contents'
  BY <1>3, <1>10, <1>11
<1> QED
  BY <1>5, <1>6, <1>7, <1>12 DEF IspInv

-----------------------------------------------------------------------------
(* Nothing happens.                                                        *)
LEMMA IdleStep == IspInv /\ UNCHANGED vars => IspInv'
<1> SUFFICES ASSUME IspInv, UNCHANGED vars PROVE IspInv'
  OBVIOUS
<1> USE DEF vars, host, rom, hist
<1>1. IspType /\ Phase
  BY DEF IspInv
<1>2. IspType'
  BY <1>1 DEF IspType
<1>3. EraseOp' = EraseOp /\ ProgramOp' = ProgramOp /\ PageData' = PageData /\ Transfer' = Transfer
  BY PlaceKept
<1>4. Greeting => Greeting'
  BY DEF Greeting, Asked, Answered
<1>5. Drained => Drained'
  BY DEF Drained
<1>6. Session => Session'
  <2>1. HeardPage' = HeardPage
    BY <1>3 DEF HeardPage, Heard, Rest
  <2>2. HeardAll' = HeardAll
    BY <1>3 DEF HeardAll, Almost, Reply
  <2>3. Verified' = Verified
    BY <1>3 DEF Verified
  <2> QED
    BY <1>3, <2>1, <2>2, <2>3
    DEF Session, Going, Ready, Reply, Quiet, Addressed, Working, Acknowledged, Sending, Sent, Rest
<1>7. Phase'
  BY <1>1, <1>4, <1>5, <1>6 DEF Phase
<1>8. Over' <=> Over
  BY DEF Over
<1>9. Sound /\ hpc # "done" => buflen' # 0
  BY DEF IspInv, Contents
<1> QED
  BY <1>2, <1>7, <1>8, <1>9, AsideStep DEF Aside

(* Every step keeps the invariant.                                         *)
LEMMA Keeps == IspInv /\ [Next]_vars => IspInv'
<1> SUFFICES ASSUME IspInv, [Next]_vars PROVE IspInv'
  OBVIOUS
<1>1. CASE Probe
  BY <1>1, ProbeStep
<1>2. CASE ReadProbe
  BY <1>2, ReadProbeStep
<1>3. CASE Drain
  BY <1>3, DrainStep
<1>4. CASE Esec
  <2>1. CASE hpc = "esec_done"
    <3>1. Await("esec_done", "wbuf")
      BY <1>4, <2>1 DEF Esec, Send, Await
    <3> QED
      BY <3>1, ErasedStep
  <2> QED
    BY <1>4, <2>1, EsecStep
<1>5. CASE Wbuf
  BY <1>5, WbufStep
<1>6. CASE CheckSum
  BY <1>6, CheckSumStep
<1>7. CASE Wpag
  BY <1>7, WpagStep
<1>8. CASE NextPage
  BY <1>8, NextPageStep
<1>9. CASE Rst
  BY <1>9, RstStep
<1>10. CASE ToBoard
  BY <1>10, ToBoardStep
<1>11. CASE ToBoardNoisy
  BY <1>11, ToBoardNoisyStep
<1>12. CASE ToHost
  BY <1>12, ToHostStep
<1>13. CASE Boot
  BY <1>13, BootStep
<1>14. CASE Rom
  BY <1>14, RomWaitStep, RomTimeoutStep, RomCmdStep, RomLenStep, RomDataStep, RomAddrStep,
     RomPollStep DEF Rom
<1>15. CASE FlashDone
  BY <1>15, FlashDoneStep
<1>16. CASE UNCHANGED vars
  BY <1>16, IdleStep
<1> QED
  BY <1>1, <1>2, <1>3, <1>4, <1>5, <1>6, <1>7, <1>8, <1>9, <1>10, <1>11, <1>12, <1>13, <1>14,
     <1>15, <1>16 DEF Next, Host

(* The invariant of a session.                                             *)
LEMMA Invariant == Spec => []IspInv
<1>1. Init => IspInv
  BY Starts
<1>2. IspInv /\ [Next]_vars => IspInv'
  BY Keeps
<1> QED
  BY <1>1, <1>2, PTL DEF Spec
-----------------------------------------------------------------------------
(* What follows.                                                           *)

(* No byte the host sends is lost in the ROM's UART: the session is a       *)
(* dialogue, and while the ROM waits for the flash the host has nothing     *)
(* more to say (isp_flasher.c, whose receive loops have no flow control).   *)
THEOREM NothingOverrun == Spec => []NoOverrun
<1>1. IspInv => NoOverrun
  BY DEF IspInv, IspType, NoOverrun
<1> QED
  BY <1>1, Invariant, PTL

(* No sector beyond the program's is erased or programmed, however the      *)
(* session goes: noise, a ROM that left for the flash, too many retries     *)
(* (the loops of pico-programmer.py:164-202).                               *)
THEOREM RestStays == Spec => []RestUntouched
<1>1. IspInv => RestUntouched
  <2> SUFFICES ASSUME IspInv PROVE RestUntouched
    OBVIOUS
  <2>1. image \in Images /\ sect \in 0..sectreq - 1 /\ Old(flash, (sect + 1) * SECTOR)
    BY DEF IspInv, IspType, Place, Contents
  <2> DEFINE y == (sect + 1) * SECTOR
             z == sectreq * SECTOR
  <2>2. y <= z /\ y \in Nat /\ z \in Nat /\ \A a \in Flash : a \in Nat
    BY <2>1, InSector, Fits
  <2>3. Old(flash, y)
    BY <2>1
  <2> HIDE DEF y, z
  <2>4. \A a \in Flash : a >= z => flash[a] = OldByte
    BY <2>2, <2>3 DEF Old
  <2> QED
    BY <2>4 DEF RestUntouched, z
<1> QED
  BY <1>1, Invariant, PTL

(* When the tool reports completion the flash holds the program, and the    *)
(* rest of its last sector is erased (pico-programmer.py:211).              *)
THEOREM FlashingCompletes == Spec => []Completed
<1>1. IspInv => Completed
  <2> SUFFICES ASSUME IspInv, hpc = "done", Sound PROVE Completed
    BY DEF Completed
  <2> DEFINE n == Len(image)
             e == sectreq * SECTOR
             w == pagereq * PAGE
  <2>1. /\ image \in Images /\ sect \in 0..sectreq - 1
        /\ sect = sectreq - 1 /\ curraddr = w
        /\ Holds(flash, image, Written) /\ Blank(flash, Written, (sect + 1) * SECTOR)
    BY DEF IspInv, IspType, Place, Contents, Erased
  <2>2. Written = w
    BY <2>1 DEF Written
  <2>3. n \in Nat /\ n <= w /\ w \in Nat
    BY <2>1, Sizes, Products
  <2>4. (sect + 1) * SECTOR = e
    <3>1. sectreq \in Nat
      BY <2>1, Sizes
    <3>2. sect + 1 = sectreq
      BY <2>1, <3>1
    <3> QED
      BY <3>2
  <2>5. e \in Nat /\ \A a \in Nat : a < e => a \in Flash
    <3> DEFINE f == SECTOR * FLASHSECTS
    <3>1. e \in Nat /\ e <= f /\ f \in Nat /\ Flash = {a \in Nat : a < f}
      BY <2>1, Fits
    <3> HIDE DEF e, f
    <3> QED
      BY <3>1
  <2>6. Holds(flash, image, w) /\ Blank(flash, w, e)
    BY <2>1, <2>2, <2>4
  <2> HIDE DEF e, w, n
  <2>7. ASSUME NEW a \in 0..(e - 1) PROVE flash[a] = IF a < n THEN image[a + 1] ELSE 255
    <3>1. a \in Nat /\ a \in Flash /\ a < e
      BY <2>5
    <3>2. CASE a < w
      BY <2>6, <3>1, <3>2 DEF Holds, n
    <3>3. CASE ~(a < w)
      <4>1. flash[a] = 255
        BY <2>3, <2>6, <3>1, <3>3 DEF Blank
      <4>2. ~(a < n)
        BY <2>3, <3>1, <3>3
      <4> QED
        BY <4>1, <4>2
    <3> QED
      BY <3>2, <3>3
  <2> QED
    BY <2>7 DEF Completed, e, n
<1> QED
  BY <1>1, Invariant, PTL

(* An operation starts in the ROM, on the third byte of an address.         *)
LEMMA Begins ==
  ASSUME [Next]_vars, op = NoOp, op' # NoOp
  PROVE  rpc = "addr" /\ UNCHANGED <<host, hpc, flash, genuine, buflen0>>
<1>1. RomAddr
  BY DEF Next, Host, Probe, ReadProbe, Drain, Esec, Wbuf, CheckSum, Wpag, NextPage, Rst, Send, Await,
         ToBoard, ToBoardNoisy, ToHost, Boot, Rom, RomWait, RomTimeout, RomCmd, RomLen, RomData,
         RomPoll, FlashDone, vars, rom
<1> QED
  BY <1>1 DEF RomAddr, hist

\* What the flash is busy with is what the host has asked for.
Asks == op # NoOp /\ op.kind = "program" => hpc = "wpag_done" /\ op = ProgramOp

(* The host asks for it.                                                    *)
LEMMA AsAsked == IspInv => Asks
<1> SUFFICES ASSUME IspInv, op # NoOp, op.kind = "program"
             PROVE  hpc = "wpag_done" /\ op = ProgramOp
  BY DEF Asks
<1>1. rpc = "flash"
  BY DEF IspInv, IspType
<1> QED
  BY <1>1, FlashQuiet DEF Working, EraseOp

(* What is programmed is the page the host has verified by its checksum,    *)
(* noise or not, at the address the host means (isp_flasher.c:214).         *)
THEOREM PageVerified == Spec => VerifiedProgram
<1>1. IspInv => Asks
  BY AsAsked
<1>2. Asks' /\ [Next]_vars
        => [op'.kind = "program" /\ op = NoOp => op'.data = PageData /\ op'.at = curraddr]_vars
  <2> SUFFICES ASSUME Asks', [Next]_vars, op'.kind = "program", op = NoOp
               PROVE  op'.data = PageData /\ op'.at = curraddr
    OBVIOUS
  <2>1. op' # NoOp
    BY DEF NoOp
  <2>2. UNCHANGED <<image, curraddr>>
    BY <2>1, Begins DEF host
  <2>3. op' = ProgramOp'
    BY <2>1 DEF Asks
  <2> QED
    BY <2>2, <2>3 DEF ProgramOp, PageData
<1> QED
  BY <1>1, <1>2, Invariant, PTL DEF Spec, VerifiedProgram

(* Programming only clears bits; every page it writes was erased            *)
(* (pico-programmer.py:173, where a sector is erased before its pages).     *)
THEOREM PageErased == Spec => ProgramErased
<1>1. IspInv => Asks
  BY AsAsked
<1>2. IspInv /\ Asks' /\ [Next]_vars
        => [op'.kind = "program" /\ op = NoOp /\ Sound
              => \A a \in Flash : a \div PAGE = op'.at \div PAGE => flash[a] = 255]_vars
  <2> SUFFICES ASSUME IspInv, Asks', [Next]_vars, op'.kind = "program", op = NoOp, Sound,
                      NEW a \in Flash, a \div PAGE = op'.at \div PAGE
               PROVE  flash[a] = 255
    OBVIOUS
  <2>1. op' # NoOp
    BY DEF NoOp
  <2>2. rpc = "addr" /\ UNCHANGED <<hpc, curraddr>>
    BY <2>1, Begins DEF host
  <2>3. hpc = "wpag_done" /\ op'.at = curraddr
    BY <2>1, <2>2 DEF Asks, ProgramOp
  <2>4. AtPage /\ Blank(flash, curraddr, (sect + 1) * SECTOR)
    BY <2>2, <2>3 DEF IspInv, Place, Contents, Erased, Paging, Written, Over
  <2> DEFINE z == (sect + 1) * SECTOR
  <2>5. /\ curraddr \in Nat /\ curraddr + PAGE <= z /\ z \in Nat /\ PAGE \in Nat
        /\ \A b \in Flash : b \in Nat
    BY <2>4, PageWithin, InSector, Fits, Sizes DEF AtPage
  <2>6. curraddr <= a /\ a < curraddr + PAGE
    BY <2>3, <2>4, <2>5, InPage
  <2>7. Blank(flash, curraddr, z)
    BY <2>4
  <2> HIDE DEF z
  <2>8. curraddr <= a /\ a < z
    BY <2>5, <2>6
  <2> QED
    BY <2>7, <2>8 DEF Blank
<1> QED
  BY <1>1, <1>2, Invariant, PTL DEF Spec, ProgramErased
===============================================================================
