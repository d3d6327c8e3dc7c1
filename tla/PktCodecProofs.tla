--------------------------- MODULE PktCodecProofs ---------------------------
(***************************************************************************)
(* What a packet's constructor puts into the packet is what the reader's   *)
(* constructor gets out of it, for every base, all types, all strings and  *)
(* any number of fields, as long as no packet comes near 2^32 bytes.       *)
(*                                                                         *)
(* The lemmas about SimpleBuffer are those of StreamProofs.                *)
(***************************************************************************)
EXTENDS PktCodec, StreamProofs

-----------------------------------------------------------------------------
(***************************************************************************)
(* CByteStream's integers: the places of the digits, and that operator>>   *)
(* undoes operator<<.                                                      *)
(***************************************************************************)

\* Pow meets its recursion.
LEMMA PowIs == Pow = [k \in 0..8 |-> IF k = 0 THEN 1 ELSE Base * Pow[k - 1]]
<1> DEFINE B2 == Base * Base
           B3 == Base * B2
           B4 == Base * B3
           B5 == Base * B4
           B6 == Base * B5
           B7 == Base * B6
           B8 == Base * B7
           p == [k \in 0..8 |-> CASE k = 0 -> 1 [] k = 1 -> Base [] k = 2 -> B2
                  [] k = 3 -> B3 [] k = 4 -> B4 [] k = 5 -> B5 [] k = 6 -> B6
                  [] k = 7 -> B7 [] k = 8 -> B8]
           F(f) == [k \in 0..8 |-> IF k = 0 THEN 1 ELSE Base * f[k - 1]]
<1>1. p = F(p)
  <2> SUFFICES ASSUME NEW k \in 0..8
               PROVE  p[k] = IF k = 0 THEN 1 ELSE Base * p[k - 1]
    OBVIOUS
  <2>1. /\ B2 = Base * Base /\ B3 = Base * B2 /\ B4 = Base * B3 /\ B5 = Base * B4
        /\ B6 = Base * B5 /\ B7 = Base * B6 /\ B8 = Base * B7
    OBVIOUS
  <2>2. Base = Base * 1
    BY CodecAssumption
  <2> HIDE DEF B2, B3, B4, B5, B6, B7, B8
  <2> QED BY <2>1, <2>2
<1>2. Pow = CHOOSE f : f = F(f)
  BY DEF Pow
<1>3. (CHOOSE f : f = F(f)) = F(CHOOSE f : f = F(f))
  <2> HIDE DEF p, F
  <2> QED BY <1>1
<1> QED BY <1>2, <1>3

\* The next place is Base times the last.
LEMMA PowNext == Pow[0] = 1 /\ \A k \in 0..7 : Pow[k + 1] = Base * Pow[k]
<1>1. Pow[0] = 1
  BY PowIs
<1>2. ASSUME NEW k \in 0..7 PROVE Pow[k + 1] = Base * Pow[k]
  <2>1. k + 1 \in 0..8 /\ k + 1 # 0 /\ (k + 1) - 1 = k
    OBVIOUS
  <2> QED BY <2>1, PowIs
<1> QED BY <1>1, <1>2

\* A product with a base is greater.
LEMMA Product ==
  ASSUME NEW a \in Nat, NEW b \in Nat, a > 0, b > 2
  PROVE  b * a \in Nat /\ b * a > a /\ b * a > 2
OBVIOUS

\* Places are positive numbers, in order.
LEMMA PowPos == \A k \in 0..8 : Pow[k] \in Nat /\ Pow[k] > 0
<1>1. ASSUME NEW k \in 0..7, Pow[k] \in Nat, Pow[k] > 0 PROVE Pow[k + 1] \in Nat /\ Pow[k + 1] > 0
  <2>1. Pow[k + 1] = Base * Pow[k]
    BY PowNext
  <2> QED BY <1>1, <2>1, Product, CodecAssumption
<1>2. Pow[0] \in Nat /\ Pow[0] > 0
  BY PowNext
<1>3. Pow[1] \in Nat /\ Pow[1] > 0
  BY <1>1, <1>2
<1>4. Pow[2] \in Nat /\ Pow[2] > 0
  BY <1>1, <1>3
<1>5. Pow[3] \in Nat /\ Pow[3] > 0
  BY <1>1, <1>4
<1>6. Pow[4] \in Nat /\ Pow[4] > 0
  BY <1>1, <1>5
<1>7. Pow[5] \in Nat /\ Pow[5] > 0
  BY <1>1, <1>6
<1>8. Pow[6] \in Nat /\ Pow[6] > 0
  BY <1>1, <1>7
<1>9. Pow[7] \in Nat /\ Pow[7] > 0
  BY <1>1, <1>8
<1>10. Pow[8] \in Nat /\ Pow[8] > 0
  BY <1>1, <1>9
<1> QED BY <1>2, <1>3, <1>4, <1>5, <1>6, <1>7, <1>8, <1>9, <1>10

\* Quotient and remainder are unique.
LEMMA DivUnique ==
  ASSUME NEW x \in Int, NEW d \in Nat, d > 0, NEW q \in Int, NEW r \in 0..(d - 1), x = q * d + r
  PROVE  x \div d = q /\ x % d = r
OBVIOUS

\* A number is its quotient and its remainder.
LEMMA DivMod ==
  ASSUME NEW x \in Int, NEW d \in Nat, d > 0
  PROVE  /\ x \div d \in Int /\ x % d \in 0..(d - 1)
         /\ x = (x \div d) * d + (x % d)
OBVIOUS

\* One more byte: the remainder by the next place.
LEMMA ModNext ==
  ASSUME NEW x \in Int, NEW p \in Nat, p > 0, NEW b \in Nat, b > 0
  PROVE  x % (b * p) = (((x \div p) % b) * p) + (x % p)
<1> DEFINE q == x \div p
           r == x % p
           Q == q \div b
           R == q % b
           d == b * p
           low  == R * p + r
<1>1. q \in Int /\ r \in 0..(p - 1) /\ x = q * p + r
  BY DivMod
<1>2. Q \in Int /\ R \in 0..(b - 1) /\ q = Q * b + R
  BY <1>1, DivMod
<1>3. d \in Nat /\ d > 0
  <2> HIDE DEF q
  <2> QED OBVIOUS
<1>4. low \in 0..(d - 1)
  <2> HIDE DEF q, r, Q, R
  <2>1. R * p <= (b - 1) * p
    BY <1>2
  <2>2. (b - 1) * p = b * p - p
    OBVIOUS
  <2>3. R * p \in Nat
    BY <1>2
  <2> QED BY <1>1, <1>2, <2>1, <2>2, <2>3
<1>5. x = Q * d + low
  <2> HIDE DEF q, r, Q, R
  <2>1. q * p = (Q * b + R) * p
    BY <1>2
  <2>2. (Q * b + R) * p = Q * (b * p) + R * p
    BY <1>2
  <2> QED BY <1>1, <1>2, <2>1, <2>2
<1>6. x % d = low
  <2> HIDE DEF q, r, Q, R, d, low
  <2> QED BY <1>2, <1>3, <1>4, <1>5, DivUnique
<1> QED BY <1>6

\* The bytes of an integer.
Widths == {1, 2, 4, 8}

\* The values an integer of type t has.
Held(t) ==
  IF t.signed THEN -(Pow[t.w] \div 2)..(Pow[t.w] \div 2 - 1) ELSE 0..(Pow[t.w] - 1)

\* The digit of x at place k.
Digit(x, k) == (x \div Pow[k]) % Base

\* The bytes of Encode are the digits, the highest first.
LEMMA EncodeIs ==
  ASSUME NEW w \in Widths, NEW x \in Int
  PROVE  /\ Encode(w, x) \in Seq(0..(Base - 1)) /\ Len(Encode(w, x)) = w
         /\ \A i \in 1..w : Encode(w, x)[i] = Digit(x, w - i)
<1>1. ASSUME NEW i \in 1..w PROVE (x \div Pow[w - i]) % Base \in 0..(Base - 1)
  <2>1. w - i \in 0..8
    BY DEF Widths
  <2>2. Pow[w - i] \in Nat /\ Pow[w - i] > 0
    BY <2>1, PowPos
  <2> DEFINE p == Pow[w - i]
  <2>3. x \div p \in Int
    <3> HIDE DEF p
    <3> QED BY <2>2, DivMod DEF p
  <2> HIDE DEF p
  <2>4. (x \div p) % Base \in 0..(Base - 1)
    BY <2>3, DivMod, CodecAssumption
  <2> QED BY <2>4 DEF p
<1>2. Encode(w, x) = [i \in 1..w |-> Digit(x, w - i)]
  BY DEF Encode, Digit
<1>3. \A i \in 1..w : Digit(x, w - i) \in 0..(Base - 1)
  BY <1>1 DEF Digit
<1>4. w \in Nat
  BY DEF Widths
<1> HIDE DEF Digit
<1> QED BY <1>2, <1>3, <1>4

\* The lowest digits of x, put together, are the remainder of x.
LEMMA DigitNext ==
  ASSUME NEW x \in Int, NEW k \in 0..7
  PROVE  /\ x % Pow[k + 1] = Digit(x, k) * Pow[k] + (x % Pow[k])
         /\ Digit(x, k) \in 0..(Base - 1) /\ x % Pow[k] \in Int
<1> DEFINE p == Pow[k]
<1>1. p \in Nat /\ p > 0
  BY PowPos
<1>2. Pow[k + 1] = Base * p
  BY PowNext
<1>3. x % (Base * p) = (((x \div p) % Base) * p) + (x % p)
  <2>1. Base \in Nat /\ Base > 0
    BY CodecAssumption
  <2> HIDE DEF p
  <2> QED BY <1>1, <2>1, ModNext, Zenon
<1>4. x % p \in Int /\ x \div p \in Int
  <2> HIDE DEF p
  <2> QED BY <1>1, DivMod
<1>5. (x \div p) % Base \in 0..(Base - 1)
  <2> HIDE DEF p
  <2> QED BY <1>4, DivMod, CodecAssumption
<1> QED BY <1>2, <1>3, <1>4, <1>5 DEF Digit

\* Assemble undoes Encode up to the width.
LEMMA AssembleIs ==
  ASSUME NEW w \in Widths, NEW x \in Int, NEW s, \A i \in 1..w : s[i] = Digit(x, w - i)
  PROVE  Assemble(w, s) = x % Pow[w]
<1> DEFINE D(k) == Digit(x, k)
           R(k) == x % Pow[k]
           E(k) == D(k) * Pow[k]
<1>1. \A k \in 0..7 : /\ R(k + 1) = E(k) + R(k)
                      /\ D(k) \in Int /\ R(k) \in Int /\ E(k) \in Int
  <2> SUFFICES ASSUME NEW k \in 0..7
               PROVE  R(k + 1) = E(k) + R(k) /\ D(k) \in Int /\ R(k) \in Int /\ E(k) \in Int
    OBVIOUS
  <2>1. R(k + 1) = E(k) + R(k) /\ D(k) \in 0..(Base - 1) /\ R(k) \in Int
    BY DigitNext
  <2> HIDE DEF D, R
  <2>2. D(k) \in Int
    BY <2>1
  <2>3. Pow[k] \in Int
    BY PowPos
  <2> QED BY <2>1, <2>2, <2>3
<1>2. E(0) = D(0) /\ R(0) = 0
  <2>1. D(0) \in Int
    BY <1>1
  <2> QED BY <2>1, PowNext
<1> HIDE DEF D, R, E
<1>3. R(1) = D(0) /\ R(2) = E(1) + D(0)
  BY <1>1, <1>2
<1>4. R(4) = E(3) + E(2) + E(1) + D(0)
  <2>1. R(3) = E(2) + R(2) /\ R(4) = E(3) + R(3)
    BY <1>1
  <2> QED BY <1>1, <1>3, <2>1
<1>5. R(8) = E(7) + E(6) + E(5) + E(4) + E(3) + E(2) + E(1) + D(0)
  <2>1. R(5) = E(4) + R(4) /\ R(6) = E(5) + R(5)
    BY <1>1
  <2>2. R(7) = E(6) + R(6) /\ R(8) = E(7) + R(7)
    BY <1>1
  <2> QED BY <1>1, <1>4, <2>1, <2>2
<1>8. \A i \in 1..w : s[i] = D(w - i)
  BY DEF D
<1>9. CASE w = 1
  <2>1. s[1] = D(0)
    BY <1>8, <1>9
  <2>2. Assemble(w, s) = s[1]
    BY <1>9 DEF Assemble
  <2> QED BY <1>3, <1>9, <2>1, <2>2 DEF R
<1>10. CASE w = 2
  <2>1. s[1] = D(1) /\ s[2] = D(0)
    BY <1>8, <1>10
  <2>2. Assemble(w, s) = s[1] * Pow[1] + s[2]
    BY <1>10 DEF Assemble
  <2> QED BY <1>3, <1>10, <2>1, <2>2 DEF R, E
<1>11. CASE w = 4
  <2>1. s[1] = D(3) /\ s[2] = D(2) /\ s[3] = D(1) /\ s[4] = D(0)
    BY <1>8, <1>11
  <2>2. Assemble(w, s) = s[1] * Pow[3] + s[2] * Pow[2] + s[3] * Pow[1] + s[4]
    BY <1>11 DEF Assemble
  <2> QED BY <1>4, <1>11, <2>1, <2>2 DEF R, E
<1>12. CASE w = 8
  <2>1. /\ s[1] = D(7) /\ s[2] = D(6) /\ s[3] = D(5) /\ s[4] = D(4)
        /\ s[5] = D(3) /\ s[6] = D(2) /\ s[7] = D(1) /\ s[8] = D(0)
    BY <1>8, <1>12
  <2>2. Assemble(w, s) = s[1] * Pow[7] + s[2] * Pow[6] + s[3] * Pow[5] + s[4] * Pow[4]
                         + s[5] * Pow[3] + s[6] * Pow[2] + s[7] * Pow[1] + s[8]
    BY <1>12 DEF Assemble
  <2> QED BY <1>5, <1>12, <2>1, <2>2 DEF R, E
<1> QED BY <1>9, <1>10, <1>11, <1>12 DEF Widths

\* Half of what a type can hold is a number, twice it is all of it.
LEMMA Halves ==
  ASSUME NEW w \in Widths
  PROVE  Pow[w] \div 2 \in Nat /\ Pow[w] = 2 * (Pow[w] \div 2)
<1> DEFINE h == Base \div 2
           p == Pow[w - 1]
<1>1. h \in Nat /\ Base = 2 * h
  BY CodecAssumption
<1>2. w - 1 \in 0..7 /\ (w - 1) + 1 = w
  BY DEF Widths
<1>3. p \in Nat
  BY <1>2, PowPos
<1>4. Pow[w] = Base * p
  BY <1>2, PowNext
<1>5. (2 * h) * p = 2 * (h * p) /\ h * p \in Nat
  <2> HIDE DEF h, p
  <2> QED BY <1>1, <1>3
<1> DEFINE m == h * p
<1>6. Pow[w] = 2 * m /\ m \in Nat
  BY <1>1, <1>4, <1>5
<1> HIDE DEF m
<1> QED BY <1>6

\* What operator<< puts, operator>> gets back, for every value the type holds.
THEOREM IntegersSurvive ==
  ASSUME NEW t, t.w \in Widths, t.signed \in BOOLEAN, NEW x \in Held(t),
         NEW s, \A i \in 1..t.w : s[i] = Encode(t.w, x)[i]
  PROVE  Decode(t, s) = x
<1> DEFINE P == Pow[t.w]
           h == Pow[t.w] \div 2
           u == Assemble(t.w, s)
<1>1. P \in Nat /\ P > 0
  BY PowPos DEF Widths
<1>2. h \in Nat /\ P = 2 * h
  BY Halves
<1>3. x \in Int /\ IF t.signed THEN -h <= x /\ x < h ELSE 0 <= x /\ x < P
  <2> HIDE DEF P, h
  <2>1. Held(t) = IF t.signed THEN -h..(h - 1) ELSE 0..(P - 1)
    BY DEF Held, P, h
  <2> QED BY <1>1, <1>2, <2>1
<1>4. u = x % P
  <2>1. \A i \in 1..t.w : s[i] = Digit(x, t.w - i)
    BY <1>3, EncodeIs
  <2> QED BY <1>3, <2>1, AssembleIs
<1>5. Decode(t, s) = IF t.signed /\ u >= h THEN u - P ELSE u
  BY DEF Decode
<1>6. x >= 0 => x % P = x
  <2> HIDE DEF P, h
  <2>1. x = 0 * P + x
    BY <1>1, <1>3
  <2>2. x < P
    BY <1>1, <1>2, <1>3
  <2>3. ASSUME x >= 0 PROVE x \in 0..(P - 1)
    BY <1>1, <1>3, <2>2, <2>3
  <2> QED BY <1>1, <1>3, <2>1, <2>3, DivUnique
<1>7. x < 0 => x % P = x + P
  <2> HIDE DEF P, h
  <2>1. x = (-1) * P + (x + P)
    BY <1>1, <1>3
  <2>2. ASSUME x < 0 PROVE x + P \in 0..(P - 1)
    BY <1>1, <1>2, <1>3, <2>2
  <2> QED BY <1>1, <1>3, <2>1, <2>2, DivUnique
<1> HIDE DEF P, h, u
<1> QED BY <1>1, <1>2, <1>3, <1>4, <1>5, <1>6, <1>7

-----------------------------------------------------------------------------
(***************************************************************************)
(* Fields of a body, and operator>> at the place of one.                   *)
(***************************************************************************)

\* What WriteData takes.
Bytes == 0..(Base - 1)

\* What a cell of a packet's buffer holds.
Cells == Bytes \cup {Junk}

\* The fields a packet has, and their values.
Numbers   == UNION {Held(t) : t \in Ints}
IntFields == UNION {[type : {t}, value : Held(t)] : t \in Ints}
Fields    == IntFields \cup [type : {StringType}, value : Strings]
Values    == Numbers \cup Strings

\* No packet is as long as its 32 bit length can say: with strings of at most
\* n bytes no field has more than n + 8.
ShortPackets(n) ==
  /\ \A x \in Strings : Len(x) <= n
  /\ PktHeaderLen + MaxFields * (n + 8) < Pow[4]

\* The integer types there are.
LEMMA TypesAre ==
  ASSUME NEW t \in Ints \cup {StringType}
  PROVE  /\ t.w \in Widths /\ t.signed \in BOOLEAN /\ t.text \in BOOLEAN
         /\ t \in Ints => ~t.text
         /\ t = StringType => t.text /\ t.w = 4 /\ ~t.signed
<1>1. CASE t \in Ints
  <2>1. t \in [w : {1, 2, 4, 8}, signed : BOOLEAN, text : {FALSE}]
    BY <1>1, CodecAssumption
  <2>2. t # StringType
    <3>1. t.text = FALSE /\ StringType.text = TRUE
      BY <2>1 DEF StringType
    <3> QED BY <3>1
  <2> QED BY <2>1, <2>2 DEF Widths
<1>2. CASE t = StringType
  <2>1. StringType \notin Ints
    <3>1. SUFFICES ASSUME StringType \in Ints PROVE FALSE
      OBVIOUS
    <3>2. StringType \in [w : {1, 2, 4, 8}, signed : BOOLEAN, text : {FALSE}]
      BY <3>1, CodecAssumption
    <3> QED BY <3>2 DEF StringType
  <2> QED BY <1>2, <2>1 DEF StringType, Widths
<1> QED BY <1>1, <1>2

\* A field is an integer of its type or a string.
LEMMA FieldIs ==
  ASSUME NEW f \in Fields
  PROVE  /\ f.type \in Ints \cup {StringType} /\ f.value \in Values
         /\ \/ f.type \in Ints /\ f.value \in Held(f.type)
            \/ f.type = StringType /\ f.value \in Strings
<1>1. CASE f \in IntFields
  <2>1. PICK t \in Ints : f \in [type : {t}, value : Held(t)]
    BY <1>1, Zenon DEF IntFields
  <2>2. f.type = t /\ f.value \in Held(t)
    BY <2>1
  <2>3. f.value \in Numbers
    BY <2>2, Zenon DEF Numbers
  <2> QED BY <2>2, <2>3 DEF Values
<1>2. CASE f \in [type : {StringType}, value : Strings]
  <2>1. f.type = StringType /\ f.value \in Strings
    BY <1>2
  <2> QED BY <2>1 DEF Values
<1> QED BY <1>1, <1>2 DEF Fields

\* Values an integer type holds are integers.
LEMMA HeldAreInts ==
  ASSUME NEW t, t.w \in Widths, NEW x \in Held(t)
  PROVE  x \in Int
<1>1. Pow[t.w] \in Nat /\ Pow[t.w] \div 2 \in Nat
  BY PowPos, Halves DEF Widths
<1> QED BY <1>1 DEF Held

\* A string's length is a value of its length field.
LEMMA LengthsHeld ==
  ASSUME NEW n \in Nat, ShortPackets(n), NEW x \in Strings, MaxFields > 0
  PROVE  Len(x) \in Held(StringType) /\ Len(x) <= n /\ x \in Seq(Bytes) /\ Len(x) \in Nat
<1>1. x \in Seq(Bytes) /\ Len(x) <= n
  BY CodecAssumption DEF ShortPackets, Bytes
<1>2. Len(x) \in Nat
  BY <1>1, LenProperties
<1>3. n + 8 <= MaxFields * (n + 8)
  BY CodecAssumption
<1>4. MaxFields * (n + 8) \in Nat
  BY CodecAssumption
<1> DEFINE m == MaxFields * (n + 8)
<1>5. n + 8 <= m /\ m \in Nat /\ 16 + m < Pow[4] /\ Pow[4] \in Nat
  BY <1>3, <1>4, PowPos DEF ShortPackets, PktHeaderLen
<1> HIDE DEF m
<1>6. Held(StringType) = 0..(Pow[4] - 1)
  BY DEF Held, StringType
<1> QED BY <1>1, <1>2, <1>5, <1>6

\* A field takes a place of its own, and no more than n + 8 bytes.
LEMMA FieldBytes ==
  ASSUME NEW n \in Nat, ShortPackets(n), MaxFields > 0, NEW f \in Fields
  PROVE  /\ EncodeField(f) \in Seq(Bytes) /\ Len(EncodeField(f)) \in 1..(n + 8)
         /\ IF f.type.text
            THEN /\ Len(EncodeField(f)) = 4 + Len(f.value) /\ Len(f.value) \in Nat
                 /\ \A i \in 1..4 : EncodeField(f)[i] = Encode(4, Len(f.value))[i]
                 /\ \A i \in 1..Len(f.value) : EncodeField(f)[4 + i] = f.value[i]
            ELSE EncodeField(f) = Encode(f.type.w, f.value) /\ Len(EncodeField(f)) = f.type.w
<1>1. CASE f.type \in Ints /\ f.value \in Held(f.type)
  <2>1. f.type.w \in Widths /\ ~f.type.text
    BY <1>1, TypesAre
  <2>2. f.value \in Int
    BY <1>1, <2>1, HeldAreInts
  <2>3. EncodeField(f) = Encode(f.type.w, f.value)
    BY <2>1 DEF EncodeField
  <2>4. EncodeField(f) \in Seq(Bytes) /\ Len(EncodeField(f)) = f.type.w
    BY <2>1, <2>2, <2>3, EncodeIs DEF Bytes
  <2>5. f.type.w \in 1..(n + 8)
    BY <2>1 DEF Widths
  <2> QED BY <2>1, <2>3, <2>4, <2>5
<1>2. CASE f.type = StringType /\ f.value \in Strings
  <2>1. f.type.text /\ f.type.w = 4
    BY <1>2 DEF StringType
  <2> DEFINE v == f.value
             h == Encode(4, Len(v))
             e == h \o v
  <2>2. v \in Seq(Bytes) /\ Len(v) \in Nat /\ Len(v) <= n
    BY <1>2, LengthsHeld
  <2>3. h \in Seq(Bytes) /\ Len(h) = 4
    <3>1. 4 \in Widths /\ Len(v) \in Int
      BY <2>2 DEF Widths
    <3> HIDE DEF v
    <3> QED BY <3>1, EncodeIs DEF Bytes
  <2>4. EncodeField(f) = e
    BY <2>1 DEF EncodeField
  <2> HIDE DEF h, v
  <2>5. /\ e \in Seq(Bytes) /\ Len(e) = 4 + Len(v)
        /\ \A i \in 1..(4 + Len(v)) : e[i] = IF i <= 4 THEN h[i] ELSE v[i - 4]
    <3>1. /\ h \o v \in Seq(Bytes) /\ Len(h \o v) = Len(h) + Len(v)
          /\ \A i \in 1..(Len(h) + Len(v)) :
               (h \o v)[i] = IF i <= Len(h) THEN h[i] ELSE v[i - Len(h)]
      BY <2>2, <2>3, ConcatProperties
    <3> QED BY <2>3, <3>1
  <2> HIDE DEF e
  <2>6. \A i \in 1..4 : e[i] = h[i]
    BY <2>2, <2>5
  <2>7. ASSUME NEW i \in 1..Len(v) PROVE e[4 + i] = v[i]
    <3>1. 4 + i \in 1..(4 + Len(v)) /\ ~(4 + i <= 4) /\ (4 + i) - 4 = i
      BY <2>2
    <3> QED BY <2>5, <3>1
  <2>8. Len(e) \in 1..(n + 8)
    BY <2>2, <2>5
  <2> QED BY <2>1, <2>2, <2>4, <2>5, <2>6, <2>7, <2>8 DEF h, v
<1> QED BY <1>1, <1>2, FieldIs

\* operator>> at the place of an integer.
LEMMA ReadIntIs ==
  ASSUME NEW t, t.w \in Widths, t.signed \in BOOLEAN, NEW x \in Held(t),
         NEW s \in Seq(Cells), NEW p \in Nat, p + t.w <= Len(s),
         \A i \in 1..t.w : s[p + i] = Encode(t.w, x)[i]
  PROVE  ReadInt(t, s, p) = x
<1>1. t.w \in Nat
  BY DEF Widths
<1> DEFINE q == SubSeq(s, p + 1, p + t.w)
<1>2. \A i \in 1..((p + t.w) - p) : q[i] = s[p + i]
  <2>1. p <= p + t.w /\ p + t.w \in Nat
    BY <1>1
  <2> QED BY <2>1, SliceIs
<1>3. (p + t.w) - p = t.w
  BY <1>1
<1> HIDE DEF q
<1>4. \A i \in 1..t.w : q[i] = Encode(t.w, x)[i]
  BY <1>2, <1>3
<1>5. Decode(t, q) = x
  BY <1>4, IntegersSurvive
<1> QED BY <1>5 DEF ReadInt, q

\* The bounds test of _ReadByte and Skip, in a stream far from 2^32 bytes.
LEMMA FitsIs ==
  ASSUME NEW s, Len(s) \in Nat, NEW p \in Nat, NEW len \in Nat, p + len < Pow[4]
  PROVE  Fits(s, p, len) <=> p + len <= Len(s)
<1> DEFINE P == Pow[4]
           e == p + len
<1>1. P \in Nat /\ P > 0
  BY PowPos
<1>2. e \in 0..(P - 1) /\ e = 0 * P + e
  BY <1>1
<1>3. e % P = e
  <2> HIDE DEF P, e
  <2>1. e \in Int
    BY <1>1, <1>2
  <2> QED BY <1>1, <1>2, <2>1, DivUnique
<1> QED BY <1>3 DEF Fits

\* The reader who takes a field for what it is gets its value and ends behind it.
LEMMA FieldReads ==
  ASSUME NEW n \in Nat, ShortPackets(n), MaxFields > 0, NEW f \in Fields,
         NEW s \in Seq(Cells), Len(s) < Pow[4], NEW p \in Nat, p + Len(EncodeField(f)) <= Len(s),
         \A i \in 1..Len(EncodeField(f)) : s[p + i] = EncodeField(f)[i]
  PROVE  ReadField(f.type, s, p) =
           [ok |-> TRUE, value |-> f.value, pos |-> p + Len(EncodeField(f))]
<1> DEFINE e == EncodeField(f)
           t == f.type
           x == ReadInt(t, s, p)
           start == p + t.w
<1>1. Len(s) \in Nat /\ Pow[4] \in Nat
  BY LenProperties, PowPos
<1>2. /\ e \in Seq(Bytes) /\ Len(e) \in Nat /\ t.w \in Widths /\ t.signed \in BOOLEAN
      /\ t.w \in Nat
  BY FieldBytes, FieldIs, TypesAre DEF Widths
<1>3. ReadField(t, s, p) =
        IF ~Fits(s, p, t.w) \/ (t.text /\ ~Fits(s, start, x)) THEN Thrown
        ELSE IF t.text
        THEN [ok |-> TRUE, value |-> SubSeq(s, start + 1, start + x), pos |-> start + x]
        ELSE [ok |-> TRUE, value |-> x, pos |-> start]
  BY DEF ReadField
<1>4. CASE t \in Ints /\ f.value \in Held(t)
  <2>1. ~t.text /\ e = Encode(t.w, f.value) /\ Len(e) = t.w
    BY <1>4, FieldBytes, TypesAre
  <2>2. x = f.value
    <3>1. p + t.w <= Len(s) /\ \A i \in 1..t.w : s[p + i] = Encode(t.w, f.value)[i]
      BY <2>1
    <3> QED BY <1>2, <1>4, <3>1, ReadIntIs
  <2>3. Fits(s, p, t.w)
    <3>1. p + t.w <= Len(s) /\ p + t.w < Pow[4]
      BY <1>1, <1>2, <2>1
    <3> QED BY <1>1, <1>2, <3>1, FitsIs
  <2>4. ReadField(t, s, p) = [ok |-> TRUE, value |-> x, pos |-> start]
    <3> HIDE DEF t, start, x
    <3> QED BY <1>3, <2>1, <2>3
  <2>5. start = p + Len(e)
    BY <2>1
  <2> HIDE DEF t, start, x, e
  <2>6. ReadField(t, s, p) = [ok |-> TRUE, value |-> f.value, pos |-> p + Len(e)]
    BY <2>2, <2>4, <2>5
  <2> QED BY <2>6 DEF t, e
<1>5. CASE t = StringType /\ f.value \in Strings
  <2> DEFINE v == f.value
  <2>1. t.text /\ t.w = 4 /\ t.signed \in BOOLEAN
    BY <1>5 DEF StringType
  <2>2. /\ Len(e) = 4 + Len(v) /\ Len(v) \in Nat
        /\ \A i \in 1..4 : e[i] = Encode(4, Len(v))[i]
        /\ \A i \in 1..Len(v) : e[4 + i] = v[i]
    BY <2>1, FieldBytes
  <2>3. v \in Seq(Bytes) /\ Len(v) \in Held(t)
    BY <1>5, LengthsHeld
  <2> HIDE DEF v, e
  <2>4. p + 4 <= Len(s) /\ p + 4 < Pow[4] /\ (p + 4) + Len(v) <= Len(s) /\ (p + 4) + Len(v) < Pow[4]
    BY <1>1, <2>2 DEF e
  <2>5. x = Len(v)
    <3>1. \A i \in 1..4 : s[p + i] = Encode(4, Len(v))[i]
      <4>1. \A i \in 1..4 : i \in 1..Len(e)
        BY <2>2
      <4> QED BY <2>2, <4>1 DEF e
    <3> HIDE DEF t
    <3>2. p + t.w <= Len(s) /\ \A i \in 1..t.w : s[p + i] = Encode(t.w, Len(v))[i]
      BY <2>1, <2>4, <3>1
    <3> QED BY <1>2, <2>1, <2>3, <3>2, ReadIntIs
  <2>6. Fits(s, p, t.w) /\ Fits(s, start, x)
    <3>1. start = p + 4 /\ start \in Nat
      BY <2>1
    <3> QED BY <1>1, <2>1, <2>2, <2>4, <2>5, <3>1, FitsIs
  <2> DEFINE q == SubSeq(s, (p + 4) + 1, (p + 4) + Len(v))
  <2>7. q = v
    <3> DEFINE m == p + 4
               k == (p + 4) + Len(v)
    <3>1. m \in Nat /\ k \in Nat /\ m <= k /\ k <= Len(s) /\ k - m = Len(v)
      BY <2>2, <2>4
    <3>2. /\ q \in Seq(Cells) /\ Len(q) = k - m
          /\ \A i \in 1..(k - m) : q[i] = s[m + i]
      <4> HIDE DEF m, k
      <4>1. q = SubSeq(s, m + 1, k)
        BY DEF m, k
      <4> HIDE DEF q
      <4> QED BY <3>1, <4>1, SliceIs
    <3> HIDE DEF q
    <3>3. ASSUME NEW i \in 1..Len(v) PROVE q[i] = v[i]
      <4>1. m + i = p + (4 + i) /\ 4 + i \in 1..Len(e)
        BY <2>2
      <4>2. s[p + (4 + i)] = e[4 + i]
        BY <4>1 DEF e
      <4> QED BY <2>2, <3>1, <3>2, <4>1, <4>2
    <3>4. v \in Seq(Cells)
      <4>1. Bytes \subseteq Cells
        BY DEF Cells
      <4> QED BY <2>3, <4>1, SeqMonotonic
    <3> QED BY <3>1, <3>2, <3>3, <3>4, SeqEqual
  <2> HIDE DEF q
  <2>8. SubSeq(s, start + 1, start + x) = v /\ start + x = p + Len(e)
    <3>1. start = p + 4 /\ p + (4 + Len(v)) = (p + 4) + Len(v)
      BY <2>1, <2>2
    <3> HIDE DEF start, x
    <3> QED BY <2>2, <2>5, <2>7, <3>1 DEF q
  <2> HIDE DEF x, start
  <2> QED BY <1>3, <2>1, <2>6, <2>8 DEF e, v
<1> QED BY <1>4, <1>5, FieldIs

\* Behind the last byte every read throws.
LEMMA NothingBeyond ==
  ASSUME NEW t \in Ints \cup {StringType}, NEW s, Len(s) \in Nat, Len(s) + 8 < Pow[4]
  PROVE  ReadField(t, s, Len(s)) = Thrown
<1>1. t.w \in 1..8
  BY TypesAre DEF Widths
<1> DEFINE len == Len(s)
           w == t.w
           P == Pow[4]
<1>2. P \in Nat
  BY PowPos
<1>3. len + w < P /\ ~(len + w <= len) /\ w \in Nat
  <2>1. len \in Nat /\ len + 8 < P /\ w \in 1..8
    BY <1>1
  <2> HIDE DEF len, w, P
  <2> QED BY <1>2, <2>1
<1>4. Fits(s, len, w) <=> len + w <= len
  <2> HIDE DEF w
  <2> QED BY <1>3, FitsIs
<1>5. ~Fits(s, Len(s), t.w)
  BY <1>3, <1>4
<1> QED BY <1>5 DEF ReadField

-----------------------------------------------------------------------------
(***************************************************************************)
(* The buffer: a field of the header patched in, a field of the body put   *)
(* behind the others.                                                      *)
(***************************************************************************)

\* The fields of the header.
Names == {"length", "version", "flag", "pkt_id", "seq_no"}

\* The bytes of x at the place of a header's field.
OnWire(b, name, x) ==
  \A i \in 1..Width[name] : b.cells[Offset[name] + i] = Encode(Width[name], x)[i]

\* Where the fields fs start in the body of b, and where the last one ends.
Laid(at, b, fs) ==
  /\ at \in [1..(Len(fs) + 1) -> Nat]
  /\ at[1] = 0 /\ at[Len(fs) + 1] = b.w - PktHeaderLen
  /\ \A i, j \in 1..(Len(fs) + 1) : i < j => at[i] < at[j]
  /\ \A i \in 1..Len(fs) :
       /\ at[i + 1] = at[i] + Len(EncodeField(fs[i]))
       /\ \A j \in 1..Len(EncodeField(fs[i])) :
            b.cells[PktHeaderLen + at[i] + j] = EncodeField(fs[i])[j]

\* What is in a buffer of a packet.
PktBuf(b) == BufOK(Cells, b) /\ b.r = 0 /\ PktHeaderLen <= b.w

\* Such a buffer, part by part.
LEMMA PktBufIs ==
  ASSUME NEW b, PktBuf(b)
  PROVE  /\ b.cells \in Seq(Cells) /\ Len(b.cells) \in Nat /\ b.w \in Nat /\ b.r = 0
         /\ 16 <= b.w /\ b.w <= Len(b.cells) /\ b = [cells |-> b.cells, w |-> b.w, r |-> b.r]
         /\ DOMAIN b.cells = 1..Len(b.cells) /\ \A i \in 1..Len(b.cells) : b.cells[i] \in Cells
<1>1. /\ b \in [cells : Seq(Cells), w : Nat, r : Nat] /\ b.w <= Len(b.cells)
      /\ b.r = 0 /\ 16 <= b.w
  BY DEF PktBuf, BufOK, Sound, AllocSize, PktHeaderLen
<1>2. b.cells \in Seq(Cells) /\ b.w \in Nat /\ b = [cells |-> b.cells, w |-> b.w, r |-> b.r]
  BY <1>1
<1> QED BY <1>1, <1>2, LenProperties, ElementOfSeq

\* The fields of the header: inside it, and apart from one another.
LEMMA PlacesAre ==
  /\ DOMAIN Offset = Names
  /\ \A a \in Names : Offset[a] \in Nat /\ Width[a] \in Widths /\ Offset[a] + Width[a] <= 16
  /\ \A a, b \in Names : a # b => \/ Offset[a] + Width[a] <= Offset[b]
                                  \/ Offset[b] + Width[b] <= Offset[a]
BY DEF Names, Offset, Width, Widths

\* A field of the header patched in: the rest is as it was.
LEMMA PatchKeeps ==
  ASSUME NEW b, PktBuf(b), NEW name \in Names, NEW x \in Int
  PROVE  LET c == PatchField(b, name, x)
         IN  /\ PktBuf(c) /\ c.w = b.w
             /\ \A i \in 17..b.w : c.cells[i] = b.cells[i]
             /\ OnWire(c, name, x)
             /\ \A other \in Names \ {name} : \A y : OnWire(b, other, y) => OnWire(c, other, y)
<1> DEFINE o == Offset[name]
           w == Width[name]
           e == Encode(w, x)
           f == [i \in DOMAIN b.cells |->
                   IF i \in (o + 1)..(o + Len(e)) THEN e[i - o] ELSE b.cells[i]]
           c == PatchField(b, name, x)
<1>1. /\ b.cells \in Seq(Cells) /\ Len(b.cells) \in Nat /\ b.w \in Nat /\ b.r = 0
      /\ 16 <= b.w /\ b.w <= Len(b.cells) /\ b = [cells |-> b.cells, w |-> b.w, r |-> b.r]
      /\ DOMAIN b.cells = 1..Len(b.cells) /\ \A i \in 1..Len(b.cells) : b.cells[i] \in Cells
  BY PktBufIs
<1>2. o \in Nat /\ w \in Widths /\ w \in Nat /\ o + w <= 16
  BY PlacesAre DEF Widths
<1>3. /\ e \in Seq(Bytes) /\ Len(e) = w /\ \A i \in 1..w : e[i] \in Cells
  <2>1. e \in Seq(Bytes) /\ Len(e) = w
    BY <1>2, EncodeIs DEF Bytes
  <2>2. \A i \in 1..w : e[i] \in Bytes
    BY <2>1, ElementOfSeq
  <2> QED BY <2>1, <2>2 DEF Cells
<1>4. c = [b EXCEPT !.cells = f]
  BY DEF PatchField, Patch
<1> HIDE DEF o, w, e
<1>5. ASSUME NEW i \in 1..w PROVE f[o + i] = e[i]
  <2>1. o + i \in 1..Len(b.cells) /\ o + i \in (o + 1)..(o + Len(e)) /\ (o + i) - o = i
    BY <1>1, <1>2, <1>3
  <2> QED BY <1>1, <2>1
<1>6. ASSUME NEW i \in 1..Len(b.cells), i <= o \/ o + w < i PROVE f[i] = b.cells[i]
  <2>1. i \notin (o + 1)..(o + Len(e))
    BY <1>2, <1>3, <1>6
  <2> QED BY <1>1, <2>1
<1>7. f \in [1..Len(b.cells) -> Cells]
  <2> SUFFICES ASSUME NEW i \in 1..Len(b.cells) PROVE f[i] \in Cells
    BY <1>1
  <2>1. CASE i <= o \/ o + w < i
    BY <1>1, <1>6, <2>1
  <2>2. CASE ~(i <= o \/ o + w < i)
    <3>1. i - o \in 1..w /\ o + (i - o) = i
      BY <1>2, <2>2
    <3> QED BY <1>3, <1>5, <3>1
  <2> QED BY <2>1, <2>2
<1>8. f \in Seq(Cells) /\ Len(f) = Len(b.cells)
  BY <1>1, <1>7, FcnIsSeq
<1> HIDE DEF f
<1>9. c = [cells |-> f, w |-> b.w, r |-> b.r]
  BY <1>1, <1>4
<1> HIDE DEF c
<1>10. PktBuf(c) /\ c.w = b.w /\ c.cells = f
  BY <1>1, <1>8, <1>9 DEF PktBuf, BufOK, Sound, AllocSize, PktHeaderLen
<1>11. \A i \in 17..b.w : c.cells[i] = b.cells[i]
  <2> SUFFICES ASSUME NEW i \in 17..b.w PROVE f[i] = b.cells[i]
    BY <1>10
  <2>1. i \in 1..Len(b.cells) /\ o + w < i
    BY <1>1, <1>2
  <2> QED BY <1>6, <2>1
<1>12. OnWire(c, name, x)
  BY <1>5, <1>10 DEF OnWire, o, w, e
<1>13. ASSUME NEW other \in Names \ {name}, NEW y, OnWire(b, other, y) PROVE OnWire(c, other, y)
  <2> DEFINE p == Offset[other]
             v == Width[other]
  <2>1. p \in Nat /\ v \in Nat /\ p + v <= 16 /\ (o + w <= p \/ p + v <= o)
    BY <1>13, PlacesAre DEF Widths, o, w
  <2>2. \A i \in 1..v : b.cells[p + i] = Encode(v, y)[i]
    BY <1>13 DEF OnWire
  <2>3. ASSUME NEW i \in 1..v PROVE f[p + i] = b.cells[p + i]
    <3> HIDE DEF p, v
    <3>1. p + i \in 1..Len(b.cells) /\ (p + i <= o \/ o + w < p + i)
      BY <1>1, <1>2, <2>1
    <3> QED BY <1>6, <3>1
  <2>4. \A i \in 1..v : c.cells[p + i] = Encode(v, y)[i]
    <3> HIDE DEF p, v
    <3> QED BY <1>10, <2>2, <2>3
  <2> QED BY <2>4 DEF OnWire
<1> QED BY <1>10, <1>11, <1>12, <1>13 DEF c

\* A field of the body, or the room for the header, behind what is written.
LEMMA PutKeeps ==
  ASSUME NEW b, BufOK(Cells, b), b.r = 0, NEW data \in Seq(Cells)
  PROVE  LET c == Write(b, data)
         IN  /\ BufOK(Cells, c) /\ c.r = 0 /\ c.w = b.w + Len(data)
             /\ \A i \in 1..b.w : c.cells[i] = b.cells[i]
             /\ \A i \in 1..Len(data) : c.cells[b.w + i] = data[i]
<1> DEFINE c == Write(b, data)
<1>1. Junk \in Cells
  BY DEF Cells
<1>2. /\ BufOK(Cells, c) /\ ReadableLen(c) = ReadableLen(b) + Len(data)
      /\ \A i \in 1..ReadableLen(b) : Readable(c)[i] = Readable(b)[i]
      /\ \A i \in 1..Len(data) : Readable(c)[ReadableLen(b) + i] = data[i]
  BY <1>1, WriteAppends
<1>3. c.r = b.r
  <2> DEFINE room == IF NeedsRoom(b, Len(data)) THEN Extend(b, Len(data)) ELSE b
  <2>1. room.r = b.r /\ room = [cells |-> room.cells, w |-> room.w, r |-> room.r]
    <3>1. b = [cells |-> b.cells, w |-> b.w, r |-> b.r]
      BY DEF BufOK
    <3> DEFINE more == [i \in 1..ExtendSize(b, Len(data)) |->
                          IF i <= AllocSize(b) THEN b.cells[i] ELSE Junk]
               e    == Extend(b, Len(data))
    <3>2. e = [b EXCEPT !.cells = more]
      BY DEF Extend
    <3> HIDE DEF more, e
    <3>3. e = [cells |-> more, w |-> b.w, r |-> b.r]
      BY <3>1, <3>2
    <3>4. e.r = b.r /\ e = [cells |-> e.cells, w |-> e.w, r |-> e.r]
      BY <3>3
    <3> QED BY <3>1, <3>4 DEF e
  <2>2. c = IncWriteOffset(Store(room, data), Len(data))
    BY DEF Write
  <2> HIDE DEF room, c
  <2> DEFINE g == [i \in DOMAIN room.cells |->
                     IF i \in (room.w + 1)..(room.w + Len(data))
                     THEN data[i - room.w] ELSE room.cells[i]]
  <2>3. Store(room, data) = [room EXCEPT !.cells = g]
    BY DEF Store
  <2> HIDE DEF g
  <2>4. Store(room, data) = [cells |-> g, w |-> room.w, r |-> room.r]
    BY <2>1, <2>3
  <2> QED BY <2>1, <2>2, <2>4 DEF IncWriteOffset
<1> HIDE DEF c
<1>4. b.w \in Nat /\ c.w \in Nat /\ b.r = 0 /\ c.r = 0 /\ Len(data) \in Nat
  BY <1>2, <1>3, LenProperties DEF BufOK
<1>5. ReadableLen(b) = b.w /\ ReadableLen(c) = c.w
  BY <1>4 DEF ReadableLen
<1>6. \A i \in 1..c.w : Readable(c)[i] = c.cells[i]
  <2>1. \A i \in 1..ReadableLen(c) : Readable(c)[i] = c.cells[c.r + i]
    BY <1>2, ReadableIs
  <2> QED BY <1>4, <1>5, <2>1
<1>7. \A i \in 1..b.w : Readable(b)[i] = b.cells[i]
  <2>1. \A i \in 1..ReadableLen(b) : Readable(b)[i] = b.cells[b.r + i]
    BY ReadableIs
  <2> QED BY <1>4, <1>5, <2>1
<1>8. c.w = b.w + Len(data)
  BY <1>2, <1>5
<1>9. ASSUME NEW i \in 1..b.w PROVE c.cells[i] = b.cells[i]
  <2>1. i \in 1..c.w
    BY <1>4, <1>8
  <2> QED BY <1>2, <1>5, <1>6, <1>7, <2>1
<1>10. ASSUME NEW i \in 1..Len(data) PROVE c.cells[b.w + i] = data[i]
  <2>1. b.w + i \in 1..c.w
    BY <1>4, <1>8
  <2> QED BY <1>2, <1>5, <1>6, <2>1
<1> QED BY <1>2, <1>4, <1>8, <1>9, <1>10 DEF c

\* The packet and its body, as the reader has them.
LEMMA WireIs ==
  ASSUME PktBuf(buf)
  PROVE  /\ Incoming \in Seq(Cells) /\ Len(Incoming) = buf.w
         /\ \A i \in 1..buf.w : Incoming[i] = buf.cells[i]
         /\ Body \in Seq(Cells) /\ Len(Body) = buf.w - 16 /\ buf.w - 16 \in Nat
         /\ \A i \in 1..(buf.w - 16) : Body[i] = buf.cells[16 + i]
<1>1. /\ buf.cells \in Seq(Cells) /\ Len(buf.cells) \in Nat /\ buf.w \in Nat
      /\ 16 <= buf.w /\ buf.w <= Len(buf.cells)
  BY PktBufIs
<1> DEFINE s == buf.cells
           w == buf.w
           p == Incoming
           q == Body
<1>2. p = SubSeq(s, 0 + 1, w)
  BY DEF Incoming
<1>3. p \in Seq(Cells) /\ Len(p) = w /\ \A i \in 1..w : p[i] = s[i]
  <2> HIDE DEF s, w, p
  <2>1. /\ p \in Seq(Cells) /\ Len(p) = w - 0
        /\ \A i \in 1..(w - 0) : p[i] = s[0 + i]
    BY <1>1, <1>2, SliceIs DEF s, w
  <2>2. w \in Nat
    BY <1>1 DEF w
  <2> QED BY <2>1, <2>2
<1>4. q = SubSeq(p, 16 + 1, w)
  BY <1>3 DEF Body, PktHeaderLen
<1>5. /\ q \in Seq(Cells) /\ Len(q) = w - 16 /\ w - 16 \in Nat
      /\ \A i \in 1..(w - 16) : q[i] = p[16 + i]
  <2>1. w \in Nat /\ 16 <= w
    BY <1>1
  <2> HIDE DEF p, q, w
  <2> QED BY <1>3, <1>4, <2>1, SliceIs
<1>6. ASSUME NEW i \in 1..(w - 16) PROVE q[i] = s[16 + i]
  <2>1. 16 + i \in 1..w
    BY <1>1
  <2> HIDE DEF p, q, w, s
  <2> QED BY <1>3, <1>5, <2>1
<1> QED BY <1>3, <1>5, <1>6

-----------------------------------------------------------------------------
(***************************************************************************)
(* Where the fields of the body start.                                     *)
(***************************************************************************)

\* Half of what a type holds is at least 2, so that all of Edges is in it.
LEMMA EdgesHeld ==
  ASSUME NEW t, t.w \in Widths, t.signed \in BOOLEAN, NEW x \in Edges(t)
  PROVE  x \in Held(t)
<1> DEFINE P == Pow[t.w]
           h == Pow[t.w] \div 2
           p == Pow[t.w - 1]
<1>1. h \in Nat /\ P = 2 * h
  BY Halves
<1>2. Base \in Nat /\ Base > 3
  <2>1. Base \in Nat /\ Base > 2 /\ Base % 2 = 0
    BY CodecAssumption
  <2> QED BY <2>1
<1>3. h > 1
  <2>1. t.w - 1 \in 0..7 /\ (t.w - 1) + 1 = t.w
    BY DEF Widths
  <2>2. p \in Nat /\ p > 0 /\ P = Base * p
    BY <2>1, PowPos, PowNext
  <2> HIDE DEF p, P, h
  <2>3. Base * p > 3
    BY <1>2, <2>2
  <2> QED BY <1>1, <2>2, <2>3
<1>4. Edges(t) = IF t.signed THEN {-h, -1, 0, 1, h - 1} ELSE {0, 1, h, P - 1}
  BY DEF Edges
<1>5. Held(t) = IF t.signed THEN -h..(h - 1) ELSE 0..(P - 1)
  BY DEF Held
<1> HIDE DEF h, P
<1> QED BY <1>1, <1>3, <1>4, <1>5

\* Each field lies inside the body.
LEMMA LaidIn ==
  ASSUME NEW n \in Nat, ShortPackets(n), NEW fs \in Seq(Fields), Len(fs) <= MaxFields,
         NEW b, b.w \in Nat, NEW at, Laid(at, b, fs), NEW i \in 1..Len(fs)
  PROVE  /\ at[i] \in Nat /\ fs[i] \in Fields /\ MaxFields > 0
         /\ Len(EncodeField(fs[i])) \in 1..(n + 8)
         /\ at[i + 1] = at[i] + Len(EncodeField(fs[i]))
         /\ at[i] + Len(EncodeField(fs[i])) <= b.w - 16
<1>1. Len(fs) \in Nat /\ fs[i] \in Fields
  BY LenProperties, ElementOfSeq
<1>2. MaxFields > 0
  BY <1>1, CodecAssumption
<1> DEFINE m == Len(fs)
           l == Len(EncodeField(fs[i]))
<1>3. l \in 1..(n + 8)
  BY <1>1, <1>2, FieldBytes
<1>4. at \in [1..(m + 1) -> Nat] /\ at[m + 1] = b.w - 16 /\ at[i + 1] = at[i] + l
  BY DEF Laid, PktHeaderLen
<1>5. i = m \/ at[i + 1] < at[m + 1]
  <2>1. i + 1 \in 1..(m + 1) /\ m + 1 \in 1..(m + 1) /\ (i = m \/ i + 1 < m + 1)
    BY <1>1
  <2> QED BY <2>1 DEF Laid
<1>6. at[i] \in Nat /\ at[i + 1] \in Nat /\ at[m + 1] \in Nat
  BY <1>1, <1>4
<1>7. at[i + 1] <= at[m + 1]
  BY <1>5, <1>6
<1> HIDE DEF l, m
<1> QED BY <1>1, <1>2, <1>3, <1>4, <1>6, <1>7 DEF l

\* The body stays where it is while the header changes.
LEMMA LaidKept ==
  ASSUME NEW n \in Nat, ShortPackets(n), NEW fs \in Seq(Fields), Len(fs) <= MaxFields,
         NEW b, b.w \in Nat, NEW at, Laid(at, b, fs),
         NEW c, c.w = b.w, \A i \in 17..b.w : c.cells[i] = b.cells[i]
  PROVE  Laid(at, c, fs)
<1>1. ASSUME NEW i \in 1..Len(fs), NEW j \in 1..Len(EncodeField(fs[i]))
      PROVE  c.cells[PktHeaderLen + at[i] + j] = EncodeField(fs[i])[j]
  <2> DEFINE l == Len(EncodeField(fs[i]))
             a == at[i]
             k == PktHeaderLen + at[i] + j
  <2>1. a \in Nat /\ l \in 1..(n + 8) /\ a + l <= b.w - 16 /\ j \in 1..l
    BY LaidIn
  <2>2. k \in 17..b.w
    <3>1. k = 16 + a + j
      BY DEF PktHeaderLen
    <3> HIDE DEF a, l, k
    <3> QED BY <2>1, <3>1
  <2>3. b.cells[k] = EncodeField(fs[i])[j]
    BY DEF Laid
  <2> HIDE DEF k
  <2> QED BY <2>2, <2>3 DEF k
<1> QED BY <1>1 DEF Laid

\* The packet c is b with e written behind it.
Extended(c, b, e) ==
  /\ c.w = b.w + Len(e)
  /\ \A i \in 1..b.w : c.cells[i] = b.cells[i]
  /\ \A i \in 1..Len(e) : c.cells[b.w + i] = e[i]

\* One more field starts where the body ended.
LEMMA LaidAppend ==
  ASSUME NEW n \in Nat, ShortPackets(n), NEW fs \in Seq(Fields), Len(fs) < MaxFields,
         NEW b, b.w \in Nat, 16 <= b.w, NEW at, Laid(at, b, fs), NEW f \in Fields,
         NEW c, Extended(c, b, EncodeField(f))
  PROVE  \E at2 : Laid(at2, c, Append(fs, f)) /\ at2[1] = 0
<1>0. /\ c.w = b.w + Len(EncodeField(f)) /\ \A i \in 1..b.w : c.cells[i] = b.cells[i]
      /\ \A i \in 1..Len(EncodeField(f)) : c.cells[b.w + i] = EncodeField(f)[i]
  BY DEF Extended
<1> DEFINE m  == Len(fs)
           l  == Len(EncodeField(f))
           gs == Append(fs, f)
           t  == [i \in 1..(m + 2) |-> IF i <= m + 1 THEN at[i] ELSE c.w - 16]
<1>1. m \in Nat /\ MaxFields > 0 /\ m <= MaxFields
  BY LenProperties, CodecAssumption
<1>2. l \in 1..(n + 8)
  BY <1>1, FieldBytes
<1>3. /\ gs \in Seq(Fields) /\ Len(gs) = m + 1
      /\ \A i \in 1..m : gs[i] = fs[i]
      /\ gs[m + 1] = f
  BY AppendProperties
<1>4. /\ at \in [1..(m + 1) -> Nat] /\ at[1] = 0 /\ at[m + 1] = b.w - 16
      /\ \A i, j \in 1..(m + 1) : i < j => at[i] < at[j]
  BY DEF Laid, PktHeaderLen
<1>5. \A i \in 1..m : /\ Len(EncodeField(fs[i])) \in Nat
                      /\ at[i + 1] = at[i] + Len(EncodeField(fs[i]))
                      /\ at[i] + Len(EncodeField(fs[i])) <= b.w - 16
                      /\ at[i] \in Nat
  <2> SUFFICES ASSUME NEW i \in 1..m
               PROVE  /\ Len(EncodeField(fs[i])) \in Nat
                      /\ at[i + 1] = at[i] + Len(EncodeField(fs[i]))
                      /\ at[i] + Len(EncodeField(fs[i])) <= b.w - 16
                      /\ at[i] \in Nat
    OBVIOUS
  <2>1. /\ Len(EncodeField(fs[i])) \in 1..(n + 8)
        /\ at[i + 1] = at[i] + Len(EncodeField(fs[i]))
        /\ at[i] + Len(EncodeField(fs[i])) <= b.w - 16
        /\ at[i] \in Nat
    BY <1>1, LaidIn
  <2> QED BY <2>1
<1>6. \A i \in 1..m : \A j \in 1..Len(EncodeField(fs[i])) :
        b.cells[PktHeaderLen + at[i] + j] = EncodeField(fs[i])[j]
  BY DEF Laid
<1>7. c.w = b.w + l
  BY <1>0
<1> HIDE DEF m, l, gs
<1>8. /\ t \in [1..(m + 2) -> Nat]
      /\ \A i \in 1..(m + 1) : t[i] = at[i]
      /\ t[m + 2] = c.w - 16
  <2>1. c.w - 16 \in Nat
    BY <1>2, <1>7
  <2>2. \A i \in 1..(m + 1) : i \in 1..(m + 2) /\ at[i] \in Nat
    BY <1>1, <1>4
  <2>3. m + 2 \in 1..(m + 2) /\ ~(m + 2 <= m + 1)
    BY <1>1
  <2> QED BY <2>1, <2>2, <2>3
<1> HIDE DEF t
<1>9. t[1] = 0 /\ t[m + 2] = c.w - PktHeaderLen
  <2>1. 1 \in 1..(m + 1)
    BY <1>1
  <2> QED BY <1>4, <1>8, <2>1 DEF PktHeaderLen
<1>10. ASSUME NEW i \in 1..(m + 2), NEW j \in 1..(m + 2), i < j PROVE t[i] < t[j]
  <2>1. i \in 1..(m + 1)
    BY <1>1, <1>10
  <2>2. CASE j \in 1..(m + 1)
    BY <1>4, <1>8, <1>10, <2>1, <2>2
  <2>3. CASE j = m + 2
    <3>1. at[i] <= at[m + 1]
      <4>1. m + 1 \in 1..(m + 1) /\ (i = m + 1 \/ i < m + 1)
        BY <1>1, <2>1
      <4>2. at[i] \in Nat /\ at[m + 1] \in Nat
        BY <1>4, <2>1, <4>1
      <4>3. i = m + 1 \/ at[i] < at[m + 1]
        BY <1>4, <2>1, <4>1
      <4> QED BY <4>2, <4>3
    <3>2. at[i] \in Nat /\ t[i] = at[i] /\ t[j] = c.w - 16
      BY <1>4, <1>8, <2>1, <2>3
    <3> QED BY <1>2, <1>4, <1>7, <3>1, <3>2
  <2> QED BY <1>1, <2>2, <2>3
<1>11. ASSUME NEW i \in 1..(m + 1)
       PROVE  /\ t[i + 1] = t[i] + Len(EncodeField(gs[i]))
              /\ \A j \in 1..Len(EncodeField(gs[i])) :
                   c.cells[PktHeaderLen + t[i] + j] = EncodeField(gs[i])[j]
  <2>1. CASE i \in 1..m
    <3>1. gs[i] = fs[i] /\ t[i] = at[i] /\ t[i + 1] = at[i + 1]
      <4>1. i + 1 \in 1..(m + 1)
        BY <1>1, <2>1
      <4> QED BY <1>3, <1>8, <2>1, <4>1
    <3>2. ASSUME NEW j \in 1..Len(EncodeField(fs[i]))
          PROVE  c.cells[PktHeaderLen + at[i] + j] = EncodeField(fs[i])[j]
      <4> DEFINE k  == PktHeaderLen + at[i] + j
                 a  == at[i]
                 l2 == Len(EncodeField(fs[i]))
                 w  == b.w
      <4>1. k \in 1..w
        <5>1. a \in Nat /\ l2 \in Nat /\ a + l2 <= w - 16 /\ j \in 1..l2 /\ w \in Nat
          BY <1>5, <2>1
        <5>2. k = 16 + a + j
          BY DEF PktHeaderLen
        <5> HIDE DEF k, a, l2, w
        <5> QED BY <5>1, <5>2
      <4>2. b.cells[k] = EncodeField(fs[i])[j]
        BY <1>6, <2>1
      <4> HIDE DEF k
      <4> QED BY <1>0, <4>1, <4>2 DEF k
    <3> QED BY <1>5, <2>1, <3>1, <3>2
  <2>2. CASE i = m + 1
    <3>1. gs[i] = f /\ t[i] = b.w - 16 /\ t[i + 1] = c.w - 16
      <4>1. i + 1 = m + 2
        BY <1>1, <2>2
      <4> QED BY <1>3, <1>4, <1>8, <2>2, <4>1
    <3>2. t[i + 1] = t[i] + l
      BY <1>2, <1>7, <3>1
    <3>3. ASSUME NEW j \in 1..l
          PROVE  c.cells[PktHeaderLen + t[i] + j] = EncodeField(f)[j]
      <4>1. PktHeaderLen + t[i] + j = b.w + j
        BY <1>2, <3>1 DEF PktHeaderLen
      <4> QED BY <1>0, <4>1 DEF l
    <3> QED BY <3>1, <3>2, <3>3 DEF l
  <2> QED BY <1>1, <2>1, <2>2
<1>12. Laid(t, c, gs)
  <2>1. Len(gs) + 1 = m + 2
    BY <1>1, <1>3
  <2>2. /\ t \in [1..(Len(gs) + 1) -> Nat]
        /\ t[1] = 0 /\ t[Len(gs) + 1] = c.w - PktHeaderLen
        /\ \A i, j \in 1..(Len(gs) + 1) : i < j => t[i] < t[j]
    BY <1>8, <1>9, <1>10, <2>1
  <2> QED BY <1>3, <1>11, <2>2 DEF Laid
<1> QED BY <1>9, <1>12 DEF gs

-----------------------------------------------------------------------------
(***************************************************************************)
(* The inductive invariant, and the writer's steps.                        *)
(***************************************************************************)

\* The values of the header's fields.
Shorts == 0..(Pow[2] - 1)
Longs  == 0..(Pow[4] - 1)

Headers == [version : Shorts, flag : Shorts, pkt_id : Longs, seq_no : Longs]

\* What the header says a field is.
Said(name) == IF name = "length" THEN buf.w ELSE header[name]

\* No field is longer than n + 8.
BodyInv(n) ==
  /\ body \in Seq(Fields) /\ Len(body) <= MaxFields
  /\ buf.w <= PktHeaderLen + Len(body) * (n + 8)

\* Written once, the bytes of the header keep saying what the header says.
HeaderInv ==
  /\ header \in Headers
  /\ phase # "fill" => \A name \in Names : OnWire(buf, name, Said(name))

\* The reader has the values of the first fields and stands where the next starts.
ReadInv ==
  /\ got \in Seq(Values) /\ Len(got) <= Len(body)
  /\ \A i \in 1..Len(got) : got[i] = body[i].value
  /\ \E at : Laid(at, buf, body) /\ pos = at[Len(got) + 1]

\* What the constructors have done so far.
PhaseInv ==
  /\ phase \in {"fill", "ready", "parse", "parsed", "thrown"}
  /\ expect \in Nat
  /\ phase \in {"fill", "ready"} => got = <<>>
  /\ phase = "parse" => Len(got) <= expect /\ expect <= Len(body) + 1
  /\ phase = "parsed" => Len(got) = Len(body)
  /\ phase = "thrown" => expect # Len(body)

CodecInv(n) == PktBuf(buf) /\ BodyInv(n) /\ HeaderInv /\ ReadInv /\ PhaseInv

\* A packet stays far from 2^32 bytes.
LEMMA NeverLong ==
  ASSUME NEW n \in Nat, ShortPackets(n), CodecInv(n)
  PROVE  /\ buf.w \in Longs /\ buf.w - 16 + 8 < Pow[4]
         /\ Len(body) \in Nat /\ Len(got) \in Nat
<1>1. /\ buf.w \in Nat /\ 16 <= buf.w /\ Len(body) \in Nat /\ Len(got) \in Nat
      /\ Len(body) <= MaxFields /\ MaxFields \in Nat
  <2>1. buf.w \in Nat /\ 16 <= buf.w
    BY PktBufIs DEF CodecInv
  <2> QED BY <2>1, LenProperties, CodecAssumption DEF CodecInv, BodyInv, ReadInv
<1> DEFINE l == Len(body)
           w == buf.w
           a == l * (n + 8)
           b == MaxFields * (n + 8)
<1>2. a <= b /\ a \in Nat /\ b \in Nat
  <2> HIDE DEF l
  <2>1. l \in Nat /\ l <= MaxFields /\ MaxFields \in Nat /\ n + 8 \in Nat
    BY <1>1 DEF l
  <2> QED BY <2>1
<1>3. w <= 16 + a /\ 16 + b < Pow[4] /\ Pow[4] \in Nat
  BY PowPos DEF CodecInv, BodyInv, ShortPackets, PktHeaderLen
<1> HIDE DEF l, w, a, b
<1>4. w \in Nat
  BY <1>1 DEF w
<1>5. w \in Longs /\ w - 16 + 8 < Pow[4]
  BY <1>2, <1>3, <1>4 DEF Longs
<1> QED BY <1>1, <1>5 DEF w

\* What the header says are values of its fields' types.
LEMMA SaidHeld ==
  ASSUME NEW n \in Nat, ShortPackets(n), CodecInv(n), NEW name \in Names
  PROVE  Said(name) \in Held(Unsigned(Width[name])) /\ Said(name) \in Int
<1>1. Held(Unsigned(Width[name])) = 0..(Pow[Width[name]] - 1)
  BY DEF Held, Unsigned
<1>2. buf.w \in Longs /\ header \in Headers
  BY NeverLong DEF CodecInv, HeaderInv
<1>3. Pow[2] \in Nat /\ Pow[4] \in Nat
  BY PowPos
<1>4. CASE name = "length"
  BY <1>1, <1>2, <1>3, <1>4 DEF Said, Width, Longs
<1>5. CASE name \in {"version", "flag"}
  <2>1. header[name] \in Shorts /\ Width[name] = 2 /\ name # "length"
    BY <1>2, <1>5 DEF Headers, Width
  <2> QED BY <1>1, <1>3, <2>1 DEF Said, Shorts
<1>6. CASE name \in {"pkt_id", "seq_no"}
  <2>1. header[name] \in Longs /\ Width[name] = 4 /\ name # "length"
    BY <1>2, <1>6 DEF Headers, Width
  <2> QED BY <1>1, <1>3, <2>1 DEF Said, Longs
<1> QED BY <1>4, <1>5, <1>6 DEF Names

\* SETUP_PKT_HEADER.
LEMMA CodecStarts ==
  ASSUME NEW n \in Nat, ShortPackets(n), CodecInit
  PROVE  CodecInv(n)
<1> DEFINE room == [i \in 1..PktHeaderLen |-> Junk]
<1>1. room \in Seq(Cells) /\ Len(room) = 16
  <2>1. room \in [1..16 -> Cells]
    BY DEF Cells, PktHeaderLen
  <2> HIDE DEF room
  <2> QED BY <2>1, FcnIsSeq
<1>2. BufOK(Cells, Empty) /\ Empty.r = 0 /\ Empty.w = 0
  <2>1. <<>> \in Seq(Cells) /\ Len(<<>>) = 0
    BY EmptySeq
  <2> QED BY <2>1 DEF BufOK, Empty, Sound, AllocSize
<1>3. /\ buf = Write(Empty, room) /\ body = <<>> /\ got = <<>> /\ pos = 0
      /\ phase = "fill" /\ expect = 0
  BY DEF CodecInit
<1> HIDE DEF room
<1>4. PktBuf(buf) /\ buf.w = 16
  <2> DEFINE c == Write(Empty, room)
  <2>1. BufOK(Cells, c) /\ c.r = 0 /\ c.w = Empty.w + Len(room)
    BY <1>1, <1>2, PutKeeps
  <2> HIDE DEF c
  <2>2. BufOK(Cells, c) /\ c.r = 0 /\ c.w = 16
    BY <1>1, <1>2, <2>1
  <2>3. buf = c
    BY <1>3 DEF c
  <2> QED BY <2>2, <2>3 DEF PktBuf, PktHeaderLen
<1>5. body \in Seq(Fields) /\ Len(body) = 0 /\ got \in Seq(Values) /\ Len(got) = 0
  BY <1>3, EmptySeq
<1>6. BodyInv(n)
  BY <1>4, <1>5, CodecAssumption DEF BodyInv, PktHeaderLen
<1>7. HeaderInv
  <2>1. Pow[4] = Base * Base * Base * Base /\ Pow[2] > 1 /\ Pow[2] \in Nat /\ Pow[4] \in Nat
    <3>1. Base \in Nat /\ Base > 2
      BY CodecAssumption
    <3>2. Pow[1] = Base
      <4>1. Pow[1] = Base * Pow[0] /\ Pow[0] = 1
        BY PowNext
      <4> QED BY <3>1, <4>1
    <3>3. Pow[2] = Base * Base /\ Pow[3] = Base * (Base * Base)
      BY <3>2, PowNext
    <3>4. Pow[4] = Base * (Base * (Base * Base))
      BY <3>3, PowNext
    <3>5. Base * Base > 1
      BY <3>1
    <3> DEFINE q == Base * Base
    <3>6. q \in Nat
      BY <3>1
    <3>7. Base * (Base * q) = q * q
      <4>1. Base * (Base * q) = (Base * Base) * q
        <5> HIDE DEF q
        <5> QED BY <3>1, <3>6
      <4> QED BY <4>1
    <3>8. q * Base * Base = q * q
      <4> HIDE DEF q
      <4>1. q * Base * Base = q * (Base * Base)
        BY <3>1, <3>6
      <4> QED BY <4>1 DEF q
    <3> QED BY <3>3, <3>4, <3>5, <3>7, <3>8, PowPos
  <2>2. header = [version |-> 1, flag |-> 0, pkt_id |-> PktId, seq_no |-> 0]
    BY DEF CodecInit
  <2>3. PktId \in Longs
    BY <2>1, CodecAssumption DEF Longs
  <2>4. 1 \in Shorts /\ 0 \in Shorts /\ 0 \in Longs
    BY <2>1, <2>3 DEF Shorts, Longs
  <2>5. header \in Headers
    BY <2>2, <2>3, <2>4 DEF Headers
  <2> QED BY <1>3, <2>5 DEF HeaderInv
<1>8. ReadInv
  <2> DEFINE at == [i \in 1..1 |-> 0]
  <2>1. at \in [1..(Len(body) + 1) -> Nat] /\ at[1] = 0 /\ Len(body) + 1 = 1
    BY <1>5
  <2> HIDE DEF at
  <2>2. Laid(at, buf, body)
    BY <1>4, <1>5, <2>1 DEF Laid, PktHeaderLen
  <2>3. pos = at[Len(got) + 1]
    BY <1>3, <1>5, <2>1
  <2> QED BY <1>5, <2>2, <2>3 DEF ReadInv
<1>9. PhaseInv
  BY <1>3 DEF PhaseInv
<1> QED BY <1>4, <1>6, <1>7, <1>8, <1>9 DEF CodecInv

\* operator<<, WriteString.
LEMMA PutFieldKeeps ==
  ASSUME NEW n \in Nat, ShortPackets(n), CodecInv(n), NEW t, NEW x, PutField(t, x),
         \/ t \in Ints /\ x \in Edges(t)
         \/ t = StringType /\ x \in Strings
  PROVE  CodecInv(n)'
<1> DEFINE f == [type |-> t, value |-> x]
           e == EncodeField(f)
<1>1. f \in Fields
  <2>1. CASE t \in Ints /\ x \in Edges(t)
    <3>1. x \in Held(t)
      BY <2>1, TypesAre, EdgesHeld
    <3>2. f \in [type : {t}, value : Held(t)]
      BY <3>1
    <3> HIDE DEF f
    <3>3. f \in IntFields
      BY <2>1, <3>2, Zenon DEF IntFields
    <3> QED BY <3>3 DEF Fields
  <2>2. CASE t = StringType /\ x \in Strings
    <3>1. f \in [type : {StringType}, value : Strings]
      BY <2>2
    <3> HIDE DEF f
    <3> QED BY <3>1 DEF Fields
  <2> QED BY <2>1, <2>2
<1>2. /\ phase = "fill" /\ Len(body) < MaxFields /\ buf' = Write(buf, e) /\ body' = Append(body, f)
      /\ header' = header /\ phase' = phase /\ expect' = expect /\ got' = got /\ pos' = pos
  BY DEF PutField
<1> HIDE DEF f
<1>3. /\ body \in Seq(Fields) /\ Len(body) \in Nat /\ MaxFields \in Nat /\ MaxFields > 0
      /\ got = <<>> /\ Len(got) = 0
  <2>1. body \in Seq(Fields) /\ got = <<>>
    BY <1>2 DEF CodecInv, BodyInv, PhaseInv
  <2>2. Len(body) \in Nat /\ Len(got) = 0
    BY <2>1, LenProperties, EmptySeq
  <2> QED BY <1>2, <2>1, <2>2, CodecAssumption
<1>4. e \in Seq(Bytes) /\ Len(e) \in 1..(n + 8)
  BY <1>1, <1>3, FieldBytes
<1>5. e \in Seq(Cells)
  <2>1. Bytes \subseteq Cells
    BY DEF Cells
  <2> HIDE DEF e
  <2> QED BY <1>4, <2>1, SeqMonotonic
<1>6. BufOK(Cells, buf) /\ buf.r = 0 /\ buf.w \in Nat /\ 16 <= buf.w
  BY PktBufIs DEF CodecInv, PktBuf
<1> HIDE DEF e
<1>7. /\ BufOK(Cells, buf') /\ buf'.r = 0 /\ buf'.w = buf.w + Len(e)
      /\ \A i \in 1..buf.w : buf'.cells[i] = buf.cells[i]
      /\ \A i \in 1..Len(e) : buf'.cells[buf.w + i] = e[i]
  BY <1>2, <1>5, <1>6, PutKeeps
<1>8. PktBuf(buf)'
  BY <1>4, <1>6, <1>7 DEF PktBuf, PktHeaderLen
<1>9. body' \in Seq(Fields) /\ Len(body') = Len(body) + 1
  BY <1>1, <1>2, <1>3, AppendProperties
<1>10. BodyInv(n)'
  <2> DEFINE l == Len(body)
             k == n + 8
  <2>1. buf.w <= 16 + l * k
    BY DEF CodecInv, BodyInv, PktHeaderLen
  <2>2. (l + 1) * k = l * k + k /\ l * k \in Nat
    <3>1. l \in Nat /\ k \in Nat
      BY <1>3
    <3> HIDE DEF l, k
    <3> QED BY <3>1
  <2>3. buf'.w <= 16 + (l + 1) * k
    <3> DEFINE a == l * k
               d == (l + 1) * k
               w == buf.w
               v == Len(e)
    <3>1. w \in Nat /\ v \in Nat /\ v <= k /\ k \in Nat /\ buf'.w = w + v /\ w <= 16 + a
      BY <1>4, <1>6, <1>7, <2>1
    <3> HIDE DEF a, d, w, v, k
    <3> QED BY <2>2, <3>1 DEF a, d
  <2>4. Len(body') = l + 1 /\ Len(body') <= MaxFields
    BY <1>2, <1>3, <1>9
  <2> HIDE DEF l, k
  <2> QED BY <1>9, <2>3, <2>4 DEF BodyInv, PktHeaderLen, k
<1>11. HeaderInv'
  BY <1>2 DEF CodecInv, HeaderInv
<1>12. ReadInv'
  <2>1. PICK at : Laid(at, buf, body) /\ pos = at[Len(got) + 1]
    BY DEF CodecInv, ReadInv
  <2>2. pos = 0
    BY <1>3, <2>1 DEF Laid
  <2>3. \E at2 : Laid(at2, buf', Append(body, f)) /\ at2[1] = 0
    <3>1. /\ buf'.w = buf.w + Len(EncodeField(f))
          /\ \A i \in 1..Len(EncodeField(f)) : buf'.cells[buf.w + i] = EncodeField(f)[i]
      BY <1>7 DEF e
    <3>2. /\ body \in Seq(Fields) /\ Len(body) < MaxFields /\ Laid(at, buf, body)
          /\ \A i \in 1..buf.w : buf'.cells[i] = buf.cells[i]
      BY <1>2, <1>3, <1>7, <2>1
    <3>3. buf.w \in Nat /\ 16 <= buf.w /\ f \in Fields
      BY <1>1, <1>6
    <3> DEFINE c == buf'
    <3>4. Extended(c, buf, EncodeField(f))
      BY <3>1, <3>2 DEF Extended
    <3> HIDE DEF c
    <3>5. \E at2 : Laid(at2, c, Append(body, f)) /\ at2[1] = 0
      BY <3>2, <3>3, <3>4, LaidAppend, Zenon
    <3> QED BY <3>5 DEF c
  <2>4. Len(got') = 0 /\ Len(got') + 1 = 1 /\ got' \in Seq(Values) /\ pos' = 0
    BY <1>2, <1>3, <2>2, EmptySeq
  <2>5. Len(got') <= Len(body')
    BY <1>3, <1>9, <2>4
  <2> QED BY <1>2, <2>3, <2>4, <2>5 DEF ReadInv
<1>13. PhaseInv'
  BY <1>2 DEF CodecInv, PhaseInv
<1> QED BY <1>8, <1>10, <1>11, <1>12, <1>13 DEF CodecInv

\* The body and the reader do not notice a change of the header's bytes.
LEMMA HeaderOnly ==
  ASSUME NEW n \in Nat, ShortPackets(n), CodecInv(n),
         PktBuf(buf'), buf'.w = buf.w, \A i \in 17..buf.w : buf'.cells[i] = buf.cells[i],
         body' = body, got' = got, pos' = pos
  PROVE  PktBuf(buf)' /\ BodyInv(n)' /\ ReadInv'
<1>1. BodyInv(n)'
  BY DEF CodecInv, BodyInv
<1>2. ReadInv'
  <2>1. PICK at : Laid(at, buf, body) /\ pos = at[Len(got) + 1]
    BY DEF CodecInv, ReadInv
  <2>2. body \in Seq(Fields) /\ Len(body) <= MaxFields /\ buf.w \in Nat
    BY PktBufIs DEF CodecInv, BodyInv
  <2>3. Laid(at, buf', body)
    BY <2>1, <2>2, LaidKept
  <2> QED BY <2>1, <2>3 DEF CodecInv, ReadInv
<1> QED BY <1>1, <1>2

\* SetVersion, SetFlag, SetSeqNo.
LEMMA SetKeeps ==
  ASSUME NEW n \in Nat, ShortPackets(n), CodecInv(n), NEW name \in Setters, Set(name)
  PROVE  CodecInv(n)'
<1>1. PICK x \in Edges(Unsigned(Width[name])) : SetField(name, x)
  BY DEF Set
<1>2. /\ phase' = phase /\ phase \in {"fill", "ready"} /\ body' = body /\ expect' = expect
      /\ got' = got /\ pos' = pos
  BY DEF Set
<1>3. /\ buf' = PatchField(buf, name, x) /\ header' = [header EXCEPT ![name] = x]
  BY <1>1 DEF SetField
<1>4. name \in Names /\ name # "length" /\ name # "pkt_id"
  BY DEF Setters, Names
<1>5. x \in 0..(Pow[Width[name]] - 1) /\ x \in Int
  <2> DEFINE t == Unsigned(Width[name])
  <2>1. t.w \in Widths /\ t.signed = FALSE /\ t.w = Width[name]
    BY <1>4, PlacesAre DEF Unsigned
  <2>2. x \in Held(t)
    <3> HIDE DEF t
    <3> QED BY <1>1, <2>1, EdgesHeld DEF t
  <2>3. Held(t) = 0..(Pow[Width[name]] - 1)
    BY <2>1 DEF Held
  <2>4. x \in Int
    <3> HIDE DEF t
    <3> QED BY <2>1, <2>2, HeldAreInts
  <2> QED BY <2>2, <2>3, <2>4
<1>6. /\ PktBuf(buf') /\ buf'.w = buf.w
      /\ \A i \in 17..buf.w : buf'.cells[i] = buf.cells[i]
      /\ OnWire(buf', name, x)
      /\ \A other \in Names \ {name} : \A y : OnWire(buf, other, y) => OnWire(buf', other, y)
  BY <1>3, <1>4, <1>5, PatchKeeps DEF CodecInv
<1>7. PktBuf(buf)' /\ BodyInv(n)' /\ ReadInv'
  BY <1>2, <1>6, HeaderOnly
<1>8. header \in Headers /\ header' \in Headers /\ header'[name] = x
      /\ \A other \in Names \ {name, "length"} : header'[other] = header[other]
  <2>1. header \in Headers
    BY DEF CodecInv, HeaderInv
  <2>2. name \in {"version", "flag"} => x \in Shorts
    BY <1>5 DEF Width, Shorts
  <2>3. name = "seq_no" => x \in Longs
    BY <1>5 DEF Width, Longs
  <2> QED BY <1>3, <2>1, <2>2, <2>3 DEF Headers, Setters, Names
<1>9. HeaderInv'
  <2>1. ASSUME phase' # "fill", NEW other \in Names PROVE OnWire(buf', other, Said(other)')
    <3>1. OnWire(buf, other, Said(other))
      BY <1>2, <2>1 DEF CodecInv, HeaderInv
    <3>2. CASE other = name
      BY <1>4, <1>6, <1>8, <3>2 DEF Said
    <3>3. CASE other # name
      <4>1. Said(other)' = Said(other)
        BY <1>6, <1>8, <3>3 DEF Said
      <4> QED BY <1>6, <3>1, <3>3, <4>1
    <3> QED BY <3>2, <3>3
  <2> QED BY <1>8, <2>1 DEF HeaderInv
<1>10. PhaseInv'
  BY <1>2 DEF CodecInv, PhaseInv
<1> QED BY <1>7, <1>9, <1>10 DEF CodecInv

-----------------------------------------------------------------------------
(***************************************************************************)
(* WriteHeader, the reader, and the theorems.                              *)
(***************************************************************************)

\* WriteHeader: five patches, none of which disturbs another.
LEMMA WriteHeaderKeeps ==
  ASSUME NEW n \in Nat, ShortPackets(n), CodecInv(n), WriteHeader
  PROVE  CodecInv(n)'
<1> DEFINE b1 == PatchField(buf, "length", buf.w)
           b2 == PatchField(b1, "version", header.version)
           b3 == PatchField(b2, "flag", header.flag)
           b4 == PatchField(b3, "pkt_id", header.pkt_id)
           b5 == PatchField(b4, "seq_no", header.seq_no)
           Rest(c) == \A i \in 17..buf.w : c.cells[i] = buf.cells[i]
<1>1. /\ phase = "fill" /\ phase' = "ready" /\ buf' = b5
      /\ header' = header /\ body' = body /\ expect' = expect /\ got' = got /\ pos' = pos
  BY DEF WriteHeader, WrittenLength
<1>2. /\ PktBuf(buf) /\ buf.w \in Int /\ header.version \in Int /\ header.flag \in Int
      /\ header.pkt_id \in Int /\ header.seq_no \in Int
  <2>1. /\ Said("length") = buf.w /\ Said("version") = header.version /\ Said("flag") = header.flag
        /\ Said("pkt_id") = header.pkt_id /\ Said("seq_no") = header.seq_no
    BY DEF Said
  <2>2. \A name \in Names : Said(name) \in Int
    BY SaidHeld
  <2> QED BY <2>1, <2>2 DEF CodecInv, Names
<1>3. \A name \in {"length", "version", "flag", "pkt_id", "seq_no"} : name \in Names
  BY DEF Names
<1>4. PktBuf(b1) /\ b1.w = buf.w /\ Rest(b1) /\ OnWire(b1, "length", buf.w)
  BY <1>2, <1>3, PatchKeeps
<1> HIDE DEF b1
<1>5. /\ PktBuf(b2) /\ b2.w = buf.w /\ Rest(b2) /\ OnWire(b2, "version", header.version)
      /\ OnWire(b2, "length", buf.w)
  <2>1. /\ PktBuf(b2) /\ b2.w = b1.w /\ \A i \in 17..b1.w : b2.cells[i] = b1.cells[i]
        /\ OnWire(b2, "version", header.version)
        /\ \A other \in Names \ {"version"} : \A y : OnWire(b1, other, y) => OnWire(b2, other, y)
    BY <1>2, <1>3, <1>4, PatchKeeps
  <2> HIDE DEF b2
  <2> QED BY <1>3, <1>4, <2>1
<1> HIDE DEF b2
<1>6. /\ PktBuf(b3) /\ b3.w = buf.w /\ Rest(b3) /\ OnWire(b3, "flag", header.flag)
      /\ OnWire(b3, "version", header.version) /\ OnWire(b3, "length", buf.w)
  <2>1. /\ PktBuf(b3) /\ b3.w = b2.w /\ \A i \in 17..b2.w : b3.cells[i] = b2.cells[i]
        /\ OnWire(b3, "flag", header.flag)
        /\ \A other \in Names \ {"flag"} : \A y : OnWire(b2, other, y) => OnWire(b3, other, y)
    BY <1>2, <1>3, <1>5, PatchKeeps
  <2> HIDE DEF b3
  <2> QED BY <1>3, <1>5, <2>1
<1> HIDE DEF b3
<1>7. /\ PktBuf(b4) /\ b4.w = buf.w /\ Rest(b4) /\ OnWire(b4, "pkt_id", header.pkt_id)
      /\ OnWire(b4, "flag", header.flag) /\ OnWire(b4, "version", header.version)
      /\ OnWire(b4, "length", buf.w)
  <2>1. /\ PktBuf(b4) /\ b4.w = b3.w /\ \A i \in 17..b3.w : b4.cells[i] = b3.cells[i]
        /\ OnWire(b4, "pkt_id", header.pkt_id)
        /\ \A other \in Names \ {"pkt_id"} : \A y : OnWire(b3, other, y) => OnWire(b4, other, y)
    BY <1>2, <1>3, <1>6, PatchKeeps
  <2> HIDE DEF b4
  <2> QED BY <1>3, <1>6, <2>1
<1> HIDE DEF b4
<1>8. /\ PktBuf(b5) /\ b5.w = buf.w /\ Rest(b5) /\ OnWire(b5, "seq_no", header.seq_no)
      /\ OnWire(b5, "pkt_id", header.pkt_id) /\ OnWire(b5, "flag", header.flag)
      /\ OnWire(b5, "version", header.version) /\ OnWire(b5, "length", buf.w)
  <2>1. /\ PktBuf(b5) /\ b5.w = b4.w /\ \A i \in 17..b4.w : b5.cells[i] = b4.cells[i]
        /\ OnWire(b5, "seq_no", header.seq_no)
        /\ \A other \in Names \ {"seq_no"} : \A y : OnWire(b4, other, y) => OnWire(b5, other, y)
    BY <1>2, <1>3, <1>7, PatchKeeps
  <2> HIDE DEF b5
  <2> QED BY <1>3, <1>7, <2>1
<1> HIDE DEF b5
<1>9. PktBuf(buf)' /\ BodyInv(n)' /\ ReadInv'
  <2>1. PktBuf(buf') /\ buf'.w = buf.w /\ \A i \in 17..buf.w : buf'.cells[i] = buf.cells[i]
    BY <1>1, <1>8
  <2> QED BY <1>1, <2>1, HeaderOnly
<1>10. HeaderInv'
  <2>1. header \in Headers
    BY DEF CodecInv, HeaderInv
  <2>2. ASSUME NEW name \in Names PROVE OnWire(buf', name, Said(name)')
    BY <1>1, <1>8 DEF Said, Names
  <2> QED BY <1>1, <2>1, <2>2 DEF HeaderInv
<1>11. PhaseInv'
  BY <1>1 DEF CodecInv, PhaseInv
<1> QED BY <1>9, <1>10, <1>11 DEF CodecInv

\* Where nothing of the packet changes, only what is read is to be shown.
LEMMA PacketKept ==
  ASSUME NEW n \in Nat, CodecInv(n), buf' = buf, header' = header, body' = body,
         phase # "fill" \/ phase' = "fill"
  PROVE  PktBuf(buf)' /\ BodyInv(n)' /\ HeaderInv'
<1>1. \A name : Said(name)' = Said(name)
  BY DEF Said
<1> QED BY <1>1 DEF CodecInv, BodyInv, HeaderInv

\* The reader's constructor begins.
LEMMA StartParseKeeps ==
  ASSUME NEW n \in Nat, ShortPackets(n), CodecInv(n), StartParse
  PROVE  CodecInv(n)'
<1>1. /\ phase = "ready" /\ phase' = "parse" /\ expect' \in 0..(Len(body) + 1)
      /\ buf' = buf /\ header' = header /\ body' = body /\ got' = got /\ pos' = pos
  BY DEF StartParse
<1>2. PktBuf(buf)' /\ BodyInv(n)' /\ HeaderInv'
  BY <1>1, PacketKept
<1>3. ReadInv'
  BY <1>1 DEF CodecInv, ReadInv
<1>4. PhaseInv'
  <2>1. got = <<>>
    BY <1>1 DEF CodecInv, PhaseInv
  <2>2. Len(got) = 0 /\ Len(body) \in Nat
    BY <2>1, NeverLong, EmptySeq
  <2> QED BY <1>1, <2>2 DEF PhaseInv
<1> QED BY <1>2, <1>3, <1>4 DEF CodecInv

\* A read of the reader's constructor: the next field, or behind the last one.
LEMMA NextRead ==
  ASSUME NEW n \in Nat, ShortPackets(n), CodecInv(n), phase = "parse", Len(got) < expect,
         NEW t \in NextType
  PROVE  \/ /\ Len(got) < Len(body)
            /\ \E at : Laid(at, buf, body) /\ pos = at[Len(got) + 1] /\
                 ReadField(t, Body, pos) =
                   [ok |-> TRUE, value |-> body[Len(got) + 1].value, pos |-> at[Len(got) + 2]]
         \/ Len(got) = Len(body) /\ ReadField(t, Body, pos) = Thrown
<1> DEFINE k == Len(got) + 1
<1>1. PICK at : Laid(at, buf, body) /\ pos = at[k]
  BY DEF CodecInv, ReadInv
<1>2. /\ PktBuf(buf) /\ body \in Seq(Fields) /\ Len(body) <= MaxFields /\ buf.w \in Nat
      /\ Len(got) <= Len(body)
  BY PktBufIs DEF CodecInv, BodyInv, ReadInv
<1>3. /\ Len(got) \in Nat /\ Len(body) \in Nat /\ buf.w \in Longs /\ buf.w - 16 + 8 < Pow[4]
      /\ Pow[4] \in Nat
  BY NeverLong, PowPos
<1>4. /\ Body \in Seq(Cells) /\ Len(Body) = buf.w - 16 /\ buf.w - 16 \in Nat
      /\ \A i \in 1..(buf.w - 16) : Body[i] = buf.cells[16 + i]
  BY <1>2, WireIs
<1>5. CASE Len(got) < Len(body)
  <2> DEFINE f == body[k]
             e == EncodeField(f)
  <2>1. k \in 1..Len(body)
    BY <1>3, <1>5
  <2>2. /\ at[k] \in Nat /\ f \in Fields /\ MaxFields > 0 /\ Len(e) \in 1..(n + 8)
        /\ at[k + 1] = at[k] + Len(e) /\ at[k] + Len(e) <= buf.w - 16
    BY <1>1, <1>2, <2>1, LaidIn
  <2>3. t = f.type
    BY <1>5 DEF NextType
  <2>4. pos = at[k] /\ pos + Len(e) <= Len(Body) /\ Len(Body) < Pow[4]
    BY <1>1, <1>3, <1>4, <2>2
  <2>5. \A i \in 1..Len(e) : buf.cells[PktHeaderLen + at[k] + i] = e[i]
    BY <1>1, <2>1 DEF Laid
  <2> HIDE DEF e, k, f
  <2>6. ASSUME NEW i \in 1..Len(e) PROVE Body[pos + i] = e[i]
    <3> DEFINE a == at[k]
               l == Len(e)
               w == buf.w
    <3>1. pos + i \in 1..(w - 16) /\ 16 + (pos + i) = PktHeaderLen + a + i
      <4>1. a \in Nat /\ l \in 1..(n + 8) /\ a + l <= w - 16 /\ w \in Nat /\ i \in 1..l /\ pos = a
        BY <1>2, <2>2, <2>4
      <4> HIDE DEF a, l, w
      <4> QED BY <4>1 DEF PktHeaderLen
    <3> QED BY <1>4, <2>5, <3>1
  <2>7. pos \in Nat
    BY <2>2, <2>4
  <2>8. ReadField(t, Body, pos) = [ok |-> TRUE, value |-> f.value, pos |-> pos + Len(e)]
    BY <1>4, <2>2, <2>3, <2>4, <2>6, <2>7, FieldReads DEF e
  <2>9. ReadField(t, Body, pos) = [ok |-> TRUE, value |-> f.value, pos |-> at[k + 1]]
    BY <2>2, <2>4, <2>8
  <2>10. k + 1 = Len(got) + 2
    BY <1>3 DEF k
  <2> QED BY <1>1, <1>5, <2>9, <2>10 DEF k, f
<1>6. CASE ~(Len(got) < Len(body))
  <2>1. Len(got) = Len(body)
    BY <1>2, <1>3, <1>6
  <2>2. pos = Len(Body)
    BY <1>1, <1>4, <2>1 DEF Laid, PktHeaderLen
  <2>3. t \in Ints \cup {StringType}
    BY <1>6 DEF NextType
  <2>4. Len(Body) \in Nat /\ Len(Body) + 8 < Pow[4]
    BY <1>3, <1>4
  <2>5. ReadField(t, Body, Len(Body)) = Thrown
    BY <2>3, <2>4, NothingBeyond
  <2> QED BY <2>1, <2>2, <2>5
<1> QED BY <1>5, <1>6

\* operator>>, ReadString.
LEMMA ParseFieldKeeps ==
  ASSUME NEW n \in Nat, ShortPackets(n), CodecInv(n), ParseField
  PROVE  CodecInv(n)'
<1>1. /\ phase = "parse" /\ Len(got) < expect
      /\ buf' = buf /\ header' = header /\ body' = body /\ expect' = expect
  BY DEF ParseField
<1>2. PICK t \in NextType :
        LET r == ReadField(t, Body, pos)
        IN  \/ r.ok /\ got' = Append(got, r.value) /\ pos' = r.pos /\ phase' = phase
            \/ ~r.ok /\ phase' = "thrown" /\ got' = got /\ pos' = pos
  BY DEF ParseField
<1>3. PktBuf(buf)' /\ BodyInv(n)' /\ HeaderInv'
  BY <1>1, PacketKept
<1>4. /\ got \in Seq(Values) /\ body \in Seq(Fields) /\ Len(got) \in Nat /\ Len(body) \in Nat
      /\ Len(got) <= Len(body) /\ expect \in Nat /\ expect <= Len(body) + 1
      /\ \A i \in 1..Len(got) : got[i] = body[i].value
  BY <1>1, NeverLong DEF CodecInv, ReadInv, BodyInv, PhaseInv
<1>5. CASE /\ Len(got) < Len(body)
           /\ \E at : Laid(at, buf, body) /\ pos = at[Len(got) + 1] /\
                ReadField(t, Body, pos) =
                  [ok |-> TRUE, value |-> body[Len(got) + 1].value, pos |-> at[Len(got) + 2]]
  <2> DEFINE k == Len(got) + 1
  <2>1. PICK at : /\ Laid(at, buf, body)
                  /\ ReadField(t, Body, pos) =
                       [ok |-> TRUE, value |-> body[k].value, pos |-> at[Len(got) + 2]]
    BY <1>5
  <2>2. got' = Append(got, body[k].value) /\ pos' = at[Len(got) + 2] /\ phase' = "parse"
    BY <1>1, <1>2, <2>1
  <2>3. k \in 1..Len(body) /\ body[k] \in Fields
    BY <1>4, <1>5, ElementOfSeq
  <2>4. body[k].value \in Values
    BY <2>3, FieldIs
  <2>5. /\ got' \in Seq(Values) /\ Len(got') = Len(got) + 1
        /\ \A i \in 1..Len(got) : got'[i] = got[i]
        /\ got'[Len(got) + 1] = body[k].value
    BY <1>4, <2>2, <2>4, AppendProperties
  <2>6. Len(got') <= Len(body') /\ Len(got') + 1 = Len(got) + 2 /\ Len(got') <= expect'
    BY <1>1, <1>4, <1>5, <2>5
  <2>7. ASSUME NEW i \in 1..Len(got') PROVE got'[i] = body'[i].value
    <3>1. i \in 1..Len(got) \/ i = Len(got) + 1
      BY <1>4, <2>5
    <3> QED BY <1>1, <1>4, <2>5, <3>1
  <2>8. ReadInv'
    BY <1>1, <2>1, <2>2, <2>5, <2>6, <2>7 DEF ReadInv
  <2>9. PhaseInv'
    BY <1>1, <1>4, <2>2, <2>6 DEF PhaseInv
  <2> QED BY <1>3, <2>8, <2>9 DEF CodecInv
<1>6. CASE Len(got) = Len(body) /\ ReadField(t, Body, pos) = Thrown
  <2>1. phase' = "thrown" /\ got' = got /\ pos' = pos
    BY <1>2, <1>6 DEF Thrown
  <2>2. ReadInv'
    BY <1>1, <2>1 DEF CodecInv, ReadInv
  <2>3. PhaseInv'
    BY <1>1, <1>4, <1>6, <2>1 DEF PhaseInv
  <2> QED BY <1>3, <2>2, <2>3 DEF CodecInv
<1> QED BY <1>1, <1>5, <1>6, NextRead

\* PARSE_PACKET_ASSERT.
LEMMA EndParseKeeps ==
  ASSUME NEW n \in Nat, ShortPackets(n), CodecInv(n), EndParse
  PROVE  CodecInv(n)'
<1>1. /\ phase = "parse" /\ Len(got) = expect /\ phase' = IF AllRead THEN "parsed" ELSE "thrown"
      /\ buf' = buf /\ header' = header /\ body' = body
      /\ expect' = expect /\ got' = got /\ pos' = pos
  BY DEF EndParse
<1>2. PktBuf(buf)' /\ BodyInv(n)' /\ HeaderInv'
  BY <1>1, PacketKept
<1>3. ReadInv'
  BY <1>1 DEF CodecInv, ReadInv
<1>4. AllRead <=> Len(got) = Len(body)
  <2>1. PICK at : Laid(at, buf, body) /\ pos = at[Len(got) + 1]
    BY DEF CodecInv, ReadInv
  <2>2. Len(got) \in Nat /\ Len(body) \in Nat /\ Len(got) <= Len(body)
    BY NeverLong DEF CodecInv, ReadInv
  <2>3. Len(Body) = buf.w - 16
    BY WireIs DEF CodecInv
  <2>4. at[Len(body) + 1] = Len(Body) /\ at \in [1..(Len(body) + 1) -> Nat]
    BY <2>1, <2>3 DEF Laid, PktHeaderLen
  <2>5. Len(got) + 1 \in 1..(Len(body) + 1) /\ Len(body) + 1 \in 1..(Len(body) + 1)
    BY <2>2
  <2>6. Len(got) < Len(body) => at[Len(got) + 1] < at[Len(body) + 1]
    BY <2>1, <2>2, <2>5 DEF Laid
  <2>7. at[Len(got) + 1] \in Nat /\ at[Len(body) + 1] \in Nat
    BY <2>4, <2>5
  <2> QED BY <2>1, <2>2, <2>4, <2>6, <2>7 DEF AllRead
<1>5. PhaseInv'
  <2>1. expect \in Nat /\ Len(got) \in Nat /\ Len(body) \in Nat
    BY NeverLong DEF CodecInv, PhaseInv
  <2> QED BY <1>1, <1>4, <2>1 DEF PhaseInv
<1> QED BY <1>2, <1>3, <1>5 DEF CodecInv

\* Every step keeps the invariant.
LEMMA CodecKeeps ==
  ASSUME NEW n \in Nat, ShortPackets(n), CodecInv(n), [CodecNext]_codecVars
  PROVE  CodecInv(n)'
<1>1. CASE \E t \in Ints : \E x \in Edges(t) : PutField(t, x)
  BY <1>1, PutFieldKeeps
<1>2. CASE \E x \in Strings : PutField(StringType, x)
  BY <1>2, PutFieldKeeps
<1>3. CASE \E name \in Setters : Set(name)
  BY <1>3, SetKeeps
<1>4. CASE WriteHeader
  BY <1>4, WriteHeaderKeeps
<1>5. CASE StartParse
  BY <1>5, StartParseKeeps
<1>6. CASE ParseField
  BY <1>6, ParseFieldKeeps
<1>7. CASE EndParse
  BY <1>7, EndParseKeeps
<1>8. CASE UNCHANGED codecVars
  <2>1. /\ buf' = buf /\ header' = header /\ body' = body /\ phase' = phase /\ expect' = expect
        /\ got' = got /\ pos' = pos
    BY <1>8 DEF codecVars
  <2>2. PktBuf(buf)' /\ BodyInv(n)' /\ HeaderInv'
    BY <2>1, PacketKept
  <2>3. ReadInv' /\ PhaseInv'
    BY <2>1 DEF CodecInv, ReadInv, PhaseInv
  <2> QED BY <2>2, <2>3 DEF CodecInv
<1> QED BY <1>1, <1>2, <1>3, <1>4, <1>5, <1>6, <1>7, <1>8 DEF CodecNext

\* The bytes of the header read back as what it says.
LEMMA HeaderReads ==
  ASSUME NEW n \in Nat, ShortPackets(n), CodecInv(n)
  PROVE  HeaderOnWire
<1> SUFFICES ASSUME phase # "fill"
             PROVE  \A name \in Names :
                      ReadInt(Unsigned(Width[name]), Incoming, Offset[name]) =
                        IF name = "length" THEN Len(Incoming) ELSE header[name]
  BY PlacesAre DEF HeaderOnWire, ReadPktHeader
<1> TAKE name \in Names
<1> DEFINE t == Unsigned(Width[name])
           o == Offset[name]
<1>1. PktBuf(buf) /\ buf.w \in Nat /\ 16 <= buf.w
  BY PktBufIs DEF CodecInv
<1>2. /\ Incoming \in Seq(Cells) /\ Len(Incoming) = buf.w
      /\ \A i \in 1..buf.w : Incoming[i] = buf.cells[i]
  BY <1>1, WireIs
<1>3. o \in Nat /\ Width[name] \in Widths /\ Width[name] \in Nat /\ o + Width[name] <= 16
  BY PlacesAre DEF Widths
<1>4. t.w = Width[name] /\ t.signed \in BOOLEAN
  BY DEF Unsigned
<1>5. Said(name) \in Held(t)
  BY SaidHeld
<1>6. ASSUME NEW i \in 1..Width[name] PROVE Incoming[o + i] = Encode(Width[name], Said(name))[i]
  <2>1. o + i \in 1..buf.w
    BY <1>1, <1>3
  <2>2. buf.cells[o + i] = Encode(Width[name], Said(name))[i]
    BY DEF CodecInv, HeaderInv, OnWire
  <2> HIDE DEF o
  <2> QED BY <1>2, <2>1, <2>2
<1>7. ReadInt(t, Incoming, o) = Said(name)
  <2>1. o + t.w <= Len(Incoming) /\ \A i \in 1..t.w : Incoming[o + i] = Encode(t.w, Said(name))[i]
    BY <1>1, <1>2, <1>3, <1>4, <1>6
  <2> HIDE DEF t, o
  <2> QED BY <1>2, <1>3, <1>4, <1>5, <2>1, ReadIntIs
<1> QED BY <1>2, <1>7 DEF Said

\* The inductive invariant of the codec.
THEOREM CodecInvariance ==
  ASSUME NEW n \in Nat, ShortPackets(n)
  PROVE  CodecSpec => []CodecInv(n)
<1>1. CodecInit => CodecInv(n)
  BY CodecStarts
<1>2. CodecInv(n) /\ [CodecNext]_codecVars => CodecInv(n)'
  BY CodecKeeps
<1> QED BY <1>1, <1>2, PTL DEF CodecSpec

\* Integers at the edges of any type and strings are read as they were put,
\* whatever was put before them and however often the buffer moved.
THEOREM PacketsSurvive ==
  ASSUME NEW n \in Nat, ShortPackets(n)
  PROVE  CodecSpec => []ValuesSurvive
<1>1. CodecInv(n) => ValuesSurvive
  BY DEF CodecInv, ReadInv, ValuesSurvive
<1> QED BY <1>1, CodecInvariance, PTL

\* The reader of all the fields accepts, every other one throws.
THEOREM PacketsAccepted ==
  ASSUME NEW n \in Nat, ShortPackets(n)
  PROVE  CodecSpec => []AcceptedIffWhole
<1>1. CodecInv(n) => AcceptedIffWhole
  BY DEF CodecInv, PhaseInv, AcceptedIffWhole
<1> QED BY <1>1, CodecInvariance, PTL

\* The header on the wire is the header of the object, and its length the packet's.
THEOREM HeadersAgree ==
  ASSUME NEW n \in Nat, ShortPackets(n)
  PROVE  CodecSpec => []HeaderOnWire
<1>1. CodecInv(n) => HeaderOnWire
  BY HeaderReads
<1> QED BY <1>1, CodecInvariance, PTL
=============================================================================
