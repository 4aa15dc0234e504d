--------------------------- MODULE DbFormatProofs ---------------------------
(***************************************************************************)
(* Proofs about DbFormat: what append_db_row packs, parse_db_row unpacks,  *)
(* whatever the compressor makes of the value and however long that is.    *)
(* The arithmetic is kept behind names (the low and the high digits of a   *)
(* number, a character of a group, a byte of it), so that the steps about  *)
(* positions need not look into it.                                        *)
(***************************************************************************)
EXTENDS DbFormat, TLAPS

LEMMA ElementOf ==
  ASSUME NEW S, NEW s \in Seq(S), NEW i \in 1..Len(s)
  PROVE  s[i] \in S
OBVIOUS

-----------------------------------------------------------------------------
(* Six bits at a time. *)
Low(v) == v % 64
High(v) == v \div 64

LEMMA LowHigh ==
  ASSUME NEW v \in Nat
  PROVE  Low(v) \in Nat /\ Low(v) < 64 /\ High(v) \in Nat /\ v = 64 * High(v) + Low(v)
BY SMT DEF Low, High

LEMMA LowOfSmall ==
  ASSUME NEW v \in Nat, v < 64
  PROVE  Low(v) = v
BY SMT DEF Low

LEMMA OfMultiple ==
  ASSUME NEW v \in Nat
  PROVE  Low(64 * v) = 0 /\ High(64 * v) = v
BY SMT DEF Low, High

LEMMA Twice ==
  ASSUME NEW v \in Nat
  PROVE  v \div (64 * 64) = High(High(v))
BY SMT DEF High

LEMMA ThreeTimes ==
  ASSUME NEW v \in Nat
  PROVE  v \div (64 * 64 * 64) = High(High(High(v)))
<1>1. v \div (64 * 64 * 64) = (v \div (64 * 64)) \div 64
  BY SMT
<1>2. QED
  BY <1>1, Twice DEF High

LEMMA ByOne ==
  ASSUME NEW v \in Int
  PROVE  v \div 1 = v
BY SMT

(* Character k of a group of three bytes. *)
Sextet(v, k) == (v \div CharWeight[k]) % 64

LEMMA SextetIs ==
  ASSUME NEW v \in Nat
  PROVE  /\ Sextet(v, 1) = Low(High(High(High(v)))) /\ Sextet(v, 2) = Low(High(High(v)))
         /\ Sextet(v, 3) = Low(High(v)) /\ Sextet(v, 4) = Low(v)
<1>1. /\ CharWeight[1] = 64 * 64 * 64 /\ CharWeight[2] = 64 * 64
      /\ CharWeight[3] = 64 /\ CharWeight[4] = 1
  BY DEF CharWeight
<1>2. Sextet(v, 1) = Low(High(High(High(v))))
  BY <1>1, ThreeTimes, Zenon DEF Sextet, Low
<1>3. Sextet(v, 2) = Low(High(High(v)))
  BY <1>1, Twice, Zenon DEF Sextet, Low
<1>4. Sextet(v, 3) = Low(High(v))
  BY <1>1, Zenon DEF Sextet, Low, High
<1>5. Sextet(v, 4) = Low(v)
  <2>1. v \div 1 = v
    BY ByOne
  <2>2. QED
    BY <1>1, <2>1, Zenon DEF Sextet, Low
<1>6. QED
  BY <1>2, <1>3, <1>4, <1>5, Zenon

LEMMA SextetType ==
  ASSUME NEW v \in Nat, NEW k \in 1..4
  PROVE  Sextet(v, k) \in Nat /\ Sextet(v, k) < 64
<1>1. High(v) \in Nat /\ High(High(v)) \in Nat /\ High(High(High(v))) \in Nat
  BY LowHigh
<1>2. k = 1 \/ k = 2 \/ k = 3 \/ k = 4
  OBVIOUS
<1>3. PICK q \in Nat : Sextet(v, k) = Low(q)
  BY <1>1, <1>2, SextetIs, Zenon
<1>4. QED
  BY <1>3, LowHigh, Zenon

Limit == 16777216 (* 2^24 *)

(* The four characters of a group hold its three bytes. *)
LEMMA Regroup ==
  ASSUME NEW v \in Nat, v < Limit
  PROVE  ((Sextet(v, 1) * 64 + Sextet(v, 2)) * 64 + Sextet(v, 3)) * 64 + Sextet(v, 4) = v
<1> DEFINE q1 == High(v)
           q2 == High(q1)
           q3 == High(q2)
<1>1. q1 \in Nat /\ v = 64 * q1 + Low(v) /\ Low(v) \in Nat /\ Low(v) < 64
  BY LowHigh
<1>2. q2 \in Nat /\ q1 = 64 * q2 + Low(q1) /\ Low(q1) \in Nat /\ Low(q1) < 64
  BY <1>1, LowHigh
<1>3. q3 \in Nat /\ q2 = 64 * q3 + Low(q2) /\ Low(q2) \in Nat /\ Low(q2) < 64
  BY <1>2, LowHigh
<1>4. Sextet(v, 1) = Low(q3) /\ Sextet(v, 2) = Low(q2) /\ Sextet(v, 3) = Low(q1)
      /\ Sextet(v, 4) = Low(v)
  BY SextetIs
<1> HIDE DEF q1, q2, q3
<1>5. q3 < 64
  BY <1>1, <1>2, <1>3, SMT DEF Limit
<1>6. Low(q3) = q3
  BY <1>3, <1>5, LowOfSmall
<1>7. QED
  BY <1>1, <1>2, <1>3, <1>4, <1>6, SMT

-----------------------------------------------------------------------------
(* Eight bits at a time. *)
LowByte(v) == v % 256
HighByte(v) == v \div 256

LEMMA OfBytes ==
  ASSUME NEW q \in Nat, NEW r \in Nat, r < 256
  PROVE  LowByte(q * 256 + r) = r /\ HighByte(q * 256 + r) = q
BY SMT DEF LowByte, HighByte

LEMMA LowOfByte ==
  ASSUME NEW r \in Nat, r < 256
  PROVE  LowByte(r) = r
BY SMT DEF LowByte

Octet == 0..255

LEMMA OctetType ==
  ASSUME NEW x \in Octet
  PROVE  x \in Nat /\ x < 256 /\ x % 256 = x
<1>1. x \in Nat /\ x < 256
  BY DEF Octet
<1>2. QED
  BY <1>1, LowOfByte DEF LowByte

LEMMA TwoBytesOn ==
  ASSUME NEW v \in Nat
  PROVE  v \div (256 * 256) = HighByte(HighByte(v))
BY SMT DEF HighByte

(* Byte r of a group of four characters. *)
ByteOf(v, r) == (v \div ByteWeight[r]) % 256

LEMMA ByteOfIs ==
  ASSUME NEW v \in Nat
  PROVE  /\ ByteOf(v, 1) = LowByte(HighByte(HighByte(v)))
         /\ ByteOf(v, 2) = LowByte(HighByte(v)) /\ ByteOf(v, 3) = LowByte(v)
<1>1. ByteWeight[1] = 256 * 256 /\ ByteWeight[2] = 256 /\ ByteWeight[3] = 1
  BY DEF ByteWeight
<1>2. ByteOf(v, 1) = LowByte(HighByte(HighByte(v)))
  BY <1>1, TwoBytesOn, Zenon DEF ByteOf, LowByte
<1>3. ByteOf(v, 2) = LowByte(HighByte(v))
  BY <1>1, Zenon DEF ByteOf, LowByte, HighByte
<1>4. ByteOf(v, 3) = LowByte(v)
  <2>1. v \div 1 = v
    BY ByOne
  <2>2. QED
    BY <1>1, <2>1, Zenon DEF ByteOf, LowByte
<1>5. QED
  BY <1>2, <1>3, <1>4, Zenon

Combine(a, b, c) == (a * 256 + b) * 256 + c

(* What a group of three bytes is made of. *)
LEMMA Bytes ==
  ASSUME NEW a \in Octet, NEW b \in Octet, NEW c \in Octet
  PROVE  /\ Combine(a, b, c) \in Nat /\ Combine(a, b, c) < Limit
         /\ ByteOf(Combine(a, b, c), 1) = a
         /\ ByteOf(Combine(a, b, c), 2) = b
         /\ ByteOf(Combine(a, b, c), 3) = c
<1> DEFINE ab == a * 256 + b
           v == ab * 256 + c
<1>0. a \in Nat /\ b \in Nat /\ c \in Nat /\ a < 256 /\ b < 256 /\ c < 256
  BY OctetType
<1>1. ab \in Nat /\ v \in Nat /\ v < Limit /\ v = Combine(a, b, c)
  BY <1>0, SMT DEF Combine, Limit
<1>2. LowByte(v) = c /\ HighByte(v) = ab
  <2>1. ab \in Nat
    BY <1>1
  <2> HIDE DEF ab
  <2>2. QED
    BY <1>0, <2>1, OfBytes
<1>3. LowByte(ab) = b /\ HighByte(ab) = a
  BY <1>0, OfBytes
<1>4. LowByte(a) = a
  BY <1>0, LowOfByte
<1> HIDE DEF v, ab
<1>5. QED
  BY <1>1, <1>2, <1>3, <1>4, ByteOfIs

(* The characters of bytes that are not there are zero. *)
LEMMA MissingBytes ==
  ASSUME NEW a \in Nat, NEW b \in Nat
  PROVE  /\ Sextet(Combine(a, b, 0), 4) = 0
         /\ Sextet(Combine(a, 0, 0), 3) = 0
<1>1. ASSUME NEW x \in Nat
      PROVE  Sextet(Combine(a, x, 0), 4) = 0
  <2>1. PICK y \in Nat : Combine(a, x, 0) = 64 * y /\ Combine(a, x, 0) \in Nat
    <3>1. 4 * (a * 256 + x) \in Nat /\ Combine(a, x, 0) = 64 * (4 * (a * 256 + x))
          /\ Combine(a, x, 0) \in Nat
      BY SMT DEF Combine
    <3>2. QED
      BY <3>1, Zenon
  <2>2. Low(Combine(a, x, 0)) = 0
    BY <2>1, OfMultiple
  <2>3. QED
    BY <2>1, <2>2, SextetIs
<1>2. Sextet(Combine(a, 0, 0), 3) = 0
  <2>1. /\ Combine(a, 0, 0) = 64 * (64 * (16 * a)) /\ Combine(a, 0, 0) \in Nat
        /\ 64 * (16 * a) \in Nat /\ 16 * a \in Nat
    BY SMT DEF Combine
  <2>2. High(Combine(a, 0, 0)) = 64 * (16 * a)
    BY <2>1, OfMultiple
  <2>3. Low(64 * (16 * a)) = 0
    BY <2>1, OfMultiple
  <2>4. QED
    BY <2>1, <2>2, <2>3, SextetIs
<1>3. QED
  BY <1>1, <1>2

-----------------------------------------------------------------------------
(* Byte k of group g, zero after the end. *)
Byte(src, g, k) == IF 3 * g + k <= Len(src) THEN src[3 * g + k] ELSE 0

Triple(src, g) == Combine(Byte(src, g, 1), Byte(src, g, 2), Byte(src, g, 3))

LEMMA ByteType ==
  ASSUME NEW src \in Seq(Octet), NEW g \in Nat, NEW k \in 1..3
  PROVE  /\ Byte(src, g, k) \in Octet
         /\ (IF 3 * g + k <= Len(src) THEN src[3 * g + k] % 256 ELSE 0) = Byte(src, g, k)
<1>1. CASE 3 * g + k <= Len(src)
  <2>1. 3 * g + k \in 1..Len(src)
    BY <1>1
  <2>2. src[3 * g + k] \in Octet
    BY <2>1, ElementOf, Zenon
  <2>3. src[3 * g + k] % 256 = src[3 * g + k]
    BY <2>2, OctetType, Zenon
  <2>4. QED
    BY <1>1, <2>2, <2>3, Zenon DEF Byte
<1>2. CASE ~(3 * g + k <= Len(src))
  BY <1>2 DEF Byte, Octet
<1>3. QED
  BY <1>1, <1>2, Zenon

LEMMA TripleIs ==
  ASSUME NEW src \in Seq(Octet), NEW g \in Nat
  PROVE  /\ Group(src, g, 3, 256) = Triple(src, g)
         /\ Triple(src, g) \in Nat /\ Triple(src, g) < Limit
<1>1. 1 \in 1..3 /\ 2 \in 1..3 /\ 3 \in 1..3
  OBVIOUS
<1>2. /\ (IF 3 * g + 1 <= Len(src) THEN src[3 * g + 1] % 256 ELSE 0) = Byte(src, g, 1)
      /\ (IF 3 * g + 2 <= Len(src) THEN src[3 * g + 2] % 256 ELSE 0) = Byte(src, g, 2)
      /\ (IF 3 * g + 3 <= Len(src) THEN src[3 * g + 3] % 256 ELSE 0) = Byte(src, g, 3)
      /\ Byte(src, g, 1) \in Octet /\ Byte(src, g, 2) \in Octet
      /\ Byte(src, g, 3) \in Octet
  BY <1>1, ByteType, Zenon
<1>3. Group(src, g, 3, 256) = Triple(src, g)
  <2> DEFINE digit(i) == IF 3 * g + i <= Len(src) THEN src[3 * g + i] % 256 ELSE 0
  <2>1. Group(src, g, 3, 256) = (digit(1) * 256 + digit(2)) * 256 + digit(3)
    BY DEF Group
  <2>2. /\ digit(1) = Byte(src, g, 1) /\ digit(2) = Byte(src, g, 2)
        /\ digit(3) = Byte(src, g, 3)
    BY <1>2
  <2> HIDE DEF digit
  <2>3. QED
    BY <2>1, <2>2, Zenon DEF Triple, Combine
<1>4. Triple(src, g) \in Nat /\ Triple(src, g) < Limit
  BY <1>2, Bytes, Zenon DEF Triple
<1>5. QED
  BY <1>3, <1>4, Zenon

LEMMA TripleBytes ==
  ASSUME NEW src \in Seq(Octet), NEW g \in Nat, NEW k \in 1..3
  PROVE  ByteOf(Triple(src, g), k) = Byte(src, g, k)
<1>1. 1 \in 1..3 /\ 2 \in 1..3 /\ 3 \in 1..3
  OBVIOUS
<1>2. PICK a \in Octet, b \in Octet, c \in Octet :
        /\ a = Byte(src, g, 1) /\ b = Byte(src, g, 2) /\ c = Byte(src, g, 3)
        /\ Triple(src, g) = Combine(a, b, c)
  BY <1>1, ByteType, Zenon DEF Triple
<1>3. /\ ByteOf(Combine(a, b, c), 1) = a /\ ByteOf(Combine(a, b, c), 2) = b
      /\ ByteOf(Combine(a, b, c), 3) = c
  BY Bytes, SMT
<1>4. k = 1 \/ k = 2 \/ k = 3
  OBVIOUS
<1>5. QED
  BY <1>2, <1>3, <1>4

-----------------------------------------------------------------------------
(* How the lengths of the two texts hang together: g whole or part groups. *)
LEMMA Lengths ==
  ASSUME NEW len \in Nat, len > 0
  PROVE  \E q \in Nat, r \in 1..3 :
           /\ len = 3 * q + r /\ Padding(len) = 3 - r
           /\ (len + 2) \div 3 = q + 1
<1>1. PICK q \in Nat, r \in 1..3 : len = 3 * q + r
  <2>1. /\ (len - 1) \div 3 \in Nat /\ ((len - 1) % 3) + 1 \in 1..3
        /\ len = 3 * ((len - 1) \div 3) + ((len - 1) % 3) + 1
    OBVIOUS
  <2>2. QED
    BY <2>1
<1>2. (len + 2) \div 3 = q + 1
  BY <1>1
<1>3. Padding(len) = 3 - r
  BY <1>1 DEF Padding
<1>4. QED
  BY <1>1, <1>2, <1>3

LEMMA CharacterPlace ==
  ASSUME NEW g \in Nat, NEW k \in 1..4
  PROVE  ((4 * g + k) - 1) \div 4 = g /\ (((4 * g + k) - 1) % 4) + 1 = k
OBVIOUS

LEMMA BytePlace ==
  ASSUME NEW g \in Nat, NEW k \in 1..3
  PROVE  ((3 * g + k) - 1) \div 3 = g /\ (((3 * g + k) - 1) % 3) + 1 = k
OBVIOUS

LEMMA PlaceOf ==
  ASSUME NEW i \in Nat, i > 0
  PROVE  \E g \in Nat, k \in 1..3 : i = 3 * g + k
<1>1. /\ (i - 1) \div 3 \in Nat /\ ((i - 1) % 3) + 1 \in 1..3
      /\ i = 3 * ((i - 1) \div 3) + (((i - 1) % 3) + 1)
  OBVIOUS
<1>2. QED
  BY <1>1, Zenon

(* The text of a sequence of 3q + r bytes: q + 1 groups of characters, of  *)
(* which the last 3 - r are '='.  A '=' stands for a zero.                 *)
LEMMA CharacterIs ==
  ASSUME NEW src \in Seq(Octet), NEW q \in Nat, NEW r \in 1..3, Len(src) = 3 * q + r
  PROVE  LET text == Base64Encode(src)
         IN /\ Len(text) = 4 * q + 4
            /\ \A g \in 0..q, k \in 1..4 :
                 /\ text[4 * g + k] % 64 = Sextet(Triple(src, g), k)
                 /\ text[4 * g + k] = Equals <=> 4 * g + k > (4 * q + 4) - (3 - r)
                 /\ text[4 * g + k] \in 0..Equals
<1> DEFINE text == Base64Encode(src)
           n == 4 * q + 4
<1>1. (Len(src) + 2) \div 3 = q + 1 /\ Padding(Len(src)) = 3 - r
  BY DEF Padding
<1>2. text = [j \in 1..n |->
                IF j > n - (3 - r) THEN Equals
                ELSE (Group(src, (j - 1) \div 4, 3, 256)
                        \div CharWeight[((j - 1) % 4) + 1]) % 64]
  <2>1. 4 * ((Len(src) + 2) \div 3) = n
    BY <1>1
  <2>2. QED
    BY <1>1, <2>1, Zenon DEF Base64Encode
<1>3. Len(text) = n
  <2>1. n \in Nat
    OBVIOUS
  <2> HIDE DEF n
  <2>2. QED
    BY <1>2, <2>1
<1>4. ASSUME NEW g \in 0..q, NEW k \in 1..4
      PROVE  /\ text[4 * g + k] % 64 = Sextet(Triple(src, g), k)
             /\ text[4 * g + k] = Equals <=> 4 * g + k > n - (3 - r)
             /\ text[4 * g + k] \in 0..Equals
  <2>1. g \in Nat /\ 4 * g + k \in 1..n
    BY <1>4
  <2>2. /\ ((4 * g + k) - 1) \div 4 = g /\ (((4 * g + k) - 1) % 4) + 1 = k
        /\ Group(src, g, 3, 256) = Triple(src, g)
    BY <2>1, CharacterPlace, TripleIs, Zenon
  <2>3. text[4 * g + k] = IF 4 * g + k > n - (3 - r) THEN Equals ELSE Sextet(Triple(src, g), k)
    <3>1. ASSUME NEW j \in 1..n
          PROVE  text[j] = IF j > n - (3 - r) THEN Equals
                           ELSE (Group(src, (j - 1) \div 4, 3, 256)
                                   \div CharWeight[((j - 1) % 4) + 1]) % 64
      BY <1>2, Zenon
    <3> HIDE DEF text
    <3>2. text[4 * g + k] = IF 4 * g + k > n - (3 - r) THEN Equals
                            ELSE (Group(src, ((4 * g + k) - 1) \div 4, 3, 256)
                                   \div CharWeight[(((4 * g + k) - 1) % 4) + 1]) % 64
      BY <2>1, <3>1, Zenon
    <3>3. QED
      BY <2>2, <3>2, Zenon DEF Sextet
  <2>4. Sextet(Triple(src, g), k) \in Nat /\ Sextet(Triple(src, g), k) < 64
    BY <2>1, TripleIs, SextetType, Zenon
  <2>5. ASSUME ~(4 * g + k > n - (3 - r))
        PROVE  /\ text[4 * g + k] % 64 = Sextet(Triple(src, g), k)
               /\ text[4 * g + k] = Equals <=> 4 * g + k > n - (3 - r)
    <3>1. Sextet(Triple(src, g), k) % 64 = Sextet(Triple(src, g), k)
      BY <2>4, LowOfSmall, Zenon DEF Low
    <3>2. Sextet(Triple(src, g), k) # Equals
      BY <2>4, SMT DEF Equals
    <3>3. QED
      BY <2>3, <2>5, <3>1, <3>2, Zenon
  <2>6. ASSUME 4 * g + k > n - (3 - r)
        PROVE  /\ text[4 * g + k] % 64 = Sextet(Triple(src, g), k)
               /\ text[4 * g + k] = Equals <=> 4 * g + k > n - (3 - r)
    <3>1. g = q /\ k > r + 1
      BY <2>6
    <3>2. \/ k = 4 /\ r < 3
          \/ k = 3 /\ r = 1
      BY <3>1
    <3>3. /\ Byte(src, g, 1) \in Nat /\ Byte(src, g, 2) \in Nat
      <4>1. 1 \in 1..3 /\ 2 \in 1..3
        OBVIOUS
      <4>2. QED
        BY <2>1, <4>1, ByteType, OctetType, Zenon
    <3>4. text[4 * g + k] = Equals /\ Equals % 64 = 0
      <4>1. Equals % 64 = 0
        BY DEF Equals
      <4>2. QED
        BY <2>3, <2>6, <4>1, Zenon
    <3>5. ASSUME k = 4, r < 3
          PROVE  Sextet(Triple(src, g), k) = 0
      <4>1. Byte(src, g, 3) = 0
        BY <3>1, <3>5 DEF Byte
      <4>2. QED
        BY <3>3, <3>5, <4>1, MissingBytes, Zenon DEF Triple
    <3>6. ASSUME k = 3, r = 1
          PROVE  Sextet(Triple(src, g), k) = 0
      <4>1. Byte(src, g, 3) = 0 /\ Byte(src, g, 2) = 0
        BY <3>1, <3>6 DEF Byte
      <4>2. QED
        BY <3>3, <3>6, <4>1, MissingBytes, Zenon DEF Triple
    <3>7. QED
      BY <2>6, <3>2, <3>4, <3>5, <3>6, Zenon
  <2>7. text[4 * g + k] \in 0..Equals
    <3>1. text[4 * g + k] \in {Equals, Sextet(Triple(src, g), k)}
      BY <2>3, Zenon
    <3>2. Equals \in 0..Equals
      BY SMT DEF Equals
    <3>3. Sextet(Triple(src, g), k) \in 0..Equals
      <4>1. ASSUME NEW s \in Nat, s < 64
            PROVE  s \in 0..Equals
        BY <4>1, SMT DEF Equals
      <4>2. QED
        BY <2>4, <4>1, Zenon
    <3>4. QED
      BY <3>1, <3>2, <3>3, Zenon
  <2>8. QED
    BY <2>5, <2>6, <2>7, Zenon
<1>5. QED
  BY <1>3, <1>4, Zenon

(* The decoder is the inverse of the encoder on texts the encoder makes    *)
(* (base64.c:4-50): no stored value comes back longer, shorter or changed. *)
THEOREM RoundTrip ==
  ASSUME NEW src \in Seq(Octet), src # <<>>
  PROVE  Base64Decode(Base64Encode(src)) = {src}
<1>1. PICK q \in Nat, r \in 1..3 : Len(src) = 3 * q + r
  <2>1. Len(src) \in Nat /\ Len(src) > 0
    OBVIOUS
  <2>2. QED
    BY <2>1, PlaceOf, Zenon
<1> DEFINE text == Base64Encode(src)
           n == 4 * q + 4
           ends == {i \in {Len(text) - 1, Len(text)} : i > 0 /\ text[i] = Equals}
           ol == (Len(text) \div 4) * 3 - (IF Len(text) - 1 \in ends THEN 1 ELSE 0)
                   - (IF Len(text) \in ends THEN 1 ELSE 0)
           byte(i) == (Group(text, (i - 1) \div 3, 4, 64)
                         \div ByteWeight[((i - 1) % 3) + 1]) % 256
<1>2. /\ Len(text) = n
      /\ \A g \in 0..q, k \in 1..4 :
           /\ text[4 * g + k] % 64 = Sextet(Triple(src, g), k)
           /\ text[4 * g + k] = Equals <=> 4 * g + k > n - (3 - r)
           /\ text[4 * g + k] \in 0..Equals
  BY <1>1, CharacterIs, Zenon
<1>21. \A i \in 1..Len(text) : text[i] \in 0..Equals
  <2>1. TAKE i \in 1..Len(text)
  <2> DEFINE g == (i - 1) \div 4
             k == ((i - 1) % 4) + 1
  <2>2. i \in 1..n
    BY <1>2
  <2>3. g \in 0..q /\ k \in 1..4 /\ 4 * g + k = i
    <3> HIDE DEF text
    <3>1. QED
      BY <2>2, SMT
  <2>4. text[4 * g + k] \in 0..Equals
    <3> HIDE DEF g, k, text
    <3>1. QED
      BY <1>2, <2>3, Zenon
  <2>5. QED
    BY <2>3, <2>4
<1>3. Base64Decode(text) = {[i \in 1..ol |-> byte(i)]}
  <2>1. Len(text) % 4 = 0
    BY <1>2
  <2>2. QED
    BY <1>21, <2>1, Zenon DEF Base64Decode
<1> HIDE DEF text
<1>4. ol = Len(src)
  <2>1. q \in 0..q /\ 4 \in 1..4 /\ 3 \in 1..4
    OBVIOUS
  <2>2. /\ text[4 * q + 4] = Equals <=> 4 * q + 4 > n - (3 - r)
        /\ text[4 * q + 3] = Equals <=> 4 * q + 3 > n - (3 - r)
    BY <1>2, <2>1, Zenon
  <2>3. /\ n \in ends <=> r < 3
        /\ n - 1 \in ends <=> r < 2
    BY <1>2, <2>2
  <2>4. n \div 4 = q + 1
    OBVIOUS
  <2>5. QED
    BY <1>1, <1>2, <2>3, <2>4
<1>5. ASSUME NEW g \in 0..q
      PROVE  Group(text, g, 4, 64) = Triple(src, g)
  <2> DEFINE digit(i) == IF 4 * g + i <= Len(text) THEN text[4 * g + i] % 64 ELSE 0
  <2>1. Group(text, g, 4, 64)
          = ((digit(1) * 64 + digit(2)) * 64 + digit(3)) * 64 + digit(4)
    BY DEF Group
  <2>2. ASSUME NEW k \in 1..4
        PROVE  digit(k) = Sextet(Triple(src, g), k)
    <3>1. 4 * g + k <= Len(text)
      BY <1>2
    <3>2. QED
      BY <1>2, <3>1, Zenon
  <2>3. 1 \in 1..4 /\ 2 \in 1..4 /\ 3 \in 1..4 /\ 4 \in 1..4
    OBVIOUS
  <2>4. /\ digit(1) = Sextet(Triple(src, g), 1) /\ digit(2) = Sextet(Triple(src, g), 2)
        /\ digit(3) = Sextet(Triple(src, g), 3) /\ digit(4) = Sextet(Triple(src, g), 4)
    BY <2>2, <2>3
  <2> HIDE DEF digit
  <2>5. g \in Nat
    OBVIOUS
  <2>6. PICK v \in Nat : v = Triple(src, g) /\ v < Limit
    BY <2>5, TripleIs, Zenon
  <2>7. ((Sextet(v, 1) * 64 + Sextet(v, 2)) * 64 + Sextet(v, 3)) * 64 + Sextet(v, 4) = v
    BY <2>6, Regroup, Zenon
  <2>8. QED
    BY <2>1, <2>4, <2>6, <2>7, Zenon
<1>6. ASSUME NEW i \in 1..Len(src)
      PROVE  byte(i) = src[i]
  <2>1. i \in Nat /\ i > 0
    OBVIOUS
  <2>2. PICK g \in Nat, k \in 1..3 : i = 3 * g + k
    BY <2>1, PlaceOf, Zenon
  <2>3. (i - 1) \div 3 = g /\ ((i - 1) % 3) + 1 = k
    BY <2>2, BytePlace, Zenon
  <2>4. g \in 0..q
    BY <1>1, <2>2
  <2>5. byte(i) = ByteOf(Triple(src, g), k)
    BY <1>5, <2>3, <2>4, Zenon DEF ByteOf
  <2>6. ByteOf(Triple(src, g), k) = Byte(src, g, k)
    BY <2>2, TripleBytes, Zenon
  <2>7. Byte(src, g, k) = src[i]
    BY <2>2 DEF Byte
  <2>8. QED
    BY <2>5, <2>6, <2>7, Zenon
<1>7. [i \in 1..ol |-> byte(i)] = src
  <2>1. /\ src = [i \in 1..Len(src) |-> src[i]]
    OBVIOUS
  <2> HIDE DEF byte, ol
  <2>2. QED
    BY <1>4, <1>6, <2>1
<1> HIDE DEF byte, ol
<1>8. QED
  BY <1>3, <1>7, Zenon DEF text

(* A row that was appended is read back as it was: a tombstone as one, any *)
(* other value as itself and as nothing else (db_format.c:56-103,114-151). *)
THEOREM ReadsWhatWasWritten ==
  ASSUME NEW value \in Values
  PROVE  Read(Written(value)) = {value}
<1>1. CASE value = Tombstone
  BY <1>1 DEF Read, Written
<1>2. CASE value # Tombstone
  <2>1. /\ value \in DOMAIN Deflate
        /\ Deflate[value] \in Seq(Octet) /\ Deflate[value] # <<>>
    BY <1>2, DbFormatAssumption, Zenon DEF Octet
  <2>2. Base64Decode(Base64Encode(Deflate[value])) = {Deflate[value]}
    BY <2>1, RoundTrip, Zenon
  <2>3. Inflate(Deflate[value]) = {value}
    BY <2>1, DbFormatAssumption DEF Inflate
  <2>4. Written(value) = [packed |-> TRUE, text |-> Base64Encode(Deflate[value])]
    BY <1>2, Zenon DEF Written
  <2>5. Read(Written(value))
          = UNION {Inflate(bytes) : bytes \in Base64Decode(Base64Encode(Deflate[value]))}
    BY <2>4 DEF Read
  <2>6. QED
    BY <2>2, <2>3, <2>5
<1>3. QED
  BY <1>1, <1>2
=============================================================================
