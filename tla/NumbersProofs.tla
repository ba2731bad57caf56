---------------------------- MODULE NumbersProofs ---------------------------
(***************************************************************************)
(* Proofs about numbers and lengths on the wire.                           *)
(***************************************************************************)
EXTENDS Numbers, SequenceTheorems, TLAPS

-----------------------------------------------------------------------------
(***************************************************************************)
(* Division by a number that is not a literal                              *)
(***************************************************************************)
(* Quotient and remainder give the number back.                             *)
LEMMA DivMod ==
  ASSUME NEW n \in Int, NEW N \in Nat, N > 0
  PROVE  /\ n \div N \in Int
         /\ n % N \in 0 .. (N - 1)
         /\ n = (n \div N) * N + (n % N)
OBVIOUS

(* Multiples of N are N apart.                                              *)
LEMMA Apart ==
  ASSUME NEW a \in Int, NEW b \in Int, NEW N \in Nat, N > 0, a < b
  PROVE  a * N + N <= b * N
<1>1. PICK c \in Nat : b = a + 1 + c
  BY b - a - 1 \in Nat
<1>2. b * N = a * N + N + c * N
  BY <1>1
<1>3. c * N \in Nat /\ a * N \in Int
  BY <1>1
<1> QED BY <1>2, <1>3

(* There is one quotient and one remainder.                                 *)
LEMMA DivModUnique ==
  ASSUME NEW n \in Int, NEW N \in Nat, N > 0, NEW q \in Int, NEW r \in 0 .. (N - 1),
         n = q * N + r
  PROVE  n \div N = q /\ n % N = r
<1> DEFINE d == n \div N
           m == n % N
<1>1. d \in Int /\ m \in 0 .. (N - 1) /\ n = d * N + m
  BY DivMod
<1> HIDE DEF d, m
<1>2. d * N \in Int /\ q * N \in Int
  BY <1>1
<1>3. ~(d < q)
  BY <1>1, <1>2, Apart
<1>4. ~(q < d)
  BY <1>1, <1>2, Apart
<1>5. d = q
  BY <1>1, <1>3, <1>4
<1>6. m = r
  BY <1>1, <1>2, <1>5
<1> QED BY <1>5, <1>6 DEF d, m

(* A remainder is its own remainder.                                        *)
LEMMA ModSame ==
  ASSUME NEW N \in Nat, N > 0, NEW n \in 0 .. (N - 1)
  PROVE  n % N = n
<1>1. n \in Int /\ n = 0 * N + n
  OBVIOUS
<1> QED BY <1>1, DivModUnique

(* Two's complement: a number of either sign modulo N = 2 * H.              *)
LEMMA TwosComplement ==
  ASSUME NEW H \in Nat, H > 0, NEW N \in Nat, N = 2 * H, NEW n \in -H .. (H - 1)
  PROVE  n % N = IF n < 0 THEN n + N ELSE n
<1>1. CASE n < 0
  <2>1. n + N \in 0 .. (N - 1) /\ n = (-1) * N + (n + N) /\ -1 \in Int /\ n \in Int
    BY <1>1
  <2> QED BY <1>1, <2>1, DivModUnique
<1>2. CASE n >= 0
  BY <1>2, ModSame
<1> QED BY <1>1, <1>2

-----------------------------------------------------------------------------
(***************************************************************************)
(* Integers of w bytes                                                     *)
(***************************************************************************)
Widths == {1, 2, 4, 8}

(* The square of an even number is even and not smaller.                    *)
LEMMA Square ==
  ASSUME NEW h \in Nat, h > 0
  PROVE  /\ (2 * h) * (2 * h) = 2 * (2 * (h * h))
         /\ 2 * (h * h) \in Nat /\ 2 * (h * h) >= 2 * h
<1>1. h * h \in Nat
  OBVIOUS
<1>2. h * h >= h
  <2>1. CASE h = 1
    BY <2>1
  <2>2. CASE h > 1
    <3>1. 1 * h + h <= h * h
      BY <2>2, Apart
    <3> QED BY <1>1, <3>1
  <2> QED BY <2>1, <2>2
<1> QED BY <1>1, <1>2

(* Halves of the four moduli.                                               *)
LEMMA Moduli ==
  \E h1, h2, h4, h8 \in Nat :
    /\ M1 = 2 * h1 /\ M2 = 2 * h2 /\ M4 = 2 * h4 /\ M8 = 2 * h8
    /\ 0 < h1 /\ h1 <= h2 /\ h2 <= h4 /\ h4 <= h8
<1> DEFINE h1 == Radix \div 2
           h2 == 2 * (h1 * h1)
           h4 == 2 * (h2 * h2)
           h8 == 2 * (h4 * h4)
<1>1. h1 \in Nat /\ h1 > 0 /\ M1 = 2 * h1
  BY NumbersAssumption DEF M1
<1> HIDE DEF h1
<1>2. h2 \in Nat /\ h2 >= 2 * h1 /\ M2 = 2 * h2
  BY <1>1, Square DEF M2
<1> HIDE DEF h2
<1>3. h4 \in Nat /\ h4 >= 2 * h2 /\ M4 = 2 * h4
  BY <1>1, <1>2, Square DEF M4
<1> HIDE DEF h4
<1>4. h8 \in Nat /\ h8 >= 2 * h4 /\ M8 = 2 * h8
  BY <1>1, <1>2, <1>3, Square DEF M8
<1> HIDE DEF h8
<1>5. h1 <= h2 /\ h2 <= h4 /\ h4 <= h8
  BY <1>1, <1>2, <1>3, <1>4
<1> QED BY <1>1, <1>2, <1>3, <1>4, <1>5

(* The modulus of each width.                                               *)
LEMMA ModOf == Mod(1) = M1 /\ Mod(2) = M2 /\ Mod(4) = M4 /\ Mod(8) = M8
<1>1. Mod(1) = M1
  BY DEF Mod
<1>2. Mod(2) = M2
  BY DEF Mod
<1>3. Mod(4) = M4
  BY DEF Mod
<1>4. Mod(8) = M8
  BY DEF Mod
<1> QED BY <1>1, <1>2, <1>3, <1>4

(* Half the modulus of a width, and the bounds it gives.                    *)
Half(w) == Mod(w) \div 2

(* The bounds of a width in terms of half its modulus.                      *)
LEMMA HalfOf ==
  ASSUME NEW w \in Widths
  PROVE  /\ Half(w) \in Nat /\ Half(w) > 0 /\ Half(w) <= Half(8)
         /\ Mod(w) \in Nat /\ Mod(w) > 0 /\ Mod(w) = 2 * Half(w)
         /\ MaxInt(w) = Half(w) - 1 /\ MinInt(w) = -Half(w) /\ MaxUint(w) = 2 * Half(w) - 1
<1>1. PICK h1 \in Nat, h2 \in Nat, h4 \in Nat, h8 \in Nat :
        /\ M1 = 2 * h1 /\ M2 = 2 * h2 /\ M4 = 2 * h4 /\ M8 = 2 * h8
        /\ 0 < h1 /\ h1 <= h2 /\ h2 <= h4 /\ h4 <= h8
  BY Moduli
<1>2. PICK h \in Nat : Mod(w) = 2 * h /\ 0 < h /\ h <= h8
  <2>1. Mod(w) = 2 * h1 \/ Mod(w) = 2 * h2 \/ Mod(w) = 2 * h4 \/ Mod(w) = 2 * h8
    BY <1>1, ModOf DEF Widths
  <2>2. 0 < h2 /\ 0 < h4 /\ 0 < h8 /\ h1 <= h8 /\ h2 <= h8
    BY <1>1
  <2> QED BY <1>1, <2>1, <2>2
<1>3. Mod(8) = 2 * h8
  BY <1>1, ModOf
<1>4. Half(w) = h /\ Half(8) = h8
  BY <1>2, <1>3 DEF Half
<1> QED BY <1>2, <1>4 DEF MaxInt, MinInt, MaxUint, Half

(* uintW(n) is in range, and a number in range is kept.                     *)
LEMMA toUintType ==
  ASSUME NEW w \in Widths, NEW n \in Int
  PROVE  toUint(n, w) \in 0 .. MaxUint(w) /\ toUint(n, w) \in Int
<1>1. n % Mod(w) \in 0 .. (Mod(w) - 1)
  BY HalfOf, DivMod
<1> QED BY <1>1, HalfOf DEF toUint, MaxUint

(* A number in the range of uintW is kept.                                  *)
LEMMA toUintSame ==
  ASSUME NEW w \in Widths, NEW n \in 0 .. MaxUint(w)
  PROVE  toUint(n, w) = n
<1>1. n \in 0 .. (Mod(w) - 1) /\ Mod(w) \in Nat /\ Mod(w) > 0
  BY HalfOf DEF MaxUint
<1> QED BY <1>1, ModSame DEF toUint

(* intW(n) is in range; a number in range is kept, also through uintW.      *)
LEMMA toIntType ==
  ASSUME NEW w \in Widths, NEW n \in Int
  PROVE  toInt(n, w) \in MinInt(w) .. MaxInt(w) /\ toInt(n, w) \in Int
<1>1. toUint(n, w) \in 0 .. (2 * Half(w) - 1)
  BY toUintType, HalfOf
<1> QED BY <1>1, HalfOf DEF toInt

(* A number in the range of intW is kept, also through uintW.               *)
LEMMA toIntSame ==
  ASSUME NEW w \in Widths, NEW n \in MinInt(w) .. MaxInt(w)
  PROVE  toInt(n, w) = n /\ toInt(toUint(n, w), w) = n
<1> DEFINE H == Half(w)
           u == toUint(n, w)
<1>1. /\ H \in Nat /\ H > 0 /\ Mod(w) \in Nat /\ Mod(w) = 2 * H
      /\ MaxInt(w) = H - 1 /\ MaxUint(w) = 2 * H - 1 /\ MinInt(w) = -H
  BY HalfOf
<1>2. n \in -H .. (H - 1) /\ n \in Int
  BY <1>1
<1>3. u = IF n < 0 THEN n + Mod(w) ELSE n
  <2> HIDE DEF H
  <2> QED BY <1>1, <1>2, TwosComplement DEF toUint
<1>4. u \in 0 .. MaxUint(w)
  BY <1>2, toUintType
<1>5. toUint(u, w) = u
  <2> HIDE DEF u
  <2> QED BY <1>4, toUintSame
<1> HIDE DEF H, u
<1>6. (IF u > MaxInt(w) THEN u - Mod(w) ELSE u) = n
  BY <1>1, <1>2, <1>3
<1>7. toInt(n, w) = IF u > MaxInt(w) THEN u - Mod(w) ELSE u
  BY DEF toInt, u
<1>8. toInt(u, w) = IF u > MaxInt(w) THEN u - Mod(w) ELSE u
  BY <1>5 DEF toInt
<1> QED BY <1>6, <1>7, <1>8 DEF u

(* The ranges of the widths are nested, those of the signed and the         *)
(* unsigned integers of a width overlap.                                    *)
LEMMA Ranges ==
  ASSUME NEW w \in Widths
  PROVE  /\ MinInt(8) <= MinInt(w) /\ MinInt(w) < 0 /\ 0 <= MaxInt(w)
         /\ MaxInt(w) <= MaxInt(8) /\ MaxInt(w) <= MaxUint(w) /\ MaxUint(w) <= MaxUint(8)
         /\ MinInt(w) \in Int /\ MaxInt(w) \in Int /\ MaxUint(w) \in Int
<1>1. 8 \in Widths
  BY DEF Widths
<1> QED BY <1>1, HalfOf

-----------------------------------------------------------------------------
(***************************************************************************)
(* Big-endian bytes                                                        *)
(***************************************************************************)
(* Two sequences one behind the other.                                      *)
LEMMA Joined ==
  ASSUME NEW a \in Seq(Int), NEW b \in Seq(Int), NEW n \in Nat, n > 0, Len(a) = n, Len(b) = n
  PROVE  /\ a \o b \in Seq(Int) /\ Len(a \o b) = n + n
         /\ SubSeq(a \o b, 1, n) = a /\ SubSeq(a \o b, n + 1, n + n) = b
<1>1. a \o b \in Seq(Int) /\ Len(a \o b) = n + n
  BY ConcatProperties
<1>2. SubSeq(a \o b, 1, n) = a
  <2>1. SubSeq(a \o b, 1, n) = SubSeq(a, 1, n)
    BY SubSeqOfConcat1
  <2> QED BY <2>1, SubSeqFull
<1>3. SubSeq(a \o b, n + 1, n + n) = b
  <2>1. n + 1 \in Len(a) + 1 .. Len(a) + Len(b) /\ n + n \in Len(a) + 1 .. Len(a) + Len(b)
    OBVIOUS
  <2>2. SubSeq(a \o b, n + 1, n + n) = SubSeq(b, n + 1 - Len(a), n + n - Len(a))
    BY <2>1, SubSeqOfConcat2
  <2>3. n + 1 - Len(a) = 1 /\ n + n - Len(a) = Len(b)
    OBVIOUS
  <2> QED BY <2>2, <2>3, SubSeqFull
<1> QED BY <1>1, <1>2, <1>3

(* The square of a positive number is positive.                             *)
LEMMA SqPositive ==
  ASSUME NEW B \in Nat, B > 0
  PROVE  Sq(B) \in Nat /\ Sq(B) > 0 /\ Sq(B) >= B
<1>1. 0 * B + B <= B * B
  BY Apart
<1> QED BY <1>1 DEF Sq

(* write1 and uint8.                                                        *)
LEMMA Bytes1 ==
  ASSUME NEW n \in Int
  PROVE  bytes1(n) \in Seq(Int) /\ Len(bytes1(n)) = 1 /\ uint1(bytes1(n)) = n
BY DEF bytes1, uint1

(* write2 and uint16.                                                       *)
LEMMA Bytes2 ==
  ASSUME NEW n \in Int, NEW B \in Nat, B > 0
  PROVE  bytes2(n, B) \in Seq(Int) /\ Len(bytes2(n, B)) = 2 /\ uint2(bytes2(n, B), B) = n
<1> DEFINE q == n \div B
           r == n % B
<1>1. q \in Int /\ r \in Int /\ n = q * B + r
  BY DivMod
<1>2. bytes2(n, B) = <<q>> \o <<r>>
  BY DEF bytes2, bytes1
<1> HIDE DEF q, r
<1>3. <<q>> \o <<r>> \in Seq(Int) /\ Len(<<q>> \o <<r>>) = 2
  BY <1>1
<1>4. (<<q>> \o <<r>>)[1] = q /\ (<<q>> \o <<r>>)[2] = r
  BY <1>1
<1> QED BY <1>1, <1>2, <1>3, <1>4 DEF uint2

(* write4 and uint32.                                                       *)
LEMMA Bytes4 ==
  ASSUME NEW n \in Int, NEW B \in Nat, B > 0
  PROVE  bytes4(n, B) \in Seq(Int) /\ Len(bytes4(n, B)) = 4 /\ uint4(bytes4(n, B), B) = n
<1> DEFINE q == n \div Sq(B)
           r == n % Sq(B)
<1>1. q \in Int /\ r \in Int /\ n = q * Sq(B) + r
  BY SqPositive, DivMod
<1> HIDE DEF q, r
<1> DEFINE a == bytes2(q, B)
           b == bytes2(r, B)
<1>2. /\ a \in Seq(Int) /\ Len(a) = 2 /\ uint2(a, B) = q
      /\ b \in Seq(Int) /\ Len(b) = 2 /\ uint2(b, B) = r
  BY <1>1, Bytes2
<1>3. bytes4(n, B) = a \o b
  BY DEF bytes4, q, r
<1> HIDE DEF a, b
<1>4. /\ a \o b \in Seq(Int) /\ Len(a \o b) = 2 + 2
      /\ SubSeq(a \o b, 1, 2) = a /\ SubSeq(a \o b, 2 + 1, 2 + 2) = b
  <2> DEFINE k == 2
  <2>1. a \in Seq(Int) /\ b \in Seq(Int) /\ k \in Nat /\ k > 0 /\ Len(a) = k /\ Len(b) = k
    BY <1>2
  <2> HIDE DEF k
  <2>2. /\ a \o b \in Seq(Int) /\ Len(a \o b) = k + k
        /\ SubSeq(a \o b, 1, k) = a /\ SubSeq(a \o b, k + 1, k + k) = b
    BY ZenonT(60), <2>1, Joined
  <2> QED BY <2>2 DEF k
<1>5. SubSeq(a \o b, 3, 4) = b
  BY <1>4
<1>6. uint4(a \o b, B) = uint2(a, B) * Sq(B) + uint2(b, B)
  BY <1>4, <1>5 DEF uint4
<1>7. uint4(a \o b, B) = n
  BY <1>1, <1>2, <1>6
<1> QED BY <1>3, <1>4, <1>7

(* write8 and uint64.                                                       *)
LEMMA Bytes8 ==
  ASSUME NEW n \in Int, NEW B \in Nat, B > 0
  PROVE  bytes8(n, B) \in Seq(Int) /\ Len(bytes8(n, B)) = 8 /\ uint8(bytes8(n, B), B) = n
<1> DEFINE q == n \div Sq(Sq(B))
           r == n % Sq(Sq(B))
<1>1. q \in Int /\ r \in Int /\ n = q * Sq(Sq(B)) + r
  <2>1. Sq(B) \in Nat /\ Sq(B) > 0
    BY SqPositive
  <2> DEFINE S == Sq(Sq(B))
  <2>2. S \in Nat /\ S > 0
    BY <2>1, SqPositive
  <2> HIDE DEF S
  <2>3. n \div S \in Int /\ n % S \in 0 .. (S - 1) /\ n = (n \div S) * S + (n % S)
    BY <2>2, DivMod
  <2>4. n % S \in Int
    BY <2>2, <2>3
  <2> QED BY <2>3, <2>4 DEF S
<1> HIDE DEF q, r
<1> DEFINE a == bytes4(q, B)
           b == bytes4(r, B)
<1>2. /\ a \in Seq(Int) /\ Len(a) = 4 /\ uint4(a, B) = q
      /\ b \in Seq(Int) /\ Len(b) = 4 /\ uint4(b, B) = r
  BY <1>1, Bytes4
<1>3. bytes8(n, B) = a \o b
  BY DEF bytes8, q, r
<1> HIDE DEF a, b
<1>4. /\ a \o b \in Seq(Int) /\ Len(a \o b) = 4 + 4
      /\ SubSeq(a \o b, 1, 4) = a /\ SubSeq(a \o b, 4 + 1, 4 + 4) = b
  <2> DEFINE k == 4
  <2>1. a \in Seq(Int) /\ b \in Seq(Int) /\ k \in Nat /\ k > 0 /\ Len(a) = k /\ Len(b) = k
    BY <1>2
  <2> HIDE DEF k
  <2>2. /\ a \o b \in Seq(Int) /\ Len(a \o b) = k + k
        /\ SubSeq(a \o b, 1, k) = a /\ SubSeq(a \o b, k + 1, k + k) = b
    BY ZenonT(60), <2>1, Joined
  <2> QED BY <2>2 DEF k
<1>5. SubSeq(a \o b, 5, 8) = b
  BY SMTT(30), <1>4
<1>6. uint8(a \o b, B) = uint4(a, B) * Sq(Sq(B)) + uint4(b, B)
  BY <1>4, <1>5 DEF uint8
<1>7. uint8(a \o b, B) = n
  BY <1>1, <1>2, <1>6
<1> QED BY <1>3, <1>4, <1>7

(* What is written as w bytes is read from them.                            *)
LEMMA BigEndian ==
  ASSUME NEW w \in Widths, NEW n \in Int, NEW B \in Nat, B > 0
  PROVE  uintOf(bigEndian(n, w, B), w, B) = n
<1> DEFINE b == bigEndian(n, w, B)
<1>1. CASE w = 1
  <2>1. b = bytes1(n) /\ uintOf(b, w, B) = uint1(b)
    BY <1>1 DEF bigEndian, uintOf
  <2> QED BY <2>1, Bytes1
<1>2. CASE w = 2
  <2>1. b = bytes2(n, B) /\ uintOf(b, w, B) = uint2(b, B)
    BY <1>2 DEF bigEndian, uintOf
  <2> QED BY <2>1, Bytes2
<1>3. CASE w = 4
  <2>1. b = bytes4(n, B) /\ uintOf(b, w, B) = uint4(b, B)
    BY <1>3 DEF bigEndian, uintOf
  <2> QED BY <2>1, Bytes4
<1>4. CASE w = 8
  <2>1. b = bytes8(n, B) /\ uintOf(b, w, B) = uint8(b, B)
    BY <1>4 DEF bigEndian, uintOf
  <2> QED BY <2>1, Bytes8
<1> QED BY <1>1, <1>2, <1>3, <1>4 DEF Widths

-----------------------------------------------------------------------------
(***************************************************************************)
(* Integer items                                                           *)
(***************************************************************************)
Int64s == MinInt(8) .. MaxInt(8)
Uint64s == 0 .. MaxUint(8)

(* The item is an encoding of the integer n.                                *)
Denotes(i, n) ==
  \/ IsFixedNum(i.c) /\ int8(i.c) = n /\ n \in Int64s
  \/ i.c \in Uints /\ unsignedField(i) = n /\ n \in Uint64s
  \/ i.c \in Ints /\ signedField(i) = n /\ n \in Int64s

(* The code of an integer is no other code's.                               *)
LEMMA CodesApart ==
  ASSUME NEW c
  PROVE  /\ IsFixedNum(c) \/ c \in Uints \/ c \in Ints => c # Nil /\ c \notin {Float, Double}
         /\ ~(IsFixedNum(c) /\ c \in Uints \cup Ints) /\ ~(c \in Uints /\ c \in Ints)
BY DEF IsFixedNum, Uints, Ints, Nil, Float, Double

(* As many bytes are read after a code as are written after it.             *)
LEMMA CodeWidths ==
  ASSUME NEW w \in Widths
  PROVE  /\ UintCode(w) \in Uints /\ FixedSize(UintCode(w)) = w
         /\ IntCode(w) \in Ints /\ FixedSize(IntCode(w)) = w
<1>1. /\ w = 1 => UintCode(w) = 204 /\ IntCode(w) = 208
      /\ w = 2 => UintCode(w) = 205 /\ IntCode(w) = 209
      /\ w = 4 => UintCode(w) = 206 /\ IntCode(w) = 210
      /\ w = 8 => UintCode(w) = 207 /\ IntCode(w) = 211
  BY DEF UintCode, IntCode, Uint8, Uint16, Uint32, Uint64, Int8, Int16, Int32, Int64
<1>2. /\ FixedSize(204) = 1 /\ FixedSize(208) = 1 /\ FixedSize(205) = 2 /\ FixedSize(209) = 2
      /\ FixedSize(206) = 4 /\ FixedSize(210) = 4 /\ FixedSize(207) = 8 /\ FixedSize(211) = 8
  BY DEF FixedSize, Float, Double
<1> QED BY <1>1, <1>2 DEF Widths, Uints, Ints

(* The four widths.                                                         *)
LEMMA WidthsAre == 1 \in Widths /\ 2 \in Widths /\ 4 \in Widths /\ 8 \in Widths
BY DEF Widths

(* A number is read from an unsigned code of a width that holds it.         *)
LEMMA UnsignedDenotes ==
  ASSUME NEW w \in Widths, NEW n \in 0 .. MaxUint(w)
  PROVE  Denotes(Unsigned(n, w), n)
<1>1. n \in Int /\ n \in Uint64s
  BY Ranges, WidthsAre DEF Uint64s
<1>2. toUint(n, w) = n
  BY toUintSame
<1>3. uintOf(bigEndian(n, w, Radix), w, Radix) = n
  BY <1>1, BigEndian, NumbersAssumption
<1> DEFINE i == Unsigned(n, w)
<1>4. i.c = UintCode(w) /\ i.b = bigEndian(n, w, Radix)
  BY <1>2 DEF Unsigned, Item
<1>5. i.c \in Uints /\ FixedSize(i.c) = w
  BY <1>4, CodeWidths
<1> HIDE DEF i
<1>6. unsignedField(i) = n
  BY <1>3, <1>4, <1>5 DEF unsignedField
<1> QED BY <1>1, <1>5, <1>6 DEF Denotes, i

(* The same for a signed code.                                              *)
LEMMA SignedDenotes ==
  ASSUME NEW w \in Widths, NEW n \in MinInt(w) .. MaxInt(w)
  PROVE  Denotes(Signed(n, w), n)
<1>1. n \in Int /\ n \in Int64s
  BY Ranges, WidthsAre DEF Int64s
<1> DEFINE u == toUint(n, w)
<1>2. u \in Int
  BY <1>1, toUintType
<1>3. toInt(u, w) = n
  BY toIntSame
<1> HIDE DEF u
<1>4. uintOf(bigEndian(u, w, Radix), w, Radix) = u
  BY <1>2, BigEndian, NumbersAssumption
<1> DEFINE i == Signed(n, w)
<1>5. i.c = IntCode(w) /\ i.b = bigEndian(u, w, Radix)
  BY DEF Signed, Item, u
<1>6. i.c \in Ints /\ FixedSize(i.c) = w
  BY <1>5, CodeWidths
<1> HIDE DEF i
<1>7. signedField(i) = n
  BY <1>3, <1>4, <1>5, <1>6 DEF signedField, unsignedField
<1> QED BY <1>1, <1>6, <1>7 DEF Denotes, i

(* The same for a number that is its own code.                              *)
LEMMA FixedNumDenotes ==
  ASSUME NEW n \in NegFixedNumLow .. MaxInt(1)
  PROVE  Denotes(FixedNum(n), n)
<1>1. MinInt(1) < NegFixedNumLow /\ -32 <= NegFixedNumLow /\ NegFixedNumLow \in Int
  BY NumbersAssumption, ModOf DEF MinInt, M1
<1>2. MaxInt(1) <= 127 /\ MaxInt(1) \in Int
  BY NumbersAssumption, ModOf DEF MaxInt, M1
<1>3. n \in Int /\ n \in Int64s /\ -32 <= n /\ n <= 127
  BY <1>1, <1>2, Ranges, WidthsAre DEF Int64s
<1>4. n % 256 = IF n < 0 THEN n + 256 ELSE n
  BY <1>3
<1>5. IsFixedNum(n % 256) /\ int8(n % 256) = n
  BY <1>3, <1>4 DEF IsFixedNum, int8
<1>6. FixedNum(n).c = n % 256
  BY DEF FixedNum, Item
<1> QED BY <1>3, <1>5, <1>6 DEF Denotes

(* The chosen code always holds the number.                                 *)
LEMMA EncodeUintDenotes ==
  ASSUME NEW n \in Uint64s
  PROVE  Denotes(EncodeUint(n), n)
<1>1. n \in Int /\ 0 <= n /\ n <= MaxUint(8)
  BY Ranges, WidthsAre DEF Uint64s
<1>2. \A w \in Widths : MinInt(w) < 0 /\ MinInt(w) \in Int /\ MaxInt(w) \in Int /\ MaxUint(w) \in Int
  BY Ranges
<1>3. CASE n <= MaxInt(1)
  <2>1. n \in NegFixedNumLow .. MaxInt(1)
    BY <1>1, <1>2, <1>3, NumbersAssumption, WidthsAre
  <2> QED BY <1>3, <2>1, FixedNumDenotes DEF EncodeUint
<1>4. CASE ~(n <= MaxInt(1)) /\ n <= MaxUint(1)
  BY <1>1, <1>2, <1>4, UnsignedDenotes, WidthsAre DEF EncodeUint
<1>5. CASE ~(n <= MaxInt(1)) /\ ~(n <= MaxUint(1)) /\ n <= MaxUint(2)
  BY <1>1, <1>2, <1>5, UnsignedDenotes, WidthsAre DEF EncodeUint
<1>6. CASE ~(n <= MaxInt(1)) /\ ~(n <= MaxUint(1)) /\ ~(n <= MaxUint(2)) /\ n <= MaxUint(4)
  BY <1>1, <1>2, <1>6, UnsignedDenotes, WidthsAre DEF EncodeUint
<1>7. CASE ~(n <= MaxInt(1)) /\ ~(n <= MaxUint(1)) /\ ~(n <= MaxUint(2)) /\ ~(n <= MaxUint(4))
  BY <1>1, <1>2, <1>7, UnsignedDenotes, WidthsAre DEF EncodeUint
<1> QED BY <1>3, <1>4, <1>5, <1>6, <1>7

(* The chosen code holds a number of either sign.                           *)
LEMMA EncodeIntDenotes ==
  ASSUME NEW n \in Int64s
  PROVE  Denotes(EncodeInt(n), n)
<1>1. n \in Int /\ MinInt(8) <= n /\ n <= MaxInt(8)
  BY Ranges, WidthsAre DEF Int64s
<1>2. \A w \in Widths : /\ MinInt(w) < 0 /\ 0 <= MaxInt(w) /\ MaxInt(w) <= MaxUint(w)
                        /\ MinInt(w) \in Int /\ MaxInt(w) \in Int /\ MaxUint(w) \in Int
  BY Ranges
<1>3. CASE n >= 0
  <2>1. n \in Uint64s
    BY <1>1, <1>2, <1>3, WidthsAre DEF Uint64s
  <2> QED BY <1>3, <2>1, EncodeUintDenotes DEF EncodeInt
<1>4. CASE ~(n >= 0) /\ n >= NegFixedNumLow
  <2>1. n \in NegFixedNumLow .. MaxInt(1)
    BY <1>1, <1>2, <1>4, NumbersAssumption, WidthsAre
  <2> QED BY <1>4, <2>1, FixedNumDenotes DEF EncodeInt
<1>5. CASE ~(n >= 0) /\ ~(n >= NegFixedNumLow) /\ n >= MinInt(1)
  BY <1>1, <1>2, <1>5, SignedDenotes, WidthsAre DEF EncodeInt
<1>6. CASE ~(n >= 0) /\ ~(n >= NegFixedNumLow) /\ ~(n >= MinInt(1)) /\ n >= MinInt(2)
  BY <1>1, <1>2, <1>6, SignedDenotes, WidthsAre DEF EncodeInt
<1>7. CASE ~(n >= 0) /\ ~(n >= NegFixedNumLow) /\ ~(n >= MinInt(1)) /\ ~(n >= MinInt(2))
           /\ n >= MinInt(4)
  BY <1>1, <1>2, <1>7, SignedDenotes, WidthsAre DEF EncodeInt
<1>8. CASE ~(n >= 0) /\ ~(n >= NegFixedNumLow) /\ ~(n >= MinInt(1)) /\ ~(n >= MinInt(2))
           /\ ~(n >= MinInt(4))
  BY <1>1, <1>2, <1>8, SignedDenotes, WidthsAre DEF EncodeInt
<1> QED BY <1>3, <1>4, <1>5, <1>6, <1>7, <1>8

(* The fields of an integer type.                                           *)
LEMMA IntTypesAre ==
  ASSUME NEW t \in IntTypes
  PROVE  t.k = "int" /\ t.signed \in BOOLEAN /\ t.any \in BOOLEAN /\ t.w \in Widths
BY DEF IntTypes, Widths

(* Every integer type writes its numbers so that they can be read, compact  *)
(* or not.                                                                  *)
LEMMA encodeCondDenotes ==
  ASSUME NEW t \in IntTypes, NEW n, Holds(t, n), compactInts \in BOOLEAN
  PROVE  Denotes(encodeCond(t, n), n)
<1>1. t.signed \in BOOLEAN /\ t.any \in BOOLEAN /\ t.w \in Widths
  BY IntTypesAre
<1>2. t.signed => n \in MinInt(t.w) .. MaxInt(t.w) /\ n \in Int64s
  <2>1. t.signed => n \in MinInt(t.w) .. MaxInt(t.w)
    BY DEF Holds
  <2> QED BY <1>1, <2>1, Ranges, WidthsAre DEF Int64s
<1>3. ~t.signed => n \in 0 .. MaxUint(t.w) /\ n \in Uint64s
  <2>1. ~t.signed => n \in 0 .. MaxUint(t.w)
    BY DEF Holds
  <2> QED BY <1>1, <2>1, Ranges, WidthsAre DEF Uint64s
<1>4. CASE (compactInts \/ t.any) /\ t.signed
  <2>1. encodeCond(t, n) = EncodeInt(n)
    BY <1>4 DEF encodeCond
  <2> QED BY <1>2, <1>4, <2>1, EncodeIntDenotes
<1>5. CASE (compactInts \/ t.any) /\ ~t.signed
  <2>1. encodeCond(t, n) = EncodeUint(n)
    BY <1>5 DEF encodeCond
  <2> QED BY <1>3, <1>5, <2>1, EncodeUintDenotes
<1>6. CASE ~(compactInts \/ t.any) /\ t.signed
  <2>1. encodeCond(t, n) = Signed(n, t.w)
    BY <1>6 DEF encodeCond
  <2> QED BY <1>1, <1>2, <1>6, <2>1, SignedDenotes
<1>7. CASE ~(compactInts \/ t.any) /\ ~t.signed
  <2>1. encodeCond(t, n) = Unsigned(n, t.w)
    BY <1>7 DEF encodeCond
  <2> QED BY <1>1, <1>3, <1>7, <2>1, UnsignedDenotes
<1> QED BY <1>4, <1>5, <1>6, <1>7

(* The 64-bit results of decoding an integer item.                          *)
LEMMA Wide ==
  ASSUME NEW i, NEW n, Denotes(i, n)
  PROVE  /\ int(i) = {IntResult(toInt(n, 8))} /\ uint(i) = {IntResult(toUint(n, 8))}
         /\ DecodeInterface(i) = {IntResult(n)} /\ DecodeInterfaceLoose(i) = {IntResult(n)}
         /\ ~IsFloatItem(i) /\ n \in Int
<1>1. Int64s \subseteq Int /\ Uint64s \subseteq Int
  BY Ranges, WidthsAre DEF Int64s, Uint64s
<1>2. CASE IsFixedNum(i.c) /\ int8(i.c) = n /\ n \in Int64s
  <2>1. toInt(n, 8) = n
    BY <1>2, toIntSame, WidthsAre DEF Int64s
  <2>2. /\ IsFixedNum(i.c) /\ i.c # Nil /\ i.c \notin Uints /\ i.c \notin Ints
        /\ ~IsFloatItem(i) /\ i.c # Float /\ i.c # Double
    BY <1>2, CodesApart DEF IsFloatItem
  <2>3. int(i) = {IntResult(int8(i.c))}
    BY <2>2 DEF int
  <2>4. uint(i) = {IntResult(toUint(int8(i.c), 8))}
    BY <2>2 DEF uint
  <2>5. DecodeInterface(i) = {IntResult(int8(i.c))}
    BY <2>2 DEF DecodeInterface
  <2>6. DecodeInterfaceLoose(i) = {IntResult(int8(i.c))}
    BY <2>2 DEF DecodeInterfaceLoose
  <2> QED BY <1>1, <1>2, <2>1, <2>2, <2>3, <2>4, <2>5, <2>6
<1>3. CASE i.c \in Uints /\ unsignedField(i) = n /\ n \in Uint64s
  <2>1. toUint(n, 8) = n
    BY <1>3, toUintSame, WidthsAre DEF Uint64s
  <2>2. /\ i.c \in Uints /\ i.c # Nil /\ ~IsFixedNum(i.c) /\ i.c \notin Ints
        /\ ~IsFloatItem(i) /\ i.c # Float /\ i.c # Double
    BY <1>3, CodesApart DEF IsFloatItem
  <2>3. int(i) = {IntResult(toInt(unsignedField(i), 8))}
    BY <2>2 DEF int
  <2>4. uint(i) = {IntResult(unsignedField(i))}
    BY <2>2 DEF uint
  <2>5. DecodeInterface(i) = {IntResult(unsignedField(i))}
    BY <2>2 DEF DecodeInterface
  <2>6. DecodeInterfaceLoose(i) = uint(i)
    BY <2>2 DEF DecodeInterfaceLoose
  <2> QED BY <1>1, <1>3, <2>1, <2>2, <2>3, <2>4, <2>5, <2>6
<1>4. CASE i.c \in Ints /\ signedField(i) = n /\ n \in Int64s
  <2>1. toInt(n, 8) = n
    BY <1>4, toIntSame, WidthsAre DEF Int64s
  <2>2. /\ i.c \in Ints /\ i.c # Nil /\ ~IsFixedNum(i.c) /\ i.c \notin Uints
        /\ ~IsFloatItem(i) /\ i.c # Float /\ i.c # Double
    BY <1>4, CodesApart DEF IsFloatItem
  <2>3. int(i) = {IntResult(signedField(i))}
    BY <2>2 DEF int
  <2>4. uint(i) = {IntResult(toUint(signedField(i), 8))}
    BY <2>2 DEF uint
  <2>5. DecodeInterface(i) = {IntResult(signedField(i))}
    BY <2>2 DEF DecodeInterface
  <2>6. DecodeInterfaceLoose(i) = int(i)
    BY <2>2 DEF DecodeInterfaceLoose
  <2> QED BY <1>1, <1>4, <2>1, <2>2, <2>3, <2>4, <2>5, <2>6
<1> QED BY <1>2, <1>3, <1>4 DEF Denotes

(* One result, narrowed.                                                    *)
LEMMA narrowedOne ==
  ASSUME NEW n, NEW d, NEW r \in narrowed({IntResult(n)}, d)
  PROVE  r = IntResult(IF d.signed THEN toInt(n, d.w) ELSE toUint(n, d.w))
BY DEF narrowed, IntResult

(* Decoded into a type that holds it, an integer is unchanged.              *)
LEMMA Narrow ==
  ASSUME NEW i, NEW n, Denotes(i, n), NEW d \in IntTypes, Holds(d, n), NEW r \in Results(i, d)
  PROVE  r = IntResult(n)
<1>1. d.k = "int" /\ d.signed \in BOOLEAN /\ d.w \in Widths
  BY IntTypesAre
<1>2. n \in Int
  BY Wide
<1>3. CASE d.signed
  <2>1. n \in MinInt(d.w) .. MaxInt(d.w) /\ n \in MinInt(8) .. MaxInt(8)
    <3>1. n \in MinInt(d.w) .. MaxInt(d.w)
      BY <1>3 DEF Holds
    <3> QED BY <1>1, <3>1, Ranges, WidthsAre
  <2>2. toInt(n, 8) = n /\ toInt(n, d.w) = n
    BY <1>1, <2>1, toIntSame, WidthsAre
  <2>3. Results(i, d) = narrowed(int(i), d)
    BY <1>1, <1>3 DEF Results
  <2>4. r \in narrowed({IntResult(n)}, d)
    BY <2>2, <2>3, Wide
  <2>5. r = IntResult(IF d.signed THEN toInt(n, d.w) ELSE toUint(n, d.w))
    BY <2>4, narrowedOne
  <2> QED BY <1>3, <2>2, <2>5
<1>4. CASE ~d.signed
  <2>1. n \in 0 .. MaxUint(d.w) /\ n \in 0 .. MaxUint(8)
    <3>1. n \in 0 .. MaxUint(d.w)
      BY <1>4 DEF Holds
    <3> QED BY <1>1, <3>1, Ranges, WidthsAre
  <2>2. toUint(n, 8) = n /\ toUint(n, d.w) = n
    BY <1>1, <2>1, toUintSame, WidthsAre
  <2>3. Results(i, d) = narrowed(uint(i), d)
    BY <1>1, <1>4 DEF Results
  <2>4. r \in narrowed({IntResult(n)}, d)
    BY <2>2, <2>3, Wide
  <2>5. r = IntResult(IF d.signed THEN toInt(n, d.w) ELSE toUint(n, d.w))
    BY <2>4, narrowedOne
  <2> QED BY <1>4, <2>2, <2>5
<1> QED BY <1>1, <1>3, <1>4

-----------------------------------------------------------------------------
(***************************************************************************)
(* Lengths                                                                 *)
(***************************************************************************)
(* The moduli of the length fields; a length of two bytes fits every int.   *)
LEMMA LenMods ==
  /\ LenMod(1) = LenRadix /\ LenMod(2) = Sq(LenRadix) /\ LenMod(4) = Sq(Sq(LenRadix))
  /\ LenMod(1) \in Nat /\ LenMod(2) \in Nat /\ LenMod(4) \in Nat
  /\ 32 < LenMod(1) /\ LenMod(1) <= LenMod(2) /\ 0 < LenMod(4)
  /\ MaxInt32 \in Int /\ LenMod(2) - 1 <= MaxInt32
<1>1. LenMod(1) = LenRadix
  BY DEF LenMod
<1>2. LenMod(2) = Sq(LenRadix)
  BY DEF LenMod
<1>3. LenMod(4) = Sq(Sq(LenRadix))
  BY DEF LenMod
<1>4. LenRadix \in Nat /\ 32 < LenRadix
  BY NumbersAssumption
<1> DEFINE S == Sq(LenRadix)
           F == Sq(S)
<1>5. S \in Nat /\ S >= LenRadix /\ S > 32
  BY <1>4, SqPositive
<1> HIDE DEF S
<1>6. F \in Nat /\ F >= 4 * S
  <2>1. 4 * S + S <= S * S
    <3>1. 4 < S
      BY <1>5
    <3> QED BY <1>5, <3>1, Apart
  <2>2. F = S * S /\ S * S \in Nat
    BY <1>5 DEF Sq
  <2> QED BY <1>5, <2>1, <2>2
<1> HIDE DEF F
<1>7. F \div 2 \in Int /\ F \div 2 >= S
  BY <1>5, <1>6
<1>8. MaxInt32 = F \div 2 - 1 /\ LenMod(4) = F /\ LenMod(2) = S
  BY <1>2, <1>3 DEF MaxInt32, F, S
<1>9. MaxInt32 \in Int /\ LenMod(2) - 1 <= MaxInt32
  BY <1>5, <1>7, <1>8
<1>10. LenMod(2) \in Nat /\ LenMod(4) \in Nat /\ 0 < LenMod(4) /\ LenRadix <= LenMod(2)
  BY <1>4, <1>5, <1>6, <1>8
<1> QED BY <1>1, <1>2, <1>3, <1>4, <1>9, <1>10

(* A length that fits its field is read from it.                            *)
LEMMA FieldRead ==
  ASSUME NEW w \in {1, 2, 4}, NEW l \in Nat, l < LenMod(w), NEW c
  PROVE  LenItem(c, l, w).c = c /\ Field(LenItem(c, l, w), w) = l
<1>1. LenMod(w) \in Nat /\ LenMod(w) > 0
  <2>1. 0 < LenMod(1) /\ 0 < LenMod(2)
    BY LenMods
  <2> QED BY <2>1, LenMods
<1>2. l % LenMod(w) = l
  <2>1. l \in 0 .. (LenMod(w) - 1)
    BY <1>1
  <2> QED BY <1>1, <2>1, ModSame
<1>3. w \in Widths /\ l \in Int /\ LenRadix \in Nat /\ LenRadix > 0
  BY NumbersAssumption DEF Widths
<1>4. uintOf(bigEndian(l, w, LenRadix), w, LenRadix) = l
  BY <1>3, BigEndian
<1>5. LenItem(c, l, w).c = c /\ LenItem(c, l, w).b = bigEndian(l, w, LenRadix)
  BY <1>2 DEF LenItem, Item
<1> QED BY <1>4, <1>5 DEF Field

(* The code of a field of w bytes, for each kind that has one.              *)
FieldCode(kind, w) ==
  CASE kind = "bin" /\ w = 1 -> 196 [] kind = "bin" /\ w = 2 -> 197 [] kind = "bin" /\ w = 4 -> 198
    [] kind = "ext" /\ w = 1 -> 199 [] kind = "ext" /\ w = 2 -> 200 [] kind = "ext" /\ w = 4 -> 201
    [] kind = "str" /\ w = 1 -> 217 [] kind = "str" /\ w = 2 -> 218 [] kind = "str" /\ w = 4 -> 219
    [] kind = "array" /\ w = 2 -> 220 [] kind = "array" /\ w = 4 -> 221
    [] kind = "map" /\ w = 2 -> 222 [] kind = "map" /\ w = 4 -> 223

FixExtOf(c, l) ==
  \/ c = 212 /\ l = 1
  \/ c = 213 /\ l = 2
  \/ c = 214 /\ l = 4
  \/ c = 215 /\ l = 8
  \/ c = 216 /\ l = 16

(* The code holds the length.                                               *)
InCode(kind, c, l) ==
  \/ kind = "str" /\ c \in 160 .. 191 /\ c % 32 = l
  \/ kind = "array" /\ c \in 144 .. 159 /\ c % 16 = l
  \/ kind = "map" /\ c \in 128 .. 143 /\ c % 16 = l
  \/ kind = "ext" /\ FixExtOf(c, l)

(* The field behind the code holds it.                                      *)
InField(kind, i, l) ==
  \E w \in {1, 2, 4} :
    /\ kind \in {"array", "map"} => w # 1
    /\ i.c = FieldCode(kind, w) /\ Field(i, w) = l
    /\ w # 4 => l < LenMod(2)

(* Three field codes, by the width that holds the length.                   *)
LEMMA FieldEncodes ==
  ASSUME NEW kind \in {"bin", "ext", "str"}, NEW l \in Nat, l < LenMod(4)
  PROVE  InField(kind, FieldItem(FieldCode(kind, 1), FieldCode(kind, 2), FieldCode(kind, 4), l), l)
<1> DEFINE i == FieldItem(FieldCode(kind, 1), FieldCode(kind, 2), FieldCode(kind, 4), l)
<1>1. CASE l < LenMod(1)
  <2>1. i = LenItem(FieldCode(kind, 1), l, 1)
    BY <1>1 DEF FieldItem
  <2>2. i.c = FieldCode(kind, 1) /\ Field(i, 1) = l
    BY <1>1, <2>1, FieldRead
  <2>3. l < LenMod(2)
    BY <1>1, LenMods
  <2> HIDE DEF i
  <2> QED BY <2>2, <2>3 DEF InField, i
<1>2. CASE ~(l < LenMod(1)) /\ l <= LenMod(2) - 1
  <2>1. i = LenItem(FieldCode(kind, 2), l, 2)
    BY <1>2 DEF FieldItem
  <2>2. l < LenMod(2)
    BY <1>2, LenMods
  <2>3. i.c = FieldCode(kind, 2) /\ Field(i, 2) = l
    BY <2>1, <2>2, FieldRead
  <2> HIDE DEF i
  <2> QED BY <2>2, <2>3 DEF InField, i
<1>3. CASE ~(l < LenMod(1)) /\ ~(l <= LenMod(2) - 1)
  <2>1. i = LenItem(FieldCode(kind, 4), l, 4)
    BY <1>3 DEF FieldItem
  <2>2. i.c = FieldCode(kind, 4) /\ Field(i, 4) = l
    BY <2>1, FieldRead
  <2> HIDE DEF i
  <2> QED BY <2>2 DEF InField, i
<1> QED BY <1>1, <1>2, <1>3

(* Every length is in the code or in the field behind it.                   *)
LEMMA LengthEncodes ==
  ASSUME NEW kind \in LenKinds, NEW l \in Nat, l < LenMod(4)
  PROVE  LET i == EncodeLen(kind, l)
         IN  (InCode(kind, i.c, l) /\ l <= 31) \/ InField(kind, i, l)
<1> DEFINE i == EncodeLen(kind, l)
<1>1. CASE kind = "bin"
  <2>1. i = FieldItem(196, 197, 198, l)
    BY <1>1 DEF EncodeLen, EncodeBytesLen, Bin8, Bin16, Bin32
  <2>2. FieldCode(kind, 1) = 196 /\ FieldCode(kind, 2) = 197 /\ FieldCode(kind, 4) = 198
    BY <1>1 DEF FieldCode
  <2> QED BY <1>1, <2>1, <2>2, FieldEncodes
<1>2. CASE kind = "str"
  <2>1. i = encodeStringLen(l)
    BY <1>2 DEF EncodeLen
  <2>2. CASE l < 32
    <3>1. i.c = 160 + l
      BY <2>1, <2>2 DEF encodeStringLen, Item, FixedStrLow
    <3>2. 160 + l \in 160 .. 191 /\ (160 + l) % 32 = l
      BY <2>2
    <3> QED BY <1>2, <2>2, <3>1, <3>2 DEF InCode
  <2>3. CASE ~(l < 32)
    <3>1. i = FieldItem(217, 218, 219, l)
      BY <2>1, <2>3 DEF encodeStringLen, Str8, Str16, Str32
    <3>2. FieldCode(kind, 1) = 217 /\ FieldCode(kind, 2) = 218 /\ FieldCode(kind, 4) = 219
      BY <1>2 DEF FieldCode
    <3> QED BY <1>2, <3>1, <3>2, FieldEncodes
  <2> QED BY <2>2, <2>3
<1>3. CASE kind = "ext"
  <2>1. i = encodeExtLen(l)
    BY <1>3 DEF EncodeLen
  <2>2. CASE l \in {1, 2, 4, 8, 16}
    <3>1. /\ l = 1 => i.c = 212
          /\ l = 2 => i.c = 213
          /\ l = 4 => i.c = 214
          /\ l = 8 => i.c = 215
          /\ l = 16 => i.c = 216
      <4>1. l = 1 => encodeExtLen(l) = Item(212, <<>>)
        BY DEF encodeExtLen, FixExt1
      <4>2. l = 2 => encodeExtLen(l) = Item(213, <<>>)
        BY DEF encodeExtLen, FixExt2
      <4>3. l = 4 => encodeExtLen(l) = Item(214, <<>>)
        BY DEF encodeExtLen, FixExt4
      <4>4. l = 8 => encodeExtLen(l) = Item(215, <<>>)
        BY DEF encodeExtLen, FixExt8
      <4>5. l = 16 => encodeExtLen(l) = Item(216, <<>>)
        BY DEF encodeExtLen, FixExt16
      <4> QED BY <2>1, <4>1, <4>2, <4>3, <4>4, <4>5 DEF Item
    <3> DEFINE c == i.c
    <3> HIDE DEF i
    <3> HIDE DEF c
    <3>2. FixExtOf(c, l)
      BY <2>2, <3>1 DEF c, FixExtOf
    <3>3. InCode(kind, c, l)
      BY <1>3, <3>2 DEF InCode
    <3>4. l <= 31
      BY <2>2
    <3> QED BY <3>3, <3>4 DEF i, c
  <2>3. CASE l \notin {1, 2, 4, 8, 16}
    <3>1. i = FieldItem(199, 200, 201, l)
      BY <2>1, <2>3 DEF encodeExtLen, Ext8, Ext16, Ext32
    <3>2. FieldCode(kind, 1) = 199 /\ FieldCode(kind, 2) = 200 /\ FieldCode(kind, 4) = 201
      BY <1>3 DEF FieldCode
    <3> QED BY <1>3, <3>1, <3>2, FieldEncodes
  <2> QED BY <2>2, <2>3
<1>4. CASE kind = "array"
  <2>1. i = EncodeArrayLen(l)
    BY <1>4 DEF EncodeLen
  <2>2. FieldCode(kind, 2) = 220 /\ FieldCode(kind, 4) = 221
    BY <1>4 DEF FieldCode
  <2>3. CASE l < 16
    <3>1. i.c = 144 + l
      BY <2>1, <2>3 DEF EncodeArrayLen, Item, FixedArrayLow
    <3>2. 144 + l \in 144 .. 159 /\ (144 + l) % 16 = l
      BY <2>3
    <3> QED BY <1>4, <2>3, <3>1, <3>2 DEF InCode
  <2>4. CASE ~(l < 16) /\ l <= LenMod(2) - 1
    <3>1. i = LenItem(220, l, 2)
      BY <2>1, <2>4 DEF EncodeArrayLen, Array16
    <3>2. l < LenMod(2)
      BY <2>4, LenMods
    <3>3. i.c = 220 /\ Field(i, 2) = l
      BY <3>1, <3>2, FieldRead
    <3> HIDE DEF i
    <3> QED BY <1>4, <2>2, <3>2, <3>3 DEF InField, i
  <2>5. CASE ~(l < 16) /\ ~(l <= LenMod(2) - 1)
    <3>1. i = LenItem(221, l, 4)
      BY <2>1, <2>5 DEF EncodeArrayLen, Array32
    <3>2. i.c = 221 /\ Field(i, 4) = l
      BY <3>1, FieldRead
    <3> HIDE DEF i
    <3> QED BY <1>4, <2>2, <3>2 DEF InField, i
  <2> QED BY <2>3, <2>4, <2>5
<1>5. CASE kind = "map"
  <2>1. i = EncodeMapLen(l)
    BY <1>5 DEF EncodeLen
  <2>2. FieldCode(kind, 2) = 222 /\ FieldCode(kind, 4) = 223
    BY <1>5 DEF FieldCode
  <2>3. CASE l < 16
    <3>1. i.c = 128 + l
      BY <2>1, <2>3 DEF EncodeMapLen, Item, FixedMapLow
    <3>2. 128 + l \in 128 .. 143 /\ (128 + l) % 16 = l
      BY <2>3
    <3> QED BY <1>5, <2>3, <3>1, <3>2 DEF InCode
  <2>4. CASE ~(l < 16) /\ l <= LenMod(2) - 1
    <3>1. i = LenItem(222, l, 2)
      BY <2>1, <2>4 DEF EncodeMapLen, Map16
    <3>2. l < LenMod(2)
      BY <2>4, LenMods
    <3>3. i.c = 222 /\ Field(i, 2) = l
      BY <3>1, <3>2, FieldRead
    <3> HIDE DEF i
    <3> QED BY <1>5, <2>2, <3>2, <3>3 DEF InField, i
  <2>5. CASE ~(l < 16) /\ ~(l <= LenMod(2) - 1)
    <3>1. i = LenItem(223, l, 4)
      BY <2>1, <2>5 DEF EncodeMapLen, Map32
    <3>2. i.c = 223 /\ Field(i, 4) = l
      BY <3>1, FieldRead
    <3> HIDE DEF i
    <3> QED BY <1>5, <2>2, <3>2 DEF InField, i
  <2> QED BY <2>3, <2>4, <2>5
<1> QED BY <1>1, <1>2, <1>3, <1>4, <1>5 DEF LenKinds

(* What each switch makes of each code: bytesLen.                           *)
LEMMA bytesLenIs ==
  ASSUME NEW i
  PROVE  /\ i.c = 192 => bytesLen(i) = IntResult(-1)
         /\ i.c \in 160 .. 191 => bytesLen(i) = IntResult(i.c % 32)
         /\ i.c \in {196, 217} => bytesLen(i) = IntResult(Field(i, 1))
         /\ i.c \in {197, 218} => bytesLen(i) = IntResult(Field(i, 2))
         /\ i.c \in {198, 219} => bytesLen(i) = uint32ToInt(Field(i, 4))
         /\ i.c \notin 160 .. 192 \cup 196 .. 198 \cup 217 .. 219 => bytesLen(i) = NoResult
BY DEF bytesLen, Nil, IsFixedString, Str8, Str16, Str32, Bin8, Bin16, Bin32

(* The switch of arrayLen.                                                  *)
LEMMA arrayLenIs ==
  ASSUME NEW i
  PROVE  /\ i.c = 192 => arrayLen(i) = IntResult(-1)
         /\ i.c \in 144 .. 159 => arrayLen(i) = IntResult(i.c % 16)
         /\ i.c = 220 => arrayLen(i) = IntResult(Field(i, 2))
         /\ i.c = 221 => arrayLen(i) = uint32ToInt(Field(i, 4))
         /\ i.c \notin 144 .. 159 \cup {192, 220, 221} => arrayLen(i) = NoResult
BY DEF arrayLen, Nil, IsFixedArray, Array16, Array32

(* The switch of mapLen.                                                    *)
LEMMA mapLenIs ==
  ASSUME NEW i
  PROVE  /\ i.c = 192 => mapLen(i) = IntResult(-1)
         /\ i.c \in 128 .. 143 => mapLen(i) = IntResult(i.c % 16)
         /\ i.c = 222 => mapLen(i) = IntResult(Field(i, 2))
         /\ i.c = 223 => mapLen(i) = uint32ToInt(Field(i, 4))
         /\ i.c \notin 128 .. 143 \cup {192, 222, 223} => mapLen(i) = NoResult
BY DEF mapLen, Nil, IsFixedMap, Map16, Map32

(* The switch of parseExtLen.                                               *)
LEMMA parseExtLenIs ==
  ASSUME NEW i
  PROVE  /\ i.c = 212 => parseExtLen(i) = IntResult(1)
         /\ i.c = 213 => parseExtLen(i) = IntResult(2)
         /\ i.c = 214 => parseExtLen(i) = IntResult(4)
         /\ i.c = 215 => parseExtLen(i) = IntResult(8)
         /\ i.c = 216 => parseExtLen(i) = IntResult(16)
         /\ i.c = 199 => parseExtLen(i) = IntResult(Field(i, 1))
         /\ i.c = 200 => parseExtLen(i) = IntResult(Field(i, 2))
         /\ i.c = 201 => parseExtLen(i) = uint32ToInt(Field(i, 4))
         /\ i.c \notin 199 .. 201 \cup 212 .. 216 => parseExtLen(i) = NoResult
BY DEF parseExtLen, FixExt1, FixExt2, FixExt4, FixExt8, FixExt16, Ext8, Ext16, Ext32

(* The codes of a kind's lengths.                                           *)
KindCodes(kind) ==
  CASE kind = "str" -> 160 .. 191 \cup 217 .. 219
    [] kind = "bin" -> 196 .. 198
    [] kind = "array" -> 144 .. 159 \cup {220, 221}
    [] kind = "map" -> 128 .. 143 \cup {222, 223}
    [] kind = "ext" -> 199 .. 201 \cup 212 .. 216

(* The switch of a kind.                                                    *)
LEMMA DecodeLenIs ==
  ASSUME NEW i
  PROVE  /\ DecodeLen("bytes", i) = bytesLen(i) /\ DecodeLen("array", i) = arrayLen(i)
         /\ DecodeLen("map", i) = mapLen(i) /\ DecodeLen("ext", i) = parseExtLen(i)
<1>1. DecodeLen("bytes", i) = bytesLen(i)
  BY DEF DecodeLen
<1>2. DecodeLen("array", i) = arrayLen(i)
  BY DEF DecodeLen
<1>3. DecodeLen("map", i) = mapLen(i)
  BY DEF DecodeLen
<1>4. DecodeLen("ext", i) = parseExtLen(i)
  BY DEF DecodeLen
<1> QED BY <1>1, <1>2, <1>3, <1>4

(* Codes in which a length is sent.                                         *)
LEMMA LengthCode ==
  ASSUME NEW kind \in LenKinds, NEW l \in Nat, l < LenMod(4)
  PROVE  EncodeLen(kind, l).c \in KindCodes(kind)
<1> DEFINE c == EncodeLen(kind, l).c
<1>1. InCode(kind, c, l) \/ \E w \in {1, 2, 4} : (kind \in {"array", "map"} => w # 1)
                                             /\ c = FieldCode(kind, w)
  BY LengthEncodes DEF InField
<1> SUFFICES c \in KindCodes(kind)
  OBVIOUS
<1> HIDE DEF c
<1>2. CASE kind = "str"
  <2>1. FieldCode(kind, 1) = 217
    BY <1>2 DEF FieldCode
  <2>2. FieldCode(kind, 2) = 218
    BY <1>2 DEF FieldCode
  <2>3. FieldCode(kind, 4) = 219
    BY <1>2 DEF FieldCode
  <2>4. CASE InCode(kind, c, l)
    BY <1>2, <2>4 DEF InCode, KindCodes
  <2>5. CASE ~InCode(kind, c, l)
    <3>1. c \in {217, 218, 219}
      BY <1>1, <1>2, <2>1, <2>2, <2>3, <2>5
    <3> QED BY <1>2, <3>1 DEF KindCodes
  <2> QED BY <2>4, <2>5
<1>3. CASE kind = "bin"
  <2>1. FieldCode(kind, 1) = 196
    BY <1>3 DEF FieldCode
  <2>2. FieldCode(kind, 2) = 197
    BY <1>3 DEF FieldCode
  <2>3. FieldCode(kind, 4) = 198
    BY <1>3 DEF FieldCode
  <2>4. CASE InCode(kind, c, l)
    BY <1>3, <2>4 DEF InCode, KindCodes
  <2>5. CASE ~InCode(kind, c, l)
    <3>1. c \in {196, 197, 198}
      BY <1>1, <1>3, <2>1, <2>2, <2>3, <2>5
    <3> QED BY <1>3, <3>1 DEF KindCodes
  <2> QED BY <2>4, <2>5
<1>4. CASE kind = "array"
  <2>1. FieldCode(kind, 2) = 220
    BY <1>4 DEF FieldCode
  <2>2. FieldCode(kind, 4) = 221
    BY <1>4 DEF FieldCode
  <2>3. CASE InCode(kind, c, l)
    BY <1>4, <2>3 DEF InCode, KindCodes
  <2>4. CASE ~InCode(kind, c, l)
    <3>1. c \in {220, 221}
      BY <1>1, <1>4, <2>1, <2>2, <2>4
    <3> QED BY <1>4, <3>1 DEF KindCodes
  <2> QED BY <2>3, <2>4
<1>5. CASE kind = "map"
  <2>1. FieldCode(kind, 2) = 222
    BY <1>5 DEF FieldCode
  <2>2. FieldCode(kind, 4) = 223
    BY <1>5 DEF FieldCode
  <2>3. CASE InCode(kind, c, l)
    BY <1>5, <2>3 DEF InCode, KindCodes
  <2>4. CASE ~InCode(kind, c, l)
    <3>1. c \in {222, 223}
      BY <1>1, <1>5, <2>1, <2>2, <2>4
    <3> QED BY <1>5, <3>1 DEF KindCodes
  <2> QED BY <2>3, <2>4
<1>6. CASE kind = "ext"
  <2>1. FieldCode(kind, 1) = 199
    BY <1>6 DEF FieldCode
  <2>2. FieldCode(kind, 2) = 200
    BY <1>6 DEF FieldCode
  <2>3. FieldCode(kind, 4) = 201
    BY <1>6 DEF FieldCode
  <2>4. CASE InCode(kind, c, l)
    BY <1>6, <2>4 DEF InCode, FixExtOf, KindCodes
  <2>5. CASE ~InCode(kind, c, l)
    <3>1. c \in {199, 200, 201}
      BY <1>1, <1>6, <2>1, <2>2, <2>3, <2>5
    <3> QED BY <1>6, <3>1 DEF KindCodes
  <2> QED BY <2>4, <2>5
<1> QED BY <1>2, <1>3, <1>4, <1>5, <1>6 DEF LenKinds

(* The reader of its kind gives the length, or an error if it does not fit. *)
LEMMA LengthOwn ==
  ASSUME NEW kind \in LenKinds, NEW l \in Nat, l < LenMod(4)
  PROVE  DecodeLen(ReaderOf(kind), EncodeLen(kind, l)) =
           IF IntHolds(l) THEN IntResult(l) ELSE NoResult
<1> DEFINE i == EncodeLen(kind, l)
           R == DecodeLen(ReaderOf(kind), i)
<1>1. (InCode(kind, i.c, l) /\ l <= 31) \/ InField(kind, i, l)
  BY LengthEncodes
<1> HIDE DEF i
<1>2. /\ ReaderOf("str") = "bytes" /\ ReaderOf("bin") = "bytes" /\ ReaderOf("array") = "array"
      /\ ReaderOf("map") = "map" /\ ReaderOf("ext") = "ext"
  BY DEF ReaderOf
<1>3. l < LenMod(2) => IntHolds(l)
  BY LenMods DEF IntHolds
<1>4. uint32ToInt(l) = IF IntHolds(l) THEN IntResult(l) ELSE NoResult
  BY LenMods DEF uint32ToInt, IntHolds
<1>5. CASE InCode(kind, i.c, l) /\ l <= 31
  <2>1. R = IntResult(l)
    <3>1. CASE kind = "str"
      BY <1>2, <1>5, <3>1, DecodeLenIs, bytesLenIs DEF InCode
    <3>2. CASE kind = "bin"
      BY <1>5, <3>2 DEF InCode
    <3>3. CASE kind = "array"
      BY <1>2, <1>5, <3>3, DecodeLenIs, arrayLenIs DEF InCode
    <3>4. CASE kind = "map"
      BY <1>2, <1>5, <3>4, DecodeLenIs, mapLenIs DEF InCode
    <3>5. CASE kind = "ext"
      BY <1>2, <1>5, <3>5, DecodeLenIs, parseExtLenIs DEF InCode, FixExtOf
    <3> QED BY <3>1, <3>2, <3>3, <3>4, <3>5 DEF LenKinds
  <2>2. l < LenMod(2)
    BY <1>5, LenMods
  <2> QED BY <1>3, <2>1, <2>2 DEF i
<1>6. CASE InField(kind, i, l)
  <2>1. PICK w \in {1, 2, 4} :
          /\ kind \in {"array", "map"} => w # 1
          /\ i.c = FieldCode(kind, w) /\ Field(i, w) = l
          /\ w # 4 => l < LenMod(2)
    BY <1>6 DEF InField
  <2>2. R = IF w = 4 THEN uint32ToInt(l) ELSE IntResult(l)
    <3>1. CASE kind = "str"
      <4>1. i.c = IF w = 1 THEN 217 ELSE IF w = 2 THEN 218 ELSE 219
        BY <2>1, <3>1 DEF FieldCode
      <4> QED BY <1>2, <2>1, <3>1, <4>1, DecodeLenIs, bytesLenIs
    <3>2. CASE kind = "bin"
      <4>1. i.c = IF w = 1 THEN 196 ELSE IF w = 2 THEN 197 ELSE 198
        BY <2>1, <3>2 DEF FieldCode
      <4> QED BY <1>2, <2>1, <3>2, <4>1, DecodeLenIs, bytesLenIs
    <3>3. CASE kind = "array"
      <4>1. i.c = (IF w = 2 THEN 220 ELSE 221) /\ w # 1
        BY <2>1, <3>3 DEF FieldCode
      <4> QED BY <1>2, <2>1, <3>3, <4>1, DecodeLenIs, arrayLenIs
    <3>4. CASE kind = "map"
      <4>1. i.c = (IF w = 2 THEN 222 ELSE 223) /\ w # 1
        BY <2>1, <3>4 DEF FieldCode
      <4> QED BY <1>2, <2>1, <3>4, <4>1, DecodeLenIs, mapLenIs
    <3>5. CASE kind = "ext"
      <4>1. i.c = IF w = 1 THEN 199 ELSE IF w = 2 THEN 200 ELSE 201
        BY <2>1, <3>5 DEF FieldCode
      <4> QED BY <1>2, <2>1, <3>5, <4>1, DecodeLenIs, parseExtLenIs
    <3> QED BY <3>1, <3>2, <3>3, <3>4, <3>5 DEF LenKinds
  <2> QED BY <1>3, <1>4, <2>1, <2>2 DEF i
<1> QED BY <1>1, <1>5, <1>6

(* Every other reader refuses it.                                           *)
LEMMA LengthOther ==
  ASSUME NEW kind \in LenKinds, NEW l \in Nat, l < LenMod(4),
         NEW reader \in Readers, reader # ReaderOf(kind)
  PROVE  DecodeLen(reader, EncodeLen(kind, l)) = NoResult
<1> DEFINE i == EncodeLen(kind, l)
<1>1. i.c \in KindCodes(kind)
  BY LengthCode
<1> HIDE DEF i
<1>2. CASE kind \in {"str", "bin"}
  <2>1. i.c \in 160 .. 191 \cup 196 .. 198 \cup 217 .. 219
    BY <1>1, <1>2 DEF KindCodes
  <2>2. reader \in {"array", "map", "ext"}
    BY <1>2 DEF Readers, ReaderOf
  <2> QED BY <2>1, <2>2, DecodeLenIs, arrayLenIs, mapLenIs, parseExtLenIs DEF i
<1>3. CASE kind = "array"
  <2>1. i.c \in 144 .. 159 \cup {220, 221}
    BY <1>1, <1>3 DEF KindCodes
  <2>2. reader \in {"bytes", "map", "ext"}
    BY <1>3 DEF Readers, ReaderOf
  <2> QED BY <2>1, <2>2, DecodeLenIs, bytesLenIs, mapLenIs, parseExtLenIs DEF i
<1>4. CASE kind = "map"
  <2>1. i.c \in 128 .. 143 \cup {222, 223}
    BY <1>1, <1>4 DEF KindCodes
  <2>2. reader \in {"bytes", "array", "ext"}
    BY <1>4 DEF Readers, ReaderOf
  <2> QED BY <2>1, <2>2, DecodeLenIs, bytesLenIs, arrayLenIs, parseExtLenIs DEF i
<1>5. CASE kind = "ext"
  <2>1. i.c \in 199 .. 201 \cup 212 .. 216
    BY <1>1, <1>5 DEF KindCodes
  <2>2. reader \in {"bytes", "array", "map"}
    BY <1>5 DEF Readers, ReaderOf
  <2> QED BY <2>1, <2>2, DecodeLenIs, bytesLenIs, arrayLenIs, mapLenIs DEF i
<1> QED BY <1>2, <1>3, <1>4, <1>5 DEF LenKinds

(* So does every reader of numbers.                                         *)
LEMMA LengthNoNumber ==
  ASSUME NEW kind \in LenKinds, NEW l \in Nat, l < LenMod(4)
  PROVE  LET i == EncodeLen(kind, l)
         IN  int(i) = {NoResult} /\ uint(i) = {NoResult} /\ ~IsFloatItem(i)
<1> DEFINE i == EncodeLen(kind, l)
<1>1. i.c \in 128 .. 191 \cup 196 .. 201 \cup 212 .. 223
  <2>1. i.c \in KindCodes(kind)
    BY LengthCode
  <2> HIDE DEF i
  <2>2. kind \in {"str", "bin", "array", "map", "ext"}
    BY DEF LenKinds
  <2> QED BY <2>1, <2>2 DEF KindCodes
<1> HIDE DEF i
<1>2. /\ i.c # Nil /\ ~IsFixedNum(i.c) /\ i.c \notin Uints /\ i.c \notin Ints
      /\ ~IsFloatItem(i)
  BY <1>1 DEF Nil, IsFixedNum, Uints, Ints, IsFloatItem, Float, Double
<1>3. int(i) = {NoResult}
  BY <1>2 DEF int
<1>4. uint(i) = {NoResult}
  BY <1>2 DEF uint
<1> QED BY <1>2, <1>3, <1>4 DEF i

(* A number is refused where a length is read.                              *)
LEMMA NumberNoLength ==
  ASSUME NEW i, IsFixedNum(i.c) \/ i.c \in Uints \/ i.c \in Ints \/ i.c \in {Float, Double},
         NEW reader \in Readers
  PROVE  DecodeLen(reader, i) = NoResult
<1>1. i.c \notin 128 .. 201 /\ i.c \notin 212 .. 223
  BY DEF IsFixedNum, Uints, Ints, Float, Double
<1>2. /\ i.c \notin 160 .. 192 \cup 196 .. 198 \cup 217 .. 219
      /\ i.c \notin 144 .. 159 \cup {192, 220, 221}
      /\ i.c \notin 128 .. 143 \cup {192, 222, 223}
      /\ i.c \notin 199 .. 201 \cup 212 .. 216
  BY <1>1
<1> QED BY <1>2, DecodeLenIs, bytesLenIs, arrayLenIs, mapLenIs, parseExtLenIs DEF Readers

-----------------------------------------------------------------------------
(***************************************************************************)
(* Floats                                                                  *)
(***************************************************************************)
Floats == [k : {"finite", "NaN", "+Inf", "-Inf", "-0"}, h : Int]

(* int64(f) is an int64, whatever the platform makes of it.                 *)
LEMMA fromFloatType ==
  ASSUME NEW f, NEW i \in fromFloat(f, MinInt(8), MaxInt(8))
  PROVE  i \in Int64s
<1>1. CASE f.k \in {"finite", "-0"} /\ Trunc(f.h) \in MinInt(8) .. MaxInt(8)
  BY <1>1 DEF fromFloat, Int64s
<1>2. CASE ~(f.k \in {"finite", "-0"} /\ Trunc(f.h) \in MinInt(8) .. MaxInt(8))
  <2>1. PICK g \in Garbage : i = toUint(g - MinInt(8), 8) + MinInt(8)
    BY <1>2 DEF fromFloat
  <2>2. g - MinInt(8) \in Int
    BY NumbersAssumption, Ranges, WidthsAre
  <2>3. toUint(g - MinInt(8), 8) \in 0 .. MaxUint(8)
    BY <2>2, toUintType, WidthsAre
  <2> QED BY <2>1, <2>3, HalfOf, WidthsAre DEF Int64s
<1> QED BY <1>1, <1>2

(* A float is sent as it is or as an integer that converts back to it.      *)
LEMMA FloatSent ==
  ASSUME NEW f, NEW p, NEW code, NEW i \in EncodeFloat(f, p, code)
  PROVE  \/ i = FloatItem(code, f)
         \/ \E n \in Int64s : Denotes(i, n) /\ FloatSame(toFloat(n, p), f)
<1>1. PICK n \in fromFloat(f, MinInt(8), MaxInt(8)) :
        i = IF compactFloats /\ FloatSame(toFloat(n, p), f) THEN EncodeInt(n) ELSE FloatItem(code, f)
  BY DEF EncodeFloat
<1>2. n \in Int64s
  BY fromFloatType
<1>3. Denotes(EncodeInt(n), n)
  BY <1>2, EncodeIntDenotes
<1> QED BY <1>1, <1>2, <1>3

(* The integer of an item as a float.                                       *)
LEMMA viaIntOne ==
  ASSUME NEW i, NEW p, NEW n \in Int64s, Denotes(i, n), NEW r \in viaInt(i, p)
  PROVE  r = FloatResult(toFloat(n, p))
<1>1. int(i) = {IntResult(n)}
  <2>1. toInt(n, 8) = n
    BY toIntSame, WidthsAre DEF Int64s
  <2> QED BY <2>1, Wide
<1> QED BY <1>1 DEF viaInt, IntResult

(* The fields of a float type.                                              *)
LEMMA FloatTypesAre ==
  ASSUME NEW t \in FloatTypes
  PROVE  t.k = "float" /\ (t.w = 4 \/ t.w = 8)
BY DEF FloatTypes

CodeOf(t) == IF t.w = 4 THEN Float ELSE Double

(* What a float type reads from its own code, and from an integer.          *)
LEMMA FloatRead ==
  ASSUME NEW t \in FloatTypes, NEW f, NEW i, NEW r \in Results(i, t)
  PROVE  /\ i = FloatItem(CodeOf(t), f) => r = FloatResult(f)
         /\ \A n \in Int64s : Denotes(i, n) => r = FloatResult(toFloat(n, Precision(t)))
<1>1. CASE t.w = 4
  <2>1. Results(i, t) = float32(i)
    BY <1>1, FloatTypesAre DEF Results
  <2>2. i = FloatItem(Float, f) => r = FloatResult(f)
    BY <2>1 DEF float32, FloatItem
  <2>3. ASSUME NEW n \in Int64s, Denotes(i, n)
        PROVE  r = FloatResult(toFloat(n, Precision(t)))
    <3>1. i.c # Float
      BY <2>3, Wide DEF IsFloatItem
    <3>2. r \in viaInt(i, Precision32)
      BY <2>1, <3>1 DEF float32
    <3> QED BY <1>1, <2>3, <3>2, viaIntOne DEF Precision
  <2> QED BY <1>1, <2>2, <2>3 DEF CodeOf
<1>2. CASE t.w = 8
  <2>1. Results(i, t) = float64(i)
    BY <1>2, FloatTypesAre DEF Results
  <2>2. i = FloatItem(Double, f) => r = FloatResult(f)
    BY <2>1 DEF float64, FloatItem, IsFloatItem
  <2>3. ASSUME NEW n \in Int64s, Denotes(i, n)
        PROVE  r = FloatResult(toFloat(n, Precision(t)))
    <3>1. ~IsFloatItem(i)
      BY <2>3, Wide
    <3>2. r \in viaInt(i, Precision64)
      BY <2>1, <3>1 DEF float64
    <3> QED BY <1>2, <2>3, <3>2, viaIntOne DEF Precision
  <2> QED BY <1>2, <2>2, <2>3 DEF CodeOf
<1> QED BY <1>1, <1>2, FloatTypesAre

(* An even number of halves.                                                *)
LEMMA TruncEven ==
  ASSUME NEW h \in Int, h % 2 = 0
  PROVE  Trunc(h) \in Int /\ 2 * Trunc(h) = h
BY DEF Trunc

(* The range check and the conversion behind it.                            *)
LEMMA FloatToInt ==
  ASSUME NEW f \in Floats, NEW lo \in Int, NEW hi \in Int,
         Round(lo, Precision64) = lo, Round(hi, Precision64) = hi + 1
  PROVE  /\ f.k \in {"finite", "-0"} /\ f.h % 2 = 0 /\ f.h >= 2 * lo /\ f.h < 2 * (hi + 1)
              => /\ Trunc(f.h) \in lo .. hi /\ 2 * Trunc(f.h) = f.h
                 /\ floatToInt(f, lo, hi) = {IntResult(Trunc(f.h))}
         /\ ~(f.k \in {"finite", "-0"} /\ f.h % 2 = 0) => floatToInt(f, lo, hi) = {NoResult}
<1>1. f.h \in Int
  BY DEF Floats
<1>2. ASSUME f.k \in {"finite", "-0"}, f.h % 2 = 0, f.h >= 2 * lo, f.h < 2 * (hi + 1)
      PROVE  /\ Trunc(f.h) \in lo .. hi /\ 2 * Trunc(f.h) = f.h
             /\ floatToInt(f, lo, hi) = {IntResult(Trunc(f.h))}
  <2>1. Trunc(f.h) \in Int /\ 2 * Trunc(f.h) = f.h
    BY <1>1, <1>2, TruncEven
  <2>2. Trunc(f.h) \in lo .. hi
    BY <1>2, <2>1
  <2>3. Representable(f, lo, hi)
    <3>1. f.h <= 2 * (hi + 1)
      BY <1>1, <1>2
    <3> QED BY <1>2, <3>1 DEF Representable
  <2>4. fromFloat(f, lo, hi) = {Trunc(f.h)}
    BY <1>2, <2>2 DEF fromFloat
  <2> QED BY <2>1, <2>2, <2>3, <2>4 DEF floatToInt
<1>3. ASSUME ~(f.k \in {"finite", "-0"} /\ f.h % 2 = 0)
      PROVE  floatToInt(f, lo, hi) = {NoResult}
  BY <1>3 DEF floatToInt, Representable
<1> QED BY <1>2, <1>3

(* A float decoded into a 64-bit integer.                                   *)
InsideResult(f, d, r) ==
  IF f.k \in {"finite", "-0"} /\ f.h % 2 = 0
  THEN Inside(f, d) => r.ok /\ 2 * r.n = f.h
  ELSE ~r.ok

(* The result of decoding a float code into a 64-bit integer.               *)
LEMMA FloatIntoInt64 ==
  ASSUME NEW f \in Floats, NEW code \in {Float, Double}, NEW d \in IntTypes, d.w = 8,
         NEW r \in Results(FloatItem(code, f), d)
  PROVE  InsideResult(f, d, r)
<1> DEFINE i == FloatItem(code, f)
<1>1. IsFloatItem(i) /\ i.f = f
  BY DEF FloatItem, IsFloatItem
<1>2. i.c # Nil /\ ~IsFixedNum(i.c) /\ i.c \notin Uints /\ i.c \notin Ints
  <2>1. i.c = 202 \/ i.c = 203
    BY DEF FloatItem, Float, Double
  <2> QED BY <2>1 DEF Nil, IsFixedNum, Uints, Ints
<1>3. d.k = "int" /\ d.signed \in BOOLEAN
  BY IntTypesAre
<1>4. f.h \in Int
  BY DEF Floats
<1>5. /\ MinInt(8) \in Int /\ MaxInt(8) \in Int /\ MaxUint(8) \in Int
      /\ 8 \in Widths
  BY Ranges, WidthsAre
<1>6. NoResult.ok = FALSE /\ \A n : IntResult(n).ok = TRUE /\ IntResult(n).n = n
  BY DEF NoResult, IntResult
<1> HIDE DEF i
<1>7. CASE d.signed
  <2>1. r \in narrowed(floatToInt(f, MinInt(8), MaxInt(8)), d)
    <3>1. Results(i, d) = narrowed(int(i), d)
      BY <1>3, <1>7 DEF Results
    <3>2. int(i) = floatToInt(i.f, MinInt(8), MaxInt(8))
      BY <1>1, <1>2 DEF int
    <3> QED BY <1>1, <3>1, <3>2 DEF i
  <2>2. Round(MinInt(8), Precision64) = MinInt(8) /\ Round(MaxInt(8), Precision64) = MaxInt(8) + 1
    BY BoundsAssumption
  <2>3. CASE f.k \in {"finite", "-0"} /\ f.h % 2 = 0
    <3> SUFFICES ASSUME Inside(f, d) PROVE r.ok /\ 2 * r.n = f.h
      BY <2>3 DEF InsideResult
    <3>1. f.h > 2 * MinInt(8) /\ f.h < 2 * (MaxInt(8) + 1)
      BY <1>7, <2>2 DEF Inside
    <3>2. f.h >= 2 * MinInt(8)
      BY <1>4, <1>5, <3>1
    <3>3. /\ Trunc(f.h) \in MinInt(8) .. MaxInt(8) /\ 2 * Trunc(f.h) = f.h
          /\ floatToInt(f, MinInt(8), MaxInt(8)) = {IntResult(Trunc(f.h))}
      BY <1>5, <2>2, <2>3, <3>1, <3>2, FloatToInt
    <3>4. toInt(Trunc(f.h), 8) = Trunc(f.h)
      BY <1>5, <3>3, toIntSame
    <3>5. r \in narrowed({IntResult(Trunc(f.h))}, d)
      BY <2>1, <3>3
    <3>6. r = IntResult(IF d.signed THEN toInt(Trunc(f.h), d.w) ELSE toUint(Trunc(f.h), d.w))
      BY <3>5, narrowedOne
    <3>7. r = IntResult(Trunc(f.h))
      BY <1>7, <3>4, <3>6
    <3> QED BY <1>6, <3>3, <3>7
  <2>4. CASE ~(f.k \in {"finite", "-0"} /\ f.h % 2 = 0)
    <3>1. floatToInt(f, MinInt(8), MaxInt(8)) = {NoResult}
      BY <1>5, <2>2, <2>4, FloatToInt
    <3>2. r = NoResult
      BY <1>6, <2>1, <3>1 DEF narrowed
    <3> QED BY <1>6, <2>4, <3>2 DEF InsideResult
  <2> QED BY <2>3, <2>4
<1>8. CASE ~d.signed
  <2>1. r \in narrowed(floatToInt(f, 0, MaxUint(8)), d)
    <3>1. Results(i, d) = narrowed(uint(i), d)
      BY <1>3, <1>8 DEF Results
    <3>2. uint(i) = floatToInt(i.f, 0, MaxUint(8))
      BY <1>1, <1>2 DEF uint
    <3> QED BY <1>1, <3>1, <3>2 DEF i
  <2>2. Round(0, Precision64) = 0 /\ Round(MaxUint(8), Precision64) = MaxUint(8) + 1
    BY BoundsAssumption
  <2>3. CASE f.k \in {"finite", "-0"} /\ f.h % 2 = 0
    <3> SUFFICES ASSUME Inside(f, d) PROVE r.ok /\ 2 * r.n = f.h
      BY <2>3 DEF InsideResult
    <3>1. f.h >= 0 /\ f.h < 2 * (MaxUint(8) + 1)
      BY <1>8, <2>2 DEF Inside
    <3>2. f.h >= 2 * 0
      BY <1>4, <3>1
    <3>3. /\ Trunc(f.h) \in 0 .. MaxUint(8) /\ 2 * Trunc(f.h) = f.h
          /\ floatToInt(f, 0, MaxUint(8)) = {IntResult(Trunc(f.h))}
      BY <1>5, <2>2, <2>3, <3>1, <3>2, FloatToInt
    <3>4. toUint(Trunc(f.h), 8) = Trunc(f.h)
      BY <1>5, <3>3, toUintSame
    <3>5. r \in narrowed({IntResult(Trunc(f.h))}, d)
      BY <2>1, <3>3
    <3>6. r = IntResult(IF d.signed THEN toInt(Trunc(f.h), d.w) ELSE toUint(Trunc(f.h), d.w))
      BY <3>5, narrowedOne
    <3>7. r = IntResult(Trunc(f.h))
      BY <1>8, <3>4, <3>6
    <3> QED BY <1>6, <3>3, <3>7
  <2>4. CASE ~(f.k \in {"finite", "-0"} /\ f.h % 2 = 0)
    <3>1. floatToInt(f, 0, MaxUint(8)) = {NoResult}
      BY <1>5, <2>2, <2>4, FloatToInt
    <3>2. r = NoResult
      BY <1>6, <2>1, <3>1 DEF narrowed
    <3> QED BY <1>6, <2>4, <3>2 DEF InsideResult
  <2> QED BY <2>3, <2>4
<1> QED BY <1>3, <1>7, <1>8

-----------------------------------------------------------------------------
(***************************************************************************)
(* The invariant                                                           *)
(***************************************************************************)
(* What is known of the source.                                             *)
SourceIs ==
  \/ src.t.k = "int" /\ src.t \in IntTypes /\ Holds(src.t, src.n)
  \/ src.t.k = "float" /\ src.t \in FloatTypes /\ src.f \in Floats
  \/ src.t.k = "len" /\ src.kind \in LenKinds /\ src.n \in Nat
  \/ src.t.k = "nil"

(* Every source is a number of its type or a length.                        *)
LEMMA SourcesAre == src \in Sources => SourceIs
<1>1. src \in IntSources /\ Holds(src.t, src.n) => SourceIs
  BY IntTypesAre DEF IntSources, SourceIs
<1>2. src \in FloatSources => SourceIs
  <2> SUFFICES ASSUME src \in FloatSources PROVE SourceIs
    OBVIOUS
  <2>1. src.t \in FloatTypes /\ src.f \in [k : {"finite"}, h : Halves] \cup Specials
    BY DEF FloatSources
  <2>2. src.f \in Floats
    <3>1. Halves \subseteq Int
      BY NumbersAssumption
    <3>2. CASE src.f \in [k : {"finite"}, h : Halves]
      BY <3>1, <3>2 DEF Floats
    <3>3. CASE src.f \in Specials
      BY <3>3 DEF Specials, Floats
    <3> QED BY <2>1, <3>2, <3>3
  <2> QED BY <2>1, <2>2, FloatTypesAre DEF SourceIs
<1>3. src \in LenSources => SourceIs
  BY NumbersAssumption DEF LenSources, SourceIs
<1>4. src = NilSource => SourceIs
  BY DEF NilSource, SourceIs
<1> QED BY <1>1, <1>2, <1>3, <1>4 DEF Sources

(* What the item says of the source once it is encoded.                     *)
Encoded ==
  pc # "encode" =>
    /\ src.t.k = "int" => Denotes(item, src.n)
    /\ src.t.k = "float" =>
         \/ item = FloatItem(CodeOf(src.t), src.f)
         \/ \E n \in Int64s :
              Denotes(item, n) /\ FloatSame(toFloat(n, Precision(src.t)), src.f)
    /\ src.t.k = "len" => item = EncodeLen(src.kind, src.n)
    /\ src.t.k = "nil" => item = EncodeNil

Flags == compactInts \in BOOLEAN /\ compactFloats \in BOOLEAN /\ narrowInt \in BOOLEAN
RoundTrips == IntRoundTrip /\ FloatRoundTrip /\ FloatInsideRange /\ LenRoundTrip
(* The inductive invariant.                                                 *)
IInv == Flags /\ SourceIs /\ Encoded /\ RoundTrips

(* Encoding a number keeps the invariant.                                   *)
LEMMA NumberEncoded ==
  ASSUME IInv, EncodeNumber
  PROVE  IInv'
<1>1. /\ src.t.k # "len" /\ src.t.k # "nil" /\ pc' = "decode"
      /\ UNCHANGED <<compactInts, compactFloats, narrowInt, src>>
  BY DEF EncodeNumber, Encode, IsNumber
<1>2. Flags' /\ SourceIs'
  BY <1>1 DEF IInv, Flags, SourceIs
<1>3. ASSUME src.t.k = "int" PROVE Encoded'
  <2>1. item' \in {encodeCond(src.t, src.n)}
    BY <1>3 DEF EncodeNumber, Encode
  <2>2. src.t \in IntTypes /\ Holds(src.t, src.n)
    BY <1>3 DEF IInv, SourceIs
  <2>3. Denotes(item', src.n)
    BY <2>1, <2>2, encodeCondDenotes DEF IInv, Flags
  <2> QED BY <1>1, <1>3, <2>3 DEF Encoded
<1>4. ASSUME src.t.k = "float" PROVE Encoded'
  <2>1. src.t \in FloatTypes
    BY <1>4 DEF IInv, SourceIs
  <2>2. item' \in EncodeFloat(src.f, Precision(src.t), CodeOf(src.t))
    <3>1. CASE src.t.w = 4
      <4>1. item' \in EncodeFloat(src.f, Precision32, Float)
        BY <1>4, <3>1 DEF EncodeNumber, Encode
      <4> QED BY <3>1, <4>1 DEF Precision, CodeOf
    <3>2. CASE src.t.w = 8
      <4>1. item' \in EncodeFloat(src.f, Precision64, Double)
        BY <1>4, <3>2 DEF EncodeNumber, Encode
      <4> QED BY <3>2, <4>1 DEF Precision, CodeOf
    <3> QED BY <2>1, <3>1, <3>2, FloatTypesAre
  <2>3. \/ item' = FloatItem(CodeOf(src.t), src.f)
        \/ \E n \in Int64s :
             Denotes(item', n) /\ FloatSame(toFloat(n, Precision(src.t)), src.f)
    BY <2>2, FloatSent
  <2> QED BY <1>1, <1>4, <2>3 DEF Encoded
<1>5. Encoded'
  BY <1>1, <1>3, <1>4 DEF IInv, SourceIs
<1>6. RoundTrips'
  <2>1. pc' # "done"
    BY <1>1
  <2> QED BY <2>1 DEF RoundTrips, IntRoundTrip, FloatRoundTrip, FloatInsideRange,
                      LenRoundTrip, Decoded
<1> QED BY <1>2, <1>5, <1>6 DEF IInv

(* Encoding a length or nil keeps the invariant.                            *)
LEMMA LengthEncoded ==
  ASSUME IInv, EncodeLength \/ EncodeNothing
  PROVE  IInv'
<1>1. /\ pc' = "decode" /\ UNCHANGED <<compactInts, compactFloats, narrowInt, src>>
      /\ \/ src.t.k = "len" /\ item' = EncodeLen(src.kind, src.n)
         \/ src.t.k = "nil" /\ item' = EncodeNil
  BY DEF EncodeLength, EncodeNothing, Encode
<1>2. Flags' /\ SourceIs'
  BY <1>1 DEF IInv, Flags, SourceIs
<1>3. Encoded'
  BY <1>1 DEF Encoded
<1>4. RoundTrips'
  <2>1. pc' # "done"
    BY <1>1
  <2> QED BY <2>1 DEF RoundTrips, IntRoundTrip, FloatRoundTrip, FloatInsideRange,
                      LenRoundTrip, Decoded
<1> QED BY <1>2, <1>3, <1>4 DEF IInv

(* Decoding a length keeps the invariant, whatever was encoded.             *)
LEMMA LengthDecoded ==
  ASSUME IInv, NEW reader \in Readers, DecodeLength(reader)
  PROVE  IInv'
<1> DEFINE d == [k |-> "len", reader |-> reader]
<1>1. /\ pc = "decode" /\ pc' = "done" /\ out' = DecodeLen(reader, item) /\ dest' = d
      /\ UNCHANGED <<compactInts, compactFloats, narrowInt, src, item>>
  BY DEF DecodeLength, Decode
<1>2. Flags' /\ SourceIs' /\ Encoded'
  BY <1>1 DEF IInv, Flags, SourceIs, Encoded
<1>3. d.k = "len" /\ d.reader = reader
  OBVIOUS
<1>4. ASSUME src.t.k = "len", src.n < LenMod(4)
      PROVE  out' = IF dest' = LengthOf(src.kind) /\ IntHolds(src.n)
                    THEN IntResult(src.n) ELSE NoResult
  <2>1. item = EncodeLen(src.kind, src.n) /\ src.kind \in LenKinds /\ src.n \in Nat
    BY <1>1, <1>4 DEF IInv, Encoded, SourceIs
  <2>2. d = LengthOf(src.kind) <=> reader = ReaderOf(src.kind)
    BY DEF LengthOf
  <2>3. CASE reader = ReaderOf(src.kind)
    <3>1. out' = IF IntHolds(src.n) THEN IntResult(src.n) ELSE NoResult
      BY <1>1, <1>4, <2>1, <2>3, LengthOwn
    <3> QED BY <1>1, <2>2, <2>3, <3>1
  <2>4. CASE reader # ReaderOf(src.kind)
    <3>1. out' = NoResult
      BY <1>1, <1>4, <2>1, <2>4, LengthOther
    <3> QED BY <1>1, <2>2, <2>4, <3>1
  <2> QED BY <2>3, <2>4
<1>5. ASSUME src.t.k = "nil"
      PROVE  out' = IF dest'.reader = "ext" THEN NoResult ELSE IntResult(-1)
  <2>1. item.c = 192
    BY <1>1, <1>5 DEF IInv, Encoded, EncodeNil, Item, Nil
  <2>2. DecodeLen(reader, item) = IF reader = "ext" THEN NoResult ELSE IntResult(-1)
    BY <2>1, DecodeLenIs, bytesLenIs, arrayLenIs, mapLenIs, parseExtLenIs DEF Readers
  <2> QED BY <1>1, <1>3, <2>2
<1>6. ASSUME IsNumber(src) PROVE ~out'.ok
  <2>1. \/ IsFixedNum(item.c) \/ item.c \in Uints \/ item.c \in Ints
        \/ item.c \in {Float, Double}
    <3>1. \A n : Denotes(item, n) => IsFixedNum(item.c) \/ item.c \in Uints \/ item.c \in Ints
      BY DEF Denotes
    <3>2. item = FloatItem(CodeOf(src.t), src.f) => item.c \in {Float, Double}
      BY DEF FloatItem, CodeOf
    <3> QED BY <1>1, <1>6, <3>1, <3>2 DEF IInv, Encoded, IsNumber
  <2>2. out' = NoResult
    BY <1>1, <2>1, NumberNoLength
  <2> QED BY <2>2 DEF NoResult
<1>7. IntHolds(src.n)' = IntHolds(src.n)
  BY <1>1 DEF IntHolds
<1>8. LenRoundTrip'
  BY <1>1, <1>4, <1>5, <1>6, <1>7 DEF LenRoundTrip, Decoded, IsNumber
<1>9. IntRoundTrip' /\ FloatInsideRange'
  BY <1>1, <1>3 DEF IntRoundTrip, FloatInsideRange, Decoded
<1>10. FloatRoundTrip'
  <2>1. src.t.k = "float" => d # src.t
    BY <1>3
  <2> QED BY <1>1, <2>1 DEF FloatRoundTrip, Decoded
<1> QED BY <1>2, <1>8, <1>9, <1>10 DEF IInv, RoundTrips

(* Decoding a number into any destination keeps the invariant.              *)
LEMMA NumberDecoded ==
  ASSUME IInv, NEW d \in Dests, DecodeNumber(d)
  PROVE  IInv'
<1>1. /\ pc = "decode" /\ pc' = "done" /\ dest' = d /\ out' \in Results(item, d)
      /\ IsNumber(src) \/ d.k \in {"int", "float"}
      /\ UNCHANGED <<compactInts, compactFloats, narrowInt, src, item>>
  BY DEF DecodeNumber, Decode
<1>2. Flags' /\ SourceIs' /\ Encoded'
  BY <1>1 DEF IInv, Flags, SourceIs, Encoded
<1>3. d \in IntTypes \/ d \in FloatTypes \/ d \in [k : {"any", "loose"}]
  BY DestsAssumption
<1>4. d.k = "int" => d \in IntTypes
  BY <1>3, FloatTypesAre
<1>5. LenRoundTrip'
  <2>1. d.k # "len" /\ \A kind : d # LengthOf(kind)
    <3>1. d.k # "len"
      BY <1>3, IntTypesAre, FloatTypesAre
    <3> QED BY <3>1 DEF LengthOf
  <2>2. ASSUME src.t.k = "len", src.n < LenMod(4) PROVE out' = NoResult
    <3>1. item = EncodeLen(src.kind, src.n) /\ src.kind \in LenKinds /\ src.n \in Nat
      BY <1>1, <2>2 DEF IInv, Encoded, SourceIs
    <3>2. int(item) = {NoResult} /\ uint(item) = {NoResult} /\ ~IsFloatItem(item)
      BY <2>2, <3>1, LengthNoNumber
    <3>3. NoResult.ok = FALSE
      BY DEF NoResult
    <3>4. narrowed({NoResult}, d) = {NoResult}
      BY <3>3 DEF narrowed
    <3>5. float32(item) = {NoResult} /\ float64(item) = {NoResult}
      BY <3>2, <3>3 DEF float32, float64, viaInt, IsFloatItem
    <3>6. d \in IntTypes \/ d \in FloatTypes
      BY <1>1, <1>3, <2>2 DEF IsNumber
    <3>7. CASE d \in IntTypes
      <4>1. d.k = "int" /\ d.signed \in BOOLEAN
        BY <3>7, IntTypesAre
      <4>2. Results(item, d) = {NoResult}
        BY <3>2, <3>4, <4>1 DEF Results
      <4> QED BY <1>1, <4>2
    <3>8. CASE d \in FloatTypes
      <4>1. d.k = "float" /\ (d.w = 4 \/ d.w = 8)
        BY <3>8, FloatTypesAre
      <4>2. Results(item, d) = {NoResult}
        BY <3>5, <4>1 DEF Results
      <4> QED BY <1>1, <4>2
    <3> QED BY <3>6, <3>7, <3>8
  <2> QED BY <1>1, <2>1, <2>2 DEF LenRoundTrip, Decoded, IsNumber
<1>6. IntRoundTrip'
  <2> SUFFICES ASSUME src.t.k = "int",
                      d.k \in {"any", "loose"} \/ (d.k = "int" /\ Holds(d, src.n))
               PROVE  out'.ok /\ out'.n = src.n
    BY <1>1 DEF IntRoundTrip, Decoded
  <2>1. Denotes(item, src.n)
    BY <1>1 DEF IInv, Encoded
  <2>2. out' = IntResult(src.n)
    <3>1. CASE d.k = "int" /\ Holds(d, src.n)
      BY <1>1, <1>4, <2>1, <3>1, Narrow
    <3>2. CASE d.k = "any"
      <4>1. Results(item, d) = DecodeInterface(item)
        BY <3>2 DEF Results
      <4> QED BY <1>1, <2>1, <4>1, Wide
    <3>3. CASE d.k = "loose"
      <4>1. Results(item, d) = DecodeInterfaceLoose(item)
        BY <3>3 DEF Results
      <4> QED BY <1>1, <2>1, <4>1, Wide
    <3> QED BY <3>1, <3>2, <3>3
  <2> QED BY <2>2 DEF IntResult
<1>7. FloatRoundTrip'
  <2> SUFFICES ASSUME src.t.k = "float", d = src.t
               PROVE  out'.ok /\ (FloatSame(out'.f, src.f) \/ (src.f.k = "NaN" /\ out'.f.k = "NaN"))
    BY <1>1 DEF FloatRoundTrip, Decoded
  <2>1. d \in FloatTypes
    BY DEF IInv, SourceIs
  <2>2. CASE item = FloatItem(CodeOf(d), src.f)
    <3>1. out' = FloatResult(src.f)
      BY <1>1, <2>1, <2>2, FloatRead
    <3> QED BY <3>1 DEF FloatResult, FloatSame
  <2>3. CASE \E n \in Int64s : Denotes(item, n) /\ FloatSame(toFloat(n, Precision(d)), src.f)
    <3>1. PICK n \in Int64s : Denotes(item, n) /\ FloatSame(toFloat(n, Precision(d)), src.f)
      BY <2>3
    <3>2. out' = FloatResult(toFloat(n, Precision(d)))
      BY <1>1, <2>1, <3>1, FloatRead
    <3> QED BY <3>1, <3>2 DEF FloatResult
  <2> QED BY <1>1, <2>2, <2>3 DEF IInv, Encoded
<1>8. FloatInsideRange'
  <2> SUFFICES ASSUME src.t.k = "float", d.k = "int", d.w = 8, IsFloatItem(item)
               PROVE  InsideResult(src.f, d, out')
    BY <1>1 DEF FloatInsideRange, Decoded, InsideResult
  <2>1. src.f \in Floats /\ src.t \in FloatTypes
    BY DEF IInv, SourceIs
  <2>2. item = FloatItem(CodeOf(src.t), src.f)
    <3>1. \A n : ~Denotes(item, n)
      BY Wide
    <3> QED BY <1>1, <3>1 DEF IInv, Encoded
  <2>3. CodeOf(src.t) \in {Float, Double}
    BY DEF CodeOf
  <2> QED BY <1>1, <1>4, <2>1, <2>2, <2>3, FloatIntoInt64
<1> QED BY <1>2, <1>5, <1>6, <1>7, <1>8 DEF IInv, RoundTrips

(* The invariant holds in every reachable state.                            *)
THEOREM Invariant == Spec => []IInv
<1>1. Init => IInv
  <2> SUFFICES ASSUME Init PROVE IInv
    OBVIOUS
  <2>1. Flags /\ SourceIs /\ Encoded
    BY SourcesAre DEF Init, Flags, Encoded
  <2>2. RoundTrips
    BY DEF Init, RoundTrips, IntRoundTrip, FloatRoundTrip, FloatInsideRange, LenRoundTrip, Decoded
  <2> QED BY <2>1, <2>2 DEF IInv
<1>2. IInv /\ [Next]_vars => IInv'
  <2> SUFFICES ASSUME IInv, [Next]_vars PROVE IInv'
    OBVIOUS
  <2>1. CASE EncodeNumber
    BY <2>1, NumberEncoded
  <2>2. CASE EncodeLength \/ EncodeNothing
    BY <2>2, LengthEncoded
  <2>3. CASE \E reader \in Readers : DecodeLength(reader)
    BY <2>3, LengthDecoded
  <2>4. CASE \E d \in Dests : DecodeNumber(d)
    BY <2>4, NumberDecoded
  <2>5. CASE UNCHANGED vars
    <3>1. Flags' /\ SourceIs' /\ Encoded'
      BY <2>5 DEF vars, IInv, Flags, SourceIs, Encoded
    <3>2. RoundTrips'
      BY <2>5 DEF vars, IInv, RoundTrips, IntRoundTrip, FloatRoundTrip, FloatInsideRange,
                  LenRoundTrip, Decoded, IsNumber, IntHolds
    <3> QED BY <3>1, <3>2 DEF IInv
  <2> QED BY <2>1, <2>2, <2>3, <2>4, <2>5 DEF Next
<1> QED BY <1>1, <1>2, PTL DEF Spec

(* Every integer arrives unchanged in every type that holds it, for every   *)
(* byte size, under both options and from every integer type.               *)
THEOREM IntegersComeBack == Spec => []IntRoundTrip
<1>1. IInv => IntRoundTrip
  BY DEF IInv, RoundTrips
<1> QED BY <1>1, Invariant, PTL

(* Every float comes back equal, whatever rounding does and whatever the    *)
(* platform makes of a float that does not fit an int64.                    *)
THEOREM FloatsComeBack == Spec => []FloatRoundTrip
<1>1. IInv => FloatRoundTrip
  BY DEF IInv, RoundTrips
<1> QED BY <1>1, Invariant, PTL

(* A float inside the range of a 64-bit integer is accepted for it exactly  *)
(* when it is an integer.                                                   *)
THEOREM FloatsBecomeIntegers == Spec => []FloatInsideRange
<1>1. IInv => FloatInsideRange
  BY DEF IInv, RoundTrips
<1> QED BY <1>1, Invariant, PTL

(* Every length up to MaxUint32 is read by the switch of its kind and by    *)
(* none of the others, from the code or from a field of any width, for      *)
(* every byte size above the 32 lengths a string code holds.                *)
THEOREM LengthsComeBack == Spec => []LenRoundTrip
<1>1. IInv => LenRoundTrip
  BY DEF IInv, RoundTrips
<1> QED BY <1>1, Invariant, PTL
=============================================================================
