----------------------------- MODULE TimeProofs -----------------------------
(***************************************************************************)
(* Proofs about the timestamp extension.                                   *)
(***************************************************************************)
EXTENDS Time, SequenceTheorems, TLAPS

-----------------------------------------------------------------------------
(***************************************************************************)
(* Division by a number that is not a literal                              *)
(***************************************************************************)
(* Quotient and remainder give the number back.                             *)
LEMMA DivMod ==
  ASSUME NEW n \in Int, NEW N \in Nat, N > 0
  PROVE  /\ n \div N \in Int
         /\ n % N \in 0 .. (N - 1)
         /\ n = (n \div N) * N + (n % N)
OBVIOUS

(* Multiples of N are N apart.                                              *)
LEMMA Apart ==
  ASSUME NEW a \in Int, NEW b \in Int, NEW N \in Nat, N > 0, a < b
  PROVE  a * N + N <= b * N
<1>1. PICK c \in Nat : b = a + 1 + c
  BY b - a - 1 \in Nat
<1>2. b * N = a * N + N + c * N
  BY <1>1
<1>3. c * N \in Nat /\ a * N \in Int
  BY <1>1
<1> QED BY <1>2, <1>3

(* There is one quotient and one remainder.                                 *)
LEMMA DivModUnique ==
  ASSUME NEW n \in Int, NEW N \in Nat, N > 0, NEW q \in Int, NEW r \in 0 .. (N - 1),
         n = q * N + r
  PROVE  n \div N = q /\ n % N = r
<1> DEFINE d == n \div N
           m == n % N
<1>1. d \in Int /\ m \in 0 .. (N - 1) /\ n = d * N + m
  BY DivMod
<1> HIDE DEF d, m
<1>2. d * N \in Int /\ q * N \in Int
  BY <1>1
<1>3. ~(d < q)
  BY <1>1, <1>2, Apart
<1>4. ~(q < d)
  BY <1>1, <1>2, Apart
<1>5. d = q
  BY <1>1, <1>3, <1>4
<1>6. m = r
  BY <1>1, <1>2, <1>5
<1> QED BY <1>5, <1>6 DEF d, m

(* A remainder is its own remainder.                                        *)
LEMMA ModSame ==
  ASSUME NEW N \in Nat, N > 0, NEW n \in 0 .. (N - 1)
  PROVE  n % N = n
<1>1. n \in Int /\ n = 0 * N + n
  OBVIOUS
<1> QED BY <1>1, DivModUnique

(* Two's complement: a number of either sign modulo N = 2 * H.              *)
LEMMA TwosComplement ==
  ASSUME NEW H \in Nat, H > 0, NEW N \in Nat, N = 2 * H, NEW n \in -H .. (H - 1)
  PROVE  n % N = IF n < 0 THEN n + N ELSE n
<1>1. CASE n < 0
  <2>1. n + N \in 0 .. (N - 1) /\ n = (-1) * N + (n + N) /\ -1 \in Int /\ n \in Int
    BY <1>1
  <2> QED BY <1>1, <2>1, DivModUnique
<1>2. CASE n >= 0
  BY <1>2, ModSame
<1> QED BY <1>1, <1>2

-----------------------------------------------------------------------------
(***************************************************************************)
(* Timestamps                                                              *)
(***************************************************************************)
(* The sizes of the words and layouts.                                      *)
LEMMA Sizes ==
  /\ Word \in Nat /\ Word > 0 /\ NsPerSec \in Nat /\ NsPerSec > 0
  /\ Shift34 \in Nat /\ Shift34 > 0 /\ Shift34 = 4 * Word
  /\ Word64 \in Nat /\ Word64 > 0 /\ Word64 = Word * Word
  /\ Word64 \div 2 \in Nat /\ Word64 \div 2 > 0 /\ Word64 = 2 * (Word64 \div 2)
  /\ NsPerSec * Shift34 <= Word64
<1> DEFINE q == Word \div 4
<1>1. q \in Nat /\ Word = 4 * q /\ q > 0 /\ NsPerSec <= q
  <2>1. Word \div 4 \in Nat /\ Word = 4 * (Word \div 4)
    BY TimeAssumption
  <2>2. NsPerSec \in Nat /\ 1 < NsPerSec /\ NsPerSec <= Word \div 4
    BY TimeAssumption
  <2> QED BY <2>1, <2>2
<1> HIDE DEF q
<1>2. Word \in Nat /\ Word > 0 /\ NsPerSec \in Nat /\ NsPerSec > 0
  BY TimeAssumption
<1>3. Shift34 \in Nat /\ Shift34 > 0 /\ Shift34 = 4 * Word
  BY <1>2 DEF Shift34
<1>4. q * Word \in Nat /\ q * Word > 0
  BY <1>1, <1>2
<1>5. Word64 = 4 * (q * Word)
  BY <1>1, <1>2 DEF Word64
<1>6. Word64 \in Nat /\ Word64 > 0 /\ Word64 = Word * Word
  BY <1>4, <1>5 DEF Word64
<1>7. Word64 \div 2 \in Nat /\ Word64 \div 2 > 0 /\ Word64 = 2 * (Word64 \div 2)
  BY <1>4, <1>5
<1>8. NsPerSec * Shift34 <= q * Shift34
  <2>1. CASE NsPerSec = q
    BY <1>1, <1>2, <1>3, <2>1
  <2>2. CASE NsPerSec < q
    <3>1. NsPerSec * Shift34 + Shift34 <= q * Shift34
      BY <1>1, <1>2, <1>3, <2>2, Apart
    <3>2. NsPerSec * Shift34 \in Int /\ q * Shift34 \in Int
      BY <1>1, <1>2, <1>3
    <3> QED BY <1>3, <3>1, <3>2
  <2> QED BY <1>1, <1>2, <2>1, <2>2
<1>9. q * Shift34 = 4 * (q * Word)
  BY <1>1, <1>2, <1>3
<1> QED BY <1>2, <1>3, <1>5, <1>6, <1>7, <1>8, <1>9

-----------------------------------------------------------------------------
(***************************************************************************)
(* Conversions between int64 and uint64                                    *)
(***************************************************************************)
LEMMA Int64Type == Int64 \subseteq Int /\ 0 \in Int64
BY Sizes DEF Int64

(* int64(n) is an int64.                                                    *)
LEMMA toInt64Type ==
  ASSUME NEW n \in Int
  PROVE  toInt64(n) \in Int64
<1>1. n % Word64 \in 0 .. (Word64 - 1)
  BY Sizes, DivMod
<1> QED BY <1>1, Sizes DEF toInt64, Int64

(* An int64 survives, and so does one that went through uint64.             *)
LEMMA toInt64Same ==
  ASSUME NEW n \in Int64
  PROVE  toInt64(n) = n /\ toInt64(n % Word64) = n
<1> DEFINE H == Word64 \div 2
           u == n % Word64
<1>1. H \in Nat /\ H > 0 /\ Word64 = 2 * H /\ Word64 \in Nat /\ Word64 > 0
  BY Sizes
<1>2. n \in Int /\ -H <= n /\ n < H
  BY <1>1 DEF Int64
<1>3. u = IF n < 0 THEN n + Word64 ELSE n
  <2> HIDE DEF H
  <2> QED BY <1>1, <1>2, TwosComplement
<1>4. u \in 0 .. (Word64 - 1)
  BY <1>1, <1>2, DivMod
<1>5. u % Word64 = u
  <2> HIDE DEF u
  <2> QED BY <1>1, <1>4, ModSame
<1>6. (IF u >= H THEN u - Word64 ELSE u) = n
  BY <1>1, <1>2, <1>3
<1>7. toInt64(n) = IF u >= H THEN u - Word64 ELSE u
  BY DEF toInt64
<1>8. toInt64(u) = IF u >= H THEN u - Word64 ELSE u
  BY <1>5 DEF toInt64
<1> QED BY <1>6, <1>7, <1>8

-----------------------------------------------------------------------------
(***************************************************************************)
(* time.Unix and the layouts                                               *)
(***************************************************************************)
(* time.Unix normalises.                                                    *)
LEMMA UnixType ==
  ASSUME NEW sec \in Int, NEW nsec \in Int
  PROVE  Unix(sec, nsec) \in Instants
<1>1. nsec \div NsPerSec \in Int /\ nsec % NsPerSec \in 0 .. (NsPerSec - 1)
  BY Sizes, DivMod
<1>2. toInt64(sec + nsec \div NsPerSec) \in Int64
  BY <1>1, toInt64Type
<1> QED BY <1>1, <1>2 DEF Unix, Instant, Instants

(* Nanoseconds within a second are kept.                                    *)
LEMMA UnixWithin ==
  ASSUME NEW sec \in Int, NEW nsec \in 0 .. (NsPerSec - 1)
  PROVE  Unix(sec, nsec) = Instant(toInt64(sec), nsec)
<1>1. nsec \in Int /\ nsec = 0 * NsPerSec + nsec
  BY Sizes
<1>2. nsec \div NsPerSec = 0 /\ nsec % NsPerSec = nsec
  BY <1>1, Sizes, DivModUnique
<1> QED BY <1>2 DEF Unix

(* The seconds as uint64, from which the int64 can be had back.             *)
LEMMA SecsType ==
  ASSUME NEW t \in Instants
  PROVE  /\ t.sec \in Int64 /\ t.nsec \in 0 .. (NsPerSec - 1)
         /\ Secs(t) \in 0 .. (Word64 - 1) /\ toInt64(Secs(t)) = t.sec
         /\ Instant(t.sec, t.nsec) = t
<1>1. t.sec \in Int64 /\ t.nsec \in 0 .. (NsPerSec - 1)
  BY DEF Instants
<1>2. Secs(t) \in 0 .. (Word64 - 1)
  BY <1>1, Int64Type, Sizes, DivMod DEF Secs
<1>3. toInt64(Secs(t)) = t.sec
  BY <1>1, toInt64Same DEF Secs
<1>4. Instant(t.sec, t.nsec) = t
  BY DEF Instants, Instant
<1> QED BY <1>1, <1>2, <1>3, <1>4

(* A time with seconds below 2^34 is data = nsec << 34 | secs, from which   *)
(* both can be had back; it fits in 64 bits.                                *)
LEMMA DataFields ==
  ASSUME NEW t \in Instants, Secs(t) \div Shift34 = 0
  PROVE  /\ Data(t) \in 0 .. (Word64 - 1)
         /\ Data(t) \div Shift34 = t.nsec /\ Data(t) % Shift34 = Secs(t)
<1> DEFINE S == Secs(t)
           n == t.nsec
<1>1. S \in Nat /\ n \in Nat /\ n < NsPerSec
  BY SecsType, Sizes
<1>2. S \in 0 .. (Shift34 - 1)
  <2>1. S = (S \div Shift34) * Shift34 + (S % Shift34) /\ S % Shift34 \in 0 .. (Shift34 - 1)
    <3> HIDE DEF S
    <3> QED BY <1>1, Sizes, DivMod
  <2>2. S \div Shift34 = 0
    OBVIOUS
  <2> HIDE DEF S
  <2> QED BY <1>1, <2>1, <2>2, Sizes
<1>3. Data(t) = n * Shift34 + S
  BY DEF Data
<1> HIDE DEF S, n
<1>4. n * Shift34 \in Nat
  BY <1>1, Sizes
<1>5. n * Shift34 + Shift34 <= NsPerSec * Shift34
  BY <1>1, Sizes, Apart
<1>6. NsPerSec * Shift34 \in Int
  BY Sizes
<1>7. Data(t) \in 0 .. (Word64 - 1)
  BY <1>2, <1>3, <1>4, <1>5, <1>6, Sizes
<1>8. Data(t) \div Shift34 = n /\ Data(t) % Shift34 = S
  BY <1>1, <1>2, <1>3, <1>7, Sizes, DivModUnique
<1> QED BY <1>7, <1>8 DEF S, n

(* The two halves of 64 bits.                                               *)
LEMMA Halves ==
  ASSUME NEW d \in 0 .. (Word64 - 1)
  PROVE  /\ d \div Word \in 0 .. (Word - 1) /\ d % Word \in 0 .. (Word - 1)
         /\ (d \div Word) * Word + (d % Word) = d
<1> DEFINE q == d \div Word
           r == d % Word
<1>1. q \in Int /\ r \in 0 .. (Word - 1) /\ d = q * Word + r /\ d \in Int
  BY Sizes, DivMod
<1> HIDE DEF q, r
<1>2. q * Word \in Int /\ Word * Word = Word64 /\ (-1) * Word = -Word
  BY <1>1, Sizes
<1>3. ~(q < 0)
  <2>1. q < 0 => q * Word + Word <= 0 * Word
    BY <1>1, Sizes, Apart
  <2>2. 0 * Word = 0
    BY Sizes
  <2> QED BY <1>1, <1>2, <2>1, <2>2, Sizes
<1>4. ~(Word <= q)
  <2>1. Word < q => Word * Word + Word <= q * Word
    BY <1>1, Sizes, Apart
  <2>2. Word = q => Word * Word = q * Word
    OBVIOUS
  <2> QED BY <1>1, <1>2, <2>1, <2>2, Sizes
<1>5. q \in 0 .. (Word - 1)
  BY <1>1, <1>3, <1>4, Sizes
<1> QED BY <1>1, <1>5 DEF q, r

-----------------------------------------------------------------------------
(***************************************************************************)
(* What encodeTime writes, decodeTime reads                                *)
(***************************************************************************)
Expected(t) == Ok(t, IF IsZero(t) THEN "UTC" ELSE "Local")

(* There are three layouts.                                                 *)
LEMMA LayoutType == \A t : Layout(t) \in {1, 2, 3}
BY DEF Layout

(* The words of timeBuf, also when encodeTime has just made it.             *)
LEMMA bufType ==
  ASSUME timeBuf \in {<<>>} \cup [1 .. 3 -> 0 .. (Word - 1)]
  PROVE  buf[1] \in 0 .. (Word - 1) /\ buf[2] \in 0 .. (Word - 1) /\ buf[3] \in 0 .. (Word - 1)
<1>1. CASE timeBuf = <<>>
  BY <1>1, Sizes DEF buf
<1>2. CASE timeBuf # <<>>
  BY <1>2 DEF buf
<1> QED BY <1>1, <1>2

(* Three words, and the first n of them.                                    *)
LEMMA Triple ==
  ASSUME NEW S, NEW a \in S, NEW b \in S, NEW c \in S, NEW n \in 1 .. 3
  PROVE  /\ <<a, b, c>> \in [1 .. 3 -> S]
         /\ SubSeq(<<a, b, c>>, 1, n) \in Seq(S) /\ Len(SubSeq(<<a, b, c>>, 1, n)) = n
         /\ SubSeq(<<a, b, c>>, 1, n)[1] = a
         /\ n > 1 => SubSeq(<<a, b, c>>, 1, n)[2] = b
         /\ n > 2 => SubSeq(<<a, b, c>>, 1, n)[3] = c
<1> DEFINE s == <<a, b, c>>
<1>1. s \in [1 .. 3 -> S] /\ s \in Seq(S) /\ Len(s) = 3
  OBVIOUS
<1>2. s[1] = a /\ s[2] = b /\ s[3] = c
  OBVIOUS
<1> HIDE DEF s
<1>3. n \in Nat /\ n \in 1 - 1 .. Len(s)
  BY <1>1
<1>4. /\ SubSeq(s, 1, n) \in Seq(S) /\ Len(SubSeq(s, 1, n)) = n
      /\ \A i \in 1 .. n : SubSeq(s, 1, n)[i] = s[i]
  BY <1>1, <1>3
<1>5. 1 \in 1 .. n /\ (n > 1 => 2 \in 1 .. n) /\ (n > 2 => 3 \in 1 .. n)
  OBVIOUS
<1>6. /\ SubSeq(s, 1, n)[1] = a
      /\ n > 1 => SubSeq(s, 1, n)[2] = b
      /\ n > 2 => SubSeq(s, 1, n)[3] = c
  BY <1>2, <1>4, <1>5
<1> QED BY <1>1, <1>4, <1>6 DEF s

(* Whatever timeBuf holds, the words that encodeTime returns are words, as  *)
(* many as the layout has, and mean the time.                               *)
LEMMA Written ==
  ASSUME timeBuf \in {<<>>} \cup [1 .. 3 -> 0 .. (Word - 1)], NEW t \in Instants
  PROVE  /\ encodeTime(t) \in [1 .. 3 -> 0 .. (Word - 1)]
         /\ SubSeq(encodeTime(t), 1, Layout(t)) \in Seq(0 .. (Word - 1))
         /\ decodeTime(SubSeq(encodeTime(t), 1, Layout(t))) = Expected(t)
<1> DEFINE W == 0 .. (Word - 1)
           w == SubSeq(encodeTime(t), 1, Layout(t))
<1>1. buf[1] \in W /\ buf[2] \in W /\ buf[3] \in W
  BY bufType
<1>2. /\ t.sec \in Int64 /\ t.nsec \in 0 .. (NsPerSec - 1)
      /\ Secs(t) \in 0 .. (Word64 - 1) /\ toInt64(Secs(t)) = t.sec
      /\ Instant(t.sec, t.nsec) = t
  BY SecsType
<1>3. SUFFICES /\ encodeTime(t) \in [1 .. 3 -> W]
               /\ w \in Seq(W) /\ Len(w) \in 1 .. 3 /\ decodeWords(w) = t
  BY DEF decodeTime, Expected
<1>4. CASE Layout(t) = 1
  <2>1. Secs(t) \div Shift34 = 0 /\ Data(t) \div Word = 0
    BY <1>4 DEF Layout
  <2>2. /\ Data(t) \in 0 .. (Word64 - 1)
        /\ Data(t) \div Shift34 = t.nsec /\ Data(t) % Shift34 = Secs(t)
    BY <2>1, DataFields
  <2>3. Data(t) \in W
    <3>1. Data(t) % Word \in W /\ 0 * Word + (Data(t) % Word) = Data(t)
      BY <2>1, <2>2, Halves
    <3> QED BY <3>1, Sizes
  <2>4. t.nsec = 0 /\ Data(t) = Secs(t)
    <3>1. Data(t) \in 0 .. (Shift34 - 1) /\ Data(t) = 0 * Shift34 + Data(t)
      BY <2>3, Sizes
    <3>2. Data(t) \div Shift34 = 0 /\ Data(t) % Shift34 = Data(t)
      BY <3>1, Sizes, DivModUnique
    <3> QED BY <2>2, <3>2
  <2>5. encodeTime(t) = <<Data(t), buf[2], buf[3]>>
    BY <1>4 DEF encodeTime
  <2>6. encodeTime(t) \in [1 .. 3 -> W] /\ w \in Seq(W) /\ Len(w) = 1 /\ w[1] = Secs(t)
    BY <1>1, <1>4, <2>3, <2>4, <2>5, Triple
  <2> HIDE DEF w
  <2>7. decodeWords(w) = Unix(Secs(t), 0)
    BY <2>6 DEF decodeWords
  <2>8. Unix(Secs(t), 0) = Instant(toInt64(Secs(t)), 0)
    BY <1>2, <2>4, UnixWithin
  <2> QED BY <1>2, <2>3, <2>4, <2>6, <2>7, <2>8
<1>5. CASE Layout(t) = 2
  <2>1. Secs(t) \div Shift34 = 0
    BY <1>5 DEF Layout
  <2>2. /\ Data(t) \in 0 .. (Word64 - 1)
        /\ Data(t) \div Shift34 = t.nsec /\ Data(t) % Shift34 = Secs(t)
    BY <2>1, DataFields
  <2>3. /\ Data(t) \div Word \in W /\ Data(t) % Word \in W
        /\ (Data(t) \div Word) * Word + (Data(t) % Word) = Data(t)
    BY <2>2, Halves
  <2>4. encodeTime(t) = <<Data(t) \div Word, Data(t) % Word, buf[3]>>
    BY <1>5 DEF encodeTime
  <2>5. /\ encodeTime(t) \in [1 .. 3 -> W] /\ w \in Seq(W) /\ Len(w) = 2
        /\ w[1] = Data(t) \div Word /\ w[2] = Data(t) % Word
    BY <1>1, <1>5, <2>3, <2>4, Triple
  <2> HIDE DEF w
  <2>6. decodeWords(w) = Unix((w[1] * Word + w[2]) % Shift34, (w[1] * Word + w[2]) \div Shift34)
    BY <2>5 DEF decodeWords
  <2>7. decodeWords(w) = Unix(Secs(t), t.nsec)
    BY <2>2, <2>3, <2>5, <2>6
  <2>8. Unix(Secs(t), t.nsec) = Instant(toInt64(Secs(t)), t.nsec)
    BY <1>2, UnixWithin
  <2> QED BY <1>2, <2>3, <2>5, <2>7, <2>8
<1>6. CASE Layout(t) = 3
  <2>1. /\ Secs(t) \div Word \in W /\ Secs(t) % Word \in W
        /\ (Secs(t) \div Word) * Word + (Secs(t) % Word) = Secs(t)
    BY <1>2, Halves
  <2>2. t.nsec \in W
    <3>1. NsPerSec <= Word
      BY TimeAssumption
    <3> QED BY <1>2, <3>1, Sizes
  <2>3. encodeTime(t) = <<t.nsec, Secs(t) \div Word, Secs(t) % Word>>
    BY <1>6 DEF encodeTime
  <2>4. /\ encodeTime(t) \in [1 .. 3 -> W] /\ w \in Seq(W) /\ Len(w) = 3
        /\ w[1] = t.nsec /\ w[2] = Secs(t) \div Word /\ w[3] = Secs(t) % Word
    BY <1>6, <2>1, <2>2, <2>3, Triple
  <2> HIDE DEF w
  <2>5. decodeWords(w) = Unix(toInt64(w[2] * Word + w[3]), w[1])
    BY <2>4 DEF decodeWords
  <2>6. decodeWords(w) = Unix(t.sec, t.nsec)
    BY <1>2, <2>1, <2>4, <2>5
  <2>7. Unix(t.sec, t.nsec) = Instant(toInt64(t.sec), t.nsec)
    BY <1>2, Int64Type, UnixWithin
  <2>8. toInt64(t.sec) = t.sec
    BY <1>2, toInt64Same
  <2> QED BY <1>2, <2>1, <2>2, <2>4, <2>6, <2>7, <2>8
<1> QED BY <1>4, <1>5, <1>6, LayoutType

-----------------------------------------------------------------------------
(***************************************************************************)
(* Types                                                                   *)
(***************************************************************************)
Results == [ok : BOOLEAN, t : Instants, loc : {"UTC", "Local", "Parsed"}]

(* A time is a result.                                                      *)
LEMMA OkType ==
  ASSUME NEW t \in Instants, NEW loc \in {"UTC", "Local", "Parsed"}
  PROVE  Ok(t, loc) \in Results
BY DEF Ok, Results

(* An error is a result.                                                    *)
LEMMA ErrType == Err \in Results
<1>1. Instant(0, 0) \in Instants
  BY Int64Type, Sizes DEF Instant, Instants
<1> QED BY <1>1 DEF Err, Results

(* decodeTime gives a normalised time or an error for any words.            *)
LEMMA decodeTimeType ==
  ASSUME NEW w \in Seq(0 .. (Word - 1))
  PROVE  decodeTime(w) \in Results
<1>0. \A k \in 1 .. Len(w) : w[k] \in Int
  <2>1. \A k \in 1 .. Len(w) : w[k] \in 0 .. (Word - 1)
    BY ElementOfSeq
  <2> QED BY <2>1
<1>1. CASE Len(w) \notin 1 .. 3
  BY <1>1, ErrType DEF decodeTime
<1>2. CASE Len(w) \in 1 .. 3
  <2>1. decodeWords(w) \in Instants
    <3>1. CASE Len(w) = 1
      <4>1. w[1] \in Int
        BY <1>0, <3>1
      <4>2. decodeWords(w) = Unix(w[1], 0)
        BY <3>1 DEF decodeWords
      <4> QED BY <4>1, <4>2, UnixType
    <3>2. CASE Len(w) = 2
      <4>1. w[1] \in Int /\ w[2] \in Int
        BY <1>0, <3>2
      <4> DEFINE d == w[1] * Word + w[2]
      <4>2. decodeWords(w) = Unix(d % Shift34, d \div Shift34)
        BY <3>2 DEF decodeWords
      <4>3. d \in Int
        BY <4>1, Sizes
      <4> HIDE DEF d
      <4>4. d % Shift34 \in Int /\ d \div Shift34 \in Int
        BY <4>3, Sizes, DivMod
      <4> QED BY <4>2, <4>4, UnixType
    <3>3. CASE Len(w) = 3
      <4>1. w[1] \in Int /\ w[2] \in Int /\ w[3] \in Int
        BY <1>0, <3>3
      <4>2. decodeWords(w) = Unix(toInt64(w[2] * Word + w[3]), w[1])
        BY <3>3 DEF decodeWords
      <4>3. w[2] * Word + w[3] \in Int
        BY <4>1, Sizes
      <4>4. toInt64(w[2] * Word + w[3]) \in Int
        BY <4>3, toInt64Type, Int64Type
      <4> QED BY <4>1, <4>2, <4>4, UnixType
    <3> QED BY <1>2, <3>1, <3>2, <3>3
  <2> QED BY <1>2, <2>1, OkType DEF decodeTime
<1> QED BY <1>1, <1>2

(* Both ways of reading an item give a normalised time or an error.         *)
LEMMA ReadType ==
  ASSUME NEW i \in Items
  PROVE  DecodeTime(i) \in Results /\ timeDecoder(i) \in Results
<1>1. CASE i.form = "legacy"
  <2>1. i.sec \in Int64 /\ i.nsec \in Int64
    BY <1>1 DEF Items
  <2>2. Unix(i.sec, i.nsec) \in Instants
    BY <2>1, Int64Type, UnixType
  <2>3. DecodeTime(i) = Ok(Unix(i.sec, i.nsec), "Local")
    BY <1>1 DEF DecodeTime
  <2> QED BY <1>1, <2>2, <2>3, OkType, ErrType DEF timeDecoder
<1>2. CASE i.form = "string"
  <2>1. Instant(i.sec, i.nsec) \in Instants
    BY <1>2 DEF Items, Instant, Instants
  <2>2. DecodeTime(i) = IF i.valid THEN Ok(Instant(i.sec, i.nsec), "Parsed") ELSE Err
    BY <1>2 DEF DecodeTime
  <2> QED BY <1>2, <2>1, <2>2, OkType, ErrType DEF timeDecoder
<1>3. CASE i.form = "ext"
  <2>1. i.words \in Seq(0 .. (Word - 1))
    BY <1>3 DEF Items
  <2>2. DecodeTime(i) = IF i.id \in {-1, 13} THEN decodeTime(i.words) ELSE Err
    BY <1>3 DEF DecodeTime
  <2> QED BY <2>1, <2>2, decodeTimeType, ErrType DEF timeDecoder
<1> QED BY <1>1, <1>2, <1>3 DEF Items

(* What an item that EncodeTime wrote gives, read in either way.            *)
LEMMA OwnItem ==
  ASSUME NEW w \in Seq(0 .. (Word - 1))
  PROVE  /\ Ext(-1, w) \in Items
         /\ DecodeTime(Ext(-1, w)) = decodeTime(w) /\ timeDecoder(Ext(-1, w)) = decodeTime(w)
<1> DEFINE e == Ext(-1, w)
<1>1. e.form = "ext" /\ e.id = -1 /\ e.words = w
  BY DEF Ext
<1>2. e \in Items
  BY DEF Ext, Items
<1> HIDE DEF e
<1>3. DecodeTime(e) = IF e.id \in {-1, 13} THEN decodeTime(e.words) ELSE Err
  BY <1>1 DEF DecodeTime
<1> QED BY <1>1, <1>2, <1>3 DEF timeDecoder, e

-----------------------------------------------------------------------------
(***************************************************************************)
(* The invariant                                                           *)
(***************************************************************************)
(* Each item that EncodeTime wrote and that is still to be read gives its   *)
(* time, in both ways of reading it.                                        *)
Pending ==
  \A k \in 1 .. Len(stream) :
    sent[Len(got) + k] # <<>> =>
      /\ DecodeTime(stream[k]) = Expected(sent[Len(got) + k][1])
      /\ timeDecoder(stream[k]) = Expected(sent[Len(got) + k][1])

(* The inductive invariant.                                                 *)
IInv == TypeOK /\ Pending /\ TimeRoundTrip

(* An item is added behind the others.                                      *)
LEMMA Added ==
  ASSUME IInv, NEW i \in Items, NEW s \in {<<>>} \cup {<<t>> : t \in Times},
         s # <<>> => DecodeTime(i) = Expected(s[1]) /\ timeDecoder(i) = Expected(s[1]),
         timeBuf' \in {<<>>} \cup [1 .. 3 -> 0 .. (Word - 1)],
         stream' = Append(stream, i), sent' = Append(sent, s), got' = got
  PROVE  IInv'
<1>1. /\ stream' \in Seq(Items) /\ Len(stream') = Len(stream) + 1
      /\ \A k \in 1 .. Len(stream) : stream'[k] = stream[k]
      /\ stream'[Len(stream) + 1] = i
  BY AppendProperties DEF IInv, TypeOK
<1>2. /\ sent' \in Seq({<<>>} \cup {<<t>> : t \in Times}) /\ Len(sent') = Len(sent) + 1
      /\ \A k \in 1 .. Len(sent) : sent'[k] = sent[k]
      /\ sent'[Len(sent) + 1] = s
  <2> DEFINE Q == {<<>>} \cup {<<t>> : t \in Times}
  <2>1. sent \in Seq(Q) /\ s \in Q
    BY DEF IInv, TypeOK
  <2> HIDE DEF Q
  <2>2. /\ sent' \in Seq(Q) /\ Len(sent') = Len(sent) + 1
        /\ \A k \in 1 .. Len(sent) : sent'[k] = sent[k]
        /\ sent'[Len(sent) + 1] = s
    BY <2>1, AppendProperties
  <2> QED BY <2>2 DEF Q
<1>3. Len(got) \in Nat /\ Len(stream) \in Nat /\ Len(sent) = Len(got) + Len(stream)
  BY DEF IInv, TypeOK
<1>4. TypeOK'
  BY <1>1, <1>2, <1>3 DEF IInv, TypeOK
<1>5. Pending'
  <2> SUFFICES ASSUME NEW k \in 1 .. Len(stream'), sent'[Len(got) + k] # <<>>
               PROVE  /\ DecodeTime(stream'[k]) = Expected(sent'[Len(got) + k][1])
                      /\ timeDecoder(stream'[k]) = Expected(sent'[Len(got) + k][1])
    BY DEF Pending
  <2>1. CASE k = Len(stream) + 1
    <3>1. Len(got) + k = Len(sent) + 1
      BY <1>3, <2>1
    <3> QED BY <1>1, <1>2, <2>1, <3>1
  <2>2. CASE k # Len(stream) + 1
    <3>1. k \in 1 .. Len(stream) /\ Len(got) + k \in 1 .. Len(sent)
      BY <1>1, <1>3, <2>2
    <3> QED BY <1>1, <1>2, <3>1 DEF IInv, Pending
  <2> QED BY <2>1, <2>2
<1>6. TimeRoundTrip'
  <2>1. \A k \in 1 .. Len(got) : k \in 1 .. Len(sent)
    BY <1>3
  <2> QED BY <1>2, <2>1 DEF IInv, TimeRoundTrip
<1> QED BY <1>4, <1>5, <1>6 DEF IInv

(* The first item is read, in one of the two ways.                          *)
LEMMA Taken ==
  ASSUME IInv, NEW r \in Results, Read(r),
         r \in {DecodeTime(Head(stream)), timeDecoder(Head(stream))}
  PROVE  IInv'
<1>1. /\ stream # <<>> /\ stream' = Tail(stream) /\ got' = Append(got, r)
      /\ timeBuf' = timeBuf /\ sent' = sent
  BY DEF Read
<1>2. Len(got) \in Nat /\ Len(stream) \in Nat \ {0} /\ Len(sent) = Len(got) + Len(stream)
  BY <1>1, EmptySeq DEF IInv, TypeOK
<1>3. /\ stream' \in Seq(Items) /\ Len(stream') = Len(stream) - 1
      /\ \A k \in 1 .. Len(stream') : stream'[k] = stream[k + 1]
      /\ Head(stream) = stream[1]
  BY <1>1, HeadTailProperties DEF IInv, TypeOK
<1>4. /\ got' \in Seq(Results) /\ Len(got') = Len(got) + 1
      /\ \A k \in 1 .. Len(got) : got'[k] = got[k]
      /\ got'[Len(got) + 1] = r
  BY <1>1, AppendProperties DEF IInv, TypeOK, Results
<1>5. TypeOK'
  <2>1. Len(sent') = Len(got') + Len(stream')
    BY <1>1, <1>2, <1>3, <1>4
  <2>2. timeBuf' \in {<<>>} \cup [1 .. 3 -> 0 .. (Word - 1)]
    BY <1>1 DEF IInv, TypeOK
  <2>3. sent' \in Seq({<<>>} \cup {<<t>> : t \in Times})
    BY <1>1 DEF IInv, TypeOK
  <2> QED BY <1>3, <1>4, <2>1, <2>2, <2>3 DEF TypeOK, Results
<1>6. Pending'
  <2> SUFFICES ASSUME NEW k \in 1 .. Len(stream'), sent[Len(got') + k] # <<>>
               PROVE  /\ DecodeTime(stream'[k]) = Expected(sent[Len(got') + k][1])
                      /\ timeDecoder(stream'[k]) = Expected(sent[Len(got') + k][1])
    BY <1>1 DEF Pending
  <2>1. k + 1 \in 1 .. Len(stream) /\ Len(got') + k = Len(got) + (k + 1)
    BY <1>2, <1>3, <1>4
  <2> QED BY <1>3, <2>1 DEF IInv, Pending
<1>7. TimeRoundTrip'
  <2> SUFFICES ASSUME NEW k \in 1 .. Len(got'), sent[k] # <<>>
               PROVE  got'[k] = Expected(sent[k][1])
    BY <1>1 DEF TimeRoundTrip, Expected
  <2>1. CASE k = Len(got) + 1
    <3>1. 1 \in 1 .. Len(stream)
      BY <1>2
    <3>2. r = Expected(sent[Len(got) + 1][1])
      BY <1>3, <2>1, <3>1 DEF IInv, Pending
    <3> QED BY <1>4, <2>1, <3>2
  <2>2. CASE k # Len(got) + 1
    <3>1. k \in 1 .. Len(got)
      BY <1>2, <1>4, <2>2
    <3> QED BY <1>4, <3>1 DEF IInv, TimeRoundTrip, Expected
  <2> QED BY <2>1, <2>2
<1> QED BY <1>5, <1>6, <1>7 DEF IInv

(* The invariant holds in every reachable state.                            *)
THEOREM Invariant == Spec => []IInv
<1>1. Init => IInv
  <2> SUFFICES ASSUME Init PROVE IInv
    OBVIOUS
  <2>1. timeBuf = <<>> /\ stream = <<>> /\ sent = <<>> /\ got = <<>>
    BY DEF Init
  <2>2. TypeOK
    BY <2>1 DEF TypeOK
  <2> QED BY <2>1, <2>2 DEF IInv, Pending, TimeRoundTrip
<1>2. IInv /\ [Next]_vars => IInv'
  <2> SUFFICES ASSUME IInv, [Next]_vars PROVE IInv'
    OBVIOUS
  <2>0. Times \subseteq Instants /\ Foreign \subseteq Items
    BY TimeAssumption
  <2>1. CASE \E t \in Times : EncodeTime(t)
    <3>1. PICK t \in Times : EncodeTime(t)
      BY <2>1
    <3> DEFINE w == SubSeq(encodeTime(t), 1, Layout(t))
    <3>2. /\ encodeTime(t) \in [1 .. 3 -> 0 .. (Word - 1)]
          /\ w \in Seq(0 .. (Word - 1)) /\ decodeTime(w) = Expected(t)
      BY <2>0, Written DEF IInv, TypeOK
    <3>3. /\ timeBuf' = encodeTime(t) /\ stream' = Append(stream, Ext(-1, w))
          /\ sent' = Append(sent, <<t>>) /\ got' = got
      BY <3>1 DEF EncodeTime
    <3> HIDE DEF w
    <3>4. /\ Ext(-1, w) \in Items
          /\ DecodeTime(Ext(-1, w)) = Expected(t) /\ timeDecoder(Ext(-1, w)) = Expected(t)
      BY <3>2, OwnItem
    <3>5. <<t>> \in {<<>>} \cup {<<x>> : x \in Times} /\ <<t>>[1] = t
      OBVIOUS
    <3> QED BY <3>2, <3>3, <3>4, <3>5, Added
  <2>2. CASE \E i \in Foreign : Produce(i)
    <3>1. PICK i \in Foreign : Produce(i)
      BY <2>2
    <3>2. /\ timeBuf' = timeBuf /\ stream' = Append(stream, i)
          /\ sent' = Append(sent, <<>>) /\ got' = got
      BY <3>1 DEF Produce
    <3> QED BY <2>0, <3>2, Added DEF IInv, TypeOK
  <2>3. CASE Read(DecodeTime(Head(stream)))
    <3>1. Head(stream) \in Items
      BY <2>3 DEF Read, IInv, TypeOK
    <3> QED BY <2>3, <3>1, ReadType, Taken
  <2>4. CASE Read(timeDecoder(Head(stream)))
    <3>1. Head(stream) \in Items
      BY <2>4 DEF Read, IInv, TypeOK
    <3> QED BY <2>4, <3>1, ReadType, Taken
  <2>5. CASE UNCHANGED vars
    BY <2>5 DEF vars, IInv, TypeOK, Pending, TimeRoundTrip
  <2> QED BY <2>1, <2>2, <2>3, <2>4, <2>5 DEF Next
<1> QED BY <1>1, <1>2, PTL DEF Spec

(* Every decoded time is normalised and every word is a word.               *)
THEOREM TypeCorrect == Spec => []TypeOK
<1>1. IInv => TypeOK
  BY DEF IInv
<1> QED BY <1>1, Invariant, PTL

(* Every time written by an Encoder comes back as the same instant,         *)
(* whatever went through timeBuf before it, for words and seconds of any    *)
(* size: the three layouts share no time and lose none.                     *)
THEOREM TimesComeBack == Spec => []TimeRoundTrip
<1>1. IInv => TimeRoundTrip
  BY DEF IInv
<1> QED BY <1>1, Invariant, PTL
=============================================================================
