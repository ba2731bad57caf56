------------------------- MODULE StreamDecoderProofs -------------------------
(***************************************************************************)
(* For every set of inputs, every configuration and every limit: the       *)
(* decoder's state stays typed, the depth counter counts the guarded       *)
(* frames, recording ends with the call that began it, what is recorded    *)
(* is what was consumed, and no frame reserves more than it may.           *)
(***************************************************************************)
EXTENDS StreamDecoder, SequenceTheorems, TLAPS

(* What every read from p obeys: it ends in the input, the recorded part of *)
(* it is a prefix, and a successful read is recorded whole.                 *)
GoodRead(r, p) ==
  /\ r \in [ok : BOOLEAN, pos : Nat, seen : Nat, n : Nat]
  /\ p <= r.seen /\ r.seen <= r.pos /\ r.pos <= Len(input)
  /\ r.ok => r.seen = r.pos

Here == 0 .. Len(input)

(* The input is a finite sequence of bytes.                                 *)
LEMMA InputType ==
  ASSUME TypeOK PROVE input \in Seq(Byte) /\ Len(input) \in Nat
BY StreamAssumption DEF TypeOK

(* A read that succeeds at or after where it began is good.                 *)
LEMMA OkGood ==
  ASSUME TypeOK, NEW p \in Here, NEW q \in Here, p <= q, NEW n \in Nat
  PROVE  GoodRead(Ok(q, n), p)
BY InputType DEF Ok, GoodRead, Here

(* So is one that fails after having seen less than it took off the stream. *)
LEMMA ErrGood ==
  ASSUME TypeOK, NEW p \in Here, NEW q \in Here, NEW s \in Here, p <= s, s <= q
  PROVE  GoodRead(Err(q, s), p)
BY InputType DEF Err, GoodRead, Here

(* And one that fails at the position it had reached.                       *)
LEMMA ErrHere ==
  ASSUME TypeOK, NEW p \in Here, NEW q \in Here, p <= q
  PROVE  GoodRead(Err(q, q), p)
BY InputType DEF Err, GoodRead, Here

(* readN, complete or short, is good, and leads to no loop.                 *)
LEMMA readNGood ==
  ASSUME TypeOK, NEW p \in Here, NEW k \in Nat
  PROVE  /\ GoodRead(readN(p, k), p)
         /\ readN(p, k).n = 0
         /\ readN(p, k).ok => readN(p, k).pos = p + k /\ k <= remaining(p)
<1>1. CASE k <= remaining(p)
  BY <1>1, InputType DEF readN, remaining, GoodRead, Here, Ok
<1>2. CASE ~(k <= remaining(p))
  BY <1>2, InputType DEF readN, remaining, GoodRead, Here, Err
<1> QED BY <1>1, <1>2

(* A read that goes on where a good read stopped is good.                   *)
LEMMA Chain ==
  ASSUME TypeOK, NEW p \in Here, NEW l, GoodRead(l, p), NEW r, GoodRead(r, l.pos)
  PROVE  GoodRead(r, p)
BY InputType DEF GoodRead, Here

(* A length field has 0, 1, 2 or 4 bytes.                                   *)
LEMMA LenWidthType ==
  ASSUME NEW c \in Byte PROVE LenWidth(c) \in {0, 1, 2, 4} /\ CodeLen(c) \in Nat
BY DEF LenWidth, CodeLen, Byte, IsFixedMap, IsFixedArray, IsFixedString, Bins, Exts, FixExts,
   Strs, Array16, Array32, Map16, Map32

(* The number in bytes that are there is a natural number.                  *)
LEMMA BigEndianType ==
  ASSUME TypeOK, NEW p \in Here, NEW k \in {1, 2, 4}, k <= remaining(p)
  PROVE  BigEndian(p, k) \in Nat
<1>1. ASSUME NEW i \in 1 .. Len(input) PROVE input[i] \in Nat
  <2>1. input[i] \in Byte
    BY InputType
  <2>2. \A b \in Byte : b \in Nat
    BY DEF Byte
  <2> QED BY <2>1, <2>2
<1>2. ASSUME NEW i \in 1 .. k PROVE input[p + i] \in Nat
  <2>1. p + i \in 1 .. Len(input)
    BY InputType DEF Here, remaining
  <2> QED BY <1>1, <2>1
<1>3. CASE k = 1
  BY <1>2, <1>3 DEF BigEndian
<1>4. CASE k = 2
  <2>1. input[p + 1] \in Nat /\ input[p + 2] \in Nat
    BY <1>2, <1>4
  <2> QED BY <1>4, <2>1 DEF BigEndian
<1>5. CASE k = 4
  <2>1. /\ input[p + 1] \in Nat /\ input[p + 2] \in Nat
        /\ input[p + 3] \in Nat /\ input[p + 4] \in Nat
    BY <1>2, <1>5
  <2> QED BY <1>5, <2>1 DEF BigEndian
<1> QED BY <1>3, <1>4, <1>5

(* Reading a length field is good, whichever width it has.                  *)
LEMMA readLenGood ==
  ASSUME TypeOK, NEW p \in Here, NEW c \in Byte
  PROVE  GoodRead(readLen(c, p), p)
<1> DEFINE w == LenWidth(c)
           r == readN(p, w)
<1>1. CASE w = 0
  BY <1>1, OkGood, LenWidthType, InputType DEF readLen, Here
<1>2. CASE w > 0 /\ ~r.ok
  BY <1>2, readNGood, LenWidthType DEF readLen, lenField
<1>3. CASE w > 0 /\ r.ok
  <2>1. w \in {1, 2, 4}
    BY <1>3, LenWidthType
  <2>2. GoodRead(r, p) /\ w <= remaining(p)
    BY <1>3, <2>1, readNGood
  <2>3. r.pos \in Here /\ p <= r.pos
    BY <1>3, <2>2, InputType DEF GoodRead, Here
  <2>4. BigEndian(p, w) \in Nat
    BY <2>1, <2>2, BigEndianType
  <2>5. GoodRead(Ok(r.pos, BigEndian(p, w)), p)
    BY <2>3, <2>4, OkGood
  <2>6. GoodRead(Err(r.pos, r.pos), p)
    BY <2>3, ErrHere
  <2>7. CASE uint32Overflows(p, w)
    <3>1. readLen(c, p) = Err(r.pos, r.pos)
      BY <1>3, <2>1, <2>7 DEF readLen, lenField
    <3> QED BY <2>6, <3>1
  <2>8. CASE ~uint32Overflows(p, w)
    <3>1. readLen(c, p) = Ok(r.pos, BigEndian(p, w))
      BY <1>3, <2>1, <2>8 DEF readLen, lenField
    <3> QED BY <2>5, <3>1
  <2> QED BY <2>7, <2>8
<1> QED BY <1>1, <1>2, <1>3, LenWidthType

(* So is reading the length of a string or bin.                             *)
LEMMA bytesLenGood ==
  ASSUME TypeOK, NEW p \in Here, NEW c \in Byte
  PROVE  GoodRead(bytesLen(c, p), p)
<1> DEFINE r == readLen(c, p)
<1>1. GoodRead(r, p) /\ r.pos \in Here /\ p <= r.pos /\ p \in Here /\ p <= p
  BY readLenGood, InputType DEF GoodRead, Here
<1>2. GoodRead(Err(r.pos, r.pos), p) /\ GoodRead(Err(p, p), p) /\ GoodRead(Ok(p, 0), p)
  BY <1>1, ErrHere, OkGood
<1> QED BY <1>1, <1>2 DEF bytesLen, checkBytes

(* So is reading the length of an ext.                                      *)
LEMMA parseExtLenGood ==
  ASSUME TypeOK, NEW p \in Here, NEW c \in Byte
  PROVE  GoodRead(parseExtLen(c, p), p)
<1> DEFINE r == readLen(c, p)
<1>1. GoodRead(r, p) /\ r.pos \in Here /\ p <= r.pos
  BY readLenGood, InputType DEF GoodRead, Here
<1>2. GoodRead(Err(r.pos, r.pos), p)
  BY <1>1, ErrHere
<1> QED BY <1>1, <1>2 DEF parseExtLen, checkBytes

(* What the plausibility checks leave of a claimed length: with a reader    *)
(* that exposes its length, at most one element per byte of input.          *)
LEMMA arrayLenGood ==
  ASSUME TypeOK, NEW p \in Here, NEW c \in Byte
  PROVE  /\ GoodRead(arrayLen(c, p), p)
         /\ arrayLen(c, p).ok /\ config.sized => arrayLen(c, p).n <= Len(input)
<1> DEFINE r == readLen(c, p)
<1>1. /\ GoodRead(r, p) /\ r.pos \in Here /\ p <= r.pos /\ p \in Here /\ p <= p
      /\ r.n \in Nat /\ r.ok \in BOOLEAN
  BY SMTT(30), readLenGood, InputType DEF GoodRead, Here
<1>2. GoodRead(Err(r.pos, r.pos), p) /\ GoodRead(Err(p, p), p) /\ GoodRead(Ok(p, 0), p)
  BY <1>1, ErrHere, OkGood
<1>3. ~Err(r.pos, r.pos).ok /\ ~Err(p, p).ok /\ Ok(p, 0).n = 0
  BY DEF Err, Ok
<1>4. config.sized /\ ~rejectOversizedContainer(r.n, 1, r.pos) => r.n <= Len(input)
  BY <1>1, InputType DEF rejectOversizedContainer, remaining, Here
<1>5. CASE ~IsArray(c)
  BY <1>2, <1>3, <1>5, InputType DEF arrayLen
<1>6. CASE IsArray(c)
  <2>1. arrayLen(c, p) = IF r.ok /\ rejectOversizedContainer(r.n, 1, r.pos)
                        THEN Err(r.pos, r.pos) ELSE r
    BY <1>6 DEF arrayLen, checkContainer, Nil, IsArray, IsFixedArray, Array16, Array32
  <2> QED BY <1>1, <1>2, <1>3, <1>4, <2>1
<1> QED BY <1>5, <1>6

(* The same for maps, which need two bytes per pair.                        *)
LEMMA mapLenGood ==
  ASSUME TypeOK, NEW p \in Here, NEW c \in Byte
  PROVE  /\ GoodRead(mapLen(c, p), p)
         /\ mapLen(c, p).ok /\ config.sized => mapLen(c, p).n <= Len(input)
<1> DEFINE r == readLen(c, p)
<1>1. /\ GoodRead(r, p) /\ r.pos \in Here /\ p <= r.pos /\ p \in Here /\ p <= p
      /\ r.n \in Nat /\ r.ok \in BOOLEAN
  BY SMTT(30), readLenGood, InputType DEF GoodRead, Here
<1>2. GoodRead(Err(r.pos, r.pos), p) /\ GoodRead(Err(p, p), p) /\ GoodRead(Ok(p, 0), p)
  BY <1>1, ErrHere, OkGood
<1>3. ~Err(r.pos, r.pos).ok /\ ~Err(p, p).ok /\ Ok(p, 0).n = 0
  BY DEF Err, Ok
<1>4. config.sized /\ ~rejectOversizedContainer(r.n, 2, r.pos) => r.n <= Len(input)
  BY <1>1, InputType DEF rejectOversizedContainer, remaining, Here
<1>5. CASE ~IsMap(c)
  BY <1>2, <1>3, <1>5, InputType DEF mapLen
<1>6. CASE IsMap(c)
  <2>1. mapLen(c, p) = IF r.ok /\ rejectOversizedContainer(r.n, 2, r.pos)
                      THEN Err(r.pos, r.pos) ELSE r
    BY <1>6 DEF mapLen, checkContainer, Nil, IsMap, IsFixedMap, Map16, Map32
  <2> QED BY <1>1, <1>2, <1>3, <1>4, <2>1
<1> QED BY <1>5, <1>6

(* Leaf values: a good read with nothing left to loop over.                 *)
LEMMA bytesBodyGood ==
  ASSUME TypeOK, NEW p \in Here, NEW c \in Byte
  PROVE  /\ GoodRead(bytesBody(c, p), p)
         /\ bytesBody(c, p).ok => bytesBody(c, p).n = 0
<1> DEFINE l == bytesLen(c, p)
<1>1. GoodRead(l, p) /\ l.pos \in Here /\ l.n \in Nat
  BY bytesLenGood, InputType DEF GoodRead, Here
<1>2. GoodRead(readN(l.pos, l.n), l.pos) /\ readN(l.pos, l.n).n = 0
  BY <1>1, readNGood
<1>3. GoodRead(readN(l.pos, l.n), p)
  BY <1>1, <1>2, Chain
<1> QED BY <1>1, <1>2, <1>3 DEF bytesBody, payload

(* Skipping an ext is good and leads to no loop.                            *)
LEMMA skipExtGood ==
  ASSUME TypeOK, NEW p \in Here, NEW c \in Byte
  PROVE  /\ GoodRead(skipExt(c, p), p)
         /\ skipExt(c, p).ok => skipExt(c, p).n = 0
<1> DEFINE l == parseExtLen(c, p)
           t == readN(l.pos, 1)
           b == readN(t.pos, l.n)
<1>1. GoodRead(l, p) /\ l.pos \in Here /\ l.n \in Nat
  BY parseExtLenGood, InputType DEF GoodRead, Here
<1>2. GoodRead(t, l.pos) /\ t.pos \in Here
  <2>1. GoodRead(t, l.pos)
    BY <1>1, readNGood
  <2> QED BY <1>1, <2>1, InputType DEF GoodRead, Here
<1>3. GoodRead(t, p)
  BY <1>1, <1>2, Chain
<1>4. GoodRead(b, t.pos) /\ b.n = 0
  BY <1>1, <1>2, readNGood
<1>5. GoodRead(b, p)
  BY <1>3, <1>4, Chain
<1> QED BY <1>1, <1>3, <1>4, <1>5 DEF skipExt, extBody

(* So is every registered ext decoder.                                      *)
LEMMA extDecoderGood ==
  ASSUME TypeOK, NEW p \in Here, NEW id, NEW n \in Nat
  PROVE  /\ GoodRead(extDecoder(id, n, p), p)
         /\ extDecoder(id, n, p).ok => extDecoder(id, n, p).n = 0
<1> DEFINE r == readN(p, n)
<1>1. GoodRead(r, p) /\ r.n = 0
  BY readNGood
<1>2. r.pos \in Here /\ p <= r.pos /\ p <= p
  BY <1>1, InputType DEF GoodRead, Here
<1>3. GoodRead(Err(r.pos, r.pos), p) /\ GoodRead(Err(p, p), p)
  BY <1>2, ErrHere
<1>4. ~Err(r.pos, r.pos).ok /\ ~Err(p, p).ok
  BY DEF Err
<1>5. extDecoder(id, n, p) \in {r, Err(r.pos, r.pos), Err(p, p)}
  BY DEF extDecoder
<1> QED BY <1>1, <1>3, <1>4, <1>5

(* So is decoding an ext into an interface.                                 *)
LEMMA decodeInterfaceExtGood ==
  ASSUME TypeOK, NEW p \in Here, NEW c \in Byte
  PROVE  /\ GoodRead(decodeInterfaceExt(c, p), p)
         /\ decodeInterfaceExt(c, p).ok => decodeInterfaceExt(c, p).n = 0
<1> DEFINE l == parseExtLen(c, p)
           t == readN(l.pos, 1)
           b == extDecoder(input[l.pos + 1], l.n, t.pos)
<1>1. GoodRead(l, p) /\ l.pos \in Here /\ l.n \in Nat
  BY parseExtLenGood, InputType DEF GoodRead, Here
<1>2. GoodRead(t, l.pos) /\ t.pos \in Here
  <2>1. GoodRead(t, l.pos)
    BY <1>1, readNGood
  <2> QED BY <1>1, <2>1, InputType DEF GoodRead, Here
<1>3. GoodRead(t, p)
  BY <1>1, <1>2, Chain
<1>4. GoodRead(b, t.pos) /\ (b.ok => b.n = 0)
  BY <1>1, <1>2, extDecoderGood
<1>5. GoodRead(b, p)
  BY <1>3, <1>4, Chain
<1> QED BY <1>1, <1>3, <1>4, <1>5 DEF decodeInterfaceExt, extValue

(* The payload size of a code is a natural number.                          *)
LEMMA FixedSizeType ==
  ASSUME NEW c \in Byte PROVE FixedSize(c) \in Nat
BY DEF FixedSize

(* The next byte of the input, when there is one.                           *)
LEMMA NextByte ==
  ASSUME TypeOK, NEW p \in Here, remaining(p) >= 1
  PROVE  input[p + 1] \in Byte /\ p + 1 \in Here
<1>1. p + 1 \in 1 .. Len(input) /\ p + 1 \in Here
  BY InputType DEF Here, remaining
<1> QED BY <1>1, InputType

(* The loop of a frame doubles a map's length; everything but a container   *)
(* has no loop.                                                             *)
LEMMA DoubleGood ==
  ASSUME TypeOK, NEW p \in Here, NEW q \in Here, p <= q, NEW c \in Byte
  PROVE  /\ GoodRead(pairs(mapLen(c, q)), p)
         /\ pairs(mapLen(c, q)).ok /\ config.sized =>
              pairs(mapLen(c, q)).n \div 2 <= Len(input)
<1> DEFINE m == mapLen(c, q)
<1>1. GoodRead(m, q) /\ (m.ok /\ config.sized => m.n <= Len(input))
  BY mapLenGood
<1>2. GoodRead(m, p) /\ m.n \in Nat /\ m.pos \in Here /\ p <= m.pos
  BY <1>1, InputType DEF GoodRead, Here
<1>3. GoodRead(Ok(m.pos, 2 * m.n), p)
  BY <1>2, OkGood
<1>4. Ok(m.pos, 2 * m.n).n = 2 * m.n /\ (2 * m.n) \div 2 = m.n
  BY <1>2 DEF Ok
<1> QED BY <1>1, <1>2, <1>3, <1>4 DEF pairs

(* DecodeMapLen, after an ext header too, is good, and what it lets through *)
(* fits a sized input.                                                      *)
LEMMA mapHeadGood ==
  ASSUME TypeOK, NEW p \in Here
  PROVE  /\ GoodRead(mapHead(p), p)
         /\ mapHead(p).ok /\ config.sized => mapHead(p).n \div 2 <= Len(input)
<1> DEFINE c == input[p + 1]
           h == skipExtHeader(c, p + 1)
<1>0. ASSUME NEW q \in Here PROVE ~Err(q, q).ok
  BY DEF Err
<1>4. remaining(p) \in Int
  BY InputType DEF remaining, Here
<1>1. CASE remaining(p) < 1
  <2>1. mapHead(p) = Err(p, p)
    BY <1>1, <1>4 DEF mapHead
  <2>2. p <= p
    BY DEF Here
  <2> QED BY <2>1, <2>2, <1>0, ErrHere
<1>2. CASE remaining(p) >= 1 /\ IsExt(c)
  <2>1. c \in Byte /\ p + 1 \in Here
    BY <1>2, NextByte
  <2>2. h.pos \in Here /\ p <= h.pos
    <3>1. LenWidth(c) \in Nat
      BY <2>1, LenWidthType
    <3> QED BY <2>1, <3>1, InputType DEF skipExtHeader, Ok, Err, Here, remaining
  <2>3. CASE ~h.ok \/ remaining(h.pos) < 1
    <3>1. mapHead(p) = Err(h.pos, h.pos)
      BY <1>2, <2>3, InputType DEF mapHead, mapAfter
    <3> QED BY <2>2, <3>1, <1>0, ErrHere
  <2>4. CASE h.ok /\ ~(remaining(h.pos) < 1)
    <3>1. remaining(h.pos) >= 1
      BY <2>2, <2>4, InputType DEF remaining, Here
    <3>2. input[h.pos + 1] \in Byte /\ h.pos + 1 \in Here
      BY <2>2, <3>1, NextByte
    <3>3. p <= h.pos + 1
      BY <2>2 DEF Here
    <3>4. mapHead(p) = pairs(mapLen(input[h.pos + 1], h.pos + 1))
      BY <1>2, <2>4, InputType DEF mapHead, mapAfter
    <3> QED BY <3>2, <3>3, <3>4, DoubleGood
  <2> QED BY <2>3, <2>4
<1>3. CASE remaining(p) >= 1 /\ ~IsExt(c)
  <2>1. c \in Byte /\ p + 1 \in Here
    BY <1>3, NextByte
  <2>2. p <= p + 1
    BY DEF Here
  <2>3. mapHead(p) = pairs(mapLen(c, p + 1))
    BY <1>3 DEF mapHead
  <2> QED BY <2>1, <2>2, <2>3, DoubleGood
<1> QED BY <1>1, <1>2, <1>3, <1>4

(* What a call reads, from the position of its code byte.                   *)
LEMMA skipHeadGood ==
  ASSUME TypeOK, NEW p \in Here, NEW c \in Byte
  PROVE  GoodRead(skipHead(c, p), p)
<1>1. p \in Here /\ p <= p
  BY DEF Here
<1>2. GoodRead(Err(p, p), p)
  BY <1>1, ErrHere
<1>3. GoodRead(readN(p, FixedSize(c)), p)
  BY FixedSizeType, readNGood
<1>4. GoodRead(bytesBody(c, p), p) /\ GoodRead(arrayLen(c, p), p) /\ GoodRead(skipExt(c, p), p)
  BY bytesBodyGood, arrayLenGood, skipExtGood
<1>5. GoodRead(pairs(mapLen(c, p)), p)
  BY <1>1, DoubleGood
<1> QED BY <1>2, <1>3, <1>4, <1>5 DEF skipHead

(* What DecodeInterface reads before its loop, unread map code included, is *)
(* good.                                                                    *)
LEMMA interfaceHeadGood ==
  ASSUME TypeOK, NEW p \in Here, remaining(p) >= 1
  PROVE  LET c == input[p + 1]
             r == interfaceHead(c, p + 1)
         IN /\ GoodRead(r, p)
            /\ r.ok /\ config.sized =>
                 IF IsMap(c) THEN r.n \div 2 <= Len(input) ELSE r.n <= Len(input)
<1> DEFINE c == input[p + 1]
           q == p + 1
           r == interfaceHead(c, q)
<1>1. c \in Byte /\ q \in Here /\ p <= q /\ q - 1 = p /\ q <= q
  BY NextByte DEF Here
<1> HIDE DEF q
<1>2. ASSUME NEW x, GoodRead(x, q) PROVE GoodRead(x, p)
  BY <1>1, <1>2, InputType DEF GoodRead, Here
<1>3. GoodRead(Err(q, q), q) /\ ~Err(q, q).ok
  BY <1>1, ErrHere DEF Err
<1>4. GoodRead(readN(q, FixedSize(c)), q) /\ readN(q, FixedSize(c)).n = 0
  BY <1>1, FixedSizeType, readNGood
<1>5. GoodRead(bytesBody(c, q), q) /\ (bytesBody(c, q).ok => bytesBody(c, q).n = 0)
  BY <1>1, bytesBodyGood
<1>6. GoodRead(arrayLen(c, q), q) /\ (arrayLen(c, q).ok /\ config.sized => arrayLen(c, q).n <= Len(input))
  BY <1>1, arrayLenGood
<1>7. GoodRead(mapHead(p), p) /\ (mapHead(p).ok /\ config.sized => mapHead(p).n \div 2 <= Len(input))
  BY mapHeadGood
<1>8. GoodRead(decodeInterfaceExt(c, q), q) /\ (decodeInterfaceExt(c, q).ok => decodeInterfaceExt(c, q).n = 0)
  BY <1>1, decodeInterfaceExtGood
<1>9. 0 <= Len(input)
  BY InputType
<1>10. CASE ~IsMap(c)
  <2>1. r \in {readN(q, FixedSize(c)), bytesBody(c, q), arrayLen(c, q), decodeInterfaceExt(c, q), Err(q, q)}
    BY <1>10 DEF interfaceHead
  <2>2. GoodRead(r, q) /\ (r.ok /\ config.sized => r.n <= Len(input))
    BY <1>3, <1>4, <1>5, <1>6, <1>8, <1>9, <2>1
  <2> QED BY <1>2, <1>10, <2>2 DEF q
<1>11. CASE IsMap(c)
  <2>1. ~IsScalar(c) /\ ~IsBytes(c) /\ ~IsArray(c) /\ ~IsExt(c)
    BY <1>1, <1>11 DEF IsMap, IsExt, FixExts, Exts, IsScalar, IsBytes, IsArray, IsFixedMap, IsFixedArray, IsFixedNum,
       IsString, IsFixedString, Strs, Bins, Map16, Map32, Array16, Array32, Uints, Ints,
       Nil, False, True, Float, Double, Byte
  <2>2. r = mapHead(q - 1)
    BY <1>11, <2>1 DEF interfaceHead
  <2> QED BY <1>1, <1>7, <1>11, <2>2 DEF q
<1> QED BY <1>10, <1>11

(* What any call reads before its loop is good, and its loop fits a sized   *)
(* input.                                                                   *)
LEMMA headGood ==
  ASSUME TypeOK, NEW p \in Here, NEW call \in Calls
  PROVE  LET r == head(call, p)
         IN /\ GoodRead(r, p)
            /\ r.ok /\ r.n > 0 /\ config.sized =>
                 Prealloc(call, LoopOf(call, p), r.n) <= Len(input)
<1> DEFINE r == head(call, p)
           c == input[p + 1]
           Bounded == r.ok /\ r.n > 0 /\ config.sized =>
                        Prealloc(call, LoopOf(call, p), r.n) <= Len(input)
<1>0. p <= p /\ remaining(p) \in Int /\ 0 <= Len(input)
  BY InputType DEF Here, remaining
<1>1. CASE call \in {"Skip", "Value", "Unmarshal"}
  <2>1. Bounded
    BY <1>0, <1>1 DEF Prealloc
  <2>2. CASE call = "Value"
    <3>1. r = Ok(p, 1)
      BY <2>2 DEF head, ReadsCode
    <3> QED BY <1>0, <2>1, <3>1, OkGood
  <2>3. CASE call = "Unmarshal" /\ hasNilCode(p)
    <3>1. r = Ok(p + 1, 0)
      BY <2>3 DEF head, ReadsCode
    <3>2. p + 1 \in Here /\ p <= p + 1
      BY <2>3, InputType DEF hasNilCode, remaining, Here
    <3> QED BY <2>1, <3>1, <3>2, OkGood
  <2>4. CASE call = "Unmarshal" /\ ~hasNilCode(p)
    <3>1. r = Ok(p, 1)
      BY <2>4 DEF head, ReadsCode
    <3> QED BY <1>0, <2>1, <3>1, OkGood
  <2>5. CASE call = "Skip" /\ remaining(p) < 1
    <3>1. r = Err(p, p)
      BY <1>0, <2>5 DEF head, ReadsCode
    <3> QED BY <1>0, <2>1, <3>1, ErrHere
  <2>6. CASE call = "Skip" /\ remaining(p) >= 1
    <3>1. r = skipHead(c, p + 1)
      BY <1>0, <2>6 DEF head, ReadsCode
    <3>2. c \in Byte /\ p + 1 \in Here
      BY <2>6, NextByte
    <3>3. GoodRead(r, p + 1)
      BY <3>1, <3>2, skipHeadGood
    <3>4. GoodRead(r, p)
      BY <3>3, InputType DEF GoodRead, Here
    <3> QED BY <2>1, <3>4
  <2> QED BY <1>0, <1>1, <2>2, <2>3, <2>4, <2>5, <2>6
<1>2. CASE call = "Map"
  <2>1. r = mapHead(p)
    BY <1>2 DEF head, ReadsCode
  <2>2. GoodRead(r, p) /\ (r.ok /\ config.sized => r.n \div 2 <= Len(input))
    BY <2>1, mapHeadGood
  <2>3. r.n \in Nat
    BY <2>2 DEF GoodRead
  <2>4. Bounded
    BY <1>0, <1>2, <2>2, <2>3, InputType, StreamAssumption DEF Prealloc, LoopOf
  <2> QED BY <2>2, <2>4
<1>3. CASE call \in {"Slice", "Cond", "Interface"} /\ remaining(p) < 1
  <2>1. r = Err(p, p)
    BY <1>0, <1>3 DEF head, ReadsCode
  <2>2. ~r.ok
    BY <2>1 DEF Err
  <2> QED BY <1>0, <2>1, <2>2, ErrHere
<1>4. CASE call = "Slice" /\ remaining(p) >= 1
  <2>1. r = arrayLen(c, p + 1)
    BY <1>0, <1>4 DEF head, ReadsCode
  <2>2. c \in Byte /\ p + 1 \in Here
    BY <1>4, NextByte
  <2>3. GoodRead(r, p + 1) /\ (r.ok /\ config.sized => r.n <= Len(input))
    BY <2>1, <2>2, arrayLenGood
  <2>4. GoodRead(r, p) /\ r.n \in Nat
    BY <2>3, InputType DEF GoodRead, Here
  <2>5. Bounded
    BY <1>4, <2>3, <2>4, InputType, StreamAssumption DEF Prealloc, LoopOf
  <2> QED BY <2>4, <2>5
<1>5. CASE call \in {"Cond", "Interface"} /\ remaining(p) >= 1
  <2>1. r = interfaceHead(c, p + 1)
    BY <1>0, <1>5 DEF head, ReadsCode
  <2>2. /\ GoodRead(r, p)
        /\ r.ok /\ config.sized =>
             IF IsMap(c) THEN r.n \div 2 <= Len(input) ELSE r.n <= Len(input)
    BY <1>5, <2>1, interfaceHeadGood
  <2>3. r.n \in Nat
    BY <2>2 DEF GoodRead
  <2>4. LoopOf(call, p) = IF IsMap(c) THEN "map" ELSE "slice"
    BY <1>5 DEF LoopOf
  <2>5. Bounded
    BY <1>5, <2>2, <2>3, <2>4, InputType, StreamAssumption DEF Prealloc
  <2> QED BY <2>2, <2>5
<1> QED BY <1>0, <1>1, <1>2, <1>3, <1>4, <1>5 DEF Calls

-----------------------------------------------------------------------------
(* The pieces of one step.                                                  *)
Recs == [on : BOOLEAN, buf : Seq(Byte)]

(* A piece of the input is a sequence of bytes.                             *)
LEMMA PieceType ==
  ASSUME TypeOK, NEW p \in Here, NEW q \in Here, p <= q
  PROVE  SubSeq(input, p + 1, q) \in Seq(Byte)
<1>1. \A i \in p + 1 .. q : i \in 1 .. Len(input)
  BY InputType DEF Here
<1>2. \A i \in p + 1 .. q : input[i] \in Byte
  BY <1>1, InputType
<1>3. p + 1 \in Int /\ q \in Int
  BY InputType DEF Here
<1> QED BY <1>2, <1>3, SubSeqProperties

(* Recording keeps the type of d.rec and whether it is on.                  *)
LEMMA recordType ==
  ASSUME TypeOK, NEW rc \in Recs, NEW p \in Here, NEW r, GoodRead(r, p)
  PROVE  record(rc, p, r) \in Recs /\ record(rc, p, r).on = rc.on
<1>1. r.seen \in Here /\ p <= r.seen
  BY InputType DEF GoodRead, Here
<1>2. SubSeq(input, p + 1, r.seen) \in Seq(Byte)
  BY <1>1, PieceType
<1>3. rc.buf \o SubSeq(input, p + 1, r.seen) \in Seq(Byte)
  BY <1>2 DEF Recs
<1> QED BY <1>3 DEF record, Recs

(* The frame of a call has the type of a frame.                             *)
LEMMA FrameType ==
  ASSUME TypeOK, NEW call \in Calls, NEW p \in Here, NEW n \in Nat
  PROVE  /\ Frame(call, p, n) \in Frames
         /\ Frame(call, p, n).call = call
         /\ Frame(call, p, n).cap = Prealloc(call, LoopOf(call, p), n)
<1>1. LoopOf(call, p) \in {"skip", "slice", "map"}
  BY DEF LoopOf, Calls
<1>2. Prealloc(call, LoopOf(call, p), n) \in Nat
  <2>1. n \div 2 \in Nat
    OBVIOUS
  <2> QED BY <2>1, StreamAssumption DEF Prealloc
<1> QED BY <1>1, <1>2 DEF Frame, Frames

(* Running a call up to its loop or its end.                                *)
LEMMA InvokeStep ==
  ASSUME TypeOK, NEW call \in Calls, NEW below \in Seq(Frames), NEW rc \in Recs,
         Invoke(call, below, rc)
  PROVE  /\ pos' \in Here /\ pos <= pos'
         /\ depth' \in Nat
         /\ rec' \in Recs /\ rec'.on = rc.on
         /\ status' \in {"run", "fail"}
         /\ stack' \in Seq(Frames)
         /\ status' = "run" => rec' = record(rc, pos, head(call, pos))
                               /\ head(call, pos).seen = pos'
         /\ \/ stack' = below /\ depth' = depth
            \/ /\ stack' = Append(below, Frame(call, pos, head(call, pos).n))
               /\ head(call, pos).ok /\ head(call, pos).n > 0
               /\ ~enterDepthFails(call)
               /\ depth' = IF Guarded(call) THEN depth + 1 ELSE depth
<1> DEFINE r == head(call, pos)
<1>1. pos \in Here /\ depth \in Nat /\ pos <= pos
  BY InputType DEF TypeOK, Here
<1>2. GoodRead(r, pos)
  BY <1>1, headGood
<1>3. r.pos \in Here /\ pos <= r.pos /\ r.n \in Nat /\ r.ok \in BOOLEAN /\ (r.ok => r.seen = r.pos)
  BY <1>1, <1>2, InputType DEF GoodRead, Here
<1>4. record(rc, pos, r) \in Recs /\ record(rc, pos, r).on = rc.on
  BY <1>1, <1>2, recordType
<1>5. Append(below, Frame(call, pos, r.n)) \in Seq(Frames)
  BY <1>1, <1>3, FrameType
<1>6. CASE enterDepthFails(call)
  BY <1>1, <1>6 DEF Invoke
<1>7. CASE ~enterDepthFails(call)
  <2>1. /\ pos' = r.pos
        /\ rec' = record(rc, pos, r)
        /\ status' = IF r.ok THEN "run" ELSE "fail"
    BY <1>7 DEF Invoke, Begin
  <2>2. CASE r.ok /\ r.n > 0
    <3>1. /\ stack' = Append(below, Frame(call, pos, r.n))
          /\ depth' = IF Guarded(call) THEN depth + 1 ELSE depth
      BY <1>7, <2>2 DEF Invoke, Begin
    <3> QED BY <1>1, <1>3, <1>4, <1>5, <1>7, <2>1, <2>2, <3>1
  <2>3. CASE ~(r.ok /\ r.n > 0)
    <3>1. stack' = below /\ depth' = depth
      BY <1>7, <2>3 DEF Invoke, Begin
    <3> QED BY <1>1, <1>3, <1>4, <2>1, <3>1
  <2> QED BY <2>2, <2>3
<1> QED BY <1>6, <1>7

(* Reading a key.                                                           *)
LEMMA KeyStep ==
  ASSUME TypeOK, Key
  PROVE  /\ pos' \in Here /\ pos <= pos'
         /\ rec' \in Recs /\ rec'.on = rec.on
         /\ status' = "run" => rec' = record(rec, pos, DecodeString(pos))
                               /\ DecodeString(pos).seen = pos'
<1> DEFINE r == DecodeString(pos)
<1>1. pos \in Here /\ pos <= pos /\ rec \in Recs
  BY InputType DEF TypeOK, Here, Recs
<1>2. GoodRead(r, pos)
  <2>1. CASE remaining(pos) < 1
    BY <1>1, <2>1, ErrHere DEF DecodeString
  <2>2. CASE ~(remaining(pos) < 1)
    <3>1. remaining(pos) >= 1
      BY <1>1, <2>2, InputType DEF remaining, Here
    <3>2. input[pos + 1] \in Byte /\ pos + 1 \in Here
      BY <1>1, <3>1, NextByte
    <3>3. GoodRead(r, pos + 1)
      BY <2>2, <3>2, bytesBodyGood DEF DecodeString
    <3> QED BY <1>1, <3>3, InputType DEF GoodRead, Here
  <2> QED BY <2>1, <2>2
<1>3. r.pos \in Here /\ pos <= r.pos /\ r.ok \in BOOLEAN /\ (r.ok => r.seen = r.pos)
  BY <1>1, <1>2, InputType DEF GoodRead, Here
<1>4. record(rec, pos, r) \in Recs /\ record(rec, pos, r).on = rec.on
  BY <1>1, <1>2, recordType
<1>5. pos' = r.pos /\ rec' = record(rec, pos, r) /\ status' = IF r.ok THEN "run" ELSE "fail"
  BY DEF Key
<1> QED BY <1>3, <1>4, <1>5

(* The frames below a step.                                                 *)
LEMMA AdvancedType ==
  ASSUME TypeOK, stack # <<>>, Top.rem > 0
  PROVE  /\ Advanced \in Seq(Frames)
         /\ Len(Advanced) = Len(stack)
         /\ \A i \in 1 .. Len(stack) :
              Advanced[i].call = stack[i].call /\ Advanced[i].cap = stack[i].cap
<1>1. stack \in Seq(Frames) /\ Len(stack) \in 1 .. Len(stack)
  BY DEF TypeOK
<1>2. \A i \in 1 .. Len(stack) : stack[i] \in Frames
  BY <1>1
<1>3. Top \in Frames
  BY <1>1, <1>2 DEF Top
<1>4. [Top EXCEPT !.rem = @ - 1] \in Frames
  BY <1>3 DEF Frames
<1>5. Advanced = [stack EXCEPT ![Len(stack)] = [Top EXCEPT !.rem = @ - 1]]
  BY <1>1, <1>3 DEF Advanced, Top, Frames
<1>6. Advanced \in Seq(Frames) /\ Len(Advanced) = Len(stack)
  BY <1>1, <1>4, <1>5, ExceptSeq
<1>7. ASSUME NEW i \in 1 .. Len(stack)
      PROVE  Advanced[i].call = stack[i].call /\ Advanced[i].cap = stack[i].cap
  <2>1. CASE i = Len(stack)
    BY <1>1, <1>3, <1>5, <2>1 DEF Top, Frames
  <2>2. CASE i # Len(stack)
    BY <1>1, <1>5, <2>2
  <2> QED BY <2>1, <2>2
<1> QED BY <1>6, <1>7

(* Popping a frame leaves frames.                                           *)
LEMMA BelowType ==
  ASSUME TypeOK, stack # <<>>
  PROVE  /\ Below \in Seq(Frames)
         /\ Len(Below) = Len(stack) - 1
         /\ \A i \in 1 .. Len(stack) - 1 : Below[i] = stack[i]
         /\ Len(stack) \in Nat \ {0}
<1>1. stack \in Seq(Frames) /\ Len(stack) \in Nat \ {0}
  BY DEF TypeOK
<1>2. \A i \in 1 .. Len(stack) - 1 : stack[i] \in Frames
  BY <1>1
<1>3. Len(stack) - 1 \in Int /\ 1 \in Int
  BY <1>1
<1>4. /\ Below \in Seq(Frames)
      /\ Len(Below) = IF 1 <= Len(stack) - 1 THEN Len(stack) - 1 - 1 + 1 ELSE 0
      /\ \A i \in 1 .. Len(stack) - 1 - 1 + 1 : Below[i] = stack[1 + i - 1]
  BY <1>2, <1>3, SubSeqProperties DEF Below
<1>5. Len(Below) = Len(stack) - 1
  <2>1. ASSUME NEW n \in Nat \ {0}
        PROVE  (IF 1 <= n - 1 THEN n - 1 - 1 + 1 ELSE 0) = n - 1
    OBVIOUS
  <2> QED BY <1>1, <1>4, <2>1
<1>6. ASSUME NEW i \in 1 .. Len(stack) - 1 PROVE Below[i] = stack[i]
  <2>1. i \in 1 .. Len(stack) - 1 - 1 + 1 /\ 1 + i - 1 = i
    BY <1>1
  <2> QED BY <1>4, <2>1
<1> QED BY <1>1, <1>4, <1>5, <1>6

-----------------------------------------------------------------------------
(* The decoder's state has its types after any sequence of calls on any     *)
(* input: in particular the position never leaves the input, however a      *)
(* length field lies, and depth never goes negative.                        *)
THEOREM TypeCorrect == Spec => []TypeOK
<1>1. Init => TypeOK
  BY StreamAssumption DEF Init, TypeOK, NoRec
<1>2. TypeOK /\ [Next]_vars => TypeOK'
  <2> SUFFICES ASSUME TypeOK, [Next]_vars PROVE TypeOK'
    OBVIOUS
  <2>0. Recs = [on : BOOLEAN, buf : Seq(Byte)] /\ Here = 0 .. Len(input) /\ pos \in Nat
    BY DEF Recs, Here, TypeOK
  <2>1. ASSUME NEW op \in Ops, Call(op) PROVE TypeOK'
    <3> DEFINE rc == IF StartsRecording(op) THEN [on |-> TRUE, buf |-> <<>>] ELSE rec
    <3>1. FirstCall(op) \in Calls
      BY DEF FirstCall, Ops, Calls
    <3>2. rc \in Recs /\ <<>> \in Seq(Frames)
      BY DEF Recs, TypeOK
    <3>3. Invoke(FirstCall(op), <<>>, rc) /\ UNCHANGED <<input, config>>
      BY <2>1 DEF Call
    <3>4. res' \in [op : Ops \cup {"None"}, start : Nat, end : Nat, ok : BOOLEAN, raw : Seq(Byte)]
      BY <2>0, <2>1 DEF Call
    <3> HIDE DEF rc
    <3>5. /\ pos' \in Here /\ depth' \in Nat /\ rec' \in Recs
          /\ status' \in {"run", "fail"} /\ stack' \in Seq(Frames)
      BY <3>1, <3>2, <3>3, InvokeStep
    <3> QED BY <2>0, <3>3, <3>4, <3>5 DEF TypeOK
  <2>2. CASE Element
    <3> DEFINE call == IF Top.loop = "skip" THEN "Skip" ELSE "Cond"
    <3>1. call \in Calls
      BY DEF Calls
    <3>2. Advanced \in Seq(Frames) /\ rec \in Recs
      BY <2>2, AdvancedType DEF Element, Recs, TypeOK
    <3>3. Invoke(call, Advanced, rec) /\ UNCHANGED <<input, config, res>>
      BY <2>2 DEF Element
    <3> HIDE DEF call
    <3>4. /\ pos' \in Here /\ depth' \in Nat /\ rec' \in Recs
          /\ status' \in {"run", "fail"} /\ stack' \in Seq(Frames)
      BY <3>1, <3>2, <3>3, InvokeStep
    <3> QED BY <2>0, <3>3, <3>4 DEF TypeOK
  <2>3. CASE Key
    <3>1. pos' \in Here /\ rec' \in Recs
      BY <2>3, KeyStep
    <3>2. Advanced \in Seq(Frames) /\ stack' = Advanced
      BY <2>3, AdvancedType DEF Key
    <3>3. status' \in {"run", "fail"} /\ UNCHANGED <<input, config, depth, res>>
      BY <2>3 DEF Key
    <3> QED BY <2>0, <3>1, <3>2, <3>3 DEF TypeOK
  <2>4. CASE Return
    <3>1. stack' \in Seq(Frames)
      BY <2>4, BelowType DEF Return
    <3>2. depth' \in Nat
      BY <2>4 DEF Return, leaveDepth, TypeOK
    <3> QED BY <2>4, <3>1, <3>2 DEF Return, TypeOK
  <2>5. CASE Finish
    <3>1. /\ rec' \in Recs
          /\ res' \in [op : Ops \cup {"None"}, start : Nat, end : Nat, ok : BOOLEAN, raw : Seq(Byte)]
      <4>1. rec' \in Recs
        BY <2>5 DEF Finish, NoRec, TypeOK, Recs
      <4>2. /\ (IF status = "run" THEN rec.buf ELSE <<>>) \in Seq(Byte)
            /\ (status = "run") \in BOOLEAN
        BY DEF TypeOK
      <4> QED BY <2>0, <2>5, <4>1, <4>2 DEF Finish, TypeOK
    <3> QED BY <2>0, <2>5, <3>1 DEF Finish, TypeOK
  <2>6. CASE UNCHANGED vars
    BY <2>6 DEF vars, TypeOK
  <2> QED BY <2>1, <2>2, <2>3, <2>4, <2>5, <2>6 DEF Next
<1> QED BY <1>1, <1>2, PTL DEF Spec

-----------------------------------------------------------------------------
(* The depth limit in force is positive.                                    *)
LEMMA DepthLimitType ==
  ASSUME TypeOK PROVE DepthLimit \in Nat \ {0}
<1>1. config.maxDepth \in Int
  BY StreamAssumption DEF TypeOK, Config
<1> QED BY <1>1, StreamAssumption DEF DepthLimit

(* One call on top of frames that are counted keeps the count.              *)
LEMMA InvokeDepth ==
  ASSUME TypeOK, NEW call \in Calls, NEW below \in Seq(Frames), NEW rc \in Recs,
         Invoke(call, below, rc),
         below = <<>> \/ Guarded(call),
         depth = IF below # <<>> /\ ~Guarded(below[1].call) THEN Len(below) - 1 ELSE Len(below),
         \A i \in 2 .. Len(below) : Guarded(below[i].call),
         depth <= DepthLimit,
         UNCHANGED config
  PROVE  DepthOK'
<1> DEFINE f == Frame(call, pos, head(call, pos).n)
<1>1. /\ status' \in {"run", "fail"}
      /\ \/ stack' = below /\ depth' = depth
         \/ /\ stack' = Append(below, f)
            /\ head(call, pos).ok /\ head(call, pos).n > 0
            /\ ~enterDepthFails(call)
            /\ depth' = IF Guarded(call) THEN depth + 1 ELSE depth
  BY InvokeStep
<1>2. DepthLimit' = DepthLimit /\ DepthLimit \in Nat \ {0}
  BY DepthLimitType DEF DepthLimit
<1>3. CASE stack' = below /\ depth' = depth
  BY <1>1, <1>2, <1>3 DEF DepthOK, Guarded
<1>4. CASE /\ stack' = Append(below, f)
           /\ head(call, pos).ok /\ head(call, pos).n > 0
           /\ ~enterDepthFails(call)
           /\ depth' = IF Guarded(call) THEN depth + 1 ELSE depth
  <2>1. pos \in Here
    BY DEF TypeOK, Here
  <2>2. GoodRead(head(call, pos), pos)
    BY <2>1, headGood
  <2>3. head(call, pos).n \in Nat
    BY <2>2 DEF GoodRead
  <2>4. f \in Frames /\ f.call = call
    BY <2>1, <2>3, FrameType
  <2> HIDE DEF f
  <2>5. /\ Len(stack') = Len(below) + 1
        /\ stack'[Len(below) + 1] = f
        /\ \A i \in 1 .. Len(below) : stack'[i] = below[i]
        /\ Len(below) \in Nat
        /\ stack' # <<>>
    BY <1>4, <2>4
  <2>6. depth \in Nat
    BY DEF TypeOK
  <2>7. CASE below = <<>>
    <3>1. Len(stack') = 1 /\ stack'[1].call = call /\ depth = 0
      BY <2>4, <2>5, <2>7
    <3>2. depth' = IF Guarded(call) THEN 1 ELSE 0
      BY <1>4, <3>1
    <3> QED BY <1>1, <1>2, <2>5, <3>1, <3>2 DEF DepthOK, Guarded
  <2>8. CASE below # <<>>
    <3>1. Guarded(call) /\ depth' = depth + 1 /\ depth + 1 <= DepthLimit
      BY <1>2, <1>4, <2>6, <2>8 DEF enterDepthFails
    <3>2. stack'[1] = below[1] /\ Len(below) >= 1
      BY <2>5, <2>8
    <3>3. \A i \in 2 .. Len(below) + 1 : Guarded(stack'[i].call)
      BY <2>4, <2>5, <3>1
    <3>4. depth' = IF ~Guarded(stack'[1].call) THEN Len(stack') - 1 ELSE Len(stack')
      BY <2>5, <2>8, <3>1, <3>2
    <3> QED BY <1>1, <1>2, <2>5, <3>1, <3>3, <3>4 DEF DepthOK, Guarded
  <2> QED BY <2>7, <2>8
<1> QED BY <1>1, <1>3, <1>4

(* However calls nest, succeed and fail, d.depth is the number of active    *)
(* guarded calls, never exceeds the limit, and an idle decoder is at zero:  *)
(* every enterDepth is matched by a leaveDepth.                             *)
THEOREM DepthCounts == Spec => []DepthOK
<1>1. Init => DepthOK
  <2> SUFFICES ASSUME Init PROVE DepthOK
    OBVIOUS
  <2>1. config.maxDepth \in Int
    BY StreamAssumption DEF Init, Config
  <2>2. DepthLimit \in Nat
    BY <2>1, StreamAssumption DEF DepthLimit
  <2> QED BY <2>2 DEF Init, DepthOK
<1>2. TypeOK /\ DepthOK /\ [Next]_vars => DepthOK'
  <2> SUFFICES ASSUME TypeOK, DepthOK, [Next]_vars PROVE DepthOK'
    OBVIOUS
  <2>1. ASSUME NEW op \in Ops, Call(op) PROVE DepthOK'
    <3> DEFINE rc == IF StartsRecording(op) THEN [on |-> TRUE, buf |-> <<>>] ELSE rec
               none == <<>>
    <3>1. FirstCall(op) \in Calls /\ rc \in Recs /\ none \in Seq(Frames)
      BY DEF FirstCall, Ops, Calls, Recs, TypeOK
    <3>2. Invoke(FirstCall(op), none, rc) /\ UNCHANGED config /\ stack = <<>>
      BY <2>1 DEF Call, DepthOK
    <3>3. /\ depth = IF none # <<>> /\ ~Guarded(none[1].call) THEN Len(none) - 1 ELSE Len(none)
          /\ \A i \in 2 .. Len(none) : Guarded(none[i].call)
          /\ depth <= DepthLimit
          /\ none = <<>>
      BY <3>2 DEF DepthOK
    <3> HIDE DEF rc, none
    <3> QED BY <3>1, <3>2, <3>3, InvokeDepth
  <2>2. CASE Element
    <3> DEFINE call == IF Top.loop = "skip" THEN "Skip" ELSE "Cond"
    <3>1. call \in Calls /\ Guarded(call) /\ rec \in Recs
      BY DEF Calls, Guarded, Recs, TypeOK
    <3>2. Invoke(call, Advanced, rec) /\ UNCHANGED config /\ stack # <<>> /\ Top.rem > 0
      BY <2>2 DEF Element
    <3>3. /\ Advanced \in Seq(Frames)
          /\ Len(Advanced) = Len(stack)
          /\ \A i \in 1 .. Len(stack) : Advanced[i].call = stack[i].call
      BY <3>2, AdvancedType
    <3>4. Len(stack) \in Nat \ {0}
      BY <3>2, BelowType
    <3>5. /\ depth = IF Advanced # <<>> /\ ~Guarded(Advanced[1].call)
                     THEN Len(Advanced) - 1 ELSE Len(Advanced)
          /\ \A i \in 2 .. Len(Advanced) : Guarded(Advanced[i].call)
          /\ depth <= DepthLimit
      <4>1. Advanced # <<>> /\ Advanced[1].call = stack[1].call
        BY <3>3, <3>4
      <4> QED BY <3>2, <3>3, <3>4, <4>1 DEF DepthOK
    <3> HIDE DEF call
    <3> QED BY <3>1, <3>2, <3>3, <3>5, InvokeDepth
  <2>3. CASE Key
    <3>1. /\ stack' = Advanced /\ UNCHANGED <<config, depth>> /\ stack # <<>> /\ Top.rem > 0
          /\ status' \in {"run", "fail"}
      BY <2>3 DEF Key
    <3>2. /\ Len(Advanced) = Len(stack) /\ Advanced \in Seq(Frames)
          /\ \A i \in 1 .. Len(stack) : Advanced[i].call = stack[i].call
      BY <3>1, AdvancedType
    <3>3. Len(stack) \in Nat \ {0}
      BY <3>1, BelowType
    <3>4. stack' # <<>> /\ stack'[1].call = stack[1].call
      BY <3>1, <3>2, <3>3
    <3>5. DepthLimit' = DepthLimit
      BY <3>1 DEF DepthLimit
    <3> QED BY <3>1, <3>2, <3>3, <3>4, <3>5 DEF DepthOK, Guarded
  <2>4. CASE Return
    <3> DEFINE n == Len(stack)
    <3>1. /\ stack # <<>> /\ stack' = Below /\ depth' = leaveDepth(Top.call)
          /\ UNCHANGED <<config, status>> /\ status # "idle"
      BY <2>4 DEF Return
    <3>2. /\ Len(Below) = n - 1 /\ Below \in Seq(Frames)
          /\ \A i \in 1 .. n - 1 : Below[i] = stack[i]
          /\ n \in Nat \ {0}
      BY <3>1, BelowType
    <3>3. DepthLimit' = DepthLimit /\ DepthLimit \in Nat
      BY <3>1, DepthLimitType DEF DepthLimit
    <3>4. depth = (IF ~Guarded(stack[1].call) THEN n - 1 ELSE n) /\ depth <= DepthLimit
      BY <3>1 DEF DepthOK
    <3>5. CASE n = 1
      <4>1. stack' = <<>> /\ depth' = 0
        BY <3>1, <3>2, <3>4, <3>5 DEF leaveDepth, Top
      <4> QED BY <3>1, <3>3, <4>1 DEF DepthOK
    <3>6. CASE n # 1
      <4>1. Guarded(Top.call)
        BY <3>2, <3>6 DEF DepthOK, Top
      <4>2. depth' = depth - 1
        BY <3>1, <3>2, <3>4, <3>6, <4>1 DEF leaveDepth
      <4>3. stack' # <<>> /\ stack'[1] = stack[1] /\ Len(stack') = n - 1
        BY <3>1, <3>2, <3>6
      <4>4. \A i \in 2 .. Len(stack') : Guarded(stack'[i].call)
        BY <3>1, <3>2, <4>3 DEF DepthOK
      <4>5. depth' = IF ~Guarded(stack'[1].call) THEN Len(stack') - 1 ELSE Len(stack')
        BY <3>2, <3>4, <4>2, <4>3
      <4>6. depth' <= DepthLimit
        BY <3>2, <3>3, <3>4, <4>2
      <4> QED BY <3>1, <3>3, <4>3, <4>4, <4>5, <4>6 DEF DepthOK, Guarded
    <3> QED BY <3>5, <3>6
  <2>5. CASE Finish
    BY <2>5 DEF Finish, DepthOK, DepthLimit, Guarded
  <2>6. CASE UNCHANGED vars
    BY <2>6 DEF vars, DepthOK, DepthLimit, Guarded
  <2> QED BY <2>1, <2>2, <2>3, <2>4, <2>5, <2>6 DEF Next
<1> QED BY <1>1, <1>2, TypeCorrect, PTL DEF Spec

-----------------------------------------------------------------------------
(* One call on top of frames that are bounded keeps the bound.              *)
LEMMA InvokeAlloc ==
  ASSUME TypeOK, NEW call \in Calls, NEW below \in Seq(Frames), NEW rc \in Recs,
         Invoke(call, below, rc),
         \A i \in 1 .. Len(below) :
           /\ config.sized => below[i].cap <= Len(input)
           /\ ~config.sized /\ ~config.noLimit => below[i].cap <= AllocLimit,
         UNCHANGED <<config, input>>
  PROVE  AllocBounded'
<1> DEFINE n == head(call, pos).n
           f == Frame(call, pos, n)
<1>1. CASE stack' = below
  BY <1>1 DEF AllocBounded
<1>2. CASE stack' = Append(below, f) /\ head(call, pos).ok /\ n > 0
  <2>1. pos \in Here
    BY DEF TypeOK, Here
  <2>2. /\ GoodRead(head(call, pos), pos)
        /\ config.sized => Prealloc(call, LoopOf(call, pos), n) <= Len(input)
    BY <1>2, <2>1, headGood
  <2>3. n \in Nat
    BY <2>2 DEF GoodRead
  <2>4. f \in Frames /\ f.cap = Prealloc(call, LoopOf(call, pos), n)
    BY <2>1, <2>3, FrameType
  <2>5. ~config.noLimit => Prealloc(call, LoopOf(call, pos), n) <= AllocLimit
    <3>1. n \div 2 \in Nat
      BY <2>3
    <3> HIDE DEF n
    <3> QED BY <2>3, <3>1, StreamAssumption DEF Prealloc
  <2> HIDE DEF f, n
  <2>6. /\ Len(stack') = Len(below) + 1
        /\ stack'[Len(below) + 1] = f
        /\ \A i \in 1 .. Len(below) : stack'[i] = below[i]
        /\ Len(below) \in Nat
    BY <1>2, <2>4
  <2>7. /\ config.sized => f.cap <= Len(input)
        /\ ~config.sized /\ ~config.noLimit => f.cap <= AllocLimit
    BY <2>2, <2>4, <2>5
  <2>8. ASSUME NEW i \in 1 .. Len(below) + 1
        PROVE  /\ config.sized => stack'[i].cap <= Len(input)
               /\ ~config.sized /\ ~config.noLimit => stack'[i].cap <= AllocLimit
    <3>1. CASE i \in 1 .. Len(below)
      BY <2>6, <3>1
    <3>2. CASE i = Len(below) + 1
      BY <2>6, <2>7, <3>2
    <3> QED BY <2>6, <3>1, <3>2
  <2> QED BY <2>6, <2>8 DEF AllocBounded
<1> QED BY <1>1, <1>2, InvokeStep

(* Whatever lengths the input claims, no active call has reserved more      *)
(* elements than there are bytes (a reader that exposes its length) or than *)
(* the allocation limit (any other, unless limits are disabled).            *)
THEOREM AllocIsBounded == Spec => []AllocBounded
<1>1. Init => AllocBounded
  BY DEF Init, AllocBounded
<1>2. TypeOK /\ DepthOK /\ AllocBounded /\ [Next]_vars => AllocBounded'
  <2> SUFFICES ASSUME TypeOK, DepthOK, AllocBounded, [Next]_vars PROVE AllocBounded'
    OBVIOUS
  <2>1. ASSUME NEW op \in Ops, Call(op) PROVE AllocBounded'
    <3> DEFINE rc == IF StartsRecording(op) THEN [on |-> TRUE, buf |-> <<>>] ELSE rec
               none == <<>>
    <3>1. FirstCall(op) \in Calls /\ rc \in Recs /\ none \in Seq(Frames) /\ Len(none) = 0
      BY DEF FirstCall, Ops, Calls, Recs, TypeOK
    <3>2. Invoke(FirstCall(op), none, rc) /\ UNCHANGED <<config, input>>
      BY <2>1 DEF Call
    <3>3. \A i \in 1 .. Len(none) :
           /\ config.sized => none[i].cap <= Len(input)
           /\ ~config.sized /\ ~config.noLimit => none[i].cap <= AllocLimit
      BY <3>1
    <3> HIDE DEF rc, none
    <3> QED BY <3>1, <3>2, <3>3, InvokeAlloc
  <2>2. CASE Element
    <3> DEFINE call == IF Top.loop = "skip" THEN "Skip" ELSE "Cond"
    <3>1. call \in Calls /\ rec \in Recs
      BY DEF Calls, Recs, TypeOK
    <3>2. Invoke(call, Advanced, rec) /\ UNCHANGED <<config, input>> /\ stack # <<>> /\ Top.rem > 0
      BY <2>2 DEF Element
    <3>3. /\ Advanced \in Seq(Frames)
          /\ Len(Advanced) = Len(stack)
          /\ \A i \in 1 .. Len(stack) : Advanced[i].cap = stack[i].cap
      BY <3>2, AdvancedType
    <3>4. \A i \in 1 .. Len(Advanced) :
           /\ config.sized => Advanced[i].cap <= Len(input)
           /\ ~config.sized /\ ~config.noLimit => Advanced[i].cap <= AllocLimit
      BY <3>3 DEF AllocBounded
    <3> HIDE DEF call
    <3> QED BY <3>1, <3>2, <3>3, <3>4, InvokeAlloc
  <2>3. CASE Key
    <3>1. stack' = Advanced /\ UNCHANGED <<config, input>> /\ stack # <<>> /\ Top.rem > 0
      BY <2>3 DEF Key
    <3>2. /\ Len(Advanced) = Len(stack)
          /\ \A i \in 1 .. Len(stack) : Advanced[i].cap = stack[i].cap
      BY <3>1, AdvancedType
    <3> QED BY <3>1, <3>2 DEF AllocBounded
  <2>4. CASE Return
    <3>1. stack # <<>> /\ stack' = Below /\ UNCHANGED <<config, input>>
      BY <2>4 DEF Return
    <3>2. /\ Len(Below) = Len(stack) - 1
          /\ \A i \in 1 .. Len(stack) - 1 : Below[i] = stack[i]
          /\ Len(stack) \in Nat \ {0}
      BY <3>1, BelowType
    <3> QED BY <3>1, <3>2 DEF AllocBounded
  <2>5. CASE Finish
    BY <2>5 DEF Finish, AllocBounded
  <2>6. CASE UNCHANGED vars
    BY <2>6 DEF vars, AllocBounded
  <2> QED BY <2>1, <2>2, <2>3, <2>4, <2>5, <2>6 DEF Next
<1> QED BY <1>1, <1>2, TypeCorrect, DepthCounts, PTL DEF Spec

-----------------------------------------------------------------------------
(* What makes the two recording properties inductive: the buffer of a       *)
(* decoder that is not recording is empty, DecodeRaw records from its start *)
(* to its end, and no call ends before it began.                            *)
RecShape ==
  /\ ~rec.on => rec = NoRec
  /\ status # "idle" /\ res.op = "DecodeRaw" => rec.on
  /\ res.start <= pos

(* Recording one more read extends what is recorded up to its end.          *)
LEMMA recordExtends ==
  ASSUME TypeOK, NEW rc \in Recs, rc.on, NEW start \in Here, start <= pos,
         rc.buf = SubSeq(input, start + 1, pos),
         NEW r, r.seen \in Here, pos <= r.seen
  PROVE  record(rc, pos, r).buf = SubSeq(input, start + 1, r.seen)
<1>1. /\ input \in Seq(Byte)
      /\ start + 1 \in 1 .. Len(input) + 1
      /\ pos \in (start + 1) - 1 .. Len(input)
      /\ r.seen \in pos .. Len(input)
  BY InputType DEF TypeOK, Here
<1>2. SubSeq(input, start + 1, pos) \o SubSeq(input, pos + 1, r.seen)
        = SubSeq(input, start + 1, r.seen)
  BY <1>1, ConcatAdjacentSubSeq
<1> QED BY <1>2 DEF record, Recs

(* A step in the middle of a call that reads r.                             *)
LEMMA StillRecording ==
  ASSUME TypeOK, RecCleared, RawIsConsumed, RecShape, NEW r,
         status = "run", status' \in {"run", "fail"},
         UNCHANGED <<input, config, res>>,
         pos' \in Here, pos <= pos', rec'.on = rec.on, rec' \in Recs,
         status' = "run" => rec' = record(rec, pos, r) /\ r.seen = pos',
         ~rec.on => rec' = NoRec
  PROVE  RecCleared' /\ RawIsConsumed' /\ RecShape'
<1>1. pos \in Here /\ rec \in Recs /\ res.start \in Here /\ res.start <= pos
  BY InputType DEF TypeOK, Here, Recs, RecShape
<1>2. rec'.on /\ status' = "run" => rec'.buf = SubSeq(input, res.start + 1, pos')
  <2> SUFFICES ASSUME rec'.on, status' = "run"
               PROVE  rec'.buf = SubSeq(input, res.start + 1, pos')
    OBVIOUS
  <2>1. rec.on /\ rec.buf = SubSeq(input, res.start + 1, pos)
    BY DEF RawIsConsumed
  <2>2. record(rec, pos, r).buf = SubSeq(input, res.start + 1, r.seen)
    BY <1>1, <2>1, recordExtends
  <2> QED BY <2>2
<1>3. RecCleared'
  BY DEF RecCleared
<1>4. RawIsConsumed'
  BY <1>2 DEF RawIsConsumed
<1>5. RecShape'
  BY <1>1 DEF RecShape, Here, NoRec
<1> QED BY <1>3, <1>4, <1>5

(* A decoder records only during the call that asked for it, and what that  *)
(* call returns is the bytes of the input between its start and its end.    *)
THEOREM Recording == Spec => [](RecCleared /\ RawIsConsumed)
<1> DEFINE IInv == RecCleared /\ RawIsConsumed /\ RecShape
<1>1. Init => IInv
  BY DEF Init, RecCleared, RawIsConsumed, RecShape, NoRec
<1>2. TypeOK /\ TypeOK' /\ IInv /\ [Next]_vars => IInv'
  <2> SUFFICES ASSUME TypeOK, TypeOK', IInv, [Next]_vars PROVE IInv'
    OBVIOUS
  <2>0. /\ pos \in Here /\ pos <= pos /\ rec \in Recs /\ res.start \in Nat
        /\ status \in {"idle", "run", "fail"}
    BY InputType DEF TypeOK, Here, Recs
  <2>1. ASSUME NEW op \in Ops, Call(op) PROVE IInv'
    <3> DEFINE rc == IF StartsRecording(op) THEN [on |-> TRUE, buf |-> <<>>] ELSE rec
               none == <<>>
               r == head(FirstCall(op), pos)
    <3>1. FirstCall(op) \in Calls /\ rc \in Recs /\ none \in Seq(Frames)
      BY <2>0 DEF FirstCall, Ops, Calls, Recs
    <3>2. /\ Invoke(FirstCall(op), none, rc) /\ UNCHANGED <<config, input>> /\ status = "idle"
          /\ res'.op = op /\ res'.start = pos /\ rec = NoRec
      BY <2>1 DEF Call, RecCleared
    <3>3. /\ rc.on => op \in RawOps /\ rc.buf = <<>>
          /\ ~rc.on => rc = NoRec
          /\ op = "DecodeRaw" => rc.on
      BY <3>2 DEF StartsRecording, RawOps, NoRec
    <3> HIDE DEF rc, none
    <3>4. /\ pos' \in Here /\ pos <= pos' /\ rec'.on = rc.on /\ rec' \in Recs
          /\ status' \in {"run", "fail"}
          /\ status' = "run" => rec' = record(rc, pos, r) /\ r.seen = pos'
      BY <3>1, <3>2, InvokeStep
    <3>5. ~rc.on => rec' = NoRec
      <4>1. rec' = rc \/ rec' = record(rc, pos, r)
        BY <3>2 DEF Invoke, Begin
      <4> QED BY <3>3, <4>1 DEF record
    <3>6. rec'.on /\ status' = "run" => rec'.buf = SubSeq(input, pos + 1, pos')
      <4> SUFFICES ASSUME rec'.on, status' = "run" PROVE rec'.buf = SubSeq(input, pos + 1, pos')
        OBVIOUS
      <4>1. SubSeq(input, pos + 1, pos) = <<>>
        BY <2>0, SubSeqEmpty DEF TypeOK
      <4>2. rc.on /\ rc.buf = SubSeq(input, pos + 1, pos)
        BY <3>3, <3>4, <4>1
      <4>3. record(rc, pos, r).buf = SubSeq(input, pos + 1, r.seen)
        BY <2>0, <3>1, <3>4, <4>2, recordExtends
      <4> QED BY <3>4, <4>3
    <3>7. RecCleared'
      BY <3>2, <3>3, <3>4 DEF RecCleared
    <3>8. RawIsConsumed'
      BY <3>2, <3>4, <3>6 DEF RawIsConsumed
    <3>9. RecShape'
      BY <3>2, <3>3, <3>4, <3>5 DEF RecShape, NoRec
    <3> QED BY <3>7, <3>8, <3>9
  <2>2. CASE Element
    <3> DEFINE call == IF Top.loop = "skip" THEN "Skip" ELSE "Cond"
               r == head(call, pos)
    <3>1. call \in Calls
      BY DEF Calls
    <3>2. Advanced \in Seq(Frames)
      BY <2>2, AdvancedType DEF Element
    <3>3. Invoke(call, Advanced, rec) /\ UNCHANGED <<input, config, res>> /\ status = "run"
      BY <2>2 DEF Element
    <3> HIDE DEF call
    <3>4. /\ pos' \in Here /\ pos <= pos' /\ rec'.on = rec.on /\ rec' \in Recs
          /\ status' \in {"run", "fail"}
          /\ status' = "run" => rec' = record(rec, pos, r) /\ r.seen = pos'
      BY <2>0, <3>1, <3>2, <3>3, InvokeStep
    <3>5. ~rec.on => rec' = NoRec
      <4>1. rec' = rec \/ rec' = record(rec, pos, r)
        BY <3>3 DEF Invoke, Begin
      <4> QED BY <4>1 DEF record, RecShape
    <3> QED BY <2>0, <3>3, <3>4, <3>5, StillRecording
  <2>3. CASE Key
    <3> DEFINE r == DecodeString(pos)
    <3>1. /\ pos' \in Here /\ pos <= pos' /\ rec'.on = rec.on /\ rec' \in Recs
          /\ status' = "run" => rec' = record(rec, pos, r) /\ r.seen = pos'
      BY <2>3, KeyStep
    <3>2. UNCHANGED <<input, config, res>> /\ status = "run" /\ status' \in {"run", "fail"}
      BY <2>3 DEF Key
    <3>3. ~rec.on => rec' = NoRec
      BY <2>3 DEF Key, record, RecShape
    <3> QED BY <2>0, <3>1, <3>2, <3>3, StillRecording
  <2>4. CASE Return
    BY <2>4 DEF Return, RecCleared, RawIsConsumed, RecShape
  <2>5. CASE Finish
    <3>1. /\ status' = "idle" /\ status # "idle" /\ UNCHANGED <<input, pos>>
          /\ res'.op = res.op /\ res'.start = res.start /\ res'.end = pos
          /\ res'.ok = (status = "run")
          /\ res'.raw = IF status = "run" THEN rec.buf ELSE <<>>
      BY <2>5 DEF Finish, TypeOK
    <3>2. rec' = NoRec
      BY <2>5 DEF Finish, RecCleared, RecShape
    <3>3. RawIsConsumed'
      BY <3>1, <3>2 DEF RawIsConsumed, RecShape, NoRec
    <3> QED BY <3>1, <3>2, <3>3 DEF RecCleared, RecShape, NoRec
  <2>6. CASE UNCHANGED vars
    BY <2>6 DEF vars, RecCleared, RawIsConsumed, RecShape
  <2> QED BY <2>1, <2>2, <2>3, <2>4, <2>5, <2>6 DEF Next
<1> QED BY <1>1, <1>2, TypeCorrect, PTL DEF Spec

(* No call leaves a recording behind: whatever DecodeRaw met, the buffer    *)
(* that it shares with later calls is closed when no call is active.        *)
THEOREM RecordingEnds == Spec => []RecCleared
BY Recording, PTL
=============================================================================
