------------------------------ MODULE Numbers -------------------------------
(***************************************************************************)
(* Numbers and lengths on the wire (src/pkg/msgpack/encode_number.go,      *)
(* decode_number.go and the length headers of encode_slice.go,             *)
(* encode_map.go and ext.go).  A Go value is encoded under the Encoder's   *)
(* options and decoded into some Go type; width changes, sign changes and  *)
(* conversions between integers and floats happen at both ends in separate *)
(* switches.                                                               *)
(*                                                                         *)
(* The codes are those of the wire format.  The bytes after a code have    *)
(* Radix values each in a number and LenRadix in a length (256 in the      *)
(* code), so that eight-byte and four-byte arithmetic can be explored with *)
(* smaller bytes.                                                          *)
(***************************************************************************)
EXTENDS WireCodes, Sequences

CONSTANTS
  Radix,           \* number of values of a byte of a number
  LenRadix,        \* the same for a byte of a length
  NegFixedNumLow,  \* -32: the least number that is its own code
  Precision32, Precision64,  \* 2^24 and 2^53: significands of float32 and float64
  Integers64,      \* the integers to be encoded, where their type holds them
  Halves,          \* the finite floats to be encoded, in units of 1/2
  Lengths,         \* the lengths to be encoded
  Garbage,         \* int64 results of converting a float that does not fit
  Dests            \* the Go types decoded into

ASSUME NumbersAssumption ==
  /\ Radix \in Nat /\ 4 < Radix /\ Radix <= 256 /\ Radix % 2 = 0
  /\ LenRadix \in Nat /\ 32 < LenRadix
  /\ NegFixedNumLow \in -32 .. -1 /\ -(Radix \div 2) < NegFixedNumLow
  /\ Precision32 \in Nat /\ Precision64 \in Nat
  /\ 0 < Precision32 /\ Precision32 <= Precision64
  /\ Integers64 \subseteq Int /\ Halves \subseteq Int /\ Lengths \subseteq Nat
  /\ Garbage \subseteq Int

VARIABLES
  compactInts, compactFloats,  \* flags of the Encoder
  narrowInt,  \* the reader's int has 32 bits
  src,   \* the Go value to be encoded
  item,  \* its encoding
  dest,  \* the Go type it is decoded into
  out,   \* the result
  pc

vars == <<compactInts, compactFloats, narrowInt, src, item, dest, out, pc>>

-----------------------------------------------------------------------------
(***************************************************************************)
(* Integers of w bytes                                                     *)
(***************************************************************************)
M1 == Radix
M2 == M1 * M1
M4 == M2 * M2
M8 == M4 * M4

Mod(w) == CASE w = 1 -> M1 [] w = 2 -> M2 [] w = 4 -> M4 [] w = 8 -> M8
MaxInt(w) == Mod(w) \div 2 - 1
MinInt(w) == -(Mod(w) \div 2)
MaxUint(w) == Mod(w) - 1

(* Conversions uintW(n) and intW(n).                                        *)
toUint(n, w) == n % Mod(w)
toInt(n, w) == IF toUint(n, w) > MaxInt(w) THEN toUint(n, w) - Mod(w) ELSE toUint(n, w)

(* write1, write2, write4 and write8: big-endian bytes of B values.         *)
Sq(B) == B * B
bytes1(n) == <<n>>
bytes2(n, B) == bytes1(n \div B) \o bytes1(n % B)
bytes4(n, B) == bytes2(n \div Sq(B), B) \o bytes2(n % Sq(B), B)
bytes8(n, B) == bytes4(n \div Sq(Sq(B)), B) \o bytes4(n % Sq(Sq(B)), B)

bigEndian(n, w, B) ==
  CASE w = 1 -> bytes1(n) [] w = 2 -> bytes2(n, B)
    [] w = 4 -> bytes4(n, B) [] w = 8 -> bytes8(n, B)

(* uint8, uint16, uint32 and uint64 of the decoder: the next w bytes.       *)
uint1(b) == b[1]
uint2(b, B) == b[1] * B + b[2]
uint4(b, B) == uint2(SubSeq(b, 1, 2), B) * Sq(B) + uint2(SubSeq(b, 3, 4), B)
uint8(b, B) == uint4(SubSeq(b, 1, 4), B) * Sq(Sq(B)) + uint4(SubSeq(b, 5, 8), B)
uintOf(b, w, B) ==
  CASE w = 1 -> uint1(b) [] w = 2 -> uint2(b, B)
    [] w = 4 -> uint4(b, B) [] w = 8 -> uint8(b, B)

-----------------------------------------------------------------------------
(***************************************************************************)
(* Floats: finite ones in units of 1/2, and the values that are not        *)
(* numbers.  Their bits on the wire are the value itself.                  *)
(***************************************************************************)
Finite(h) == [k |-> "finite", h |-> h]
Specials == [k : {"NaN", "+Inf", "-Inf", "-0"}, h : {0}]
FloatSame(f, g) == f.k # "NaN" /\ f.h = g.h
                     /\ (f.k = g.k \/ {f.k, g.k} = {"finite", "-0"})

Abs(n) == IF n < 0 THEN -n ELSE n
Exponent(n, p) == CHOOSE e \in 0 .. 40 : Abs(n) < p * 2^e /\ (e = 0 \/ Abs(n) >= p * 2^(e - 1))

(* The magnitude m to the nearest multiple of u, ties to even.              *)
Nearest(m, u) ==
  LET q == m \div u
      up == 2 * (m % u) > u \/ (2 * (m % u) = u /\ q % 2 = 1)
  IN u * (IF up THEN q + 1 ELSE q)
Round(n, p) ==
  IF n < 0 THEN -Nearest(-n, 2^Exponent(n, p)) ELSE Nearest(n, 2^Exponent(n, p))

(* float64(n) and float32(n) of an integer.                                 *)
toFloat(n, p) == Finite(2 * Round(n, p))
IsFloat(h, p) == Round(h, p) = h

(* int64(f), uint64(f): the integer part; a value that does not fit gives   *)
(* whatever the platform's instruction gives.                               *)
Trunc(h) == IF h < 0 THEN -((-h) \div 2) ELSE h \div 2
fromFloat(f, lo, hi) ==
  IF f.k \in {"finite", "-0"} /\ Trunc(f.h) \in lo .. hi THEN {Trunc(f.h)}
  ELSE {toUint(g - lo, 8) + lo : g \in Garbage}
-----------------------------------------------------------------------------
(***************************************************************************)
(* Encoder                                                                 *)
(***************************************************************************)
Item(c, b) == [c |-> c, b |-> b, f |-> Finite(0)]
FloatItem(c, f) == [c |-> c, b |-> <<>>, f |-> f]
None == [none |-> TRUE]
NoResult == [ok |-> FALSE, n |-> 0, f |-> Finite(0)]

(* The codes of w bytes, and a number in the code's own byte.               *)
UintCode(w) == CASE w = 1 -> Uint8 [] w = 2 -> Uint16 [] w = 4 -> Uint32 [] w = 8 -> Uint64
IntCode(w) == CASE w = 1 -> Int8 [] w = 2 -> Int16 [] w = 4 -> Int32 [] w = 8 -> Int64
Unsigned(n, w) == Item(UintCode(w), bigEndian(toUint(n, w), w, Radix))
Signed(n, w) == Item(IntCode(w), bigEndian(toUint(n, w), w, Radix))
FixedNum(n) == Item(n % 256, <<>>)

(* EncodeUint and EncodeInt: the first code that holds the number.          *)
EncodeUint(n) ==
  IF n <= MaxInt(1) THEN FixedNum(n)
  ELSE IF n <= MaxUint(1) THEN Unsigned(n, 1)
  ELSE IF n <= MaxUint(2) THEN Unsigned(n, 2)
  ELSE IF n <= MaxUint(4) THEN Unsigned(n, 4)
  ELSE Unsigned(n, 8)

EncodeInt(n) ==
  IF n >= 0 THEN EncodeUint(n)
  ELSE IF n >= NegFixedNumLow THEN FixedNum(n)
  ELSE IF n >= MinInt(1) THEN Signed(n, 1)
  ELSE IF n >= MinInt(2) THEN Signed(n, 2)
  ELSE IF n >= MinInt(4) THEN Signed(n, 4)
  ELSE Signed(n, 8)

(* encodeInt8Cond to encodeUint64Cond; a Go int or uint (any = TRUE) has no *)
(* width to preserve.                                                       *)
encodeCond(type, n) ==
  CASE (compactInts \/ type.any) /\ type.signed -> EncodeInt(n)
    [] (compactInts \/ type.any) /\ ~type.signed -> EncodeUint(n)
    [] ~(compactInts \/ type.any) /\ type.signed -> Signed(n, type.w)
    [] ~(compactInts \/ type.any) /\ ~type.signed -> Unsigned(n, type.w)

(* Mutant: the integer part is sent without the comparison.                 *)
EncodeFloat_NoCheck(f, p, c) ==
  {IF compactFloats THEN EncodeInt(i) ELSE FloatItem(c, f) :
     i \in fromFloat(f, MinInt(8), MaxInt(8))}

(* EncodeFloat32 and EncodeFloat64: an integer if converting it back gives  *)
(* the same float.                                                          *)
EncodeFloat(f, p, c) ==
  {IF compactFloats /\ FloatSame(toFloat(i, p), f) THEN EncodeInt(i) ELSE FloatItem(c, f) :
     i \in fromFloat(f, MinInt(8), MaxInt(8))}

(* Lengths: the code alone, or a code and a field of w bytes.  A length is  *)
(* an int, converted to the field's unsigned type.                          *)
LenMod(w) == CASE w = 1 -> LenRadix [] w = 2 -> Sq(LenRadix) [] w = 4 -> Sq(Sq(LenRadix))
LenItem(c, l, w) == Item(c, bigEndian(l % LenMod(w), w, LenRadix))
FieldItem(c8, c16, c32, l) ==
  IF l < LenMod(1) THEN LenItem(c8, l, 1)
  ELSE IF l <= LenMod(2) - 1 THEN LenItem(c16, l, 2)
  ELSE LenItem(c32, l, 4)

EncodeBytesLen(l) == FieldItem(Bin8, Bin16, Bin32, l)

(* Mutant: 32 is put into the code, where it has no bit.                    *)
encodeStringLen_OffByOne(l) ==
  IF l <= 32 THEN Item(FixedStrLow + (l % 32), <<>>) ELSE FieldItem(Str8, Str16, Str32, l)

(* FixedStrLow | l: the low five bits of FixedStrLow are free.              *)
encodeStringLen(l) ==
  IF l < 32 THEN Item(FixedStrLow + l, <<>>) ELSE FieldItem(Str8, Str16, Str32, l)

EncodeArrayLen(l) ==
  IF l < 16 THEN Item(FixedArrayLow + l, <<>>)
  ELSE IF l <= LenMod(2) - 1 THEN LenItem(Array16, l, 2)
  ELSE LenItem(Array32, l, 4)

EncodeMapLen(l) ==
  IF l < 16 THEN Item(FixedMapLow + l, <<>>)
  ELSE IF l <= LenMod(2) - 1 THEN LenItem(Map16, l, 2)
  ELSE LenItem(Map32, l, 4)

encodeExtLen(l) ==
  CASE l = 1 -> Item(FixExt1, <<>>)
    [] l = 2 -> Item(FixExt2, <<>>)
    [] l = 4 -> Item(FixExt4, <<>>)
    [] l = 8 -> Item(FixExt8, <<>>)
    [] l = 16 -> Item(FixExt16, <<>>)
    [] OTHER -> FieldItem(Ext8, Ext16, Ext32, l)

EncodeLen(kind, l) ==
  CASE kind = "bin" -> EncodeBytesLen(l)
    [] kind = "str" -> encodeStringLen(l)
    [] kind = "array" -> EncodeArrayLen(l)
    [] kind = "map" -> EncodeMapLen(l)
    [] kind = "ext" -> encodeExtLen(l)

EncodeNil == Item(Nil, <<>>)

-----------------------------------------------------------------------------
(***************************************************************************)
(* Decoder: the set of results an item can give, more than one only where  *)
(* Go leaves a conversion to the platform.                                 *)
(***************************************************************************)
IntResult(n) == [ok |-> TRUE, n |-> n, f |-> Finite(0)]
FloatResult(f) == [ok |-> TRUE, n |-> 0, f |-> f]
IsFloatItem(i) == i.c \in {Float, Double}

(* int8(c), and the integer of as many bytes as the switch reads for c.     *)
int8(c) == IF c > 127 THEN c - 256 ELSE c
unsignedField(i) == uintOf(i.b, FixedSize(i.c), Radix)
signedField(i) == toInt(unsignedField(i), FixedSize(i.c))

(* Mutant: only infinities and NaN are refused.                             *)
Representable_Finite(f, lo, hi) == f.k \in {"finite", "-0"}

(* The range check before a float becomes an integer.  The bounds are       *)
(* constants of the code converted to float64, hence rounded.               *)
Representable(f, lo, hi) ==
  /\ f.k \in {"finite", "-0"}
  /\ f.h % 2 = 0
  /\ f.h >= 2 * Round(lo, Precision64) /\ f.h <= 2 * Round(hi, Precision64)

floatToInt(f, lo, hi) ==
  IF Representable(f, lo, hi) THEN {IntResult(n) : n \in fromFloat(f, lo, hi)} ELSE {NoResult}

(* uint(c) of the decoder: everything as uint64, nil as 0.                  *)
uint(i) ==
  CASE i.c = Nil -> {IntResult(0)}
    [] IsFixedNum(i.c) -> {IntResult(toUint(int8(i.c), 8))}
    [] i.c \in Uints -> {IntResult(unsignedField(i))}
    [] i.c \in Ints -> {IntResult(toUint(signedField(i), 8))}
    [] IsFloatItem(i) -> floatToInt(i.f, 0, MaxUint(8))
    [] OTHER -> {NoResult}

(* Mutant: the sign of the narrower codes is lost.                          *)
int_NoSign(i) ==
  CASE i.c = Nil -> {IntResult(0)}
    [] IsFixedNum(i.c) -> {IntResult(int8(i.c))}
    [] i.c \in Uints \cup Ints -> {IntResult(toInt(unsignedField(i), 8))}
    [] IsFloatItem(i) -> floatToInt(i.f, MinInt(8), MaxInt(8))
    [] OTHER -> {NoResult}

(* int(c): everything as int64, nil as 0.                                   *)
int(i) ==
  CASE i.c = Nil -> {IntResult(0)}
    [] IsFixedNum(i.c) -> {IntResult(int8(i.c))}
    [] i.c \in Uints -> {IntResult(toInt(unsignedField(i), 8))}
    [] i.c \in Ints -> {IntResult(signedField(i))}
    [] IsFloatItem(i) -> floatToInt(i.f, MinInt(8), MaxInt(8))
    [] OTHER -> {NoResult}

(* float32(c) and float64(c).  A Double is not a Float: DecodeFloat32 takes *)
(* it through int64.                                                        *)
viaInt(i, p) == {IF r.ok THEN FloatResult(toFloat(r.n, p)) ELSE NoResult : r \in int(i)}
float32(i) == IF i.c = Float THEN {FloatResult(i.f)} ELSE viaInt(i, Precision32)
float64(i) == IF IsFloatItem(i) THEN {FloatResult(i.f)} ELSE viaInt(i, Precision64)

(* DecodeInt8 to DecodeUint64: the 64-bit result, narrowed.                 *)
narrowed(rs, d) ==
  {IF r.ok THEN IntResult(IF d.signed THEN toInt(r.n, d.w) ELSE toUint(r.n, d.w)) ELSE NoResult :
     r \in rs}

(* DecodeInterface gives the type of the code, DecodeInterfaceLoose int64,  *)
(* uint64 or float64.                                                       *)
DecodeInterface(i) ==
  CASE IsFixedNum(i.c) -> {IntResult(int8(i.c))}
    [] i.c \in Uints -> {IntResult(unsignedField(i))}
    [] i.c \in Ints -> {IntResult(signedField(i))}
    [] i.c = Float -> float32(i)
    [] i.c = Double -> float64(i)
DecodeInterfaceLoose(i) ==
  CASE IsFixedNum(i.c) -> {IntResult(int8(i.c))}
    [] i.c \in Uints -> uint(i)
    [] i.c \in Ints -> int(i)
    [] IsFloatItem(i) -> float64(i)

Results(i, d) ==
  CASE d.k = "int" /\ d.signed -> narrowed(int(i), d)
    [] d.k = "int" /\ ~d.signed -> narrowed(uint(i), d)
    [] d.k = "float" /\ d.w = 4 -> float32(i)
    [] d.k = "float" /\ d.w = 8 -> float64(i)
    [] d.k = "any" -> DecodeInterface(i)
    [] d.k = "loose" -> DecodeInterfaceLoose(i)

(* uint32ToInt: a length of four bytes must fit an int.                     *)
MaxInt32 == LenMod(4) \div 2 - 1
uint32ToInt(n) == IF narrowInt /\ n > MaxInt32 THEN NoResult ELSE IntResult(n)

(* The length field of w bytes after the code.                              *)
Field(i, w) == uintOf(i.b, w, LenRadix)

(* bytesLen, arrayLen, mapLen and parseExtLen: -1 for nil, the masked code, *)
(* a field, or an error for a code of another kind.                         *)
bytesLen(i) ==
  CASE i.c = Nil -> IntResult(-1)
    [] IsFixedString(i.c) -> IntResult(i.c % 32)
    [] i.c \in {Str8, Bin8} -> IntResult(Field(i, 1))
    [] i.c \in {Str16, Bin16} -> IntResult(Field(i, 2))
    [] i.c \in {Str32, Bin32} -> uint32ToInt(Field(i, 4))
    [] OTHER -> NoResult

arrayLen(i) ==
  CASE i.c = Nil -> IntResult(-1)
    [] IsFixedArray(i.c) -> IntResult(i.c % 16)
    [] i.c = Array16 -> IntResult(Field(i, 2))
    [] i.c = Array32 -> uint32ToInt(Field(i, 4))
    [] OTHER -> NoResult

mapLen(i) ==
  CASE i.c = Nil -> IntResult(-1)
    [] IsFixedMap(i.c) -> IntResult(i.c % 16)
    [] i.c = Map16 -> IntResult(Field(i, 2))
    [] i.c = Map32 -> uint32ToInt(Field(i, 4))
    [] OTHER -> NoResult

parseExtLen(i) ==
  CASE i.c = FixExt1 -> IntResult(1)
    [] i.c = FixExt2 -> IntResult(2)
    [] i.c = FixExt4 -> IntResult(4)
    [] i.c = FixExt8 -> IntResult(8)
    [] i.c = FixExt16 -> IntResult(16)
    [] i.c = Ext8 -> IntResult(Field(i, 1))
    [] i.c = Ext16 -> IntResult(Field(i, 2))
    [] i.c = Ext32 -> uint32ToInt(Field(i, 4))
    [] OTHER -> NoResult

Readers == {"bytes", "array", "map", "ext"}
DecodeLen(reader, i) ==
  CASE reader = "bytes" -> bytesLen(i)
    [] reader = "array" -> arrayLen(i)
    [] reader = "map" -> mapLen(i)
    [] reader = "ext" -> parseExtLen(i)

-----------------------------------------------------------------------------
(***************************************************************************)
(* A value is encoded, then decoded                                        *)
(***************************************************************************)
IntTypes == [k : {"int"}, signed : BOOLEAN, w : {1, 2, 4, 8}, any : {FALSE}]
              \cup [k : {"int"}, signed : BOOLEAN, w : {8}, any : {TRUE}]
FloatTypes == [k : {"float"}, w : {4, 8}]
Precision(t) == IF t.w = 4 THEN Precision32 ELSE Precision64
LenKinds == {"str", "bin", "array", "map", "ext"}

Holds(t, n) ==
  IF t.signed THEN n \in MinInt(t.w) .. MaxInt(t.w) ELSE n \in 0 .. MaxUint(t.w)
IntSources == [t : IntTypes, n : Integers64]
FloatSources == [t : FloatTypes, f : [k : {"finite"}, h : Halves] \cup Specials]
LenSources == [t : [k : {"len"}], kind : LenKinds, n : Lengths]
NilSource == [t |-> [k |-> "nil"]]
Sources ==
  {s \in IntSources : Holds(s.t, s.n)}
    \cup {s \in FloatSources : IsFloat(s.f.h, Precision(s.t))}
    \cup LenSources \cup {NilSource}

(* A Go type, an interface{} for DecodeInterface or one for                 *)
(* DecodeInterfaceLoose is decoded into.                                    *)
ASSUME DestsAssumption ==
  Dests \subseteq IntTypes \cup FloatTypes \cup [k : {"any", "loose"}]

(* The bounds of the range checks as float64: -2^63 and 0 are floats,       *)
(* 2^63 - 1 and 2^64 - 1 become the number above them.                      *)
ASSUME BoundsAssumption ==
  /\ Round(MinInt(8), Precision64) = MinInt(8) /\ Round(0, Precision64) = 0
  /\ Round(MaxInt(8), Precision64) = MaxInt(8) + 1
  /\ Round(MaxUint(8), Precision64) = MaxUint(8) + 1

Init ==
  /\ compactInts \in BOOLEAN /\ compactFloats \in BOOLEAN /\ narrowInt \in BOOLEAN
  /\ src \in Sources
  /\ item = None /\ out = NoResult
  /\ dest = "none"
  /\ pc = "encode"

IsNumber(s) == s.t.k \in {"int", "float"}

Encode(items) ==
  /\ pc = "encode"
  /\ item' \in items
  /\ pc' = "decode"
  /\ UNCHANGED <<compactInts, compactFloats, narrowInt, src, dest, out>>

EncodeNumber ==
  /\ IsNumber(src)
  /\ Encode(CASE src.t.k = "int" -> {encodeCond(src.t, src.n)}
              [] src.t.k = "float" /\ src.t.w = 4 -> EncodeFloat(src.f, Precision32, Float)
              [] src.t.k = "float" /\ src.t.w = 8 -> EncodeFloat(src.f, Precision64, Double))

EncodeLength == src.t.k = "len" /\ Encode({EncodeLen(src.kind, src.n)})

EncodeNothing == src.t.k = "nil" /\ Encode({EncodeNil})

Decode(d, results) ==
  /\ pc = "decode"
  /\ dest' = d
  /\ out' \in results
  /\ pc' = "done"
  /\ UNCHANGED <<compactInts, compactFloats, narrowInt, src, item>>

(* DecodeInterface of nil or a header gives something other than a number,  *)
(* which is not this module's subject.                                      *)
DecodeNumber(d) ==
  /\ IsNumber(src) \/ d.k \in {"int", "float"}
  /\ Decode(d, Results(item, d))

(* Any code may stand where a length is expected.                           *)
DecodeLength(reader) == Decode([k |-> "len", reader |-> reader], {DecodeLen(reader, item)})

Next ==
  \/ EncodeNumber \/ EncodeLength \/ EncodeNothing
  \/ \E d \in Dests : DecodeNumber(d)
  \/ \E reader \in Readers : DecodeLength(reader)

Spec == Init /\ [][Next]_vars
-----------------------------------------------------------------------------
(***************************************************************************)
(* Properties                                                              *)
(***************************************************************************)
Decoded(kind) == pc = "done" /\ src.t.k = kind

(* An integer that the destination's type can hold arrives unchanged,       *)
(* whatever type it was encoded from, signed or not, compact or not, and    *)
(* also through DecodeInterface and DecodeInterfaceLoose.                   *)
IntRoundTrip ==
  Decoded("int") /\ (dest.k \in {"any", "loose"} \/ (dest.k = "int" /\ Holds(dest, src.n))) =>
    out.ok /\ out.n = src.n

(* A float decodes to an equal float (and NaN to NaN): compact encoding may *)
(* send an integer instead, but only one that converts back, whatever the   *)
(* platform makes of a conversion that does not fit.                        *)
FloatRoundTrip ==
  Decoded("float") /\ dest = src.t =>
    out.ok /\ (FloatSame(out.f, src.f) \/ (src.f.k = "NaN" /\ out.f.k = "NaN"))

(* A float is accepted for an integer only if it is that integer.           *)
FloatIntoInt ==
  Decoded("float") /\ dest.k = "int" /\ out.ok /\ IsFloatItem(item) =>
    2 * out.n = src.f.h

(* A float strictly inside the 64-bit range is accepted for a 64-bit        *)
(* integer exactly when it is an integer, and is then that integer.         *)
Inside(f, t) ==
  IF t.signed THEN f.h > 2 * MinInt(8) /\ f.h < 2 * Round(MaxInt(8), Precision64)
  ELSE f.h >= 0 /\ f.h < 2 * Round(MaxUint(8), Precision64)
FloatInsideRange ==
  Decoded("float") /\ dest.k = "int" /\ dest.w = 8 /\ IsFloatItem(item) =>
    IF src.f.k \in {"finite", "-0"} /\ src.f.h % 2 = 0
    THEN Inside(src.f, dest) => out.ok /\ 2 * out.n = src.f.h
    ELSE ~out.ok

(* A length up to MaxUint32 is read by the reader of its kind and by no     *)
(* other, whether it is in the code or in a field of any width: unchanged   *)
(* if it fits the reader's int, else as an error.  Where a number is read a *)
(* header is an error, and a number is one where a length is read.  Nil is  *)
(* a length of -1 for all but an extension.                                 *)
ReaderOf(kind) == IF kind \in {"str", "bin"} THEN "bytes" ELSE kind
LengthOf(kind) == [k |-> "len", reader |-> ReaderOf(kind)]
IntHolds(n) == narrowInt => n <= MaxInt32
LenRoundTrip ==
  /\ Decoded("len") /\ src.n < LenMod(4) =>
       out = IF dest = LengthOf(src.kind) /\ IntHolds(src.n) THEN IntResult(src.n) ELSE NoResult
  /\ Decoded("nil") /\ dest.k = "len" =>
       out = IF dest.reader = "ext" THEN NoResult ELSE IntResult(-1)
  /\ pc = "done" /\ IsNumber(src) /\ dest.k = "len" => ~out.ok
=============================================================================
