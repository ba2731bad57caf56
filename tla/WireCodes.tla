----------------------------- MODULE WireCodes -----------------------------
(***************************************************************************)
(* The MessagePack codes of src/pkg/msgpack/msgpcode/msgpcode.go and the   *)
(* predicates on them, plus the two classifications every reader of the    *)
(* wire format needs: how wide the length field after a code is, and how   *)
(* many payload bytes a code without a length field is followed by.        *)
(***************************************************************************)
EXTENDS Integers

Byte == 0 .. 255

FixedMapLow == 128
FixedArrayLow == 144
FixedStrLow == 160
Nil == 192
False == 194
True == 195
Bin8 == 196
Bin16 == 197
Bin32 == 198
Ext8 == 199
Ext16 == 200
Ext32 == 201
Float == 202
Double == 203
Uint8 == 204
Uint16 == 205
Uint32 == 206
Uint64 == 207
Int8 == 208
Int16 == 209
Int32 == 210
Int64 == 211
FixExt1 == 212
FixExt2 == 213
FixExt4 == 214
FixExt8 == 215
FixExt16 == 216
Str8 == 217
Str16 == 218
Str32 == 219
Array16 == 220
Array32 == 221
Map16 == 222
Map32 == 223

Bins == 196 .. 198        \* Bin8, Bin16, Bin32
Exts == 199 .. 201        \* Ext8, Ext16, Ext32
Uints == 204 .. 207       \* Uint8 .. Uint64
Ints == 208 .. 211        \* Int8 .. Int64
FixExts == 212 .. 216     \* FixExt1 .. FixExt16
Strs == 217 .. 219        \* Str8, Str16, Str32

IsFixedNum(c) == c <= 127 \/ c >= 224
IsFixedMap(c) == c \in 128 .. 143
IsFixedArray(c) == c \in 144 .. 159
IsFixedString(c) == c \in 160 .. 191
IsString(c) == IsFixedString(c) \/ c \in Strs
IsExt(c) == c \in FixExts \/ c \in Exts
IsMap(c) == IsFixedMap(c) \/ c \in {Map16, Map32}
IsArray(c) == IsFixedArray(c) \/ c \in {Array16, Array32}
IsBytes(c) == IsString(c) \/ c \in Bins

(* Width in bytes of the length that follows a code; 0 when the code itself *)
(* carries the length.                                                      *)
LenWidth(c) ==
  CASE c \in {196, 199, 217} -> 1
    [] c \in {197, 200, 218, Array16, Map16} -> 2
    [] c \in {198, 201, 219, Array32, Map32} -> 4
    [] OTHER -> 0

(* The length a code carries in its low bits (the Fixed*Mask constants) or, *)
(* for a fixext code, stands for.                                           *)
CodeLen(c) ==
  CASE IsFixedMap(c) -> c - 128
    [] IsFixedArray(c) -> c - 144
    [] IsFixedString(c) -> c - 160
    [] c = 212 -> 1
    [] c = 213 -> 2
    [] c = 214 -> 4
    [] c = 215 -> 8
    [] c = 216 -> 16
    [] OTHER -> 0

IsScalar(c) ==
  IsFixedNum(c) \/ c \in {Nil, False, True, Float, Double} \/ c \in Uints \/ c \in Ints

(* Payload size of a code of fixed size.                                    *)
FixedSize(c) ==
  CASE c \in {204, 208} -> 1
    [] c \in {205, 209} -> 2
    [] c \in {206, 210, Float} -> 4
    [] c \in {207, 211, Double} -> 8
    [] OTHER -> 0
=============================================================================
