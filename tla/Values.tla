------------------------------- MODULE Values -------------------------------
(***************************************************************************)
(* Typed values (src/pkg/msgpack: decode_value.go, decode_slice.go,        *)
(* decode_map.go, encode_value.go, encode_slice.go, encode_map.go): what   *)
(* decoding message after message into one destination leaves in it.       *)
(* Slices keep elements beyond their length, maps their entries, pointers  *)
(* and interfaces what they point to, and a message that fails leaves the  *)
(* destination half written.                                               *)
(*                                                                         *)
(* A type has a kind, element types and, for a struct, the omitempty tag;  *)
(* a value a kind, a scalar, elements and map entries; and a message is a  *)
(* tree.  A message claims x elements and has those in e: fewer if it was  *)
(* cut off.                                                                *)
(***************************************************************************)
EXTENDS Integers, Sequences, FiniteSets, SequencesExt

CONSTANTS
  Setups,      \* types of the destination, with the options of both sides
  Sendable(_), \* values of a type that are encoded
  Start(_),    \* what a destination of a type holds before the first message
  Foreign(_),  \* messages from other programs for a type
  Orders,      \* the orders in which a map may be iterated: sequences of keys
  AllocLimit,  \* sliceAllocLimit
  ArrayLen,    \* length of arrays
  MaxMessages  \* bound: messages

VARIABLES
  setup,  \* [typ, sorted, omitEmpty, noLimit, mapDecoder, maxDepth], fixed
  dst,    \* the destination
  sent,   \* the value that was encoded, <<>> for a foreign message
  wire,   \* the message
  last,   \* the encoding before: [sent, wire]
  old,    \* the destination before the last message
  count,  \* messages
  st      \* "idle", "wire", "ok", "error", "panic"

vars == <<setup, dst, sent, wire, last, old, count, st>>

-----------------------------------------------------------------------------
(***************************************************************************)
(* Types, values and messages                                              *)
(***************************************************************************)
Type(k, e) == [k |-> k, e |-> e, omit |-> FALSE]
IntT == Type("int", <<>>)
StrT == Type("str", <<>>)
BinT == Type("bin", <<>>)
AnyT == Type("iface", <<>>)
Strings == Type("strings", <<StrT>>)
StringMap == Type("strmap", <<StrT, StrT>>)
AnyMap == Type("anymap", <<StrT, AnyT>>)
Slice(t) == Type("slice", <<t>>)
Array(t) == Type("array", <<t>>)
Ptr(t) == Type("ptr", <<t>>)
Map(k, t) == Type("map", <<k, t>>)
Struct(ts) == Type("struct", ts)
(* A struct all of whose fields are tagged omitempty.                       *)
OmitStruct(ts) == [Struct(ts) EXCEPT !.omit = TRUE]
(* type Node struct { Next *Node }                                          *)
Node == Type("node", <<>>)
Resolve(t) == IF t = Node THEN Struct(<<Ptr(Node)>>) ELSE t

Empty == [k \in {} |-> 0]
Value(k, x, e, m, t) == [k |-> k, x |-> x, e |-> e, m |-> m, t |-> t]
Scalar(k, x) == Value(k, x, <<>>, Empty, <<>>)
NilV == Scalar("nil", 0)
Seqv(k, len, e) == Value(k, len, e, Empty, <<>>)
SliceV(len, e) == Seqv("slice", len, e)
MapV(m) == Value("map", 0, <<>>, m, <<>>)
PtrV(v) == Seqv("ptr", 0, <<v>>)
IfaceV(t, v) == Value("iface", 0, <<v>>, Empty, t)

RECURSIVE Zero(_)
Zero(t) ==
  CASE Resolve(t).k = "struct" -> Seqv("struct", 0, [i \in 1 .. Len(Resolve(t).e) |-> Zero(Resolve(t).e[i])])
    [] t.k = "array" -> Seqv("array", ArrayLen, [i \in 1 .. ArrayLen |-> Zero(t.e[1])])
    [] t.k \in {"int", "str", "bin"} -> Scalar(t.k, 0)
    [] OTHER -> NilV
Zeros(t, n) == [i \in 1 .. n |-> Zero(t)]

Wire(k, x, e) == [k |-> k, x |-> x, e |-> e]
NilW == Wire("nil", 0, <<>>)
(* What a read past the end of a message finds.                             *)
EOF == Wire("eof", 0, <<>>)
At(w, i) == IF i <= Len(w.e) THEN w.e[i] ELSE EOF

-----------------------------------------------------------------------------
(***************************************************************************)
(* Encoder                                                                 *)
(***************************************************************************)
(* Mutant: the flag is not tested for map[string]any.                       *)
KeyOrder_AnyUnsorted(t, m, order) ==
  IF setup.sorted /\ t.k = "strmap"
  THEN SortSeq(SetToSeq(DOMAIN m), LAMBDA a, b : a.x < b.x)
  ELSE SelectSeq(order, LAMBDA k : k \in DOMAIN m)

(* The order of a map's keys: sorted, if the flag is set, for the types     *)
(* with an encoder of their own (map[string]bool is like "strmap").         *)
KeyOrder(t, m, order) ==
  IF setup.sorted /\ t.k \in {"strmap", "anymap"}
  THEN SortSeq(SetToSeq(DOMAIN m), LAMBDA a, b : a.x < b.x)
  ELSE SelectSeq(order, LAMBDA k : k \in DOMAIN m)

(* A map on the wire: key, value, key, value.                               *)
Pairs(pairs) ==
  Wire("map", Len(pairs),
       [j \in 1 .. 2 * Len(pairs) |-> pairs[(j + 1) \div 2][IF j % 2 = 1 THEN 1 ELSE 2]])

(* isEmptyValue, and OmitEmpty: the numbers of the fields that are encoded. *)
RECURSIVE isEmptyValue(_, _), OmitEmpty(_, _)
isEmptyValue(t, v) ==
  CASE v.k = "nil" -> TRUE
    [] v.k = "iface" -> isEmptyValue(v.t, v.e[1])
    [] v.k \in {"int", "str", "bin", "slice", "array"} -> v.x = 0
    [] v.k = "map" -> DOMAIN v.m = {}
    [] v.k = "struct" -> OmitEmpty(Resolve(t), v) = <<>>
    [] v.k = "ptr" -> FALSE
OmitEmpty(t, v) ==
  SelectSeq([i \in 1 .. Len(t.e) |-> i],
            LAMBDA i : ~((t.omit \/ setup.omitEmpty) /\ isEmptyValue(t.e[i], v.e[i])))

(* EncodeValue.  A struct is a map from the numbers of its fields.          *)
RECURSIVE EncodeValue(_, _, _)
EncodeValue(t, v, order) ==
  LET elem(i) == EncodeValue(Resolve(t).e[1], v.e[i], order)
      field(i) == EncodeValue(Resolve(t).e[i], v.e[i], order)
      kept == OmitEmpty(Resolve(t), v)
      keys == KeyOrder(t, v.m, order)
  IN CASE v.k = "nil" -> NilW
       [] v.k \in {"int", "str", "bin"} -> Wire(v.k, v.x, <<>>)
       [] v.k = "slice" -> Wire("array", v.x, [i \in 1 .. v.x |-> elem(i)])
       [] v.k = "array" -> Wire("array", ArrayLen, [i \in 1 .. ArrayLen |-> elem(i)])
       [] v.k = "ptr" -> elem(1)
       [] v.k = "iface" -> EncodeValue(v.t, v.e[1], order)
       [] v.k = "struct" -> Pairs([i \in 1 .. Len(kept) |-> <<Wire("str", kept[i], <<>>), field(kept[i])>>])
       [] v.k = "map" ->
            Pairs([i \in 1 .. Len(keys) |-> <<EncodeValue(t.e[1], keys[i], order),
                                              EncodeValue(t.e[2], v.m[keys[i]], order)>>])

Encode(v, order) ==
  /\ st \in {"idle", "ok", "error"} /\ count < MaxMessages
  /\ sent' = v /\ wire' = EncodeValue(setup.typ, v, order)
  /\ last' = [sent |-> sent, wire |-> wire]
  /\ old' = dst /\ count' = count + 1 /\ st' = "wire"
  /\ UNCHANGED <<setup, dst>>

-----------------------------------------------------------------------------
(***************************************************************************)
(* Messages that do not come from this encoder, or not whole               *)
(***************************************************************************)
RECURSIVE Cuts(_)
Cuts(w) ==
  {[w EXCEPT !.e = SubSeq(@, 1, n)] : n \in 0 .. (Len(w.e) - 1)}
  \cup (IF w.e = <<>> THEN {} ELSE {[w EXCEPT !.e[Len(w.e)] = c] : c \in Cuts(Last(w.e))})

Cut ==
  /\ st = "wire" /\ sent # <<>>
  /\ wire' \in Cuts(wire)
  /\ sent' = <<>>
  /\ UNCHANGED <<setup, dst, last, old, count, st>>

Receive(w) ==
  /\ st \in {"idle", "ok", "error"} /\ count < MaxMessages
  /\ sent' = <<>> /\ wire' = w
  /\ last' = [sent |-> sent, wire |-> wire]
  /\ old' = dst /\ count' = count + 1 /\ st' = "wire"
  /\ UNCHANGED <<setup, dst>>

-----------------------------------------------------------------------------
(***************************************************************************)
(* Decoder.  A result is a status and the value afterwards; d is d.depth,  *)
(* set says that the value is addressable.                                 *)
(***************************************************************************)
Result(s, v) == [st |-> s, v |-> v]
Ok(v) == Result("ok", v)
Err(v) == Result("error", v)
Panic(v) == Result("panic", v)
Assigned(v, was, set) == IF set THEN Ok(v) ELSE Panic(was)

(* Mutant: the level is compared before it is counted.                      *)
enterDepthFails_OneMore(d) == d > setup.maxDepth

enterDepthFails(d) == d + 1 > setup.maxDepth
IsLen(w, k) == w.k \in {k, "nil"}

(* DecodeString, and the other scalars: nil is zero, and bin is a string.   *)
Accepts(k, w) == w.k \in {k, "nil"} \/ (k = "str" /\ w.k = "bin")

scalar(k, w, was, set) == IF Accepts(k, w) THEN Assigned(Scalar(k, w.x), was, set) ELSE Err(was)

(* Skip: the whole message must be there, and its levels be allowed.        *)
RECURSIVE Nest(_), Whole(_)
Nest(w) == 1 + Max({Nest(w.e[i]) : i \in 1 .. Len(w.e)} \cup {0})
Whole(w) ==
  /\ w # EOF
  /\ Len(w.e) = CASE w.k = "array" -> w.x [] w.k = "map" -> 2 * w.x [] OTHER -> 0
  /\ \A i \in 1 .. Len(w.e) : Whole(w.e[i])
Skips(w, d) == Whole(w) /\ d + Nest(w) <= setup.maxDepth

(* Comparable of the dynamic type of a key.                                 *)
Comparable(t) == t.k \in {"int", "str", "ptr"}

(* Mutant: whatever can be decoded is used as a key.                        *)
anyKey_NoCheck(r) ==
  IF r.v.k # "iface" THEN r
  ELSE IF r.v.t = BinT THEN Ok(IfaceV(StrT, Scalar("str", r.v.e[1].x)))
  ELSE IF Comparable(r.v.t) THEN r ELSE Panic(r.v)

(* A key that was decoded as an interface: bin becomes a string, and what   *)
(* cannot be hashed is an error.                                            *)
anyKey(r) ==
  IF r.v.k # "iface" THEN r
  ELSE IF r.v.t = BinT THEN Ok(IfaceV(StrT, Scalar("str", r.v.e[1].x)))
  ELSE IF Comparable(r.v.t) THEN r ELSE Err(r.v)

(* Mutant: a longer slice is not cut.                                        *)
cutTo_NoCut(n, v) == IF v.x > n THEN v.x ELSE IF Len(v.e) >= n THEN n ELSE Len(v.e)

(* decodeSliceValue before its loop: the length that v is cut or extended   *)
(* to, within its capacity.                                                 *)
cutTo(n, v) == IF Len(v.e) >= n THEN n ELSE Len(v.e)

(* Mutant: all elements that are claimed are made at once.                  *)
growSliceValue_Whole(t, len, n) == Zeros(t, n - len)

growSliceValue(t, len, n) ==
  Zeros(t, IF ~setup.noLimit /\ n - len > AllocLimit THEN AllocLimit ELSE n - len)

(* A call in progress: of a decoder, or of a loop that is at element i.      *)
Call(op, t, w, v, i, d, set) ==
  [op |-> op, t |-> t, w |-> w, v |-> v, i |-> i, d |-> d, set |-> set]
RECURSIVE run(_)

(* The decoder of type t (getDecoder), and decodeInterfaceCond.             *)
decode(t, w, v, d, set) == run(Call(Resolve(t).k, Resolve(t), w, v, 1, d, set))
Interface(w, d) == run(Call("any", AnyT, w, NilV, 1, d, TRUE))

DecodeValue(t, w, v, d, set) ==
  IF enterDepthFails(d) THEN Err(v) ELSE decode(t, w, v, d + 1, set)

(* A loop goes on with what it has so far, or ends.                         *)
Onward(c, r, v) == IF r.st = "ok" THEN run([c EXCEPT !.i = @ + 1, !.v = v]) ELSE Result(r.st, v)

(* The loop of decodeSliceValue and decodeArrayValue.  The elements of a    *)
(* slice are addressable, those of an array if the array is.                *)
elements(c) ==
  LET t == c.t.e[1]
      more == growSliceValue(t, c.v.x, c.w.x)
      r == DecodeValue(t, At(c.w, c.i), c.v.e[c.i], c.d, c.v.k = "slice" \/ c.set)
  IN IF c.i > c.w.x THEN Ok(c.v)
     ELSE IF c.i > c.v.x THEN run([c EXCEPT !.v = Seqv(@.k, @.x + Len(more), @.e \o more)])
     ELSE Onward(c, r, [c.v EXCEPT !.e[c.i] = r.v])

(* decodeTypedMapValue, whose parts are guarded, and the loops of           *)
(* decodeMapStringStringPtr, DecodeMap and DecodeUntypedMap.                *)
pairs(c) ==
  LET part(j) == LET w == At(c.w, 2 * (c.i - 1) + j)
                     t == c.t.e[j]
                 IN IF c.op = "typed pairs" THEN DecodeValue(t, w, Zero(t), c.d, TRUE)
                    ELSE decode(t, w, Zero(t), c.d, TRUE)
      k0 == part(1)
      k == IF k0.st = "ok" THEN anyKey(k0) ELSE k0
      r == part(2)
  IN IF c.i > c.w.x THEN Ok(c.v)
     ELSE IF k.st # "ok" THEN Result(k.st, c.v)
     ELSE IF r.st # "ok" THEN Result(r.st, c.v)
     ELSE Onward(c, r, MapV([x \in DOMAIN c.v.m \cup {k.v} |-> IF x = k.v THEN r.v ELSE c.v.m[x]]))

(* decodeStruct: unknown fields are skipped, known ones decoded without     *)
(* entering a level.                                                        *)
fields(c) ==
  LET name == At(c.w, 2 * c.i - 1)
      w == At(c.w, 2 * c.i)
      r == decode(c.t.e[name.x], w, c.v.e[name.x], c.d, c.set)
  IN IF c.i > c.w.x THEN Ok(c.v)
     ELSE IF ~Accepts("str", name) THEN Err(c.v)
     ELSE IF name.x \notin 1 .. Len(c.t.e) THEN Onward(c, IF Skips(w, c.d) THEN Ok(c.v) ELSE Err(c.v), c.v)
     ELSE Onward(c, r, [c.v EXCEPT !.e[name.x] = r.v])

(* The loop of decodeSlice.                                                 *)
interfaces(c) ==
  LET r == Interface(At(c.w, c.i), c.d)
  IN IF c.i > c.w.x THEN Ok(c.v) ELSE Onward(c, r, SliceV(c.i, Append(c.v.e, r.v)))

(* DecodeTypedMap.  reflect.TypeOf(nil) is a nil Type.                      *)
typedMap(w, d) ==
  LET k == Interface(At(w, 1), d)
      v == Interface(At(w, 2), d)
      t == Map(k.v.t, v.v.t)
      rest == Wire("map", w.x - 1, SubSeq(w.e, 3, Len(w.e)))
      r == run(Call("typed pairs", t, rest, MapV(k.v.e[1] :> v.v.e[1]), 1, d, TRUE))
  IN IF w.x = 0 THEN Ok(NilV)
     ELSE IF k.st # "ok" THEN k
     ELSE IF v.st # "ok" THEN v
     ELSE IF k.v = NilV THEN Panic(NilV)
     ELSE IF ~Comparable(k.v.t) THEN Err(NilV)
     ELSE IF v.v = NilV THEN Panic(NilV)
     ELSE IF r.st = "ok" THEN Ok(IfaceV(t, r.v)) ELSE Result(r.st, NilV)

(* DecodeInterface, after decodeInterfaceCond has entered a level.          *)
interface(w, d) ==
  LET mt == IF setup.mapDecoder = "untyped" THEN Map(AnyT, AnyT) ELSE AnyMap
      t == IF w.k = "array" THEN Slice(AnyT) ELSE mt
      r == IF w.k = "array" THEN run(Call("interfaces", t, w, SliceV(0, <<>>), 1, d, TRUE))
           ELSE run(Call("pairs", t, w, MapV(Empty), 1, d, TRUE))
  IN CASE w = EOF -> Err(NilV)
       [] w.k = "nil" -> Ok(NilV)
       [] w.k \in {"int", "str", "bin"} -> Ok(IfaceV(Type(w.k, <<>>), Scalar(w.k, w.x)))
       [] w.k = "map" /\ setup.mapDecoder = "typed" -> typedMap(w, d)
       [] OTHER -> IF r.st = "ok" THEN Ok(IfaceV(t, r.v)) ELSE Result(r.st, NilV)

(* ptrValueDecoder.                                                         *)
pointer(c) ==
  LET r == decode(c.t.e[1], c.w, IF c.v = NilV THEN Zero(c.t.e[1]) ELSE c.v.e[1], c.d, TRUE)
  IN IF c.w = NilW THEN (IF c.v = NilV THEN Ok(c.v) ELSE Assigned(NilV, c.v, c.set))
     ELSE IF c.v = NilV /\ ~c.set THEN Panic(c.v)
     ELSE Result(r.st, PtrV(r.v))

(* decodeInterfaceValue: what an interface holds is not addressable.        *)
interfaceValue(c) ==
  LET r == IF c.v = NilV THEN Interface(c.w, c.d) ELSE DecodeValue(c.v.t, c.w, c.v.e[1], c.d, FALSE)
  IN IF c.v # NilV THEN Result(r.st, IfaceV(c.v.t, r.v))
     ELSE IF r.st = "ok" THEN r ELSE Result(r.st, c.v)

Slots(v) == IF v = NilV THEN <<>> ELSE v.e
Entries(v) == IF v = NilV THEN Empty ELSE v.m

(* decodeSliceValue and decodeArrayValue before their loop.                 *)
sliceValue(c) ==
  LET was == SliceV(IF c.v = NilV THEN 0 ELSE c.v.x, Slots(c.v))
      all == growSliceValue(c.t.e[1], Len(was.e), c.w.x)
      v == IF setup.noLimit /\ c.w.x > Len(was.e) THEN SliceV(c.w.x, was.e \o all)
           ELSE SliceV(cutTo(c.w.x, was), was.e)
  IN IF ~IsLen(c.w, "array") THEN Err(c.v)
     ELSE IF ~c.set THEN Panic(c.v)
     ELSE IF c.w = NilW THEN Ok(NilV)
     ELSE run([c EXCEPT !.op = "elements", !.v = v])

arrayValue(c) ==
  IF ~IsLen(c.w, "array") \/ c.w.x > ArrayLen THEN Err(c.v)
  ELSE IF c.w = NilW THEN Ok(c.v)
  ELSE run([c EXCEPT !.op = "elements"])

(* decodeStringSlicePtr: nil changes nothing, and after an error the        *)
(* strings read are in the array that the destination shares.               *)
stringSlice(c) ==
  LET n == c.w.x
      good == CHOOSE g \in 0 .. n : /\ \A i \in 1 .. g : Accepts("str", At(c.w, i))
                                    /\ g < n => ~Accepts("str", At(c.w, g + 1))
      e == [i \in 1 .. good |-> Scalar("str", c.w.e[i].x)] \o SubSeq(Slots(c.v), good + 1, Len(Slots(c.v)))
      shared == \/ Len(Slots(c.v)) >= n
                \/ ~setup.noLimit /\ Len(Slots(c.v)) >= AllocLimit
  IN IF ~c.set THEN Panic(c.v)
     ELSE IF ~IsLen(c.w, "array") THEN Err(c.v)
     ELSE IF c.w = NilW THEN Ok(c.v)
     ELSE IF good = n THEN Ok(SliceV(n, e))
     ELSE IF c.v # NilV /\ shared THEN Err([c.v EXCEPT !.e = SubSeq(e, 1, Len(@))])
     ELSE Err(c.v)

(* decodeMapValue, decodeMapStringStringPtr, decodeMapStringInterfacePtr:   *)
(* the last makes a new map and assigns it when it is complete.             *)
mapValue(c) ==
  LET fresh == c.op = "anymap"
      r == run(Call(IF c.op = "map" THEN "typed pairs" ELSE "pairs", c.t, c.w,
                    MapV(IF fresh THEN Empty ELSE Entries(c.v)), 1, c.d, TRUE))
  IN IF c.op # "map" /\ ~c.set THEN Panic(c.v)
     ELSE IF ~IsLen(c.w, "map") THEN Err(c.v)
     ELSE IF c.w = NilW THEN Assigned(NilV, c.v, c.set)
     ELSE IF fresh /\ r.st # "ok" THEN Result(r.st, c.v)
     ELSE r

(* decodeStructValue.                                                       *)
structValue(c) ==
  LET n == c.w.x
      numbered == Pairs([i \in 1 .. n |-> <<Wire("str", i, <<>>), At(c.w, i)>>])
  IN IF c.w.k \notin {"map", "array", "nil"} THEN Err(c.v)
     ELSE IF c.w.k # "map" /\ n = 0 THEN Assigned(Zero(c.t), c.v, c.set)
     ELSE IF c.w.k = "map" THEN run([c EXCEPT !.op = "fields"])
     ELSE IF n # Len(c.t.e) THEN Err(c.v)
     ELSE run([c EXCEPT !.op = "fields", !.w = numbered])

run(c) ==
  CASE c.op \in {"int", "str", "bin"} -> scalar(c.op, c.w, c.v, c.set)
    [] c.op = "any" -> IF enterDepthFails(c.d) THEN Err(NilV) ELSE interface(c.w, c.d + 1)
    [] c.op = "interfaces" -> interfaces(c)
    [] c.op = "elements" -> elements(c)
    [] c.op \in {"typed pairs", "pairs"} -> pairs(c)
    [] c.op = "fields" -> fields(c)
    [] c.op = "ptr" -> pointer(c)
    [] c.op = "iface" -> interfaceValue(c)
    [] c.op = "slice" -> sliceValue(c)
    [] c.op = "strings" -> stringSlice(c)
    [] c.op = "array" -> arrayValue(c)
    [] c.op \in {"map", "strmap", "anymap"} -> mapValue(c)
    [] c.op = "struct" -> structValue(c)

(* Decode: scalars, []string and two types of maps have a case             *)
(* of their own, which is not guarded; a scalar is assigned even if there   *)
(* was an error; a value is only decoded into a pointer in an interface.    *)
firstCall ==
  LET t == setup.typ
      r == decode(t, wire, dst, 0, TRUE)
      p == DecodeValue(dst.t, wire, dst.e[1], 0, FALSE)
  IN CASE t.k \in {"int", "str", "bin"} -> IF r.st = "ok" THEN r ELSE Err(Zero(t))
       [] t.k \in {"strings", "strmap", "anymap"} -> r
       [] t.k = "iface" /\ dst # NilV ->
            IF dst.t.k # "ptr" THEN Err(dst) ELSE Result(p.st, IfaceV(dst.t, p.v))
       [] OTHER -> DecodeValue(t, wire, dst, 0, TRUE)

Decode ==
  /\ st = "wire"
  /\ LET r == firstCall IN dst' = r.v /\ st' = r.st
  /\ UNCHANGED <<setup, sent, wire, last, old, count>>

Init ==
  /\ setup \in Setups
  /\ dst \in Start(setup.typ)
  /\ sent = <<>> /\ wire = NilW /\ last = [sent |-> <<>>, wire |-> NilW]
  /\ old = dst /\ count = 0 /\ st = "idle"

Next ==
  \/ \E v \in Sendable(setup.typ), order \in Orders : Encode(v, order)
  \/ Cut
  \/ \E w \in Foreign(setup.typ) : Receive(w)
  \/ Decode

Spec == Init /\ [][Next]_vars

-----------------------------------------------------------------------------
(***************************************************************************)
(* Properties                                                              *)
(***************************************************************************)
Returned == st \in {"ok", "error", "panic"}
InOrder == CHOOSE o \in Orders : TRUE
SameMessage(t, v, u) == EncodeValue(t, v, InOrder) = EncodeValue(t, u, InOrder)

EncodesNil(t, v) == EncodeValue(t, v, InOrder) = NilW

(* A field may be left out if it is tagged, or the Encoder told to, and is  *)
(* no pointer and would be sent as nil, as zero or with no elements.        *)
Omittable(t, u, v) ==
  /\ t.omit \/ setup.omitEmpty
  /\ v.k # "ptr"
  /\ LET w == EncodeValue(u, v, InOrder) IN w.x = 0 /\ w.e = <<>>

Has(v, i, t) == IF i \in 1 .. Len(Slots(v)) THEN v.e[i] ELSE Zero(t)

(* The value got shows v in the place of was.  A nil []string and a field   *)
(* that was left out change nothing; a map that is decoded in place keeps   *)
(* its other entries, and its values are made anew.                         *)
RECURSIVE Shows(_, _, _, _)
Shows(t, v, got, was) ==
  LET R == Resolve(t)
      part(i, u) == Shows(u, v.e[i], got.e[i], Has(was, i, u))
      held == IF R.k = "anymap" THEN Empty ELSE Entries(was)
  IN CASE EncodesNil(t, v) -> got = IF R = Strings THEN was ELSE NilV
       [] v.k \in {"int", "str", "bin"} -> got = v
       [] v.k \in {"slice", "array"} -> /\ got.k = v.k /\ got.x = v.x
                                        /\ \A i \in 1 .. v.x : part(i, R.e[1])
       [] v.k = "ptr" -> got.k = "ptr" /\ part(1, R.e[1])
       [] v.k = "struct" ->
            \A i \in 1 .. Len(v.e) :
              part(i, R.e[i]) \/ (Omittable(R, R.e[i], v.e[i]) /\ got.e[i] = Has(was, i, R.e[i]))
       [] v.k = "iface" -> SameMessage(t, v, got)
       [] v.k = "map" ->
            /\ got.k = "map" /\ DOMAIN got.m = DOMAIN v.m \cup DOMAIN held
            /\ \A k \in DOMAIN got.m : IF k \in DOMAIN v.m THEN Shows(R.e[2], v.m[k], got.m[k], Zero(R.e[2]))
                                       ELSE got.m[k] = held[k]

(* What was encoded is what a destination holds after decoding it, whatever *)
(* earlier messages, failed ones too, left in it and behind its length; but *)
(* a field that omitempty left out of the message keeps what the destination*)
(* or the reused element had there, and nothing else does.  A fresh         *)
(* destination holds exactly what was encoded, nil and empty distinct.      *)
Overwrites ==
  Returned /\ sent # <<>> =>
    /\ st = "ok" /\ Shows(setup.typ, sent, dst, old)
    /\ old = Zero(setup.typ) => SameMessage(setup.typ, sent, dst)

(* A slice of which fewer elements came than were claimed has room for no   *)
(* more than sliceAllocLimit beyond those that came, or what it had before. *)
AllocBounded ==
  st = "error" /\ setup.typ.k = "slice" /\ ~setup.noLimit =>
    \/ Len(dst.e) <= Len(old.e)
    \/ Len(dst.e) <= Len(wire.e) + AllocLimit

(* With SetSortMapKeys, the same value of the types that it is for is       *)
(* encoded to the same bytes in whatever order its maps are iterated, the   *)
(* maps in interfaces within it too.                                        *)
Deterministic ==
  /\ setup.sorted /\ setup.typ \in {StringMap, AnyMap}
  /\ sent # <<>> /\ last.sent = sent
  => wire = last.wire

(* Types each of whose levels is entered.  The fields of a struct and what  *)
(* is in a []string, map[string]string or map[string]any are not.           *)
RECURSIVE Guarded(_)
Guarded(t) ==
  \/ t.k \in {"int", "str", "bin", "iface"}
  \/ t.k \in {"slice", "array", "map", "ptr"} /\ \A i \in 1 .. Len(t.e) : Guarded(t.e[i])

(* No message that is nested beyond the depth limit is accepted; for types  *)
(* with a level that is not entered, one beyond it.                         *)
NestingLimited ==
  st = "ok" => Nest(wire) <= setup.maxDepth + IF Guarded(setup.typ) THEN 0 ELSE 1

(* No message makes decoding panic.                                         *)
NeverPanics == st # "panic"
=============================================================================
