------------------------------ MODULE MCValues ------------------------------
(* Types with every kind of decoder; two elements, keys and scalars.  Two   *)
(* messages after one another show what the first leaves to the second.     *)
EXTENDS Values

S(x) == Scalar("str", x)
BoxedS(x) == IfaceV(StrT, S(x))
MCOrders == {<<S(1), S(2), BoxedS(1), BoxedS(2)>>, <<S(2), S(1), BoxedS(2), BoxedS(1)>>}

RECURSIVE Vals(_)
Vals(t) ==
  LET V1 == Vals(t.e[1])
      V2 == Vals(t.e[2])
      Lists(n) == UNION {[1 .. k -> V1] : k \in 0 .. n}
      Keys == {S(1), S(2)}
  IN CASE t.k = "int" -> {Scalar("int", x) : x \in 0 .. 1}
       [] t.k = "str" -> {S(x) : x \in 1 .. 2}
       [] t.k \in {"slice", "strings"} -> {NilV} \cup {SliceV(Len(e), e) : e \in Lists(2)}
       [] t.k = "array" -> {Seqv("array", ArrayLen, e) : e \in [1 .. ArrayLen -> V1]}
       [] t.k = "ptr" -> {NilV} \cup {PtrV(v) : v \in V1}
       [] t.k = "struct" /\ Len(t.e) = 1 -> {Seqv("struct", 0, <<v>>) : v \in V1}
       [] t.k = "struct" /\ Len(t.e) = 2 -> {Seqv("struct", 0, <<v, u>>) : v \in V1, u \in V2}
       [] t.k \in {"map", "strmap", "anymap"} -> {NilV} \cup {MapV(m) : m \in UNION {[ks -> V2] : ks \in SUBSET Keys}}
       [] t.k = "iface" -> {NilV, IfaceV(IntT, Scalar("int", 1)), IfaceV(Slice(AnyT), SliceV(1, <<NilV>>)),
                            IfaceV(AnyMap, MapV([k \in Keys |-> NilV]))}

MCSetup(t, sorted, noLimit, md, n) ==
  [typ |-> t, sorted |-> sorted, omitEmpty |-> FALSE, noLimit |-> noLimit, mapDecoder |-> md, maxDepth |-> n]
Nested == Slice(Slice(Slice(IntT)))
Pair == Struct(<<IntT, Ptr(IntT)>>)
(* Elements that are tagged omitempty, and a struct for SetOmitEmpty.        *)
OmitPairs == Slice(OmitStruct(<<IntT, Ptr(IntT)>>))
Record == Struct(<<Strings, Struct(<<IntT>>)>>)
(* Interfaces that hold a pointer from the start, and that are sent a nil    *)
(* only by leaving it out: an explicit nil panics (see MCSetups_Iface).      *)
Held == Slice(OmitStruct(<<AnyT>>))
(* What DecodeTypedMap reads, without nil (see MCSetups_TypedMap); it reads  *)
(* an empty map as nil.                                                     *)
Typed == Map(StrT, AnyT)
MCSetups ==
  {MCSetup(t, FALSE, b, "default", 3) : t \in {Slice(Pair), Slice(Strings)}, b \in BOOLEAN}
  \cup {MCSetup(t, b, FALSE, "default", 3) : t \in {StringMap, AnyMap, Map(StrT, Ptr(IntT))}, b \in BOOLEAN}
  \cup {MCSetup(t, FALSE, FALSE, "untyped", 3) : t \in {AnyMap, Map(AnyT, IntT)}}
  \cup {MCSetup(t, FALSE, FALSE, "default", 3) : t \in {IntT, Array(Ptr(IntT)), Struct(<<Strings, Ptr(Slice(IntT))>>)}}
  \cup {MCSetup(t, FALSE, FALSE, "default", 2) : t \in {Nested, Slice(AnyT)}}
  \cup {MCSetup(t, FALSE, FALSE, "default", 3) : t \in {OmitPairs, Held}}
  \cup {[MCSetup(Record, FALSE, FALSE, "default", 3) EXCEPT !.omitEmpty = TRUE],
        MCSetup(Typed, FALSE, FALSE, "typed", 4)}

AnyInt(x) == IfaceV(IntT, Scalar("int", x))
Lists(V, n) == {SliceV(Len(e), e) : e \in UNION {[1 .. k -> V] : k \in 0 .. n}}
MCSendable(t) ==
  CASE t \in {Nested, Slice(AnyT), Map(AnyT, IntT)} -> {}
    [] t = Held -> Lists({Seqv("struct", 0, <<v>>) : v \in {NilV, AnyInt(0), AnyInt(1), AnyInt(2)}}, 2)
    [] t = Typed -> {MapV(S(1) :> IfaceV(AnyMap, MapV(m))) :
                     m \in UNION {[ks -> {AnyInt(0), AnyInt(1)}] : ks \in SUBSET {S(1), S(2)} \ {{}}}}
    [] OTHER -> Vals(t)
RECURSIVE Chain(_)
Chain(n) == Seqv("struct", 0, <<IF n = 0 THEN NilV ELSE PtrV(Chain(n - 1))>>)
MCSendable_Node(t) == {Chain(n) : n \in 0 .. 4}
MCSetups_Node == {MCSetup(Node, FALSE, FALSE, "default", n) : n \in 2 .. 3}
MCSetups_Iface == {MCSetup(t, FALSE, FALSE, "default", 5) : t \in {Slice(AnyT), Struct(<<AnyT>>)}}
MCSetups_TypedMap == {MCSetup(t, FALSE, FALSE, "typed", 5) : t \in {AnyT, Struct(<<AnyT>>)}}
MCSendable_Any(t) == Vals(t)

AnyPtr(x) == IfaceV(Ptr(IntT), PtrV(Scalar("int", x)))
MCStart(t) ==
  IF t = Held THEN {SliceV(n, [i \in 1 .. 2 |-> Seqv("struct", 0, <<AnyPtr(3)>>)]) : n \in 0 .. 2}
  ELSE {Zero(t)}

I(x) == Wire("int", x, <<>>)
A(e) == Wire("array", Len(e), e)
M(k, v) == Wire("map", 1, <<k, v>>)
Str(x) == Wire("str", x, <<>>)
MCForeign(t) ==
  IF t \in {Nested, Slice(AnyT)} THEN {A(<<I(1)>>), A(<<A(<<I(1)>>)>>), A(<<A(<<A(<<>>)>>)>>), A(<<A(<<A(<<I(1)>>)>>)>>)}
  ELSE IF t = Held THEN {A(<<M(Str(1), Str(1))>>), A(<<M(Str(1), I(1)), I(1)>>), A(<<M(Str(2), I(1))>>)}
  ELSE IF t = Typed THEN {M(Str(1), M(A(<<>>), I(1))), M(Str(1), M(Str(1), M(Str(1), I(1)))),
                          M(Str(1), Wire("map", 2, <<Str(1), I(1), I(1), Str(1)>>))}
  ELSE IF t = IntT THEN {Str(1)}
  ELSE {NilW, I(1), A(<<>>), A(<<I(1), I(1), I(1)>>), A(<<I(1), A(<<>>)>>), M(A(<<>>), I(1)), M(I(1), I(1)),
        M(Wire("bin", 1, <<>>), I(1)), M(NilW, NilW), M(Str(3), A(<<I(1)>>)), M(Str(1), M(A(<<>>), I(1)))}
=============================================================================
