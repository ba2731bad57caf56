---------------------------- MODULE StructFields ----------------------------
(***************************************************************************)
(* Structs (src/pkg/msgpack/types.go, encode_map.go, decode_map.go): which *)
(* names the fields of a struct type have on the wire, how embedded        *)
(* structs are inlined, and what a struct value encoded with these names   *)
(* looks like when it is decoded into a fresh value of the same type.      *)
(*                                                                         *)
(* A struct type is a sequence of declarations; a field is found by its    *)
(* index, the sequence of positions that leads to it through embedded      *)
(* structs.  A leaf is a field that is no struct; its value is 0 when it   *)
(* is empty.                                                               *)
(***************************************************************************)
EXTENDS Integers, FiniteSets, SequencesExt, TLC

CONSTANTS
  Embeddable,  \* declarations of the struct types that can be embedded
  Custom,      \* those of them with an encoder and decoder of their own
  StructTypes  \* the struct types encoded

Leaf == "leaf"

VARIABLES
  typ,    \* the struct type
  fs,     \* its entry in the struct cache; <<>> until it is computed
  forced, \* SetOmitEmpty
  asArray, disallowUnknown,  \* UseArrayEncodedStructs, DisallowUnknownFields
  src,    \* the value encoded
  wire,   \* the entries written and not yet decoded
  resized,  \* the array decoded is not as long as the one written
  dst,    \* the value decoded into
  pc      \* "fields", "encode", "sent", "header", "decode", "ok", "error", "panic"

options == <<typ, forced, asArray, disallowUnknown, src>>
vars == <<options, fs, wire, resized, dst, pc>>

-----------------------------------------------------------------------------
(***************************************************************************)
(* The struct cache: getFields                                             *)
(***************************************************************************)
(* Mutant: a name that is taken is taken over without a warning.            *)
Put_Silent(s, name, f) == [s EXCEPT !.map = name :> f @@ @]

(* A field that is added keeps its place in List and its name in Map, even  *)
(* if the name is taken; then a warning is logged.                          *)
Put(s, name, f) ==
  [s EXCEPT !.map = name :> f @@ @, !.warned = @ \/ name \in DOMAIN s.map]
Add(s, f) ==
  [Put(s, f.name, f) EXCEPT !.list = Append(@, f), !.hasOmitEmpty = @ \/ f.omitEmpty]

newFields == [map |-> [n \in {} |-> 0], list |-> <<>>, asArray |-> FALSE,
              hasOmitEmpty |-> FALSE, omitEmpty |-> FALSE, warned |-> FALSE]

Under(f, g) == [g EXCEPT !.index = f.index \o @]

(* Mutant: a shadowed field ends the loop instead of being passed over.     *)
inlineFields_Break(s, f, children) ==
  LET taken == {k \in 1 .. Len(children) : children[k].name \in DOMAIN s.map}
      n == IF taken = {} THEN Len(children) ELSE Min(taken) - 1
  IN FoldLeft(LAMBDA a, g : Add(a, Under(f, g)), s, SubSeq(children, 1, n))

(* inlineFields: all of the embedded type's fields but the shadowed ones.   *)
inlineFields(s, f, children) ==
  FoldLeft(LAMBDA a, g : IF g.name \in DOMAIN a.map THEN a ELSE Add(a, Under(f, g)), s, children)

(* shouldInline: a struct, or a pointer to one, with the package's own      *)
(* encoder and decoder and no field that is shadowed.                       *)
shouldInline(s, d, children) ==
  /\ d.typ # Leaf /\ d.typ \notin Custom
  /\ \A k \in 1 .. Len(children) : children[k].name \notin DOMAIN s.map

Tagged(d, s) ==
  IF d.go = "_msgpack"
  THEN [s EXCEPT !.asArray = "as_array" \in d.opts, !.omitEmpty = @ \/ "omitempty" \in d.opts]
  ELSE s

(* The field made of a declaration, at position i.                          *)
FieldOf(d, i, s) ==
  [name |-> IF d.tag = "" THEN d.go ELSE d.tag, index |-> <<i>>, typ |-> d.typ, ptr |-> d.ptr,
   omitEmpty |-> s.omitEmpty \/ "omitempty" \in d.opts]

(* One declaration, given the fields of the type it may embed.              *)
Declare(s, d, f, children) ==
  CASE d.tag = "-" -> s
    [] d.tag # "-" /\ ~d.exported /\ ~d.anonymous -> s
    [] d.tag # "-" /\ d.anonymous /\ "inline" \in d.opts ->
         Put(inlineFields(s, f, children), f.name, f)
    [] d.tag # "-" /\ d.anonymous /\ "inline" \notin d.opts /\ "noinline" \notin d.opts
         /\ shouldInline(s, d, children) ->
         Put(FoldLeft(LAMBDA a, g : Add(a, Under(f, g)), s, children), f.name, f)
    [] OTHER -> IF d.alias = "" THEN Add(s, f) ELSE Put(Add(s, f), d.alias, f)

RECURSIVE getFields(_)
getFields(decls) ==
  LET visit(s, i) ==
        LET d == decls[i]
            t == IF d.tag = "-" THEN s ELSE Tagged(d, s)
            children == IF d.typ = Leaf THEN <<>> ELSE getFields(Embeddable[d.typ]).list
        IN Declare(t, d, FieldOf(d, i, t), children)
  IN FoldLeft(visit, newFields, [i \in 1 .. Len(decls) |-> i])

-----------------------------------------------------------------------------
(***************************************************************************)
(* Values                                                                  *)
(***************************************************************************)
(* The indexes of a type's leaves and of its embedded pointers.             *)
RECURSIVE Leaves(_)
Leaves(decls) ==
  UNION {IF decls[i].typ = Leaf THEN {<<i>>}
         ELSE {<<i>> \o p : p \in Leaves(Embeddable[decls[i].typ])} : i \in 1 .. Len(decls)}
RECURSIVE Pointers(_)
Pointers(decls) ==
  UNION {(IF decls[i].ptr THEN {<<i>>} ELSE {})
           \cup (IF decls[i].typ = Leaf THEN {}
                 ELSE {<<i>> \o p : p \in Pointers(Embeddable[decls[i].typ])}) : i \in 1 .. Len(decls)}

(* Declaration at an index.                                                 *)
RECURSIVE DeclAt(_, _)
DeclAt(decls, p) ==
  IF Len(p) = 1 THEN decls[p[1]] ELSE DeclAt(Embeddable[decls[p[1]].typ], Tail(p))

IsUnder(p, q) == Len(p) < Len(q) /\ SubSeq(q, 1, Len(p)) = p
(* A value: the leaves, all 0 under a nil pointer, and the nil pointers.    *)
ValuesOf(decls) ==
  {v \in [val : [Leaves(decls) -> {0, 1}], nils : SUBSET Pointers(decls)] :
     /\ \A n \in v.nils, p \in Leaves(decls) : IsUnder(n, p) => v.val[p] = 0
     /\ \A n \in v.nils, m \in Pointers(decls) : IsUnder(n, m) => m \in v.nils}
Zero(decls) == [val |-> [p \in Leaves(decls) |-> 0], nils |-> Pointers(decls)]

(* fieldByIndex fails on a nil pointer above the field.                     *)
Found(v, p) == \A n \in v.nils : ~IsUnder(n, p)

(* isEmptyValue: a leaf at its zero, a nil pointer, a struct all of whose   *)
(* fields are omitted.                                                      *)
RECURSIVE isEmptyValue(_, _, _)
isEmptyValue(v, f, t) ==
  CASE f.typ = Leaf -> v.val[t \o f.index] = 0
    [] f.typ # Leaf /\ f.ptr -> t \o f.index \in v.nils
    [] f.typ # Leaf /\ ~f.ptr ->
         LET inner == getFields(Embeddable[f.typ])
         IN /\ inner.hasOmitEmpty \/ forced \/ inner.list = <<>>
            /\ \A k \in 1 .. Len(inner.list) :
                 LET g == inner.list[k]
                 IN \/ ~Found(v, t \o f.index \o g.index)
                    \/ ((g.omitEmpty \/ forced) /\ isEmptyValue(v, g, t \o f.index))

Omit(v, f, t) ==
  ~Found(v, t \o f.index) \/ ((f.omitEmpty \/ forced) /\ isEmptyValue(v, f, t))

(* The fields written for the struct at t, whose cache entry is s: all of   *)
(* List in an array, otherwise those that OmitEmpty leaves.                 *)
Positional(s) == asArray \/ s.asArray
WrittenFields(s, v, t) ==
  IF Positional(s) \/ ~(s.hasOmitEmpty \/ forced) THEN s.list
  ELSE SelectSeq(s.list, LAMBDA f : ~Omit(v, f, t))

(* Their indexes, and those of the fields of the structs among them.        *)
RECURSIVE Written(_, _, _)
Written(s, v, t) ==
  UNION {{t \o f.index} \cup
           (IF f.typ = Leaf \/ t \o f.index \in v.nils \/ ~Found(v, t \o f.index) THEN {}
            ELSE Written(getFields(Embeddable[f.typ]), v, t \o f.index)) :
         f \in ToSet(WrittenFields(s, v, t))}

(* isEmptyValue asks for v.Interface(), which panics for an embedded struct *)
(* that is not exported (and was not inlined).                              *)
RECURSIVE OmitPanics(_, _, _)
OmitPanics(s, v, t) ==
  \E f \in ToSet(s.list) :
    /\ Found(v, t \o f.index)
    /\ \/ (f.omitEmpty \/ forced) /\ ~DeclAt(typ, t \o f.index).exported
       \/ f.typ # Leaf /\ t \o f.index \notin v.nils
            /\ OmitPanics(getFields(Embeddable[f.typ]), v, t \o f.index)

-----------------------------------------------------------------------------
(***************************************************************************)
(* Encoding and decoding                                                   *)
(***************************************************************************)
(* What is written for a field: nil, or the leaves in it (a struct that was *)
(* not inlined is encoded by the same code).  The pointers in it that no    *)
(* field written is under stay nil when it is decoded.                      *)
StaysNil(v, f) ==
  LET w == IF f.typ = Leaf \/ f.index \in v.nils \/ ~Found(v, f.index) THEN {}
           ELSE Written(getFields(Embeddable[f.typ]), v, f.index)
  IN {n \in Pointers(typ) :
        /\ IsUnder(f.index, n)
        /\ \A p \in w : ~IsUnder(n, p)
        /\ n \in w => n \in v.nils}
Content(v, f) ==
  [name |-> f.name, typ |-> f.typ,
   isNil |-> ~Found(v, f.index) \/ f.index \in v.nils,
   val |-> [p \in {q \in DOMAIN v.val : q = f.index \/ IsUnder(f.index, q)} |-> v.val[p]],
   nils |-> StaysNil(v, f),
   at |-> f.index]

Fields ==
  /\ pc = "fields"
  /\ fs' = getFields(typ)
  /\ pc' = "encode"
  /\ UNCHANGED <<options, wire, resized, dst>>

encodeStructValue ==
  /\ pc = "encode"
  /\ \/ ~Positional(fs) /\ OmitPanics(fs, src, <<>>) /\ pc' = "panic" /\ wire' = wire
     \/ /\ Positional(fs) \/ ~OmitPanics(fs, src, <<>>)
        /\ LET written == WrittenFields(fs, src, <<>>)
           IN wire' = [k \in 1 .. Len(written) |-> Content(src, written[k])]
        /\ pc' = "sent"
  /\ UNCHANGED <<options, fs, resized, dst>>

(* The map may come from another version of the program instead: in another *)
(* order, with a field that is unknown here, with aliases for names, or     *)
(* with the embedded structs as values of their own; an array with one      *)
(* element more or less.                                                    *)
Unknown == [name |-> "unknown", typ |-> Leaf, isNil |-> FALSE, val |-> <<>> :> 1, nils |-> {}, at |-> <<>>]
Aliased(w) ==
  [k \in 1 .. Len(w) |->
     LET names == {n \in DOMAIN fs.map : fs.map[n].index = w[k].at /\ n # w[k].name}
     IN IF names = {} THEN w[k] ELSE [w[k] EXCEPT !.name = CHOOSE n \in names : TRUE]]
Inlined == {fs.map[n] : n \in DOMAIN fs.map} \ ToSet(fs.list)
Nested(w) ==
  SelectSeq(w, LAMBDA c : \A f \in Inlined : ~IsUnder(f.index, c.at))
    \o [k \in 1 .. Cardinality(Inlined) |-> Content(src, SetToSeq(Inlined)[k])]
Deliver ==
  /\ pc = "sent"
  /\ wire' \in IF Positional(fs) THEN {wire, Append(wire, Unknown), SubSeq(wire, 1, Len(wire) - 1)}
               ELSE {wire, Reverse(wire), <<Unknown>> \o wire, Aliased(wire), Nested(wire)}
  /\ resized' = (Positional(fs) /\ Len(wire') # Len(wire))
  /\ pc' = "header"
  /\ UNCHANGED <<options, fs, dst>>

(* fieldByIndexAlloc: nil pointers above the field are set to new structs,  *)
(* which needs the embedded type to be exported.                            *)
Above(p) == {n \in dst.nils : IsUnder(n, p)}
CanAlloc(p) == \A n \in Above(p) : DeclAt(typ, n).exported

(* The part of the destination at f takes the content c.                    *)
Moved(c, f, p) == c.at \o SubSeq(p, Len(f.index) + 1, Len(p))
NilIn(c, f) ==
  {n \in Pointers(typ) :
     IF c.isNil THEN n = f.index \/ IsUnder(f.index, n)
     ELSE IsUnder(f.index, n) /\ Moved(c, f, n) \in c.nils}
NotAt(ns, f) == {n \in ns : n # f.index /\ ~IsUnder(f.index, n)}

(* Mutant: the field is set in a new struct that no pointer is set to.      *)
NilsAfter_NoAlloc(c, f) == NotAt(dst.nils, f) \cup NilIn(c, f)

NilsAfter(c, f) == NotAt(dst.nils \ Above(f.index), f) \cup NilIn(c, f)

Assign(c, f) ==
  [val |-> [p \in DOMAIN dst.val |->
              IF ~(p = f.index \/ IsUnder(f.index, p)) THEN dst.val[p]
              ELSE IF c.isNil THEN 0 ELSE c.val[Moved(c, f, p)]],
   nils |-> NilsAfter(c, f)]

(* Setting an embedded field to nil, to a new struct or to the zero value   *)
(* needs its type to be exported, too.                                      *)
CanSet(c, f) ==
  \/ DeclAt(typ, f.index).exported
  \/ IF f.ptr THEN c.isNil <=> f.index \in dst.nils ELSE ~c.isNil

Fail(how) == pc' = how /\ UNCHANGED dst
DecodeInto(c, f) ==
  CASE ~(CanAlloc(f.index) /\ CanSet(c, f)) -> Fail("panic")
    [] CanAlloc(f.index) /\ CanSet(c, f) /\ ~c.isNil /\ c.typ # f.typ -> Fail("error")
    [] CanAlloc(f.index) /\ CanSet(c, f) /\ (c.isNil \/ c.typ = f.typ) ->
         dst' = Assign(c, f) /\ pc' = IF Len(wire) = 1 THEN "ok" ELSE "decode"

(* Mutant: an unknown name ends the loop instead of being skipped.          *)
decodeStruct_Break ==
  /\ pc = "decode" /\ ~Positional(fs) /\ wire # <<>>
  /\ wire' = Tail(wire)
  /\ IF Head(wire).name \in DOMAIN fs.map
     THEN DecodeInto(Head(wire), fs.map[Head(wire).name])
     ELSE pc' = (IF disallowUnknown THEN "error" ELSE "ok") /\ UNCHANGED dst
  /\ UNCHANGED <<options, fs, resized>>

(* decodeStruct: one entry of the map, by its name; an unknown one is       *)
(* skipped or refused.                                                      *)
decodeStruct ==
  /\ pc = "decode" /\ ~Positional(fs) /\ wire # <<>>
  /\ wire' = Tail(wire)
  /\ IF Head(wire).name \in DOMAIN fs.map
     THEN DecodeInto(Head(wire), fs.map[Head(wire).name])
     ELSE /\ pc' = IF disallowUnknown THEN "error" ELSE IF Len(wire) = 1 THEN "ok" ELSE "decode"
          /\ UNCHANGED dst
  /\ UNCHANGED <<options, fs, resized>>

(* decodeStructValue on an array: an element for each field, in order.      *)
decodeArray ==
  /\ pc = "decode" /\ Positional(fs) /\ wire # <<>>
  /\ wire' = Tail(wire)
  /\ DecodeInto(Head(wire), fs.list[Len(fs.list) - Len(wire) + 1])
  /\ UNCHANGED <<options, fs, resized>>

(* The count comes first.  An empty map changes nothing, an empty array     *)
(* sets the zero value, and another count than that of the fields is an     *)
(* error for an array.                                                      *)
decodeHeader ==
  /\ pc = "header"
  /\ dst' = IF Positional(fs) /\ wire = <<>> THEN Zero(typ) ELSE dst
  /\ pc' = CASE wire = <<>> -> "ok"
             [] wire # <<>> /\ Positional(fs) /\ Len(wire) # Len(fs.list) -> "error"
             [] OTHER -> "decode"
  /\ UNCHANGED <<options, fs, wire, resized>>

Init ==
  /\ typ \in StructTypes
  /\ fs = <<>>
  /\ forced \in BOOLEAN /\ asArray \in BOOLEAN /\ disallowUnknown \in BOOLEAN
  /\ src \in ValuesOf(typ)
  /\ wire = <<>> /\ resized = FALSE
  /\ dst = Zero(typ)
  /\ pc = "fields"

Next ==
  \/ Fields \/ encodeStructValue \/ Deliver
  \/ decodeHeader \/ decodeStruct \/ decodeArray

Spec == Init /\ [][Next]_vars

-----------------------------------------------------------------------------
(***************************************************************************)
(* Properties                                                              *)
(***************************************************************************)
(* Types; nothing is set in a struct that no pointer reaches.               *)
TypeOK ==
  /\ dst.val \in [Leaves(typ) -> {0, 1}] /\ dst.nils \subseteq Pointers(typ)
  /\ pc \in {"fields", "encode", "sent", "header", "decode", "ok", "error", "panic"}
  /\ \A n \in dst.nils, p \in Leaves(typ) : IsUnder(n, p) => dst.val[p] = 0

Covers(f, p) == f.index = p \/ IsUnder(f.index, p)
Encoded(p) == \E k \in 1 .. Len(fs.list) : Covers(fs.list[k], p)

(* A struct type for which no warning about its names is logged round-trips *)
(* into a fresh value: every field that has a place in List arrives, with   *)
(* omitted fields, nil embedded pointers, arrays, reordered maps, unknown   *)
(* fields, aliases, and embedded structs inlined by one side only.          *)
RoundTrip ==
  pc = "ok" /\ ~fs.warned /\ ~resized => \A p \in Leaves(typ) : Encoded(p) => dst.val[p] = src.val[p]

(* ... and without an error, unless unknown fields are refused.  An array   *)
(* of another length is an error or, if it is empty, the zero value, never  *)
(* a part of one.                                                           *)
Accepted ==
  /\ pc = "error" => fs.warned \/ disallowUnknown \/ resized
  /\ pc = "ok" /\ resized => dst = Zero(typ)

(* A leaf that List leaves out is hidden from the encoder by its            *)
(* declaration, or its name (that of the struct it is in, if that one was   *)
(* not inlined) was taken when an explicit inline tag was reached: by a     *)
(* declaration before the tagged one or by another field under it.          *)
Hidden(p) ==
  \E k \in 1 .. Len(p) :
    LET d == DeclAt(typ, SubSeq(p, 1, k))
    IN d.tag = "-" \/ (~d.exported /\ ~d.anonymous)
DeclsAt(p) == IF p = <<>> THEN typ ELSE Embeddable[DeclAt(typ, p).typ]
Shadowed(p) ==
  \E k \in 1 .. Len(p) - 1 :
    LET decls == DeclsAt(SubSeq(p, 1, k - 1))
        children == getFields(Embeddable[decls[p[k]].typ]).list
        before == DOMAIN getFields(SubSeq(decls, 1, p[k] - 1)).map
    IN /\ "inline" \in decls[p[k]].opts
       /\ \E j \in 1 .. Len(children) :
            /\ Covers(children[j], SubSeq(p, k + 1, Len(p)))
            /\ children[j].name \in before \cup {children[m].name : m \in 1 .. (j - 1)}
NothingForgotten ==
  pc # "fields" => \A p \in Leaves(typ) : Encoded(p) \/ Hidden(p) \/ Shadowed(p)

(* Every struct type round-trips, also those that a warning is logged for.  *)
RoundTripAlways ==
  pc \in {"ok", "error"} /\ ~disallowUnknown =>
    pc = "ok" /\ \A p \in Leaves(typ) : Encoded(p) => dst.val[p] = src.val[p]

(* A field that another one shadows is not inlined: a name is written once. *)
NamesOnce ==
  pc = "sent" /\ ~Positional(fs) =>
    \A j, k \in 1 .. Len(wire) : wire[j].name = wire[k].name => j = k

(* The struct-level marker applies omitempty to all fields.                 *)
MarkerApplies ==
  pc = "sent" /\ ~Positional(fs) /\ (\E k \in 1 .. Len(typ) : typ[k].go = "_msgpack" /\ "omitempty" \in typ[k].opts) =>
    \A k \in 1 .. Len(wire) : wire[k].typ = Leaf => wire[k].val[wire[k].at] # 0

(* Decoding a map into a struct never panics.                               *)
NeverPanics == pc # "panic"
=============================================================================
