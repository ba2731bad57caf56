-------------------------- MODULE MCStructFields ----------------------------
(* Struct types of up to two or three declarations, with embedded structs   *)
(* two levels deep.                                                         *)
EXTENDS StructFields

Decl(go, tag, opts, t) ==
  [go |-> go, tag |-> tag, opts |-> opts, alias |-> "", typ |-> t, ptr |-> FALSE,
   exported |-> TRUE, anonymous |-> t # Leaf]
Field(go) == Decl(go, "", {}, Leaf)
Embed(t) == Decl(t, "", {}, t)
EmbedPtr(t) == [Embed(t) EXCEPT !.ptr = TRUE]
Private(d) == [d EXCEPT !.exported = FALSE]
Marker(opt) == Private(Decl("_msgpack", "", {opt}, Leaf))

(* E and K are plain structs, K with a codec of its own, G embeds a pointer *)
(* to E, a is not exported, and Name has a field of its own name.           *)
MCEmbeddable ==
  "E" :> <<Field("A"), Decl("C", "", {"omitempty"}, Leaf)>>
    @@ "K" :> <<Field("A")>>
    @@ "G" :> <<EmbedPtr("E"), Field("D")>>
    @@ "a" :> <<Field("D")>>
    @@ "Name" :> <<Field("Name")>>

Pool ==
  {Field("A"), Decl("A", "", {"omitempty"}, Leaf), Decl("B", "A", {}, Leaf), Decl("B", "-", {}, Leaf),
   [Field("B") EXCEPT !.alias = "bee"], Private(Field("h")),
   Marker("omitempty"), Marker("as_array"),
   Embed("E"), EmbedPtr("E"), Decl("E", "e", {"inline"}, "E"), Decl("E", "", {"noinline"}, "E"),
   Decl("E", "", {"noinline", "omitempty"}, "E"),
   Embed("K"), Embed("G"), EmbedPtr("G"), Private(Embed("a")), Private(EmbedPtr("a")), Embed("Name")}

GoNamesDistinct(t) == \A j, k \in 1 .. Len(t) : t[j].go = t[k].go => j = k
MCStructTypes ==
  {t \in UNION {[1 .. n -> Pool] : n \in 1 .. 2} : GoNamesDistinct(t)}
    \cup {<<Field("A"), Embed("E"), Embed("G")>>, <<Embed("E"), Embed("G"), Field("B")>>,
          <<Marker("omitempty"), EmbedPtr("G"), Field("B")>>, <<EmbedPtr("E"), Field("D"), EmbedPtr("a")>>}

NameTypes == {<<Embed("Name")>>}
ShadowTypes == {<<Embed("E"), Field("A")>>}
MarkerTypes == {<<Field("A"), Marker("omitempty")>>}
PrivateTypes == {<<Private(EmbedPtr("a"))>>}
=============================================================================
