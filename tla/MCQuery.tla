------------------------------ MODULE MCQuery -------------------------------
(***************************************************************************)
(* Instances of Query: streams of nested maps and arrays, complete and cut *)
(* short, and the reference definition of what a path selects.             *)
(***************************************************************************)
EXTENDS Query, SequencesExt

(* Streams are built from the inside out.                                   *)
Map(n) == [t |-> "map", n |-> n]
Array(n) == [t |-> "array", n |-> n]
Str(s) == [t |-> "str", s |-> s]
Int1 == [t |-> "int", s |-> "1"]

Arrays(vs) ==
  {<<Array(0)>>} \cup {<<Array(1)>> \o v : v \in vs}
    \cup {<<Array(2)>> \o v \o w : v \in vs, w \in vs}
Maps(vs) ==
  {<<Map(0)>>} \cup {<<Map(1), Str(k)>> \o v : k \in {"a", "b"}, v \in vs}
    \cup {<<Map(2), Str(k)>> \o v \o <<Str(l)>> \o w :
            k \in {"a", "b"}, l \in {"a", "b"}, v \in vs, w \in vs}

Scalars == {<<Int1>>}
Flat == Scalars \cup Arrays(Scalars) \cup Maps(Scalars)
Small == Scalars \cup {<<Array(2), Int1, Int1>>, <<Map(1), Str("a"), Int1>>}

(* Two levels of every shape, and maps whose key is not a string.           *)
MCStreams ==
  Arrays(Flat) \cup Maps(Small)
    \cup Arrays({<<Map(2), Str("b")>> \o v \o <<Str("a")>> \o w : v \in Small, w \in Small})
    \cup {<<Map(1), Int1, Int1>>, <<Map(1), [t |-> "nil", s |-> ""], Int1>>}
MCPaths ==
  {<<>>, <<"a">>, <<"a", "">>, <<"b", "a">>, <<"*">>, <<"*", "a">>, <<"*", "*">>,
   <<"1", "a">>, <<"1">>, <<"*", "1">>, <<"*", "b", "0">>, <<"0", "*">>, <<"-1">>}

(* Arrays of arrays, three levels deep.                                     *)
MCNestedStreams == Arrays(Arrays({<<Array(1), Int1>>, <<Array(1), Array(1), Int1>>}))
MCNestedPaths == {<<"*", "0", "*">>}

MCNumerals == {"0", "1", "-1"}
MCAtoi == [s \in MCNumerals |-> IF s = "0" THEN 0 ELSE IF s = "1" THEN 1 ELSE -1]

-----------------------------------------------------------------------------
(***************************************************************************)
(* What a path selects from the value at p of the complete stream: the     *)
(* intervals in order, or "fail" when the path does not fit the value.     *)
(***************************************************************************)
RECURSIVE After(_), AfterMany(_, _)
After(p) ==
  CASE input[p].t = "map" -> AfterMany(p + 1, 2 * input[p].n)
    [] input[p].t = "array" -> AfterMany(p + 1, input[p].n)
    [] OTHER -> p + 1
AfterMany(p, k) == IF k = 0 THEN p ELSE AfterMany(After(p), k - 1)

Child(p, i) == AfterMany(p + 1, i)
MapValue(p, i) == Child(p, 2 * i + 1)
KeyAt(p, i) == input[Child(p, 2 * i)]
Matching(p, k) == {i \in 0 .. input[p].n - 1 : KeyAt(p, i).s = k}
BadKey(p, last) == \E i \in 0 .. last : KeyAt(p, i).t \notin {"str", "nil"}

Failed == <<"fail">>
Concat(results) ==
  IF \E i \in DOMAIN results : results[i] = Failed THEN Failed
  ELSE FlattenSeq(results)

RECURSIVE Select(_, _)
Select(p, rest) ==
  IF rest = <<>> \/ rest = <<"">> THEN <<<<p, After(p)>>>>
  ELSE CASE input[p].t = "map" ->
              LET hits == Matching(p, Head(rest)) IN
              IF hits = {} THEN IF BadKey(p, input[p].n - 1) THEN Failed ELSE <<>>
              ELSE IF BadKey(p, Min(hits)) THEN Failed
              ELSE Select(MapValue(p, Min(hits)), Tail(rest))
         [] input[p].t = "array" /\ Head(rest) = "*" ->
              Concat([i \in 1 .. input[p].n |-> Select(Child(p, i - 1), Tail(rest))])
         [] input[p].t = "array" /\ Head(rest) \in Numerals ->
              IF Atoi[Head(rest)] \in 0 .. input[p].n - 1
              THEN Select(Child(p, Atoi[Head(rest)]), Tail(rest)) ELSE <<>>
         [] OTHER -> Failed

(* A query that succeeds returns what its path selects, in stream order:    *)
(* every level hands the stream back where the level above expects it, and  *)
(* a stream that is cut short after the last match makes no difference.     *)
(* It fails only if the stream ends early or the path does not fit.         *)
(* (src/API.md:366: "Path components are map keys, array indices, or `*`    *)
(* (all elements of an array).")                                            *)
QueryCorrect ==
  /\ pc = "done" => values = Select(1, path)
  /\ pc = "error" => avail < Len(input) \/ Select(1, path) = Failed
=============================================================================
