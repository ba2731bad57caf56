-------------------------- MODULE MCStreamDecoder --------------------------
(***************************************************************************)
(* Small instances of StreamDecoder and the reference grammar its results  *)
(* are compared with.  The grammar is the MessagePack format written as a  *)
(* recursion over positions, with none of the decoder's control.           *)
(***************************************************************************)
EXTENDS StreamDecoder

NoEnd == -1

(* Value of the length field of the code at p + 1, NoEnd when cut off.      *)
GrammarLen(c, p) ==
  IF LenWidth(c) = 0 THEN CodeLen(c)
  ELSE IF p + 1 + LenWidth(c) > Len(input) THEN NoEnd
  ELSE BigEndian(p + 1, LenWidth(c))

Within(e) == IF e <= Len(input) THEN e ELSE NoEnd

(* ValueEnd(p): the position after the value that starts after p, or        *)
(* NoEnd when there is none.  RunEnd: after n values in a row.              *)
RECURSIVE ValueEnd(_), RunEnd(_, _)

ValueEnd(p) ==
  IF p >= Len(input) THEN NoEnd
  ELSE LET c == input[p + 1]
           w == p + 1 + LenWidth(c)
           n == GrammarLen(c, p)
       IN IF n = NoEnd THEN NoEnd
          ELSE CASE IsScalar(c) -> Within(p + 1 + FixedSize(c))
                 [] IsBytes(c) -> IF n > Len(input) THEN NoEnd ELSE Within(w + n)
                 [] IsExt(c) -> IF n > Len(input) THEN NoEnd ELSE Within(w + 1 + n)
                 [] IsArray(c) -> RunEnd(w, n)
                 [] IsMap(c) -> IF n > Len(input) THEN NoEnd ELSE RunEnd(w, 2 * n)
                 [] OTHER -> NoEnd

RunEnd(p, n) ==
  IF n = 0 THEN p
  ELSE IF ValueEnd(p) = NoEnd THEN NoEnd ELSE RunEnd(ValueEnd(p), n - 1)

(* Starts of the n values in a row after p (which all exist).               *)
RECURSIVE Starts(_, _)
Starts(p, n) == IF n = 0 THEN <<>> ELSE <<p>> \o Starts(ValueEnd(p), n - 1)

Children(p) ==
  LET c == input[p + 1]
      w == p + 1 + LenWidth(c)
  IN CASE IsArray(c) -> Starts(w, GrammarLen(c, p))
       [] IsMap(c) -> Starts(w, 2 * GrammarLen(c, p))
       [] OTHER -> <<>>

TooMany(p) ==
  LET c == input[p + 1]
  IN /\ IsArray(c) \/ IsMap(c)
     /\ ~config.sized /\ ~config.noLimit /\ GrammarLen(c, p) > AllocLimit

(* Skip must take the well-formed value after p with `levels` levels left.  *)
RECURSIVE MustSkip(_, _)
MustSkip(p, levels) ==
  /\ levels > 0
  /\ ~TooMany(p)
  /\ \A i \in DOMAIN Children(p) : MustSkip(Children(p)[i], levels - 1)

(* An ext payload that the registered decoders turn into a value.           *)
KnownExt(p) ==
  LET c == input[p + 1]
      id == input[p + 2 + LenWidth(c)]
  IN \/ id = TimeExtID /\ GrammarLen(c, p) \in {4, 8, 12}
     \/ id \in ExtIDs

(* DecodeInterface must take it with `levels` levels left for its children: *)
(* keys are strings, bins or nil and cost no level, exts are known.         *)
RECURSIVE MustDecode(_, _)
MustDecode(p, levels) ==
  LET c == input[p + 1]
      kids == Children(p)
      KeyAt(i) == IsMap(c) /\ i % 2 = 1
  IN /\ ~TooMany(p)
     /\ IsExt(c) => KnownExt(p)
     /\ \A i \in DOMAIN kids :
          IF KeyAt(i) THEN IsBytes(input[kids[i] + 1]) \/ input[kids[i] + 1] = Nil
          ELSE levels > 0 /\ MustDecode(kids[i], levels - 1)

MustAccept(op, p) ==
  LET c == input[p + 1]
  IN CASE op \in {"Skip", "DecodeRaw"} -> MustSkip(p, DepthLimit)
       [] op = "DecodeUnmarshaler" -> c = Nil \/ MustSkip(p, DepthLimit - 1)
       [] op = "DecodeInterface" -> MustDecode(p, DepthLimit)
       [] op = "Decode" -> DepthLimit > 1 /\ MustDecode(p, DepthLimit - 2)
       [] op = "DecodeMap" -> (IsMap(c) \/ c = Nil) /\ MustDecode(p, DepthLimit)
       [] op = "DecodeSlice" -> (IsArray(c) \/ c = Nil) /\ MustDecode(p, DepthLimit)

Returned == status = "idle" /\ res.op # "None" /\ res.start < Len(input)

(* Where the value that a call reads begins: DecodeMap passes over an ext   *)
(* header, type and length, to the map within.                              *)
First ==
  LET c == input[res.start + 1]
  IN IF res.op = "DecodeMap" /\ IsExt(c) THEN res.start + 2 + LenWidth(c) ELSE res.start

(* A call that succeeds stops exactly at the end of the value it started    *)
(* at, so that the next call on the stream begins at a value: no decoding   *)
(* or skipping operation leaves the stream inside a value, and DecodeMap    *)
(* after an ext header stops at the end of the map.                         *)
Framing == Returned /\ res.ok => res.end = ValueEnd(First)

(* A call fails only for a reason: every well-formed value within the depth *)
(* limit, the allocation limit and the types the operation can return is    *)
(* accepted, so the plausibility checks on lengths never reject good input. *)
Completeness ==
  Returned /\ ~res.ok => ValueEnd(First) = NoEnd \/ ~MustAccept(res.op, First)

(* And what lies outside those limits is rejected.                          *)
Rejection == Returned /\ res.ok => MustAccept(res.op, First)

-----------------------------------------------------------------------------
(* Instances.                                                               *)
SeqsUpTo(S, n) == UNION {[1 .. k -> S] : k \in 0 .. n}

(* Every code class, as code, length, ext id and payload byte.              *)
MCBytes == {0, 1, 2, 128, 129, 145, 146, 161, 192, 193, 196, 199, 205, 212, 220, 222, 255}
MCShort == {1, 129, 145, 161, 192, 193, 196, 199, 212}
MCNesting == {1, 129, 145, 146}

(* Lengths of 16 and 32 bits (small, and beyond 2^31), exts of 4 and 8      *)
(* bytes, and maps after an ext header.                                     *)
MCLong ==
  {<<c, 0, n>> \o t : c \in {197, 200, 218, 220, 222}, n \in {1, 2}, t \in SeqsUpTo({1, 161}, 2)}
  \cup {<<c, b, 0, 0, 1>> \o t : c \in {198, 201, 219, 221, 223}, b \in {0, 255},
                                 t \in SeqsUpTo({1, 161}, 2)}
  \cup {<<214, id>> \o t : id \in {1, 128, 255, 7}, t \in {<<1, 1, 1>>, <<1, 1, 1, 1>>}}
  \cup {<<145, 215, 255, 1, 1, 1, 1, 1, 1, 1, 1>>, <<215, 1, 1, 1, 1>>, <<212, 255, 1>>,
        <<129, 161, 1, 203, 1, 1, 1, 1, 1, 1, 1, 1>>, <<206, 1, 1, 1, 1>>,
        <<129, 161, 1, 129, 161, 1, 145, 1>>, <<222, 0, 2, 161, 1, 1, 161, 2, 1>>,
        <<212, 1, 129, 161, 1, 1, 1>>, <<199, 1, 1, 129, 161, 1, 1>>, <<200, 1, 0, 1, 128, 1>>}

MCInputs == SeqsUpTo(MCBytes, 2) \cup SeqsUpTo(MCShort, 3) \cup SeqsUpTo(MCNesting, 4) \cup MCLong

MCConfigs ==
  {[sized |-> TRUE, noLimit |-> TRUE, maxDepth |-> 0, int32 |-> FALSE],
   [sized |-> TRUE, noLimit |-> FALSE, maxDepth |-> 2, int32 |-> FALSE],
   [sized |-> FALSE, noLimit |-> FALSE, maxDepth |-> 1, int32 |-> TRUE],
   [sized |-> FALSE, noLimit |-> TRUE, maxDepth |-> 2, int32 |-> TRUE]}
=============================================================================
