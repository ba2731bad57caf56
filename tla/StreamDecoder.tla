--------------------------- MODULE StreamDecoder ---------------------------
(***************************************************************************)
(* One Decoder of src/pkg/msgpack on one input stream.  The recursive      *)
(* descent of Skip, DecodeRaw, DecodeInterface, DecodeMap, DecodeSlice and *)
(* Decode (into an interface) is an explicit stack of activation frames:   *)
(* one step per call up to its loop, per loop iteration, per return and    *)
(* per error return.  The interned-string dictionary of this decoder is    *)
(* empty and its flag is off (module Intern has the dictionary).           *)
(***************************************************************************)
EXTENDS WireCodes, Sequences

CONSTANTS
  Inputs,            \* the byte streams considered
  Configs,           \* the decoder configurations considered
  DefaultDepthLimit, \* defaultDecodeDepthLimit
  AllocLimit,        \* sliceAllocLimit = maxMapSize
  ExtIDs             \* bytes of the ext ids registered with RegisterExt

Config == [sized : BOOLEAN, noLimit : BOOLEAN, maxDepth : Int, int32 : BOOLEAN]

ASSUME StreamAssumption ==
  /\ \A s \in Inputs : s \in Seq(Byte)
  /\ \A f \in Configs : f \in Config
  /\ DefaultDepthLimit \in Nat \ {0}
  /\ AllocLimit \in Nat

VARIABLES
  input,   \* the bytes behind d.r
  config,  \* kind of reader (exposes Len or not), disableAllocLimitFlag, maxDepth,
           \* and whether the platform's int has 32 bits
  pos,     \* number of bytes read
  depth,   \* d.depth
  rec,     \* d.rec: on = non-nil
  stack,   \* activation frames, the running one last
  status,  \* "idle", "run" or "fail" (an error is being returned)
  res      \* the last call: operation, where it started, how it ended

vars == <<input, config, pos, depth, rec, stack, status, res>>

(* Decode stands for Decode into a nil interface, DecodeUnmarshaler for      *)
(* Decode into a type with UnmarshalMsgpack.                                *)
Ops == {"Skip", "DecodeRaw", "DecodeInterface", "DecodeMap", "DecodeSlice",
        "Decode", "DecodeUnmarshaler"}
RawOps == {"DecodeRaw", "DecodeUnmarshaler"}
Calls == {"Skip", "Cond", "Value", "Unmarshal", "Interface", "Map", "Slice"}

NoRec == [on |-> FALSE, buf |-> <<>>]

(***************************************************************************)
(* Reads.  A read yields whether it succeeded, the position after it, the  *)
(* position up to which the bytes went through a successful read (and so   *)
(* into d.rec when recording), and a number: a length or a child count.    *)
(***************************************************************************)
Ok(p, n) == [ok |-> TRUE, pos |-> p, seen |-> p, n |-> n]
Err(p, s) == [ok |-> FALSE, pos |-> p, seen |-> s, n |-> 0]

remaining(p) == Len(input) - p

(* readCode, readFull and readN: io.ReadFull eats what is left on a short   *)
(* read, and only a complete read is recorded.                              *)
readN(p, k) == IF k <= remaining(p) THEN Ok(p + k, 0) ELSE Err(Len(input), p)

(* The big-endian number in the k bytes after p.  A uint32 of 2^30 or more  *)
(* saturates at 2^30 - 1: lengths are only ever compared with the remaining *)
(* input and with limits that are far smaller.                              *)
BigEndian(p, k) ==
  CASE k = 1 -> input[p + 1]
    [] k = 2 -> 256 * input[p + 1] + input[p + 2]
    [] k = 4 -> IF input[p + 1] >= 64 THEN 1073741823
                ELSE 16777216 * input[p + 1] + 65536 * input[p + 2]
                     + 256 * input[p + 3] + input[p + 4]

(* uint32ToInt fails only where int is narrower than the wire's uint32.     *)
uint32Overflows(p, k) == config.int32 /\ k = 4 /\ input[p + 1] >= 128

rejectOversizedBytes(n, p) == config.sized /\ n > remaining(p)

(* Mutants: the limit flag is tested first; an off-by-one on the remainder. *)
rejectOversizedContainer_FlagFirst(n, minBytes, p) ==
  /\ n > 0
  /\ ~config.noLimit
  /\ IF config.sized THEN n > remaining(p) \div minBytes ELSE n > AllocLimit
rejectOversizedContainer_OffByOne(n, minBytes, p) ==
  /\ n > 0
  /\ IF config.sized THEN n >= remaining(p) \div minBytes
                     ELSE ~config.noLimit /\ n > AllocLimit

rejectOversizedContainer(n, minBytes, p) ==
  /\ n > 0
  /\ IF config.sized THEN n > remaining(p) \div minBytes
                     ELSE ~config.noLimit /\ n > AllocLimit

(* The number in the w bytes after p, once r has read them.                 *)
lenField(p, w, r) ==
  IF ~r.ok THEN r
  ELSE IF uint32Overflows(p, w) THEN Err(r.pos, r.pos)
  ELSE Ok(r.pos, BigEndian(p, w))

(* The length field of code c at p, before any plausibility check.          *)
readLen(c, p) ==
  IF LenWidth(c) = 0 THEN Ok(p, CodeLen(c))
  ELSE lenField(p, LenWidth(c), readN(p, LenWidth(c)))

(* The plausibility checks on a length that has been read.                  *)
checkBytes(r) ==
  IF r.ok /\ rejectOversizedBytes(r.n, r.pos) THEN Err(r.pos, r.pos) ELSE r
checkContainer(r, minBytes) ==
  IF r.ok /\ rejectOversizedContainer(r.n, minBytes, r.pos) THEN Err(r.pos, r.pos) ELSE r

bytesLen(c, p) ==
  CASE c = Nil -> Ok(p, 0)
    [] ~IsBytes(c) /\ c # Nil -> Err(p, p)
    [] IsBytes(c) -> checkBytes(readLen(c, p))

arrayLen(c, p) ==
  CASE c = Nil -> Ok(p, 0)
    [] ~IsArray(c) /\ c # Nil -> Err(p, p)
    [] IsArray(c) -> checkContainer(readLen(c, p), 1)

mapLen(c, p) ==
  CASE c = Nil -> Ok(p, 0)
    [] ~IsMap(c) /\ c # Nil -> Err(p, p)
    [] IsMap(c) -> checkContainer(readLen(c, p), 2)

parseExtLen(c, p) ==
  IF c \in Exts THEN checkBytes(readLen(c, p)) ELSE readLen(c, p)

(* The payload after a length that has been read.                           *)
payload(l) == IF l.ok THEN readN(l.pos, l.n) ELSE l

(* The payload of a string or bin: skipBytes, string and bytes read alike.  *)
bytesBody(c, p) == payload(bytesLen(c, p))

(* Mutant: the type byte is not skipped.                                    *)
skipExt_NoType(c, p) == payload(parseExtLen(c, p))

(* The type byte and the payload of an ext, in two reads.                   *)
extBody(l) ==
  LET t == readN(l.pos, 1)
  IN IF ~l.ok THEN l ELSE IF ~t.ok THEN t ELSE readN(t.pos, l.n)

skipExt(c, p) == extBody(parseExtLen(c, p))

(* skipExtHeader, used only by DecodeMapLen: type byte, then the length     *)
(* field, each read byte by byte and neither interpreted.                   *)
skipExtHeader(c, p) ==
  LET k == 1 + LenWidth(c)
  IN IF k <= remaining(p) THEN Ok(p + k, 0) ELSE Err(Len(input), Len(input))

(* The decoder of a registered ext: the time ext (id -1) takes 4, 8 or 12   *)
(* bytes, the interned-string ext (id -128) an index of 1, 2 or 4 bytes     *)
(* into a dictionary that is empty here, a RegisterExt type the payload.    *)
TimeExtID == 255
InternedStringExtID == 128

(* Mutant: a time ext of any length is taken.                               *)
extDecoder_AnyTime(id, n, p) ==
  IF id = TimeExtID \/ id \in ExtIDs THEN readN(p, n) ELSE Err(p, p)

extDecoder(id, n, p) ==
  LET r == readN(p, n)
  IN CASE id = TimeExtID -> IF r.ok /\ n \notin {4, 8, 12} THEN Err(r.pos, r.pos) ELSE r
       [] id = InternedStringExtID ->
            IF n \in {1, 2, 4} /\ r.ok THEN Err(r.pos, r.pos)
            ELSE IF n \in {1, 2, 4} THEN r ELSE Err(p, p)
       [] id \in ExtIDs /\ id \notin {TimeExtID, InternedStringExtID} -> r
       [] OTHER -> Err(p, p)

(* The type byte of an ext, then its decoder.                               *)
extValue(l) ==
  LET t == readN(l.pos, 1)
  IN IF ~l.ok THEN l ELSE IF ~t.ok THEN t
     ELSE extDecoder(input[l.pos + 1], l.n, t.pos)

decodeInterfaceExt(c, p) == extValue(parseExtLen(c, p))

(* The elements of a map whose length has been read: keys and values.       *)
pairs(m) == IF m.ok THEN Ok(m.pos, 2 * m.n) ELSE m

(* Skip after its readCode, up to the loops of skipSlice and skipMap: n is  *)
(* the number of recursive Skip calls the loop will make.                   *)
skipHead(c, p) ==
  CASE IsScalar(c) -> readN(p, FixedSize(c))
    [] IsBytes(c) -> bytesBody(c, p)
    [] IsArray(c) -> arrayLen(c, p)
    [] IsMap(c) -> pairs(mapLen(c, p))
    [] IsExt(c) -> skipExt(c, p)
    [] OTHER -> Err(p, p)

(* A map length after an ext header that has been skipped.                  *)
mapAfter(h) ==
  IF ~h.ok \/ remaining(h.pos) < 1 THEN Err(h.pos, h.pos)
  ELSE pairs(mapLen(input[h.pos + 1], h.pos + 1))

(* DecodeMapLen and the loop count of DecodeMap: keys and values.           *)
mapHead(p) ==
  LET c == input[p + 1]
  IN CASE remaining(p) < 1 -> Err(p, p)
       [] remaining(p) >= 1 /\ IsExt(c) -> mapAfter(skipExtHeader(c, p + 1))
       [] remaining(p) >= 1 /\ ~IsExt(c) -> pairs(mapLen(c, p + 1))

(* DecodeInterface and DecodeInterfaceLoose after their readCode at p: they *)
(* read alike.  A map code is unread and read again by DecodeMapLen.        *)
interfaceHead(c, p) ==
  CASE IsScalar(c) -> readN(p, FixedSize(c))
    [] IsBytes(c) -> bytesBody(c, p)
    [] IsArray(c) -> arrayLen(c, p)
    [] IsMap(c) -> mapHead(p - 1)
    [] IsExt(c) -> decodeInterfaceExt(c, p)
    [] OTHER -> Err(p, p)

hasNilCode(p) == remaining(p) >= 1 /\ input[p + 1] = Nil

(* The calls that begin with readCode.                                      *)
ReadsCode == {"Skip", "Slice", "Cond", "Interface"}

(* What a call reads before its loop.  DecodeValue reads nothing itself,    *)
(* but the nilAwareDecoder of an Unmarshaler takes a nil off the stream.    *)
head(call, p) ==
  LET c == input[p + 1]
  IN CASE call = "Value" -> Ok(p, 1)
       [] call = "Unmarshal" -> IF hasNilCode(p) THEN Ok(p + 1, 0) ELSE Ok(p, 1)
       [] call = "Map" -> mapHead(p)
       [] call \in ReadsCode /\ remaining(p) < 1 -> Err(p, p)
       [] call \in ReadsCode /\ remaining(p) >= 1 ->
            CASE call = "Skip" -> skipHead(c, p + 1)
              [] call = "Slice" -> arrayLen(c, p + 1)
              [] call \in {"Cond", "Interface"} -> interfaceHead(c, p + 1)

(* A map key: DecodeString with an empty dictionary and the flag off.       *)
DecodeString(p) ==
  IF remaining(p) < 1 THEN Err(p, p) ELSE bytesBody(input[p + 1], p + 1)

(***************************************************************************)
(* Activation frames.                                                      *)
(***************************************************************************)
(* enterDepth is called by Skip, decodeInterfaceCond and DecodeValue only.  *)
Guarded(call) == call \in {"Skip", "Cond", "Value", "Unmarshal"}

DepthLimit == IF config.maxDepth <= 0 THEN DefaultDepthLimit ELSE config.maxDepth

enterDepthFails(call) == Guarded(call) /\ depth + 1 > DepthLimit

(* Mutants: no leaveDepth on an error; leaveDepth by every call.            *)
leaveDepth_NoDefer(call) ==
  IF Guarded(call) /\ depth > 0 /\ status # "fail" THEN depth - 1 ELSE depth
leaveDepth_Always(call) == depth - 1

(* leaveDepth, as run by the defer of a guarded call.                       *)
leaveDepth(call) == IF Guarded(call) /\ depth > 0 THEN depth - 1 ELSE depth

(* The loop of a frame: "skip" repeats Skip, "slice" decodeInterfaceCond,   *)
(* "map" alternates DecodeString and decodeInterfaceCond.                   *)
LoopOf(call, p) ==
  CASE call \in {"Skip", "Unmarshal"} -> "skip"
    [] call = "Map" -> "map"
    [] call \in {"Value", "Slice"} -> "slice"
    [] call \in {"Cond", "Interface"} -> IF IsMap(input[p + 1]) THEN "map" ELSE "slice"

(* Elements a frame allocates room for before its first element arrives.    *)
Prealloc(call, loop, n) ==
  LET k == IF loop = "map" THEN n \div 2 ELSE n
  IN IF call \in {"Skip", "Value", "Unmarshal"} THEN 0
     ELSE IF ~config.noLimit /\ k > AllocLimit THEN AllocLimit ELSE k

Frame(call, p, n) ==
  [call |-> call, loop |-> LoopOf(call, p), rem |-> n,
   cap |-> Prealloc(call, LoopOf(call, p), n)]

(* Mutant: the code byte of a value is not recorded.                        *)
record_NoCode(rc, p, r) ==
  IF rc.on THEN [rc EXCEPT !.buf = @ \o SubSeq(input, p + 2, r.seen)] ELSE rc

(* Append to d.rec what a read put through the recording readers.           *)
record(rc, p, r) ==
  IF rc.on THEN [rc EXCEPT !.buf = @ \o SubSeq(input, p + 1, r.seen)] ELSE rc

(* What call does with the read r that precedes its loop.                   *)
Begin(call, below, rc, r) ==
  /\ pos' = r.pos
  /\ rec' = record(rc, pos, r)
  /\ status' = IF r.ok THEN "run" ELSE "fail"
  /\ IF r.ok /\ r.n > 0
     THEN /\ stack' = Append(below, Frame(call, pos, r.n))
          /\ depth' = IF Guarded(call) THEN depth + 1 ELSE depth
     ELSE /\ stack' = below
          /\ UNCHANGED depth

(* Run call from the frames below, up to its loop or to its end.            *)
Invoke(call, below, rc) ==
  \/ /\ enterDepthFails(call)
     /\ status' = "fail"
     /\ stack' = below
     /\ rec' = rc
     /\ UNCHANGED <<pos, depth>>
  \/ /\ ~enterDepthFails(call)
     /\ Begin(call, below, rc, head(call, pos))

FirstCall(op) ==
  CASE op \in {"Skip", "DecodeRaw"} -> "Skip"
    [] op = "DecodeInterface" -> "Interface"
    [] op = "DecodeMap" -> "Map"
    [] op = "DecodeSlice" -> "Slice"
    [] op = "Decode" -> "Value"
    [] op = "DecodeUnmarshaler" -> "Unmarshal"

Init ==
  /\ input \in Inputs
  /\ config \in Configs
  /\ pos = 0
  /\ depth = 0
  /\ rec = NoRec
  /\ stack = <<>>
  /\ status = "idle"
  /\ res = [op |-> "None", start |-> 0, end |-> 0, ok |-> TRUE, raw |-> <<>>]

(* DecodeRaw, and unmarshalValue unless a nil was taken, start recording.   *)
StartsRecording(op) ==
  op = "DecodeRaw" \/ (op = "DecodeUnmarshaler" /\ ~hasNilCode(pos))

(* The caller makes a call.                                                 *)
Call(op) ==
  /\ status = "idle"
  /\ res' = [op |-> op, start |-> pos, end |-> pos, ok |-> FALSE, raw |-> <<>>]
  /\ Invoke(FirstCall(op), <<>>,
            IF StartsRecording(op) THEN [on |-> TRUE, buf |-> <<>>] ELSE rec)
  /\ UNCHANGED <<input, config>>

Top == stack[Len(stack)]
Below == SubSeq(stack, 1, Len(stack) - 1)
Advanced == [stack EXCEPT ![Len(stack)].rem = @ - 1]

(* The next element of the running loop is a Skip or decodeInterfaceCond.   *)
Element ==
  /\ status = "run"
  /\ stack # <<>>
  /\ Top.rem > 0
  /\ Top.loop = "map" => Top.rem % 2 = 1
  /\ Invoke(IF Top.loop = "skip" THEN "Skip" ELSE "Cond", Advanced, rec)
  /\ UNCHANGED <<input, config, res>>

(* The next element of a map loop is a key.                                 *)
Key ==
  /\ status = "run"
  /\ stack # <<>>
  /\ Top.loop = "map"
  /\ Top.rem > 0
  /\ Top.rem % 2 = 0
  /\ LET r == DecodeString(pos)
     IN /\ pos' = r.pos
        /\ rec' = record(rec, pos, r)
        /\ status' = IF r.ok THEN "run" ELSE "fail"
        /\ stack' = Advanced
  /\ UNCHANGED <<input, config, depth, res>>

(* Mutant: a loop retries an element that failed at the end of the input.   *)
Return_Retry ==
  /\ stack # <<>>
  /\ \/ /\ status = "fail" /\ pos = Len(input) /\ rec = NoRec
        /\ status' = "run"
        /\ stack' = [stack EXCEPT ![Len(stack)].rem = @ + 1]
        /\ UNCHANGED depth
     \/ /\ (status = "fail" /\ ~(pos = Len(input) /\ rec = NoRec)) \/ (status = "run" /\ Top.rem = 0)
        /\ depth' = leaveDepth(Top.call)
        /\ stack' = Below
        /\ UNCHANGED status
  /\ UNCHANGED <<input, config, pos, rec, res>>

(* A loop is done and its call returns, or an error passes through a call:  *)
(* either way the deferred leaveDepth runs.                                 *)
Return ==
  /\ stack # <<>>
  /\ status = "fail" \/ (status = "run" /\ Top.rem = 0)
  /\ depth' = leaveDepth(Top.call)
  /\ stack' = Below
  /\ UNCHANGED <<input, config, pos, rec, status, res>>

(* Mutant: d.rec is cleared on success only.                                *)
Finish_KeepRec ==
  /\ status \in {"run", "fail"}
  /\ stack = <<>>
  /\ res' = [res EXCEPT !.end = pos, !.ok = (status = "run"),
                        !.raw = IF status = "run" THEN rec.buf ELSE <<>>]
  /\ rec' = IF res.op \in RawOps /\ status = "run" THEN NoRec ELSE rec
  /\ status' = "idle"
  /\ UNCHANGED <<input, config, pos, depth, stack>>

(* The operation returns to the caller; the defer of DecodeRaw and of       *)
(* unmarshalValue clears d.rec.                                             *)
Finish ==
  /\ status \in {"run", "fail"}
  /\ stack = <<>>
  /\ res' = [res EXCEPT !.end = pos, !.ok = (status = "run"),
                        !.raw = IF status = "run" THEN rec.buf ELSE <<>>]
  /\ rec' = IF res.op \in RawOps THEN NoRec ELSE rec
  /\ status' = "idle"
  /\ UNCHANGED <<input, config, pos, depth, stack>>

Next ==
  \/ \E op \in Ops : Call(op)
  \/ Element
  \/ Key
  \/ Return
  \/ Finish

(* A call runs on its caller's goroutine until it returns; whether there is *)
(* a next call is up to the caller.                                         *)
Spec == Init /\ [][Next]_vars /\ WF_vars(Element \/ Key \/ Return \/ Finish)
-----------------------------------------------------------------------------
(***************************************************************************)
(* Properties                                                              *)
(***************************************************************************)
Frames == [call : Calls, loop : {"skip", "slice", "map"}, rem : Nat, cap : Nat]

(* Types of the decoder's fields, of the frames and of the results.         *)
TypeOK ==
  /\ input \in Inputs
  /\ config \in Configs
  /\ pos \in 0 .. Len(input)
  /\ depth \in Nat
  /\ rec \in [on : BOOLEAN, buf : Seq(Byte)]
  /\ stack \in Seq(Frames)
  /\ status \in {"idle", "run", "fail"}
  /\ res \in [op : Ops \cup {"None"}, start : Nat, end : Nat, ok : BOOLEAN, raw : Seq(Byte)]

(* d.depth counts exactly the active calls that entered it, on the way down, *)
(* on the way up and while an error unwinds, never passes the limit, and is *)
(* back at zero whenever the decoder is idle: no error path leaks a level   *)
(* (enterDepth, leaveDepth and the defers of Skip, decodeInterfaceCond and  *)
(* DecodeValue).                                                            *)
DepthOK ==
  /\ depth = IF stack # <<>> /\ ~Guarded(stack[1].call) THEN Len(stack) - 1
                                                        ELSE Len(stack)
  /\ \A i \in 2 .. Len(stack) : Guarded(stack[i].call)
  /\ depth <= DepthLimit
  /\ status = "idle" => stack = <<>>

(* d.rec never outlives the call that set it, on success, on a truncated    *)
(* value, on an unknown code or past the depth limit: otherwise every later *)
(* read of the decoder would go on appending to it (the defers of DecodeRaw *)
(* and unmarshalValue).                                                     *)
RecCleared ==
  /\ status = "idle" => rec = NoRec
  /\ rec.on => res.op \in RawOps

(* While recording has met no error, d.rec holds exactly the bytes consumed *)
(* since the call began, over all the reads of the nested Skip calls, and   *)
(* those bytes are what DecodeRaw returns.                                  *)
RawIsConsumed ==
  /\ rec.on /\ status = "run" => rec.buf = SubSeq(input, res.start + 1, pos)
  /\ status = "idle" /\ res.ok /\ res.op = "DecodeRaw" =>
       res.raw = SubSeq(input, res.start + 1, res.end)

(* A claimed length never makes the decoder reserve more elements than the  *)
(* remaining input could hold or, when that is unknown, than the allocation *)
(* limit, even with limits disabled on a reader that exposes its length     *)
(* (rejectOversizedContainer and the capacity hints of decodeSlice and      *)
(* DecodeMap).                                                              *)
AllocBounded ==
  \A i \in 1 .. Len(stack) :
     /\ config.sized => stack[i].cap <= Len(input)
     /\ ~config.sized /\ ~config.noLimit => stack[i].cap <= AllocLimit

(* Every call returns: a forged length only costs as many iterations as     *)
(* there are bytes to feed them.                                            *)
CallsReturn == status # "idle" ~> status = "idle"
=============================================================================
