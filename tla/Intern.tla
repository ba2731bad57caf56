------------------------------- MODULE Intern -------------------------------
(***************************************************************************)
(* The interned-string dictionary: an Encoder and a Decoder at the two     *)
(* ends of one ordered stream, each growing a dictionary of its own from   *)
(* what it writes or reads (src/pkg/msgpack/intern.go).  Nothing but the   *)
(* stream passes between them: an index means the same string at both ends *)
(* only if every operation of one side has the same effect on its          *)
(* dictionary as the matching operation of the other.                      *)
(***************************************************************************)
EXTENDS Integers, Sequences

CONSTANTS
  Strings,     \* the strings that are sent
  Long,        \* those of at least minInternedStringLen bytes
  Empty,       \* the empty string
  Seeds,       \* dictionaries that ResetDict is given, as sequences
  Flags,       \* UseInternedStrings at both ends: off, on or either
  Kinds,       \* the kinds of values in the stream, for each of them
  MaxUint8, MaxUint16, MaxUint32,
  MaxDictLen,  \* maxDictLen
  MaxItems     \* bound on the number of values sent

(* A kind fixes the Go type at both ends: a string (field name, map key or  *)
(* value), an `intern` tagged string, an interface holding a string, an     *)
(* `intern` tagged interface holding a string or a byte slice, a string the *)
(* decoder skips (unknown struct field); "reset" is a new stream, ResetDict *)
(* with the same dictionary at both ends.                                   *)
AllKinds == {"string", "tag", "iface", "tagIface", "tagBytes", "skip", "reset"}

ASSUME InternAssumption ==
  /\ Long \subseteq Strings
  /\ Empty \in Strings \ Long
  /\ \A d \in Seeds : d \in Seq(Strings)
  /\ Flags \subseteq BOOLEAN
  /\ Kinds \in [Flags -> SUBSET AllKinds]
  /\ MaxUint8 \in Nat /\ MaxUint16 \in Nat /\ MaxUint32 \in Nat
  /\ MaxUint8 <= MaxUint16 /\ MaxUint16 <= MaxUint32
  /\ MaxDictLen \in Nat
  /\ MaxItems \in Nat

VARIABLES
  flag,     \* useInternedStringsFlag of both sides, fixed
  encDict,  \* e.dict: the string at position i has index i - 1
  decDict,  \* d.dict
  log,      \* everything written to the stream so far
  read,     \* how many items of it the decoder has read
  got       \* what the decoder returned for them

vars == <<flag, encDict, decDict, log, read, got>>

(* Items on the wire: a string or bin header and its bytes, or a fixext of  *)
(* w bytes that holds n.                                                    *)
Plain(code, s) == [code |-> code, s |-> s, w |-> 0, n |-> 0]
Index(w, n) == [code |-> "ext", s |-> Empty, w |-> w, n |-> n]
WriteError == [code |-> "error", s |-> Empty, w |-> 0, n |-> 0]

Value(t, s) == [type |-> t, s |-> s]
Skipped == Value("skipped", Empty)
Error == Value("error", Empty)

InDict(s, dict) == \E i \in 1 .. Len(dict) : dict[i] = s
IndexOf(s, dict) == (CHOOSE i \in 1 .. Len(dict) : dict[i] = s) - 1

-----------------------------------------------------------------------------
(***************************************************************************)
(* Encoder                                                                 *)
(***************************************************************************)
(* Mutants: one more index than a byte holds is written in one byte; an     *)
(* index too wide for 16 bits is written in eight bytes.                    *)
encodeInternedStringIndex_Wide(idx) ==
  IF idx <= MaxUint16 THEN Index(2, idx) ELSE Index(8, idx)
encodeInternedStringIndex_OffByOne(idx) ==
  IF idx <= MaxUint8 + 1 THEN Index(1, idx % (MaxUint8 + 1))
  ELSE Index(2, idx % (MaxUint16 + 1))

(* The narrowest fixext that holds the index, converted to its width.       *)
encodeInternedStringIndex(idx) ==
  CASE idx <= MaxUint8 -> Index(1, idx % (MaxUint8 + 1))
    [] idx > MaxUint8 /\ idx <= MaxUint16 -> Index(2, idx % (MaxUint16 + 1))
    [] idx > MaxUint16 /\ idx <= MaxUint32 -> Index(4, idx % (MaxUint32 + 1))
    [] idx > MaxUint32 -> WriteError

(* What encodeInternedString writes, and the dictionary it leaves.          *)
internedItem(s, dict) ==
  IF InDict(s, dict) THEN encodeInternedStringIndex(IndexOf(s, dict))
  ELSE Plain("str", s)

internedDict(s, intern, dict) ==
  IF ~InDict(s, dict) /\ intern /\ s \in Long /\ Len(dict) < MaxDictLen
  THEN Append(dict, s) ELSE dict

(* EncodeString: without the flag an empty dictionary is not consulted.     *)
EncodeStringItem(f, s, dict) ==
  IF f \/ Len(dict) > 0 THEN internedItem(s, dict) ELSE Plain("str", s)

EncodeStringDict(f, s, dict) ==
  IF f \/ Len(dict) > 0 THEN internedDict(s, f, dict) ELSE dict

(* Written for a value of a kind, and the dictionary afterwards.            *)
EncItem(f, kind, s, dict) ==
  CASE kind \in {"tag", "tagIface"} -> internedItem(s, dict)
    [] kind = "tagBytes" -> Plain("bin", s)
    [] kind \in {"string", "iface", "skip"} -> EncodeStringItem(f, s, dict)

EncDict(f, kind, s, dict) ==
  CASE kind \in {"tag", "tagIface"} -> internedDict(s, TRUE, dict)
    [] kind = "tagBytes" -> dict
    [] kind \in {"string", "iface", "skip"} -> EncodeStringDict(f, s, dict)

-----------------------------------------------------------------------------
(***************************************************************************)
(* Decoder                                                                 *)
(***************************************************************************)
internedStringAtIndex(n, dict) ==
  IF n >= Len(dict) THEN Error ELSE Value("str", dict[n + 1])

(* decodeInternedString: the value, and the dictionary it leaves.           *)
decodeInternedValue(item, dict) ==
  IF item.code = "ext" THEN internedStringAtIndex(item.n, dict)
  ELSE Value("str", item.s)

(* Mutant: one entry more than the limit.                                   *)
decodeInternedDict_OffByOne(item, intern, dict) ==
  IF item.code \in {"str", "bin"} /\ intern /\ item.s \in Long /\ Len(dict) <= MaxDictLen
  THEN Append(dict, item.s) ELSE dict

decodeInternedDict(item, intern, dict) ==
  IF item.code \in {"str", "bin"} /\ intern /\ item.s \in Long /\ Len(dict) < MaxDictLen
  THEN Append(dict, item.s) ELSE dict

(* string(c): a plain string reader, which knows no ext.                    *)
stringValue(item) ==
  IF item.code \in {"str", "bin"} THEN Value("str", item.s) ELSE Error

(* DecodeString and decodeStringTemp.                                       *)
DecodeStringValue(f, item, dict) ==
  IF f \/ Len(dict) > 0 THEN decodeInternedValue(item, dict) ELSE stringValue(item)

DecodeStringDict(f, item, dict) ==
  IF f \/ Len(dict) > 0 THEN decodeInternedDict(item, f, dict) ELSE dict

(* DecodeInterface: strings never enter the dictionary, an index does look  *)
(* it up (decodeInternedStringExt).                                         *)
interfaceValue(item, dict) ==
  IF item.code = "ext" THEN internedStringAtIndex(item.n, dict) ELSE stringValue(item)

(* Returned for an item read as a value of a kind, and the dictionary then. *)
DecValue(f, kind, item, dict) ==
  CASE kind = "string" -> DecodeStringValue(f, item, dict)
    [] kind \in {"tag", "tagIface", "tagBytes"} -> decodeInternedValue(item, dict)
    [] kind = "iface" -> interfaceValue(item, dict)
    [] kind = "skip" -> Skipped

DecDict(f, kind, item, dict) ==
  CASE kind = "string" -> DecodeStringDict(f, item, dict)
    [] kind \in {"tag", "tagIface", "tagBytes"} -> decodeInternedDict(item, TRUE, dict)
    [] kind \in {"iface", "skip"} -> dict

-----------------------------------------------------------------------------
(***************************************************************************)
(* The stream.  An entry of the log keeps, besides what is on the wire,    *)
(* the string that was given to the encoder and the encoder's dictionary   *)
(* after it (for a reset, the dictionary both sides are reset to).         *)
(***************************************************************************)
Entry(kind, s, item, dict) == [kind |-> kind, s |-> s, item |-> item, dict |-> dict]

ResetEntry(seed) == Entry("reset", Empty, Plain("str", Empty), seed)

(* Both sides start with a ResetDict.                                       *)
Init ==
  \E seed \in Seeds :
    /\ flag \in Flags
    /\ encDict = seed
    /\ decDict = seed
    /\ log = <<ResetEntry(seed)>>
    /\ read = 1
    /\ got = <<Skipped>>

(* The encoder writes the next value (an index past MaxUint32 is an error   *)
(* that writes nothing and changes nothing).                                *)
Encode(kind, s) ==
  /\ kind # "reset"
  /\ EncItem(flag, kind, s, encDict) # WriteError
  /\ Len(log) <= MaxItems
  /\ encDict' = EncDict(flag, kind, s, encDict)
  /\ log' = Append(log, Entry(kind, s, EncItem(flag, kind, s, encDict), encDict'))
  /\ UNCHANGED <<flag, decDict, read, got>>

(* Encoder.ResetDict followed by UseInternedStrings(flag): the next values  *)
(* belong to a new stream.                                                  *)
ResetEncoder(seed) ==
  /\ "reset" \in Kinds[flag]
  /\ Len(log) <= MaxItems
  /\ encDict' = seed
  /\ log' = Append(log, ResetEntry(seed))
  /\ UNCHANGED <<flag, decDict, read, got>>

Upcoming == log[read + 1]

(* The decoder reads the next value; an error ends the stream for it.       *)
Decode ==
  /\ read < Len(log)
  /\ Upcoming.kind # "reset"
  /\ \A i \in 1 .. Len(got) : got[i] # Error
  /\ got' = Append(got, DecValue(flag, Upcoming.kind, Upcoming.item, decDict))
  /\ decDict' = DecDict(flag, Upcoming.kind, Upcoming.item, decDict)
  /\ read' = read + 1
  /\ UNCHANGED <<flag, encDict, log>>

(* Decoder.ResetDict at the start of a new stream.                          *)
ResetDecoder ==
  /\ read < Len(log)
  /\ Upcoming.kind = "reset"
  /\ got' = Append(got, Skipped)
  /\ decDict' = Upcoming.dict
  /\ read' = read + 1
  /\ UNCHANGED <<flag, encDict, log>>

Next ==
  \/ \E kind \in Kinds[flag], s \in Strings : Encode(kind, s)
  \/ \E seed \in Seeds : ResetEncoder(seed)
  \/ Decode
  \/ ResetDecoder

Spec == Init /\ [][Next]_vars
-----------------------------------------------------------------------------
(***************************************************************************)
(* Properties                                                              *)
(***************************************************************************)
Codes == {"str", "bin", "ext"}
Items == [code : Codes, s : Strings, w : {0, 1, 2, 4}, n : Nat]
Entries == [kind : AllKinds, s : Strings, item : Items, dict : Seq(Strings)]
Values == [type : {"str", "bin", "skipped", "error"}, s : Strings]

(* Types of the two dictionaries and of the stream.                         *)
TypeOK ==
  /\ flag \in Flags
  /\ encDict \in Seq(Strings)
  /\ decDict \in Seq(Strings)
  /\ log \in Seq(Entries)
  /\ read \in 1 .. Len(log)
  /\ got \in Seq(Values)
  /\ Len(got) = read

(* What must come out for an entry of the log.                              *)
Expected(e) ==
  CASE e.kind \in {"skip", "reset"} -> Skipped
    [] e.kind = "tagBytes" -> Value("bin", e.s)
    [] OTHER -> Value("str", e.s)

(* Every string comes out as it went in, whatever mixture of interned,      *)
(* tagged and plain strings shares the stream: an index the encoder writes  *)
(* names the same string in the decoder's dictionary, past every width      *)
(* boundary of the index and at the dictionary's size limit.                *)
RoundTrip == \A i \in 1 .. read : got[i] = Expected(log[i])

(* The decoder's dictionary is the one the encoder had when it had written  *)
(* what the decoder has read: neither side interns what the other does not. *)
DictsAgree == decDict = log[read].dict

(* The streams in which that is so: with the flag on, no string is read as  *)
(* an interface value or skipped; no tagged interface holds a byte slice.   *)
Paired ==
  \A f \in Flags :
    /\ f => "iface" \notin Kinds[f] /\ "skip" \notin Kinds[f]
    /\ "tagBytes" \notin Kinds[f]
=============================================================================
