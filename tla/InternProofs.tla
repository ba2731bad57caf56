---------------------------- MODULE InternProofs ----------------------------
(***************************************************************************)
(* For streams of paired operations, and for every set of strings, every   *)
(* width of an index and every dictionary limit: the two dictionaries      *)
(* agree and every string comes out as it went in.                         *)
(***************************************************************************)
EXTENDS Intern, TLAPS

ValueKinds == AllKinds \ {"reset"}

(* The encoder's helpers stay within the types of the stream.               *)
LEMMA EncTypes ==
  ASSUME NEW f \in BOOLEAN, NEW kind \in ValueKinds, NEW s \in Strings, NEW dict \in Seq(Strings),
         EncItem(f, kind, s, dict) # WriteError
  PROVE  /\ EncItem(f, kind, s, dict) \in Items
         /\ EncDict(f, kind, s, dict) \in Seq(Strings)
<1>1. ASSUME InDict(s, dict)
      PROVE  /\ IndexOf(s, dict) \in Nat
             /\ IndexOf(s, dict) < Len(dict)
             /\ dict[IndexOf(s, dict) + 1] = s
  BY <1>1 DEF InDict, IndexOf
<1>2. ASSUME NEW idx \in Nat, encodeInternedStringIndex(idx) # WriteError
      PROVE  encodeInternedStringIndex(idx) \in Items
  BY <1>2, InternAssumption
     DEF encodeInternedStringIndex, Index, Items, Codes
<1>3. Plain("str", s) \in Items /\ Plain("bin", s) \in Items
  BY DEF Plain, Items, Codes
<1>4. EncItem(f, kind, s, dict) \in Items
  BY <1>1, <1>2, <1>3 DEF EncItem, EncodeStringItem, internedItem, ValueKinds, AllKinds
<1>5. EncDict(f, kind, s, dict) \in Seq(Strings)
  BY DEF EncDict, EncodeStringDict, internedDict, ValueKinds, AllKinds
<1> QED BY <1>4, <1>5

(* So do the decoder's.                                                     *)
LEMMA DecTypes ==
  ASSUME NEW f \in BOOLEAN, NEW kind \in ValueKinds, NEW item \in Items, NEW dict \in Seq(Strings)
  PROVE  /\ DecValue(f, kind, item, dict) \in Values
         /\ DecDict(f, kind, item, dict) \in Seq(Strings)
<1>1. /\ internedStringAtIndex(item.n, dict) \in Values
      /\ Value("str", item.s) \in Values /\ Error \in Values /\ Skipped \in Values
  BY InternAssumption
     DEF internedStringAtIndex, Value, Error, Skipped, Values, Items
<1>2. DecValue(f, kind, item, dict) \in Values
  BY <1>1 DEF DecValue, DecodeStringValue, decodeInternedValue, interfaceValue, stringValue,
     ValueKinds, AllKinds
<1>3. DecDict(f, kind, item, dict) \in Seq(Strings)
  BY DEF DecDict, DecodeStringDict, decodeInternedDict, Items, ValueKinds, AllKinds
<1> QED BY <1>2, <1>3

(* An index that is written at all is written unchanged: its width is never *)
(* too small for it.                                                        *)
LEMMA IndexFits ==
  ASSUME NEW idx \in Nat, encodeInternedStringIndex(idx) # WriteError
  PROVE  /\ encodeInternedStringIndex(idx).code = "ext"
         /\ encodeInternedStringIndex(idx).n = idx
<1>1. ASSUME NEW m \in Nat, idx <= m PROVE idx % (m + 1) = idx
  BY <1>1
<1>2. idx <= MaxUint32
  BY InternAssumption DEF encodeInternedStringIndex
<1>3. \E w \in {1, 2, 4}, m \in Nat :
         idx <= m /\ encodeInternedStringIndex(idx) = Index(w, idx % (m + 1))
  <2>1. CASE idx <= MaxUint8
    <3>1. encodeInternedStringIndex(idx) = Index(1, idx % (MaxUint8 + 1))
      BY <2>1, InternAssumption DEF encodeInternedStringIndex
    <3> QED BY <2>1, <3>1, InternAssumption
  <2>2. CASE idx > MaxUint8 /\ idx <= MaxUint16
    <3>1. encodeInternedStringIndex(idx) = Index(2, idx % (MaxUint16 + 1))
      BY <2>2, InternAssumption DEF encodeInternedStringIndex
    <3> QED BY <2>2, <3>1, InternAssumption
  <2>3. CASE idx > MaxUint16
    <3>1. encodeInternedStringIndex(idx) = Index(4, idx % (MaxUint32 + 1))
      BY <2>3, <1>2, InternAssumption DEF encodeInternedStringIndex
    <3> QED BY <2>3, <1>2, <3>1, InternAssumption
  <2> QED BY <2>1, <2>2, <2>3, InternAssumption
<1> QED BY <1>1, <1>3 DEF Index

(* Decoding what was encoded against the same dictionary gives the string   *)
(* back and leaves the dictionary the encoder left.                         *)
LEMMA Sync ==
  ASSUME Paired, NEW f \in Flags, NEW kind \in Kinds[f], kind # "reset",
         NEW s \in Strings, NEW dict \in Seq(Strings),
         EncItem(f, kind, s, dict) # WriteError
  PROVE  /\ DecDict(f, kind, EncItem(f, kind, s, dict), dict) = EncDict(f, kind, s, dict)
         /\ DecValue(f, kind, EncItem(f, kind, s, dict), dict)
              = IF kind = "skip" THEN Skipped ELSE Value("str", s)
<1>0. kind \in {"string", "tag", "iface", "tagIface", "skip"}
  BY InternAssumption DEF AllKinds, Paired
<1>1. ASSUME InDict(s, dict), internedItem(s, dict) # WriteError
      PROVE  /\ internedItem(s, dict).code = "ext"
             /\ internedItem(s, dict).n \in Nat
             /\ internedItem(s, dict).n < Len(dict)
             /\ dict[internedItem(s, dict).n + 1] = s
  <2>1. /\ IndexOf(s, dict) \in Nat
        /\ IndexOf(s, dict) < Len(dict)
        /\ dict[IndexOf(s, dict) + 1] = s
    BY <1>1 DEF InDict, IndexOf
  <2> DEFINE idx == IndexOf(s, dict)
  <2>2. encodeInternedStringIndex(idx) # WriteError
    BY <1>1 DEF internedItem
  <2>3. /\ encodeInternedStringIndex(idx).code = "ext"
        /\ encodeInternedStringIndex(idx).n = idx
    BY <2>1, <2>2, IndexFits
  <2> QED BY <1>1, <2>1, <2>3 DEF internedItem
<1>2. ASSUME ~InDict(s, dict)
      PROVE  internedItem(s, dict) = Plain("str", s)
  BY <1>2 DEF internedItem
<1>3. InDict(s, dict) => Len(dict) > 0
  BY DEF InDict
<1>4. CASE kind \in {"tag", "tagIface"}
  <2>1. CASE InDict(s, dict)
    BY <1>1, <1>4, <2>1
       DEF EncItem, EncDict, DecDict, DecValue, decodeInternedDict, decodeInternedValue,
           internedStringAtIndex, internedDict
  <2>2. CASE ~InDict(s, dict)
    BY <1>2, <1>4, <2>2
       DEF EncItem, EncDict, DecDict, DecValue, decodeInternedDict, decodeInternedValue,
           internedDict, Plain
  <2> QED BY <2>1, <2>2
<1>5. CASE kind = "string"
  <2>1. CASE ~(f \/ Len(dict) > 0)
    BY <1>5, <2>1
       DEF EncItem, EncDict, DecDict, DecValue, EncodeStringItem, EncodeStringDict,
           DecodeStringValue, DecodeStringDict, stringValue, Plain
  <2>2. CASE (f \/ Len(dict) > 0) /\ InDict(s, dict)
    BY <1>1, <1>5, <2>2
       DEF EncItem, EncDict, DecDict, DecValue, EncodeStringItem, EncodeStringDict,
           DecodeStringValue, DecodeStringDict, decodeInternedDict, decodeInternedValue,
           internedStringAtIndex, internedDict
  <2>3. CASE (f \/ Len(dict) > 0) /\ ~InDict(s, dict)
    BY <1>2, <1>5, <2>3
       DEF EncItem, EncDict, DecDict, DecValue, EncodeStringItem, EncodeStringDict,
           DecodeStringValue, DecodeStringDict, decodeInternedDict, decodeInternedValue,
           internedDict, Plain
  <2> QED BY <2>1, <2>2, <2>3
<1>6. CASE kind \in {"iface", "skip"}
  <2>0. ~f
    BY <1>6 DEF Paired
  <2>1. EncDict(f, kind, s, dict) = dict /\ DecDict(f, kind, EncItem(f, kind, s, dict), dict) = dict
    BY <1>6, <2>0 DEF EncDict, EncodeStringDict, internedDict, DecDict
  <2>2. CASE kind = "skip"
    BY <2>1, <2>2 DEF DecValue
  <2>3. CASE kind = "iface" /\ InDict(s, dict)
    BY <1>1, <1>3, <2>1, <2>3
       DEF EncItem, EncodeStringItem, DecValue, interfaceValue, internedStringAtIndex
  <2>4. CASE kind = "iface" /\ ~InDict(s, dict)
    BY <1>2, <2>1, <2>4
       DEF EncItem, EncodeStringItem, DecValue, interfaceValue, stringValue, Plain
  <2> QED BY <1>6, <2>1, <2>2, <2>3, <2>4
<1> QED BY <1>0, <1>4, <1>5, <1>6

-----------------------------------------------------------------------------
(* The next entry the decoder reads.                                        *)
LEMMA UpcomingTypes ==
  ASSUME TypeOK, read < Len(log)
  PROVE  /\ read + 1 \in 2 .. Len(log)
         /\ Upcoming \in Entries
         /\ Upcoming.kind \in AllKinds
         /\ Upcoming.s \in Strings
         /\ Upcoming.item \in Items
         /\ Upcoming.dict \in Seq(Strings)
<1>1. read + 1 \in 2 .. Len(log)
  BY DEF TypeOK
<1>2. Upcoming \in Entries
  <2>1. log \in Seq(Entries) /\ read + 1 \in 1 .. Len(log)
    BY <1>1 DEF TypeOK
  <2> HIDE DEF Entries
  <2> QED BY <2>1 DEF Upcoming
<1> QED BY <1>1, <1>2 DEF Entries

(* Every dictionary, entry and result has its type, whatever the kinds of   *)
(* values, the flag and the limits: in particular the decoder never holds a *)
(* string that was not sent, and has one result per entry read.             *)
THEOREM TypeCorrect == Spec => []TypeOK
<1>1. Init => TypeOK
  BY InternAssumption DEF Init, TypeOK, ResetEntry, Entry, Plain, Entries, Items, Codes,
     AllKinds, Values, Skipped, Value
<1>2. TypeOK /\ [Next]_vars => TypeOK'
  <2> SUFFICES ASSUME TypeOK, [Next]_vars PROVE TypeOK'
    OBVIOUS
  <2> USE DEF TypeOK
  <2>1. ASSUME NEW kind \in Kinds[flag], NEW s \in Strings, Encode(kind, s) PROVE TypeOK'
    <3>1. kind \in ValueKinds /\ flag \in BOOLEAN
      <4>1. kind \in AllKinds /\ flag \in BOOLEAN
        BY InternAssumption
      <4> QED BY <2>1, <4>1 DEF Encode, ValueKinds
    <3>2. EncItem(flag, kind, s, encDict) \in Items /\ EncDict(flag, kind, s, encDict) \in Seq(Strings)
      BY <2>1, <3>1, EncTypes DEF Encode
    <3>3. Entry(kind, s, EncItem(flag, kind, s, encDict), EncDict(flag, kind, s, encDict)) \in Entries
      BY <3>1, <3>2 DEF Entry, Entries, ValueKinds
    <3> QED BY <2>1, <3>2, <3>3 DEF Encode
  <2>2. ASSUME NEW seed \in Seeds, ResetEncoder(seed) PROVE TypeOK'
    <3>1. ResetEntry(seed) \in Entries /\ seed \in Seq(Strings)
      BY InternAssumption DEF ResetEntry, Entry, Plain, Entries, Items, Codes, AllKinds
    <3> QED BY <2>2, <3>1 DEF ResetEncoder
  <2>3. CASE Decode
    <3>1. /\ Upcoming \in Entries
          /\ Upcoming.kind \in ValueKinds
          /\ Upcoming.item \in Items
          /\ flag \in BOOLEAN
      BY <2>3, UpcomingTypes, InternAssumption DEF Decode, ValueKinds
    <3>2. /\ DecValue(flag, Upcoming.kind, Upcoming.item, decDict) \in Values
          /\ DecDict(flag, Upcoming.kind, Upcoming.item, decDict) \in Seq(Strings)
      BY <3>1, DecTypes
    <3> QED BY <2>3, <3>2 DEF Decode
  <2>4. CASE ResetDecoder
    <3>1. Upcoming.dict \in Seq(Strings) /\ Skipped \in Values
      BY <2>4, UpcomingTypes, InternAssumption DEF ResetDecoder, Skipped, Value, Values
    <3> QED BY <2>4, <3>1 DEF ResetDecoder
  <2>5. CASE UNCHANGED vars
    BY <2>5 DEF vars
  <2> QED BY <2>1, <2>2, <2>3, <2>4, <2>5 DEF Next
<1> QED BY <1>1, <1>2, PTL DEF Spec

(* What the encoder put in the log: each entry follows from the dictionary  *)
(* of the one before, and the encoder is where the last one left it.        *)
LogSound ==
  /\ \A i \in 2 .. Len(log) :
       log[i].kind # "reset" =>
         /\ log[i].kind \in Kinds[flag]
         /\ EncItem(flag, log[i].kind, log[i].s, log[i - 1].dict) # WriteError
         /\ log[i].item = EncItem(flag, log[i].kind, log[i].s, log[i - 1].dict)
         /\ log[i].dict = EncDict(flag, log[i].kind, log[i].s, log[i - 1].dict)
  /\ encDict = log[Len(log)].dict

(* In a stream of paired kinds the decoder's dictionary is, after every     *)
(* value it reads, the one the encoder had after writing that value, and    *)
(* every string it has returned is the string that was encoded.             *)
THEOREM PairedStreams ==
  ASSUME Paired
  PROVE  Spec => [](DictsAgree /\ RoundTrip)
<1> DEFINE IInv == LogSound /\ DictsAgree /\ RoundTrip
<1>1. Init => IInv
  BY DEF Init, LogSound, DictsAgree, RoundTrip, ResetEntry, Entry, Expected
<1>2. TypeOK /\ TypeOK' /\ IInv /\ [Next]_vars => IInv'
  <2> SUFFICES ASSUME TypeOK, TypeOK', IInv, [Next]_vars PROVE IInv'
    OBVIOUS
  <2>1. ASSUME NEW kind \in Kinds[flag], NEW s \in Strings, Encode(kind, s) PROVE IInv'
    <3> DEFINE e == Entry(kind, s, EncItem(flag, kind, s, encDict), EncDict(flag, kind, s, encDict))
    <3>1. /\ log' = Append(log, e)
          /\ EncItem(flag, kind, s, encDict) # WriteError
          /\ encDict' = EncDict(flag, kind, s, encDict)
          /\ UNCHANGED <<flag, decDict, read, got>>
      BY <2>1 DEF Encode
    <3>2. /\ Len(log') = Len(log) + 1
          /\ log'[Len(log) + 1] = e
          /\ \A i \in 1 .. Len(log) : log'[i] = log[i]
          /\ Len(log) \in Nat \ {0}
      BY <3>1 DEF TypeOK
    <3>3. LogSound'
      BY <3>1, <3>2 DEF LogSound, Entry
    <3>4. DictsAgree' /\ RoundTrip'
      BY <3>1, <3>2 DEF DictsAgree, RoundTrip, TypeOK, Expected
    <3> QED BY <3>3, <3>4
  <2>2. ASSUME NEW seed \in Seeds, ResetEncoder(seed) PROVE IInv'
    <3>1. /\ log' = Append(log, ResetEntry(seed))
          /\ encDict' = seed
          /\ UNCHANGED <<flag, decDict, read, got>>
      BY <2>2 DEF ResetEncoder
    <3>2. /\ Len(log') = Len(log) + 1
          /\ log'[Len(log) + 1] = ResetEntry(seed)
          /\ \A i \in 1 .. Len(log) : log'[i] = log[i]
          /\ Len(log) \in Nat \ {0}
      BY <3>1 DEF TypeOK
    <3>3. LogSound'
      BY <3>1, <3>2 DEF LogSound, Entry, ResetEntry
    <3>4. DictsAgree' /\ RoundTrip'
      BY <3>1, <3>2 DEF DictsAgree, RoundTrip, TypeOK, Expected
    <3> QED BY <3>3, <3>4
  <2>3. CASE Decode
    <3>1. /\ read \in Nat /\ read >= 1 /\ read < Len(log)
          /\ got' = Append(got, DecValue(flag, Upcoming.kind, Upcoming.item, decDict))
          /\ decDict' = DecDict(flag, Upcoming.kind, Upcoming.item, decDict)
          /\ read' = read + 1
          /\ UNCHANGED <<flag, encDict, log>>
          /\ Upcoming.kind # "reset"
      BY <2>3 DEF Decode, TypeOK
    <3>2. /\ flag \in Flags
          /\ Upcoming.kind \in Kinds[flag]
          /\ Upcoming.s \in Strings
          /\ decDict \in Seq(Strings)
          /\ EncItem(flag, Upcoming.kind, Upcoming.s, decDict) # WriteError
          /\ Upcoming.item = EncItem(flag, Upcoming.kind, Upcoming.s, decDict)
          /\ Upcoming.dict = EncDict(flag, Upcoming.kind, Upcoming.s, decDict)
      <4>1. read + 1 \in 2 .. Len(log) /\ read = (read + 1) - 1
        BY <3>1, UpcomingTypes
      <4>2. log[read].dict = decDict /\ log[(read + 1) - 1] = log[read]
        BY <4>1 DEF DictsAgree
      <4>3. Upcoming.s \in Strings /\ decDict \in Seq(Strings)
        BY <3>1, UpcomingTypes DEF TypeOK
      <4>4. flag \in Flags
        BY DEF TypeOK
      <4> QED BY <3>1, <4>1, <4>2, <4>3, <4>4 DEF LogSound, Upcoming
    <3>3. /\ decDict' = Upcoming.dict
          /\ DecValue(flag, Upcoming.kind, Upcoming.item, decDict)
               = IF Upcoming.kind = "skip" THEN Skipped ELSE Value("str", Upcoming.s)
      BY <3>1, <3>2, Sync
    <3>4. DecValue(flag, Upcoming.kind, Upcoming.item, decDict) = Expected(Upcoming)
      BY <3>1, <3>2, <3>3 DEF Expected, Paired
    <3>5. /\ Len(got') = read + 1
          /\ got'[read + 1] = Expected(Upcoming)
          /\ \A i \in 1 .. read : got'[i] = got[i]
      BY <3>1, <3>4 DEF TypeOK
    <3>6. DictsAgree'
      BY <3>1, <3>3 DEF DictsAgree, Upcoming
    <3>7. RoundTrip'
      BY <3>1, <3>5 DEF RoundTrip, Upcoming, Expected
    <3> QED BY <3>1, <3>6, <3>7 DEF LogSound
  <2>4. CASE ResetDecoder
    <3>1. /\ read \in Nat /\ read >= 1 /\ read < Len(log)
          /\ got' = Append(got, Skipped)
          /\ decDict' = Upcoming.dict
          /\ read' = read + 1
          /\ UNCHANGED <<flag, encDict, log>>
          /\ Expected(Upcoming) = Skipped
      BY <2>4 DEF ResetDecoder, TypeOK, Expected
    <3>2. /\ got'[read + 1] = Expected(Upcoming)
          /\ \A i \in 1 .. read : got'[i] = got[i]
      BY <3>1 DEF TypeOK
    <3>3. DictsAgree'
      BY <3>1 DEF DictsAgree, Upcoming
    <3>4. RoundTrip'
      <4> SUFFICES ASSUME NEW i \in 1 .. read + 1 PROVE got'[i] = Expected(log[i])
        BY <3>1 DEF RoundTrip, Expected
      <4>1. CASE i \in 1 .. read
        BY <3>2, <4>1 DEF RoundTrip
      <4>2. CASE i = read + 1
        BY <3>2, <4>2 DEF Upcoming
      <4>3. read \in Nat
        BY <3>1
      <4>4. i \in 1 .. read \/ i = read + 1
        BY <4>3
      <4> QED BY <4>1, <4>2, <4>4
    <3> QED BY <3>1, <3>3, <3>4 DEF LogSound
  <2>5. CASE UNCHANGED vars
    BY <2>5 DEF vars, LogSound, DictsAgree, RoundTrip, Expected
  <2> QED BY <2>1, <2>2, <2>3, <2>4, <2>5 DEF Next
<1> QED BY <1>1, <1>2, TypeCorrect, PTL DEF Spec

(* The dictionaries alone: the decoder never runs ahead of or behind the    *)
(* entries of the encoder.                                                  *)
THEOREM DictionariesAgree ==
  ASSUME Paired
  PROVE  Spec => []DictsAgree
<1>1. Spec => [](DictsAgree /\ RoundTrip)
  BY PairedStreams
<1> QED BY <1>1, PTL
=============================================================================
