-------------------------------- MODULE Time --------------------------------
(***************************************************************************)
(* The timestamp extension (src/pkg/msgpack/time.go).  One Encoder writes  *)
(* times through its single reused timeBuf, other producers add the forms  *)
(* only they write, and one Decoder reads them back.                       *)
(*                                                                         *)
(* timeBuf is three words of Word values each (32 bits in the code).  A    *)
(* second word and two more bits of the first hold the seconds of the      *)
(* 8-byte layout: Shift34 is 4 * Word (2^34 in the code).                  *)
(***************************************************************************)
EXTENDS Integers, Sequences

CONSTANTS
  Word,         \* 2^32
  NsPerSec,     \* 10^9
  ZeroSec,      \* Unix time of the zero time.Time
  Times,        \* the times to be encoded, [sec, nsec]
  Foreign,      \* items of other producers
  MaxItems      \* bound on the items of one stream

Shift34 == 4 * Word
Word64 == Word * Word
Int64 == -(Word64 \div 2) .. (Word64 \div 2 - 1)

(* What Unix() and Nanosecond() of a time.Time give, and what an item holds *)
(* on the wire: two int64, a string that is an RFC 3339 time or is not, or  *)
(* an extension's id and words.                                             *)
Instants == [sec : Int64, nsec : 0 .. (NsPerSec - 1)]
Items ==
  [form : {"legacy"}, sec : Int64, nsec : Int64]
    \cup [form : {"string"}, valid : BOOLEAN, sec : Int64, nsec : 0 .. (NsPerSec - 1)]
    \cup [form : {"ext"}, id : Int, words : Seq(0 .. (Word - 1))]

ASSUME TimeAssumption ==
  /\ Word \in Nat /\ Word > 0 /\ Word % 4 = 0
  /\ NsPerSec \in Nat /\ 1 < NsPerSec /\ NsPerSec <= Word \div 4
  /\ ZeroSec \in Int /\ ZeroSec < 0 /\ ZeroSec > -(Word64 \div 2)
  /\ Times \subseteq Instants /\ Foreign \subseteq Items
  /\ MaxItems \in Nat

VARIABLES
  timeBuf,  \* Encoder.timeBuf: its words, <<>> while nil
  stream,   \* items written and not yet read
  sent,     \* for every item, read or not: <<its time>>, <<>> for a foreign one
  got       \* what the Decoder returned for the items read

vars == <<timeBuf, stream, sent, got>>

Instant(sec, nsec) == [sec |-> sec, nsec |-> nsec]
toInt64(n) == IF n % Word64 >= Word64 \div 2 THEN (n % Word64) - Word64 ELSE n % Word64

-----------------------------------------------------------------------------
(***************************************************************************)
(* Encoder                                                                 *)
(***************************************************************************)
buf == IF timeBuf = <<>> THEN <<0, 0, 0>> ELSE timeBuf

(* secs := uint64(tm.Unix()); data is nsec << 34 | secs.                    *)
Secs(t) == t.sec % Word64
Data(t) == t.nsec * Shift34 + Secs(t)

(* The number of words: 3 if the seconds exceed 34 bits, otherwise 1 if     *)
(* data fits in 32 bits.                                                    *)
Layout(t) ==
  IF Secs(t) \div Shift34 # 0 THEN 3 ELSE IF Data(t) \div Word = 0 THEN 1 ELSE 2

(* Mutant: only the 12-byte layout clears the nanoseconds word.             *)
encodeTime_Stale(t) ==
  CASE Layout(t) = 1 -> <<Data(t), buf[2], buf[3]>>
    [] Layout(t) = 2 -> <<Data(t) \div Word, Data(t) % Word, buf[3]>>
    [] Layout(t) = 3 -> <<IF t.nsec = 0 THEN buf[1] ELSE t.nsec, Secs(t) \div Word, Secs(t) % Word>>

(* timeBuf after encodeTime: the layout's words, over those of an earlier   *)
(* time.                                                                    *)
encodeTime(t) ==
  CASE Layout(t) = 1 -> <<Data(t), buf[2], buf[3]>>
    [] Layout(t) = 2 -> <<Data(t) \div Word, Data(t) % Word, buf[3]>>
    [] Layout(t) = 3 -> <<t.nsec, Secs(t) \div Word, Secs(t) % Word>>

Ext(id, words) == [form |-> "ext", id |-> id, words |-> words]

(* EncodeTime, and timeEncoder under the extension's header.                *)
EncodeTime(t) ==
  /\ Len(sent) < MaxItems
  /\ timeBuf' = encodeTime(t)
  /\ stream' = Append(stream, Ext(-1, SubSeq(timeBuf', 1, Layout(t))))
  /\ sent' = Append(sent, <<t>>)
  /\ UNCHANGED got

(* Other producers write the legacy array, strings, id 13 or any words.     *)
Produce(i) ==
  /\ Len(sent) < MaxItems
  /\ stream' = Append(stream, i)
  /\ sent' = Append(sent, <<>>)
  /\ UNCHANGED <<timeBuf, got>>

-----------------------------------------------------------------------------
(***************************************************************************)
(* Decoder                                                                 *)
(***************************************************************************)
(* time.Unix carries nanoseconds outside of a second into the seconds.      *)
Unix(sec, nsec) == Instant(toInt64(sec + nsec \div NsPerSec), nsec % NsPerSec)

IsZero(t) == t.sec = ZeroSec /\ t.nsec = 0
Ok(t, loc) == [ok |-> TRUE, t |-> t, loc |-> loc]
Err == [ok |-> FALSE, t |-> Instant(0, 0), loc |-> "UTC"]

decodeWords(w) ==
  CASE Len(w) = 1 -> Unix(w[1], 0)
    [] Len(w) = 2 -> Unix((w[1] * Word + w[2]) % Shift34, (w[1] * Word + w[2]) \div Shift34)
    [] Len(w) = 3 -> Unix(toInt64(w[2] * Word + w[3]), w[1])

(* decodeTime, and the zero time put in UTC by both of its callers.         *)
decodeTime(w) ==
  IF Len(w) \notin 1 .. 3 THEN Err
  ELSE LET t == decodeWords(w) IN Ok(t, IF IsZero(t) THEN "UTC" ELSE "Local")

(* DecodeTime reads every form.                                             *)
DecodeTime(i) ==
  CASE i.form = "legacy" -> Ok(Unix(i.sec, i.nsec), "Local")
    [] i.form = "string" -> IF i.valid THEN Ok(Instant(i.sec, i.nsec), "Parsed") ELSE Err
    [] i.form = "ext" -> IF i.id \in {-1, 13} THEN decodeTime(i.words) ELSE Err

(* The decoder registered for time.Time, and DecodeInterface through        *)
(* extTypes: extensions with the registered id alone.                       *)
timeDecoder(i) == IF i.form = "ext" /\ i.id = -1 THEN decodeTime(i.words) ELSE Err

Read(result) ==
  /\ stream # <<>>
  /\ got' = Append(got, result)
  /\ stream' = Tail(stream)
  /\ UNCHANGED <<timeBuf, sent>>

Init == timeBuf = <<>> /\ stream = <<>> /\ sent = <<>> /\ got = <<>>

Next ==
  \/ \E t \in Times : EncodeTime(t)
  \/ \E i \in Foreign : Produce(i)
  \/ Read(DecodeTime(Head(stream)))
  \/ Read(timeDecoder(Head(stream)))

Spec == Init /\ [][Next]_vars

-----------------------------------------------------------------------------
(***************************************************************************)
(* Properties                                                              *)
(***************************************************************************)
(* Words are words, every decoded time is normalised, and the items read    *)
(* and to be read are those sent.                                           *)
TypeOK ==
  /\ timeBuf \in {<<>>} \cup [1 .. 3 -> 0 .. (Word - 1)]
  /\ stream \in Seq(Items)
  /\ sent \in Seq({<<>>} \cup {<<t>> : t \in Times})
  /\ got \in Seq([ok : BOOLEAN, t : Instants, loc : {"UTC", "Local", "Parsed"}])
  /\ Len(sent) = Len(got) + Len(stream)

(* Every time the Encoder wrote is read back as the same instant, by        *)
(* DecodeTime and by the registered decoder, whatever times went through    *)
(* timeBuf before it; the zero time comes back in UTC, so that it is equal  *)
(* to time.Time{} field by field.                                           *)
TimeRoundTrip ==
  \A k \in 1 .. Len(got) :
    sent[k] # <<>> =>
      got[k] = Ok(sent[k][1], IF IsZero(sent[k][1]) THEN "UTC" ELSE "Local")
=============================================================================
