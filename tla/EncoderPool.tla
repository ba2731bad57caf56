----------------------------- MODULE EncoderPool -----------------------------
(***************************************************************************)
(* Marshal, AppendMarshal and Encoder.Append over the pool of Encoders     *)
(* (src/pkg/msgpack/encode.go).  The point is aliasing: the bytes a call   *)
(* returns live in a backing array that the pooled Encoder's appendBuf     *)
(* still refers to, that the caller may pass as dst again, and that other  *)
(* goroutines may get with the Encoder.                                    *)
(***************************************************************************)
EXTENDS Integers, Sequences, FiniteSets

CONSTANTS
  Goroutines,
  Encoders,          \* addresses of Encoders
  Arrays,            \* addresses of backing arrays
  Capacity,          \* capacity of each of them
  InitialCap,        \* marshalInitialBufSize
  MaxPooledBufSize,  \* maxPooledBufSize
  NoArray,           \* no backing array: a nil slice
  MaxItems,          \* bound on the writes of one Encode
  MaxNesting,        \* bound on calls inside calls
  MaxCalls           \* bound on the number of calls

ASSUME EncoderPoolAssumption ==
  /\ Capacity \in [Arrays -> Nat]
  /\ NoArray \notin Arrays
  /\ InitialCap \in Nat
  /\ MaxPooledBufSize \in Nat
  /\ MaxItems \in Nat
  /\ MaxNesting \in Nat
  /\ MaxCalls \in Nat

VARIABLES
  mem,      \* contents of every array: written items, named by the call that wrote them
  enc,      \* fields of every Encoder: w, whether options or a dict are set, appendBuf.b
  encPool,
  frames,   \* per goroutine, its active AppendMarshal and Append calls
  results,  \* slices returned to goroutines that still use them
  calls,    \* number of calls made
  reentered \* goroutines that have called Append from inside an Append

vars == <<mem, enc, encPool, frames, results, calls, reentered>>

Slice(arr, len) == [arr |-> arr, len |-> len]
NoSlice == Slice(NoArray, 0)
Cap(slice) == IF slice.arr = NoArray THEN 0 ELSE Capacity[slice.arr]
Contents(slice) == IF slice.arr = NoArray THEN <<>> ELSE SubSeq(mem[slice.arr], 1, slice.len)

FramesOf(g) == {frames[g][i] : i \in 1 .. Len(frames[g])}
AllFrames == UNION {FramesOf(g) : g \in Goroutines}
Top(g) == frames[g][Len(frames[g])]
Pop(g) == [frames EXCEPT ![g] = SubSeq(@, 1, Len(@) - 1)]

(* What nothing refers to may be allocated.                                 *)
FreeEncoders == Encoders \ (encPool \cup {f.enc : f \in AllFrames})
FreeArrays == Arrays \ ({enc[e].b.arr : e \in Encoders} \cup {r.slice.arr : r \in results})

-----------------------------------------------------------------------------
ResetWriter(e, w) == [e EXCEPT !.dict = FALSE, !.w = w]

(* Mutant: the dictionary and the options of the last user stay.            *)
Reset_WriterOnly(e, w) == [e EXCEPT !.w = w]

(* Reset is ResetDict with a nil dict.                                      *)
Reset(e, w) == [ResetWriter(e, w) EXCEPT !.options = FALSE]

NewEncoder == Reset([w |-> "nil", dict |-> FALSE, options |-> FALSE, b |-> NoSlice], "nil")

(* What PutEncoder does before it pools the Encoder.                        *)
Put(e) == [e EXCEPT !.w = "nil", !.b = IF Cap(@) > MaxPooledBufSize THEN NoSlice ELSE @]

(* Mutant: with no dst, the array of the last call is used again.           *)
AppendBufs_Reuse(e, dst) ==
  IF Cap(dst) > 0 THEN {Slice(dst.arr, 0)}
  ELSE IF Cap(e.b) > 0 THEN {Slice(e.b.arr, 0)}
  ELSE {Slice(a, 0) : a \in {a \in FreeArrays : Capacity[a] = InitialCap}}

(* What Append sets appendBuf.b to: dst[:0], or a new array if dst has no   *)
(* capacity.                                                                *)
AppendBufs(e, dst) ==
  IF Cap(dst) > 0 THEN {Slice(dst.arr, 0)}
  ELSE {Slice(a, 0) : a \in {a \in FreeArrays : Capacity[a] = InitialCap}}

Init ==
  /\ mem = [a \in Arrays |-> <<>>]
  /\ enc = [e \in Encoders |-> NewEncoder]
  /\ encPool = {}
  /\ frames = [g \in Goroutines |-> <<>>]
  /\ results = {}
  /\ calls = 0
  /\ reentered = {}

MayCall(g) ==
  /\ calls < MaxCalls
  /\ Len(frames[g]) <= MaxNesting
  /\ calls' = calls + 1

(* A dst to encode into: none, or an earlier result, which is given up.     *)
Dsts(g) == {NoSlice} \cup {r.slice : r \in {r \in results : r.owner = g}}
GiveUp(dst) == results' = {r \in results : r.slice.arr # dst.arr \/ dst = NoSlice}

Enter(below, e, old) ==
  Append(below, [enc |-> e, old |-> old, call |-> calls', wrote |-> <<>>])

(* AppendMarshal(dst, v), Marshal with no dst, up to Append's Encode: takes  *)
(* a pooled or new Encoder, resets it and installs appendBuf as its writer. *)
AppendMarshal(g) ==
  /\ MayCall(g)
  /\ \E e \in encPool \cup FreeEncoders, dst \in Dsts(g) :
       \E b \in AppendBufs(enc[e], dst) :
         /\ encPool' = encPool \ {e}
         /\ enc' = [enc EXCEPT ![e] = [Reset(@, "nil") EXCEPT !.b = b, !.w = "appendBuf"]]
         /\ frames' = [frames EXCEPT ![g] = Enter(@, e, "nil")]
         /\ GiveUp(dst)
  /\ UNCHANGED <<mem, reentered>>

(* A custom encoder calls Append on the Encoder that is calling it.         *)
AppendAgain(g) ==
  /\ frames[g] # <<>>
  /\ MayCall(g)
  /\ LET e == Top(g).enc
     IN \E dst \in Dsts(g) : \E b \in AppendBufs(enc[e], dst) :
          /\ enc' = [enc EXCEPT ![e].b = b, ![e].w = "appendBuf"]
          /\ frames' = [frames EXCEPT ![g] = Enter(@, e, enc[e].w)]
          /\ GiveUp(dst)
  /\ reentered' = reentered \cup {g}
  /\ UNCHANGED <<mem, encPool>>

(* The array that an append to b ends up in.                                *)
GrowTo(b) ==
  IF b.len < Cap(b) THEN {b.arr} ELSE {a \in FreeArrays : Capacity[a] > Cap(b)}

(* appendWriter.Write: in place while the capacity lasts, otherwise in a    *)
(* larger array with a copy.                                                *)
Write(g) ==
  /\ frames[g] # <<>>
  /\ Len(Top(g).wrote) < MaxItems
  /\ LET e == Top(g).enc
         b == enc[e].b
         item == <<Top(g).call, Len(Top(g).wrote)>>
     IN /\ enc[e].w = "appendBuf"
        /\ \E a \in GrowTo(b) :
             /\ mem' = [mem EXCEPT ![a] =
                          Append(Contents(b), item) \o
                          IF a = b.arr THEN SubSeq(mem[a], b.len + 2, Len(mem[a])) ELSE <<>>]
             /\ enc' = [enc EXCEPT ![e].b = Slice(a, b.len + 1)]
        /\ frames' = [frames EXCEPT ![g][Len(frames[g])].wrote = Append(@, item)]
  /\ UNCHANGED <<encPool, results, calls, reentered>>

(* Append returns to a custom encoder, which keeps the result.              *)
Returned(g, ok) ==
  results' = IF ok THEN results \cup {[owner |-> g, slice |-> enc[Top(g).enc].b,
                                       wrote |-> Top(g).wrote]}
             ELSE results

Outermost(g) == \A i \in 1 .. Len(frames[g]) - 1 : frames[g][i].enc # Top(g).enc

(* Append returns into AppendMarshal, which puts the Encoder back and       *)
(* returns the slice, or nil on an error.                                   *)
PutEncoder(g) ==
  /\ frames[g] # <<>>
  /\ Outermost(g)
  /\ enc' = [enc EXCEPT ![Top(g).enc] = Put([@ EXCEPT !.w = Top(g).old])]
  /\ encPool' = encPool \cup {Top(g).enc}
  /\ frames' = Pop(g)
  /\ \E ok \in BOOLEAN : Returned(g, ok)
  /\ UNCHANGED <<mem, calls, reentered>>

(* A re-entrant Append returns; the outer Encode goes on.                   *)
ReturnAppend(g) ==
  /\ frames[g] # <<>>
  /\ ~Outermost(g)
  /\ enc' = [enc EXCEPT ![Top(g).enc].w = Top(g).old]
  /\ frames' = Pop(g)
  /\ \E ok \in BOOLEAN : Returned(g, ok)
  /\ UNCHANGED <<mem, encPool, calls, reentered>>

(* GetEncoder, Reset, setters and an Encode with interned strings to a      *)
(* writer of the user's, PutEncoder: what stays behind is options and dict. *)
Session(g) ==
  /\ MayCall(g)
  /\ \E e \in encPool \cup FreeEncoders :
       /\ enc' = [enc EXCEPT ![e] = Put([Reset(@, "user") EXCEPT !.options = TRUE, !.dict = TRUE])]
       /\ encPool' = encPool \cup {e}
  /\ UNCHANGED <<mem, frames, results, reentered>>

(* A custom encoder panics through AppendMarshal: the Encoder is lost.      *)
Panic(g) ==
  /\ frames[g] # <<>>
  /\ Outermost(g)
  /\ enc' = [enc EXCEPT ![Top(g).enc] = NewEncoder]
  /\ frames' = Pop(g)
  /\ UNCHANGED <<mem, encPool, results, calls, reentered>>

(* A goroutine is done with a result; sync.Pool drops an Encoder.           *)
Drop ==
  \/ /\ \E r \in results : results' = results \ {r}
     /\ UNCHANGED <<mem, enc, encPool, frames, calls, reentered>>
  \/ /\ \E e \in encPool :
          /\ encPool' = encPool \ {e}
          /\ enc' = [enc EXCEPT ![e] = NewEncoder]
     /\ UNCHANGED <<mem, frames, results, calls, reentered>>

Next ==
  \/ \E g \in Goroutines :
       \/ AppendMarshal(g)
       \/ AppendAgain(g)
       \/ Write(g)
       \/ PutEncoder(g)
       \/ ReturnAppend(g)
       \/ Session(g)
       \/ Panic(g)
  \/ Drop

Spec == Init /\ [][Next]_vars
-----------------------------------------------------------------------------
Items == (1 .. MaxCalls) \X (0 .. MaxItems)
Slices == [arr : Arrays \cup {NoArray}, len : Nat]
Writers == {"nil", "appendBuf", "user"}
EncoderRecords == [w : Writers, dict : BOOLEAN, options : BOOLEAN, b : Slices]
FrameRecords == [enc : Encoders, old : Writers, call : 1 .. MaxCalls, wrote : Seq(Items)]

(* Types of arrays, Encoders, active calls and results; no array holds more *)
(* than its capacity.                                                       *)
TypeOK ==
  /\ mem \in [Arrays -> Seq(Items)]
  /\ \A a \in Arrays : Len(mem[a]) <= Capacity[a]
  /\ enc \in [Encoders -> EncoderRecords]
  /\ encPool \subseteq Encoders
  /\ frames \in [Goroutines -> Seq(FrameRecords)]
  /\ results \subseteq [owner : Goroutines, slice : Slices, wrote : Seq(Items)]
  /\ reentered \subseteq Goroutines
  /\ calls \in 0 .. MaxCalls

(* The bytes a call returned are exactly what it encoded, and stay so for   *)
(* as long as their owner uses them, whoever gets the pooled Encoder whose  *)
(* appendBuf still refers to their array; a goroutine that calls Append     *)
(* from inside an Append can only harm its own results.                     *)
ReturnedIntact ==
  \A r \in results : r.owner \notin reentered => Contents(r.slice) = r.wrote

(* "Append encodes v into dst[:0] and returns the resulting bytes", for     *)
(* every value, one whose custom encoder itself uses Append included.       *)
AppendReturnsAll == \A r \in results : Contents(r.slice) = r.wrote

(* AppendMarshal encodes with no option and no dictionary left by an        *)
(* earlier user of the Encoder, into its own appendBuf.                     *)
DefaultOptions ==
  \A f \in AllFrames :
    ~enc[f.enc].options /\ ~enc[f.enc].dict /\ enc[f.enc].w = "appendBuf"
=============================================================================
