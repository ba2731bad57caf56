----------------------------- MODULE DecoderPool -----------------------------
(***************************************************************************)
(* The two pools behind Unmarshal (src/pkg/msgpack/decode.go): goroutines  *)
(* run Unmarshal, nested inside one another when a custom decoder calls it *)
(* again, beside goroutines that take a Decoder with GetDecoder, configure *)
(* it and give it back.  Steps end where a shared pool is touched or where *)
(* user code runs.                                                         *)
(***************************************************************************)
EXTENDS Integers, Sequences, FiniteSets

CONSTANTS
  Goroutines,
  Decoders, Readers,  \* addresses of Decoders and of pooled bytes.Readers
  Inputs,             \* byte slices given to Unmarshal or read by a session
  DefaultDepth,       \* defaultDecodeDepthLimit
  Depths,             \* limits given to SetDecodeDepthLimit
  MaxPooledBufSize,   \* maxPooledBufSize
  BufSizes,           \* capacities that a decode grows d.buf to
  NoReader, NoInput,  \* nil
  MaxNesting,         \* bound on Unmarshal inside Unmarshal
  MaxCalls            \* bound on the number of Unmarshal calls and sessions

Flags == {"loose", "disallow", "interned", "prealloc", "noLimit"}

ASSUME PoolAssumption ==
  /\ Goroutines \cap Readers = {}
  /\ NoReader \notin Readers \cup Goroutines \cup Decoders
  /\ NoInput \notin Inputs
  /\ DefaultDepth \in Nat \ {0}
  /\ Depths \subseteq Int
  /\ MaxPooledBufSize \in Nat
  /\ BufSizes \subseteq Nat
  /\ MaxNesting \in Nat
  /\ MaxCalls \in Nat

VARIABLES
  dec,         \* the fields of every Decoder
  rd,          \* what every reader reads; a goroutine owns one for its sessions
  decPool, readerPool,
  frames,      \* per goroutine, its active Unmarshal calls and sessions
  calls        \* number of calls made

vars == <<dec, rd, decPool, readerPool, frames, calls>>

-----------------------------------------------------------------------------
(* Decoder methods, as functions of the Decoder's fields.                   *)
SetDecodeDepthLimit(d, limit) ==
  [d EXCEPT !.maxDepth = IF limit <= 0 THEN DefaultDepth ELSE limit]

ResetReader(d, r) == [d EXCEPT !.mapDecoder = FALSE, !.dict = {}, !.r = r]

(* Mutant: the flag word is left alone.                                     *)
ResetDict_KeepFlags(d, r, dict) ==
  [ResetReader(d, r) EXCEPT !.structTag = FALSE, !.dict = dict]

(* structTag and mapDecoder are "set or not", dict is the set of inputs the *)
(* dictionary has strings of.  maxDepth is untouched.                       *)
ResetDict(d, r, dict) ==
  [ResetReader(d, r) EXCEPT !.flags = {}, !.structTag = FALSE, !.dict = dict]

Reset(d, r) == ResetDict(d, r, {})

UsePreallocateValues(d) == [d EXCEPT !.flags = @ \cup {"prealloc"}]

(* The scratch buffer grown to n bytes and strings in the dictionary.       *)
Decoded(d, n, strings) == [d EXCEPT !.buf = IF n > @ THEN n ELSE @, !.dict = @ \cup strings]

NewDecoder ==
  Reset([r |-> NoReader, mapDecoder |-> FALSE, structTag |-> FALSE, buf |-> 0,
         dict |-> {}, maxDepth |-> DefaultDepth, flags |-> {}], NoReader)

(* Mutant: the reader stays.                                                *)
Put_KeepReader(d) == [d EXCEPT !.buf = IF @ > MaxPooledBufSize THEN 0 ELSE @]

(* What PutDecoder does to a Decoder before it enters the pool.             *)
Put(d) == [d EXCEPT !.r = NoReader, !.buf = IF @ > MaxPooledBufSize THEN 0 ELSE @]

-----------------------------------------------------------------------------
Frame(op, d, in) == [op |-> op, dec |-> d, reader |-> NoReader, input |-> in, pc |-> "got"]

FramesOf(g) == {frames[g][i] : i \in 1 .. Len(frames[g])}
AllFrames == UNION {FramesOf(g) : g \in Goroutines}
Top(g) == frames[g][Len(frames[g])]
Pop(g) == [frames EXCEPT ![g] = SubSeq(@, 1, Len(@) - 1)]
At(g, op, pc) == frames[g] # <<>> /\ Top(g).op = op /\ Top(g).pc = pc
GoTo(g, pc) == [frames EXCEPT ![g][Len(frames[g])].pc = pc]

(* Addresses the garbage collector may hand out again.  A Decoder or reader *)
(* that nothing refers to any more is kept in its initial state.            *)
FreeDecoders == Decoders \ (decPool \cup {f.dec : f \in AllFrames})
FreeReaders == Readers \ (readerPool \cup {f.reader : f \in AllFrames})

Init ==
  /\ dec = [d \in Decoders |-> NewDecoder]
  /\ rd = [r \in Readers \cup Goroutines |-> NoInput]
  /\ decPool = {}
  /\ readerPool = {}
  /\ frames = [g \in Goroutines |-> <<>>]
  /\ calls = 0

(* GetDecoder: a pooled Decoder or, when sync.Pool has none to offer, a new *)
(* one.  Runs first in Unmarshal and in a session, at the top level or from *)
(* a custom decoder that a decode in progress has called.                   *)
GetDecoder(g, op, in) ==
  /\ calls < MaxCalls
  /\ frames[g] # <<>> => Top(g).pc = "decode" /\ Len(frames[g]) <= MaxNesting
  /\ op = "session" => \A f \in FramesOf(g) : f.op # "session"
  /\ calls' = calls + 1
  /\ \E d \in Decoders :
       /\ \/ /\ d \in decPool
             /\ decPool' = decPool \ {d}
          \/ /\ d \in FreeDecoders
             /\ UNCHANGED decPool
       /\ frames' = [frames EXCEPT ![g] = Append(@, Frame(op, d, in))]
  /\ UNCHANGED <<dec, rd, readerPool>>

(* Mutant: the reader is put back before Decode is done with it.            *)
Prepare_PutEarly(g) ==
  /\ At(g, "unmarshal", "got")
  /\ \E r \in readerPool \cup FreeReaders :
       /\ readerPool' = readerPool \cup {r}
       /\ rd' = [rd EXCEPT ![r] = Top(g).input]
       /\ dec' = [dec EXCEPT ![Top(g).dec] = UsePreallocateValues(Reset(@, r))]
       /\ frames' = [frames EXCEPT ![g][Len(frames[g])] =
                       [@ EXCEPT !.reader = r, !.pc = "decode"]]
  /\ UNCHANGED <<decPool, calls>>

(* Unmarshal up to its Decode: take a reader, point it at the data, reset   *)
(* the Decoder and turn preallocation on.                                   *)
Prepare(g) ==
  /\ At(g, "unmarshal", "got")
  /\ \E r \in readerPool \cup FreeReaders :
       /\ readerPool' = readerPool \ {r}
       /\ rd' = [rd EXCEPT ![r] = Top(g).input]
       /\ dec' = [dec EXCEPT ![Top(g).dec] = UsePreallocateValues(Reset(@, r))]
       /\ frames' = [frames EXCEPT ![g][Len(frames[g])] =
                       [@ EXCEPT !.reader = r, !.pc = "decode"]]
  /\ UNCHANGED <<decPool, calls>>

(* A session begins with Reset, ResetDict or ResetReader on its own reader. *)
StartSession(g) ==
  /\ At(g, "session", "got")
  /\ rd' = [rd EXCEPT ![g] = Top(g).input]
  /\ \E d \in {Reset(dec[Top(g).dec], g), ResetDict(dec[Top(g).dec], g, {Top(g).input}),
               ResetReader(dec[Top(g).dec], g)} :
       dec' = [dec EXCEPT ![Top(g).dec] = d]
  /\ frames' = GoTo(g, "decode")
  /\ UNCHANGED <<decPool, readerPool, calls>>

(* The setters, in a session.                                               *)
Configure(g) ==
  /\ At(g, "session", "decode")
  /\ \E d \in {[dec[Top(g).dec] EXCEPT !.flags = fs] : fs \in {Flags, {}}}
             \cup {[dec[Top(g).dec] EXCEPT !.structTag = TRUE, !.mapDecoder = TRUE]}
             \cup {SetDecodeDepthLimit(dec[Top(g).dec], n) : n \in Depths} :
       dec' = [dec EXCEPT ![Top(g).dec] = d]
  /\ UNCHANGED <<rd, decPool, readerPool, frames, calls>>

(* Decode makes progress: it may grow the scratch buffer, and intern a      *)
(* string (an `intern` tag needs no flag).                                  *)
Decode(g) ==
  /\ frames[g] # <<>>
  /\ Top(g).pc = "decode"
  /\ \E n \in BufSizes, strings \in {{}, {Top(g).input}} :
       dec' = [dec EXCEPT ![Top(g).dec] = Decoded(@, n, strings)]
  /\ UNCHANGED <<rd, decPool, readerPool, frames, calls>>

(* A custom decoder panics and the caller recovers: nothing goes back.      *)
Panic(g) ==
  /\ frames[g] # <<>>
  /\ Top(g).pc = "decode"
  /\ frames' = Pop(g)
  /\ dec' = [dec EXCEPT ![Top(g).dec] = NewDecoder]
  /\ rd' = [rd EXCEPT ![IF Top(g).op = "session" THEN g ELSE Top(g).reader] = NoInput]
  /\ UNCHANGED <<decPool, readerPool, calls>>

(* Decode has returned, with or without an error: PutDecoder.               *)
PutDecoder(g) ==
  /\ frames[g] # <<>>
  /\ Top(g).pc = "decode"
  /\ dec' = [dec EXCEPT ![Top(g).dec] = Put(@)]
  /\ decPool' = decPool \cup {Top(g).dec}
  /\ frames' = IF Top(g).op = "session" THEN Pop(g)
               ELSE [frames EXCEPT ![g][Len(frames[g])] =
                       [@ EXCEPT !.dec = NoReader, !.pc = "putReader"]]
  /\ rd' = IF Top(g).op = "session" THEN [rd EXCEPT ![g] = NoInput] ELSE rd
  /\ UNCHANGED <<readerPool, calls>>

(* The end of Unmarshal: r.Reset(nil), which only this call can see, and    *)
(* readerPool.Put.                                                          *)
PutReader(g) ==
  /\ At(g, "unmarshal", "putReader")
  /\ rd' = [rd EXCEPT ![Top(g).reader] = NoInput]
  /\ readerPool' = readerPool \cup {Top(g).reader}
  /\ frames' = Pop(g)
  /\ UNCHANGED <<dec, decPool, calls>>

(* sync.Pool may drop what it holds at any time.                            *)
Evict ==
  \/ /\ \E d \in decPool :
          /\ decPool' = decPool \ {d}
          /\ dec' = [dec EXCEPT ![d] = NewDecoder]
     /\ UNCHANGED <<rd, readerPool, frames, calls>>
  \/ /\ \E r \in readerPool : readerPool' = readerPool \ {r}
     /\ UNCHANGED <<dec, rd, decPool, frames, calls>>

Next ==
  \/ \E g \in Goroutines :
       \/ \E op \in {"unmarshal", "session"}, in \in Inputs : GetDecoder(g, op, in)
       \/ Prepare(g)
       \/ StartSession(g)
       \/ Configure(g)
       \/ Decode(g)
       \/ Panic(g)
       \/ PutDecoder(g)
       \/ PutReader(g)
  \/ Evict

Spec == Init /\ [][Next]_vars
-----------------------------------------------------------------------------
DecoderRecords ==
  [r : Readers \cup Goroutines \cup {NoReader}, mapDecoder : BOOLEAN, structTag : BOOLEAN,
   buf : Nat, dict : SUBSET Inputs, maxDepth : Nat \ {0}, flags : SUBSET Flags]
FrameRecords ==
  [op : {"unmarshal", "session"}, dec : Decoders \cup {NoReader},
   reader : Readers \cup {NoReader}, input : Inputs, pc : {"got", "decode", "putReader"}]

(* Types of the Decoders, readers, pools and active calls.                  *)
TypeOK ==
  /\ dec \in [Decoders -> DecoderRecords]
  /\ rd \in [Readers \cup Goroutines -> Inputs \cup {NoInput}]
  /\ decPool \subseteq Decoders
  /\ readerPool \subseteq Readers
  /\ frames \in [Goroutines -> Seq(FrameRecords)]
  /\ calls \in 0 .. MaxCalls

(* Every call that is decoding reads its own input through its own Decoder, *)
(* against a dictionary of its own strings: no interleaving and no nesting  *)
(* of Unmarshal, PutDecoder and the reader pool lets one call read, or run  *)
(* on, what another one holds or has left behind.                           *)
Isolation ==
  \A g \in Goroutines : \A i \in 1 .. Len(frames[g]) :
    LET f == frames[g][i]
    IN /\ f.pc = "decode" => rd[dec[f.dec].r] = f.input /\ dec[f.dec].dict \subseteq {f.input}
       /\ f.dec # NoReader =>
            /\ f.dec \notin decPool
            /\ \A h \in Goroutines : \A j \in 1 .. Len(frames[h]) :
                 frames[h][j].dec = f.dec => g = h /\ i = j

(* Unmarshal decodes with the documented options whatever an earlier user   *)
(* of the pooled Decoder had set: preallocation, no other flag, no struct   *)
(* tag, no map decoder.                                                     *)
DefaultOptions ==
  \A g \in Goroutines : \A i \in 1 .. Len(frames[g]) :
    LET f == frames[g][i]
    IN f.op = "unmarshal" /\ f.pc = "decode" =>
         /\ dec[f.dec].flags = {"prealloc"}
         /\ ~dec[f.dec].structTag
         /\ ~dec[f.dec].mapDecoder

(* A pooled Decoder refers to no reader and keeps no scratch buffer above   *)
(* the cap, a pooled reader refers to no caller's data.                     *)
NothingRetained ==
  /\ \A d \in decPool : dec[d].r = NoReader /\ dec[d].buf <= MaxPooledBufSize
  /\ \A r \in readerPool : rd[r] = NoInput

(* "Reset discards any buffered data, resets all state": an Unmarshal, whose *)
(* Decoder has been Reset, has the default depth limit.                     *)
DefaultDepthLimit ==
  \A g \in Goroutines : \A i \in 1 .. Len(frames[g]) :
    frames[g][i].op = "unmarshal" /\ frames[g][i].pc = "decode" =>
      dec[frames[g][i].dec].maxDepth = DefaultDepth
=============================================================================
