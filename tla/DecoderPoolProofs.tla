-------------------------- MODULE DecoderPoolProofs --------------------------
(***************************************************************************)
(* For any number of goroutines, Decoders, readers and nested calls: no    *)
(* call decodes with what another one holds or has left behind, and the    *)
(* pools keep nothing of a caller's.                                       *)
(***************************************************************************)
EXTENDS DecoderPool, SequenceTheorems, TLAPS

-----------------------------------------------------------------------------
(***************************************************************************)
(* The active calls of the goroutines are kept as one stack per goroutine. *)
(* What the proofs need to know of a step that enters, leaves or changes   *)
(* the call on top of one of the stacks.                                   *)
(***************************************************************************)
(* From s to t, the stacks with frames in R of the goroutines G: the step   *)
(* touches the call at depth n of g's stack and no other.  The call becomes *)
(* one of New, or is gone if that is empty.                                 *)
Touched(G, R, s, t, g, n, New) ==
  /\ t \in [G -> Seq(R)]
  /\ \A h \in G : \A i \in 1 .. Len(t[h]) :
       \/ h = g /\ i = n /\ t[h][i] \in New
       \/ i \in 1 .. Len(s[h]) /\ t[h][i] = s[h][i] /\ ~(h = g /\ i = n)

(* A call is entered.                                                       *)
LEMMA Pushed ==
  ASSUME NEW G, NEW R, NEW s \in [G -> Seq(R)], NEW g \in G, NEW f \in R, NEW t,
         t = [s EXCEPT ![g] = Append(@, f)]
  PROVE  Touched(G, R, s, t, g, Len(s[g]) + 1, {f})
<1>1. s[g] \in Seq(R)
  OBVIOUS
<1>2. /\ Append(s[g], f) \in Seq(R)
      /\ Len(Append(s[g], f)) = Len(s[g]) + 1
      /\ \A i \in 1 .. Len(s[g]) : Append(s[g], f)[i] = s[g][i]
      /\ Append(s[g], f)[Len(s[g]) + 1] = f
  BY <1>1, AppendProperties
<1>3. Len(s[g]) \in Nat
  BY <1>1
<1>4. t[g] = Append(s[g], f) /\ \A h \in G : h # g => t[h] = s[h]
  BY <1>1
<1>5. t \in [G -> Seq(R)]
  BY <1>1, <1>2
<1>6. ASSUME NEW h \in G, NEW i \in 1 .. Len(t[h])
      PROVE  \/ h = g /\ i = Len(s[g]) + 1 /\ t[h][i] \in {f}
             \/ /\ i \in 1 .. Len(s[h]) /\ t[h][i] = s[h][i]
                /\ ~(h = g /\ i = Len(s[g]) + 1)
  <2>1. CASE h = g
    BY <1>2, <1>3, <1>4, <2>1
  <2>2. CASE h # g
    BY <1>4, <2>2
  <2> QED BY <2>1, <2>2
<1> QED BY <1>5, <1>6 DEF Touched

(* A call returns.                                                          *)
LEMMA Popped ==
  ASSUME NEW G, NEW R, NEW s \in [G -> Seq(R)], NEW g \in G, s[g] # <<>>, NEW t,
         t = [s EXCEPT ![g] = SubSeq(@, 1, Len(@) - 1)]
  PROVE  Touched(G, R, s, t, g, Len(s[g]), {})
<1>1. s[g] \in Seq(R)
  OBVIOUS
<1>2. Len(s[g]) \in Nat \ {0}
  BY <1>1, EmptySeq
<1> DEFINE p == SubSeq(s[g], 1, Len(s[g]) - 1)
<1>3. /\ p \in Seq(R)
      /\ Len(p) = Len(s[g]) - 1
      /\ \A i \in 1 .. Len(s[g]) - 1 : p[i] = s[g][i]
  <2> DEFINE m == Len(s[g]) - 1
  <2>1. m \in Nat /\ m \in 1 - 1 .. Len(s[g])
    BY <1>2
  <2> HIDE DEF m
  <2>2. /\ SubSeq(s[g], 1, m) \in Seq(R)
        /\ Len(SubSeq(s[g], 1, m)) = m
        /\ \A i \in 1 .. m : SubSeq(s[g], 1, m)[i] = s[g][i]
    BY <1>1, <1>2, <2>1
  <2> QED BY <2>2 DEF m
<1>4. t[g] = p /\ \A h \in G : h # g => t[h] = s[h]
  BY <1>1
<1>5. t \in [G -> Seq(R)]
  BY <1>1, <1>3
<1> HIDE DEF p
<1>6. ASSUME NEW h \in G, NEW i \in 1 .. Len(t[h])
      PROVE  /\ i \in 1 .. Len(s[h]) /\ t[h][i] = s[h][i]
             /\ ~(h = g /\ i = Len(s[g]))
  <2>1. CASE h = g
    BY <1>2, <1>3, <1>4, <2>1
  <2>2. CASE h # g
    BY <1>4, <2>2
  <2> QED BY <2>1, <2>2
<1> QED BY <1>5, <1>6 DEF Touched

(* A call goes on.                                                          *)
LEMMA Replaced ==
  ASSUME NEW G, NEW R, NEW s \in [G -> Seq(R)], NEW g \in G, s[g] # <<>>, NEW f \in R, NEW t,
         t = [s EXCEPT ![g] = [@ EXCEPT ![Len(s[g])] = f]]
  PROVE  Touched(G, R, s, t, g, Len(s[g]), {f})
<1>1. s[g] \in Seq(R)
  OBVIOUS
<1>2. Len(s[g]) \in Nat \ {0}
  BY <1>1, EmptySeq
<1> DEFINE n == Len(s[g])
           p == [s[g] EXCEPT ![n] = f]
<1>3. p \in Seq(R) /\ Len(p) = n
  BY <1>1, <1>2, ExceptSeq
<1>4. p[n] = f /\ \A i \in 1 .. n : i # n => p[i] = s[g][i]
  BY <1>1, <1>2
<1>5. t[g] = p /\ \A h \in G : h # g => t[h] = s[h]
  BY <1>1
<1>6. t \in [G -> Seq(R)]
  BY <1>1, <1>3
<1> HIDE DEF p, n
<1>7. ASSUME NEW h \in G, NEW i \in 1 .. Len(t[h])
      PROVE  \/ h = g /\ i = n /\ t[h][i] \in {f}
             \/ i \in 1 .. Len(s[h]) /\ t[h][i] = s[h][i] /\ ~(h = g /\ i = n)
  <2>1. CASE h = g
    BY <1>3, <1>4, <1>5, <2>1 DEF n
  <2>2. CASE h # g
    BY <1>5, <2>2
  <2> QED BY <2>1, <2>2
<1> QED BY <1>6, <1>7 DEF Touched, n

-----------------------------------------------------------------------------
(***************************************************************************)
(* The invariant                                                           *)
(***************************************************************************)
(* The reader that a call decodes from.                                     *)
ReadsFrom(g, f) == IF f.op = "session" THEN g ELSE f.reader

(* The fields a call has at each of its steps: nil once they are given up.  *)
FrameShape(f) ==
  /\ f.dec = NoReader <=> f.pc = "putReader"
  /\ f.reader # NoReader <=> f.op = "unmarshal" /\ f.pc # "got"
  /\ f.op = "session" => f.pc # "putReader"

(* What a call that is decoding has in its Decoder and reader, given the    *)
(* fields D of the Decoders and what the readers R read.                    *)
FrameUses(D, R, g, f) ==
  f.pc = "decode" =>
    /\ D[f.dec].r = ReadsFrom(g, f)
    /\ R[ReadsFrom(g, f)] = f.input
    /\ D[f.dec].dict \subseteq {f.input}
    /\ f.op = "unmarshal" =>
         D[f.dec].flags = {"prealloc"} /\ ~D[f.dec].structTag /\ ~D[f.dec].mapDecoder

Shapes == \A g \in Goroutines : \A i \in 1 .. Len(frames[g]) : FrameShape(frames[g][i])

Uses ==
  \A g \in Goroutines : \A i \in 1 .. Len(frames[g]) : FrameUses(dec, rd, g, frames[g][i])

(* Nothing that a call holds is pooled or held by another call, and a       *)
(* goroutine, which has one reader for them, is in one session at a time.   *)
Exclusive ==
  \A g \in Goroutines : \A i \in 1 .. Len(frames[g]) :
    /\ frames[g][i].dec \notin decPool
    /\ frames[g][i].reader \notin readerPool
    /\ \A h \in Goroutines : \A j \in 1 .. Len(frames[h]) :
         /\ frames[g][i].dec # NoReader /\ frames[h][j].dec = frames[g][i].dec => g = h /\ i = j
         /\ frames[g][i].reader # NoReader /\ frames[h][j].reader = frames[g][i].reader
              => g = h /\ i = j
    /\ \A j \in 1 .. Len(frames[g]) :
         frames[g][i].op = "session" /\ frames[g][j].op = "session" => i = j

(* The inductive invariant.                                                 *)
IInv == TypeOK /\ Shapes /\ Exclusive /\ Uses /\ NothingRetained

-----------------------------------------------------------------------------
(* A step of g touches its call at depth n and no other.                    *)
Touches(g, n, New) == Touched(Goroutines, FrameRecords, frames, frames', g, n, New)

(* The three ways in which the actions change a stack.                      *)
LEMMA Pushes ==
  ASSUME TypeOK, NEW g \in Goroutines, NEW f \in FrameRecords,
         frames' = [frames EXCEPT ![g] = Append(@, f)]
  PROVE  Touches(g, Len(frames[g]) + 1, {f})
BY Pushed DEF TypeOK, Touches

(* A call returns.                                                          *)
LEMMA Pops ==
  ASSUME TypeOK, NEW g \in Goroutines, frames[g] # <<>>, frames' = Pop(g)
  PROVE  Touches(g, Len(frames[g]), {})
BY Popped DEF TypeOK, Touches, Pop

(* The call on top goes on.                                                 *)
LEMMA Replaces ==
  ASSUME TypeOK, NEW g \in Goroutines, frames[g] # <<>>, NEW f \in FrameRecords,
         frames' = [frames EXCEPT ![g] = [@ EXCEPT ![Len(frames[g])] = f]]
  PROVE  Touches(g, Len(frames[g]), {f})
BY Replaced DEF TypeOK, Touches

-----------------------------------------------------------------------------
(* What is left to show of a step that touches one call, for each conjunct  *)
(* of the invariant.                                                        *)
LEMMA ShapesKept ==
  ASSUME Shapes, NEW g \in Goroutines, NEW n, NEW New, Touches(g, n, New),
         \A f \in New : FrameShape(f)
  PROVE  Shapes'
BY DEF Shapes, Touches, Touched

(* Uses is kept by a step that touches one call.                            *)
LEMMA UsesKept ==
  ASSUME NEW g \in Goroutines, NEW n, NEW New, Touches(g, n, New),
         \A h \in Goroutines : \A i \in 1 .. Len(frames[h]) :
           ~(h = g /\ i = n) => FrameUses(dec', rd', h, frames[h][i]),
         \A f \in New : FrameUses(dec', rd', g, f)
  PROVE  Uses'
<1> SUFFICES ASSUME NEW h \in Goroutines, NEW i \in 1 .. Len(frames'[h])
             PROVE  FrameUses(dec', rd', h, frames'[h][i])
  BY DEF Uses
<1>1. \/ h = g /\ i = n /\ frames'[h][i] \in New
      \/ i \in 1 .. Len(frames[h]) /\ frames'[h][i] = frames[h][i] /\ ~(h = g /\ i = n)
  BY DEF Touches, Touched
<1> QED BY <1>1

(* Exclusive is kept by a step that touches one call.                       *)
LEMMA ExclusiveKept ==
  ASSUME Exclusive, NEW g \in Goroutines, NEW n, NEW New, Touches(g, n, New),
         \A h \in Goroutines : \A i \in 1 .. Len(frames[h]) :
           ~(h = g /\ i = n) =>
             /\ frames[h][i].dec \notin decPool' /\ frames[h][i].reader \notin readerPool'
             /\ \A f \in New :
                  /\ f.dec # NoReader => f.dec # frames[h][i].dec
                  /\ f.reader # NoReader => f.reader # frames[h][i].reader
                  /\ h = g /\ f.op = "session" => frames[h][i].op # "session",
         \A f \in New : f.dec \notin decPool' /\ f.reader \notin readerPool'
  PROVE  Exclusive'
<1> DEFINE Was(h, i) == /\ i \in 1 .. Len(frames[h]) /\ frames'[h][i] = frames[h][i]
                        /\ ~(h = g /\ i = n)
           Is(h, i) == h = g /\ i = n /\ frames'[h][i] \in New
<1>1. \A h \in Goroutines : \A i \in 1 .. Len(frames'[h]) : Was(h, i) \/ Is(h, i)
  BY DEF Touches, Touched
<1>2. ASSUME NEW h \in Goroutines, NEW i \in 1 .. Len(frames'[h])
      PROVE  frames'[h][i].dec \notin decPool' /\ frames'[h][i].reader \notin readerPool'
  BY <1>1
<1>3. ASSUME NEW h \in Goroutines, NEW i \in 1 .. Len(frames'[h]),
             NEW k \in Goroutines, NEW j \in 1 .. Len(frames'[k])
      PROVE  /\ frames'[h][i].dec # NoReader /\ frames'[k][j].dec = frames'[h][i].dec => h = k /\ i = j
             /\ frames'[h][i].reader # NoReader /\ frames'[k][j].reader = frames'[h][i].reader
                  => h = k /\ i = j
  <2>1. CASE Was(h, i) /\ Was(k, j)
    BY <2>1 DEF Exclusive
  <2>2. CASE Is(h, i) /\ Was(k, j)
    BY <2>2
  <2>3. CASE Was(h, i) /\ Is(k, j)
    BY <2>3
  <2>4. CASE Is(h, i) /\ Is(k, j)
    BY <2>4
  <2> QED BY <1>1, <2>1, <2>2, <2>3, <2>4
<1>4. ASSUME NEW h \in Goroutines, NEW i \in 1 .. Len(frames'[h]), NEW j \in 1 .. Len(frames'[h]),
             frames'[h][i].op = "session", frames'[h][j].op = "session"
      PROVE  i = j
  <2>1. CASE Was(h, i) /\ Was(h, j)
    BY <1>4, <2>1 DEF Exclusive
  <2>2. CASE Is(h, i) /\ Was(h, j)
    BY <1>4, <2>2
  <2>3. CASE Was(h, i) /\ Is(h, j)
    BY <1>4, <2>3
  <2>4. CASE Is(h, i) /\ Is(h, j)
    BY <2>4
  <2> QED BY <1>1, <2>1, <2>2, <2>3, <2>4
<1> QED BY <1>2, <1>3, <1>4 DEF Exclusive

(* A call is not affected by a step that leaves its Decoder and its reader  *)
(* alone.                                                                   *)
LEMMA StillUses ==
  ASSUME TypeOK, Shapes, Uses, NEW h \in Goroutines, NEW i \in 1 .. Len(frames[h]), NEW D, NEW R,
         frames[h][i].dec \in Decoders => D[frames[h][i].dec] = dec[frames[h][i].dec],
         ReadsFrom(h, frames[h][i]) \in Readers \cup Goroutines
           => R[ReadsFrom(h, frames[h][i])] = rd[ReadsFrom(h, frames[h][i])]
  PROVE  FrameUses(D, R, h, frames[h][i])
<1> DEFINE f == frames[h][i]
<1>1. f \in FrameRecords /\ FrameShape(f) /\ FrameUses(dec, rd, h, f)
  <2>1. frames[h] \in Seq(FrameRecords)
    BY DEF TypeOK
  <2> QED BY <2>1, ElementOfSeq DEF Shapes, Uses
<1> HIDE DEF f
<1>2. SUFFICES ASSUME f.pc = "decode" PROVE FrameUses(D, R, h, f)
  BY DEF FrameUses, f
<1>3. f.dec \in Decoders /\ ReadsFrom(h, f) \in Readers \cup Goroutines
  BY <1>1, <1>2 DEF FrameRecords, FrameShape, ReadsFrom
<1>4. D[f.dec] = dec[f.dec] /\ R[ReadsFrom(h, f)] = rd[ReadsFrom(h, f)]
  BY <1>3 DEF f
<1> QED BY <1>1, <1>4 DEF FrameUses

(* Two calls do not read from one reader.                                   *)
LEMMA ReadersDiffer ==
  ASSUME TypeOK, Shapes, Exclusive,
         NEW g \in Goroutines, NEW n \in 1 .. Len(frames[g]), frames[g][n].pc # "got" \/ frames[g][n].op = "session",
         NEW h \in Goroutines, NEW i \in 1 .. Len(frames[h]), ~(h = g /\ i = n)
  PROVE  ReadsFrom(h, frames[h][i]) # ReadsFrom(g, frames[g][n])
<1> DEFINE f == frames[g][n]
           e == frames[h][i]
<1>1. f \in FrameRecords /\ FrameShape(f) /\ e \in FrameRecords /\ FrameShape(e)
  <2>1. frames[g] \in Seq(FrameRecords) /\ frames[h] \in Seq(FrameRecords)
    BY DEF TypeOK
  <2> QED BY <2>1, ElementOfSeq DEF Shapes
<1>2. /\ f.reader # NoReader => f.reader # e.reader
      /\ f.op = "session" /\ e.op = "session" => h # g
  BY DEF Exclusive
<1>3. f.pc # "got" \/ f.op = "session"
  OBVIOUS
<1> HIDE DEF e, f
<1>4. /\ f.op \in {"unmarshal", "session"} /\ e.op \in {"unmarshal", "session"}
      /\ f.reader \in Readers \cup {NoReader} /\ e.reader \in Readers \cup {NoReader}
  BY <1>1 DEF FrameRecords
<1>5. ReadsFrom(h, e) # ReadsFrom(g, f)
  BY <1>1, <1>2, <1>3, <1>4, PoolAssumption DEF FrameShape, ReadsFrom
<1> QED BY <1>5 DEF e, f

-----------------------------------------------------------------------------
(* The Decoder's methods keep the types of its fields.                      *)
LEMMA ResetTypes ==
  ASSUME NEW d \in DecoderRecords, NEW r \in Readers \cup Goroutines \cup {NoReader},
         NEW dict \in SUBSET Inputs
  PROVE  ResetReader(d, r) \in DecoderRecords /\ ResetDict(d, r, dict) \in DecoderRecords
BY DEF ResetReader, ResetDict, DecoderRecords

(* NewDecoder gives a Decoder.                                              *)
LEMMA NewTypes == NewDecoder \in DecoderRecords
<1>1. DefaultDepth \in Nat \ {0}
  BY PoolAssumption
<1> QED BY <1>1 DEF NewDecoder, Reset, ResetDict, ResetReader, DecoderRecords

(* PutDecoder leaves no reader and no large buffer in the Decoder.          *)
LEMMA PutTypes ==
  ASSUME NEW d \in DecoderRecords
  PROVE  /\ Put(d) \in DecoderRecords
         /\ Put(d).r = NoReader /\ Put(d).buf <= MaxPooledBufSize
<1>1. MaxPooledBufSize \in Nat
  BY PoolAssumption
<1>2. d.buf \in Nat
  BY DEF DecoderRecords
<1> DEFINE b == IF d.buf > MaxPooledBufSize THEN 0 ELSE d.buf
<1>3. b \in Nat /\ b <= MaxPooledBufSize
  BY <1>1, <1>2
<1>4. Put(d) = [d EXCEPT !.r = NoReader, !.buf = b]
  BY DEF Put
<1> HIDE DEF b
<1> QED BY <1>3, <1>4 DEF DecoderRecords

(* The call on top of a stack.                                              *)
LEMMA TopFacts ==
  ASSUME TypeOK, Shapes, Uses, NEW g \in Goroutines, frames[g] # <<>>
  PROVE  /\ Len(frames[g]) \in 1 .. Len(frames[g])
         /\ Top(g) \in FrameRecords
         /\ FrameShape(Top(g))
         /\ FrameUses(dec, rd, g, Top(g))
<1>1. frames[g] \in Seq(FrameRecords)
  BY DEF TypeOK
<1>2. Len(frames[g]) \in Nat \ {0}
  BY <1>1, EmptySeq
<1>3. Len(frames[g]) \in 1 .. Len(frames[g])
  BY <1>2
<1> QED BY <1>1, <1>3, ElementOfSeq DEF Shapes, Uses, Top

-----------------------------------------------------------------------------
(* GetDecoder keeps the invariant.                                          *)
LEMMA GetDecoderStep ==
  ASSUME IInv, NEW g \in Goroutines, NEW op \in {"unmarshal", "session"}, NEW in \in Inputs,
         GetDecoder(g, op, in)
  PROVE  IInv'
<1> USE DEF IInv
<1>1. PICK d \in Decoders :
        /\ \/ d \in decPool /\ decPool' = decPool \ {d}
           \/ d \in FreeDecoders /\ UNCHANGED decPool
        /\ frames' = [frames EXCEPT ![g] = Append(@, Frame(op, d, in))]
  BY DEF GetDecoder
<1>2. /\ calls < MaxCalls /\ calls' = calls + 1
      /\ op = "session" => \A f \in FramesOf(g) : f.op # "session"
      /\ UNCHANGED <<dec, rd, readerPool>>
  BY DEF GetDecoder
<1> DEFINE f == Frame(op, d, in)
<1>3. f \in FrameRecords /\ FrameShape(f) /\ f.pc = "got" /\ f.reader = NoReader /\ f.dec = d /\ f.op = op
  BY PoolAssumption DEF Frame, FrameRecords, FrameShape
<1> HIDE DEF f
<1>4. Touches(g, Len(frames[g]) + 1, {f})
  BY <1>1, <1>3, Pushes DEF f
<1>5. d \notin decPool' /\ decPool' \subseteq decPool
  BY <1>1 DEF FreeDecoders
<1>6. ASSUME NEW h \in Goroutines, NEW i \in 1 .. Len(frames[h])
      PROVE  frames[h][i].dec # d /\ (h = g /\ op = "session" => frames[h][i].op # "session")
  <2>1. frames[h][i] \in FramesOf(h) /\ frames[h][i] \in AllFrames
    BY DEF FramesOf, AllFrames
  <2>2. frames[h][i].dec \notin decPool
    BY DEF Exclusive
  <2> QED BY <1>1, <1>2, <2>1, <2>2 DEF FreeDecoders
<1>7. TypeOK'
  <2>1. calls' \in 0 .. MaxCalls
    BY <1>2, PoolAssumption DEF TypeOK
  <2> QED BY <1>2, <1>4, <1>5, <2>1 DEF TypeOK, Touches, Touched
<1>8. Shapes'
  BY <1>3, <1>4, ShapesKept
<1>9. Exclusive'
  <2>1. NoReader \notin readerPool'
    BY <1>2, PoolAssumption DEF TypeOK
  <2> QED BY <1>2, <1>3, <1>4, <1>5, <1>6, <2>1, ExclusiveKept DEF Exclusive
<1>10. Uses'
  <2>1. \A h \in Goroutines : \A i \in 1 .. Len(frames[h]) : FrameUses(dec', rd', h, frames[h][i])
    BY <1>2 DEF Uses
  <2>2. FrameUses(dec', rd', g, f)
    BY <1>3 DEF FrameUses
  <2> QED BY <1>4, <2>1, <2>2, UsesKept
<1>11. NothingRetained'
  BY <1>2, <1>5 DEF NothingRetained
<1> QED BY <1>7, <1>8, <1>9, <1>10, <1>11

(* The preparation of an Unmarshal keeps the invariant.                     *)
LEMMA PrepareStep ==
  ASSUME IInv, NEW g \in Goroutines, Prepare(g)
  PROVE  IInv'
<1> USE DEF IInv
<1>1. PICK r \in readerPool \cup FreeReaders :
       /\ readerPool' = readerPool \ {r}
       /\ rd' = [rd EXCEPT ![r] = Top(g).input]
       /\ dec' = [dec EXCEPT ![Top(g).dec] = UsePreallocateValues(Reset(@, r))]
       /\ frames' = [frames EXCEPT ![g][Len(frames[g])] =
                       [@ EXCEPT !.reader = r, !.pc = "decode"]]
  BY DEF Prepare
<1>2. /\ frames[g] # <<>> /\ Top(g).op = "unmarshal" /\ Top(g).pc = "got"
      /\ UNCHANGED <<decPool, calls>>
  BY DEF Prepare, At
<1> DEFINE n == Len(frames[g])
           t == Top(g)
           f == [t EXCEPT !.reader = r, !.pc = "decode"]
<1>3. n \in 1 .. Len(frames[g]) /\ t \in FrameRecords /\ FrameShape(t) /\ t = frames[g][n]
  BY <1>2, TopFacts DEF Top
<1>4. r \in Readers /\ r # NoReader /\ r \notin Goroutines
  BY PoolAssumption DEF FreeReaders, TypeOK
<1>5. t.dec \in Decoders /\ t.input \in Inputs
  BY <1>2, <1>3 DEF FrameRecords, FrameShape
<1>6. /\ f \in FrameRecords /\ FrameShape(f) /\ f.pc = "decode" /\ f.reader = r
      /\ f.dec = t.dec /\ f.op = "unmarshal" /\ f.input = t.input
  BY <1>2, <1>3, <1>4, <1>5, PoolAssumption DEF FrameRecords, FrameShape
<1>7. frames' = [frames EXCEPT ![g] = [@ EXCEPT ![n] = f]]
  BY <1>1 DEF Top
<1> HIDE DEF f, t, n
<1>8. Touches(g, n, {f})
  BY <1>2, <1>6, <1>7, Replaces DEF n
<1>9. ASSUME NEW h \in Goroutines, NEW i \in 1 .. Len(frames[h]), ~(h = g /\ i = n)
      PROVE  frames[h][i].dec # t.dec /\ frames[h][i].reader # r /\ ReadsFrom(h, frames[h][i]) # r
  <2>1. frames[h][i].dec # t.dec
    BY <1>3, <1>5, <1>9, PoolAssumption DEF Exclusive
  <2>2. frames[h][i].reader # r
    <3>1. frames[h][i] \in AllFrames
      BY DEF FramesOf, AllFrames
    <3> QED BY <3>1 DEF FreeReaders, Exclusive
  <2> QED BY <1>4, <2>1, <2>2 DEF ReadsFrom
<1> DEFINE nd == UsePreallocateValues(Reset(dec[t.dec], r))
<1>10. /\ nd \in DecoderRecords /\ nd.r = r /\ nd.dict = {} /\ nd.flags = {"prealloc"}
       /\ ~nd.structTag /\ ~nd.mapDecoder
  <2>1. dec[t.dec] \in DecoderRecords
    BY <1>5 DEF TypeOK
  <2> QED BY <1>4, <2>1 DEF UsePreallocateValues, Reset, ResetDict, ResetReader, DecoderRecords, Flags
<1>11. dec' = [dec EXCEPT ![t.dec] = nd]
  BY <1>1 DEF t
<1> HIDE DEF nd
<1>12. rd' = [rd EXCEPT ![r] = t.input]
  BY <1>1 DEF t
<1>13. TypeOK'
  <2>1. dec' \in [Decoders -> DecoderRecords]
    BY <1>10, <1>11 DEF TypeOK
  <2>2. rd' \in [Readers \cup Goroutines -> Inputs \cup {NoInput}]
    BY <1>5, <1>12 DEF TypeOK
  <2> QED BY <1>1, <1>2, <1>8, <2>1, <2>2 DEF TypeOK, Touches, Touched
<1>14. Shapes'
  BY <1>6, <1>8, ShapesKept
<1>15. Exclusive'
  <2>1. t.dec \notin decPool'
    BY <1>2, <1>3 DEF Exclusive
  <2>2. r \notin readerPool' /\ readerPool' \subseteq readerPool
    BY <1>1
  <2> QED BY <1>2, <1>6, <1>8, <1>9, <2>1, <2>2, ExclusiveKept DEF Exclusive
<1>16. Uses'
  <2>1. /\ \A e \in Decoders : e # t.dec => dec'[e] = dec[e]
        /\ dec'[t.dec] = nd
        /\ \A x \in Readers \cup Goroutines : x # r => rd'[x] = rd[x]
        /\ rd'[r] = t.input
    BY <1>4, <1>5, <1>11, <1>12 DEF TypeOK
  <2>2. FrameUses(dec', rd', g, f)
    BY <1>6, <1>10, <2>1 DEF FrameUses, ReadsFrom
  <2>3. ASSUME NEW h \in Goroutines, NEW i \in 1 .. Len(frames[h]), ~(h = g /\ i = n)
        PROVE  FrameUses(dec', rd', h, frames[h][i])
    <3>1. frames[h][i].dec # t.dec /\ ReadsFrom(h, frames[h][i]) # r
      BY <1>9, <2>3
    <3> QED BY <2>1, <3>1, StillUses
  <2> QED BY <1>8, <2>2, <2>3, UsesKept
<1>17. NothingRetained'
  <2>1. \A e \in decPool : e # t.dec /\ e \in Decoders
    BY <1>3 DEF Exclusive, TypeOK
  <2> QED BY <1>1, <1>2, <1>11, <1>12, <2>1 DEF NothingRetained, TypeOK
<1> QED BY <1>13, <1>14, <1>15, <1>16, <1>17

(* The reset at the start of a session keeps the invariant.                 *)
LEMMA StartSessionStep ==
  ASSUME IInv, NEW g \in Goroutines, StartSession(g)
  PROVE  IInv'
<1> USE DEF IInv
<1>1. PICK nd \in {Reset(dec[Top(g).dec], g), ResetDict(dec[Top(g).dec], g, {Top(g).input}),
                   ResetReader(dec[Top(g).dec], g)} :
        dec' = [dec EXCEPT ![Top(g).dec] = nd]
  BY DEF StartSession
<1>2. /\ frames[g] # <<>> /\ Top(g).op = "session" /\ Top(g).pc = "got"
      /\ rd' = [rd EXCEPT ![g] = Top(g).input]
      /\ frames' = GoTo(g, "decode")
      /\ UNCHANGED <<decPool, readerPool, calls>>
  BY DEF StartSession, At
<1> DEFINE n == Len(frames[g])
           t == Top(g)
           f == [t EXCEPT !.pc = "decode"]
<1>3. n \in 1 .. Len(frames[g]) /\ t \in FrameRecords /\ FrameShape(t) /\ t = frames[g][n]
  BY <1>2, TopFacts DEF Top
<1>4. t.dec \in Decoders /\ t.input \in Inputs
  BY <1>2, <1>3 DEF FrameRecords, FrameShape
<1>5. /\ f \in FrameRecords /\ FrameShape(f) /\ f.pc = "decode" /\ f.reader = NoReader
      /\ f.dec = t.dec /\ f.op = "session" /\ f.input = t.input
  BY <1>2, <1>3, <1>4 DEF FrameRecords, FrameShape
<1>6. frames' = [frames EXCEPT ![g] = [@ EXCEPT ![n] = f]]
  BY <1>2 DEF GoTo, Top
<1> HIDE DEF f, t, n
<1>7. Touches(g, n, {f})
  BY <1>2, <1>5, <1>6, Replaces DEF n
<1>8. ASSUME NEW h \in Goroutines, NEW i \in 1 .. Len(frames[h]), ~(h = g /\ i = n)
      PROVE  /\ frames[h][i].dec # t.dec /\ ReadsFrom(h, frames[h][i]) # g
             /\ h = g => frames[h][i].op # "session"
  <2>1. frames[h][i].dec # t.dec /\ (h = g => frames[h][i].op # "session")
    BY <1>2, <1>3, <1>4, <1>8, PoolAssumption DEF Exclusive, t
  <2>2. t.op = "session" /\ ReadsFrom(g, t) = g
    BY <1>2 DEF ReadsFrom, t
  <2>3. ReadsFrom(h, frames[h][i]) # ReadsFrom(g, frames[g][n])
    BY <1>3, <1>8, <2>2, ReadersDiffer
  <2> QED BY <1>3, <2>1, <2>2, <2>3
<1>9. nd \in DecoderRecords /\ nd.r = g /\ nd.dict \subseteq {t.input}
  <2>1. dec[t.dec] \in DecoderRecords
    BY <1>4 DEF TypeOK
  <2>2. nd \in {ResetDict(dec[t.dec], g, {}), ResetDict(dec[t.dec], g, {t.input}), ResetReader(dec[t.dec], g)}
    BY <1>1 DEF Reset, t
  <2>3. nd \in DecoderRecords
    BY <1>4, <2>1, <2>2, ResetTypes
  <2> QED BY <2>1, <2>2, <2>3 DEF ResetDict, ResetReader, DecoderRecords
<1>10. dec' = [dec EXCEPT ![t.dec] = nd] /\ rd' = [rd EXCEPT ![g] = t.input]
  BY <1>1, <1>2 DEF t
<1>11. TypeOK'
  <2>1. dec' \in [Decoders -> DecoderRecords]
    BY <1>9, <1>10 DEF TypeOK
  <2>2. rd' \in [Readers \cup Goroutines -> Inputs \cup {NoInput}]
    BY <1>4, <1>10 DEF TypeOK
  <2> QED BY <1>2, <1>7, <2>1, <2>2 DEF TypeOK, Touches, Touched
<1>12. Shapes'
  BY <1>5, <1>7, ShapesKept
<1>13. Exclusive'
  <2>1. t.dec \notin decPool' /\ NoReader \notin readerPool'
    BY <1>2, <1>3, PoolAssumption DEF Exclusive, TypeOK
  <2>2. ASSUME NEW h \in Goroutines, NEW i \in 1 .. Len(frames[h]), ~(h = g /\ i = n)
        PROVE  /\ frames[h][i].dec \notin decPool' /\ frames[h][i].reader \notin readerPool'
               /\ f.dec # frames[h][i].dec
               /\ h = g => frames[h][i].op # "session"
    BY <1>2, <1>5, <1>8, <2>2 DEF Exclusive
  <2> QED BY <1>5, <1>7, <2>1, <2>2, ExclusiveKept
<1>14. Uses'
  <2>1. /\ \A e \in Decoders : e # t.dec => dec'[e] = dec[e]
        /\ dec'[t.dec] = nd
        /\ \A x \in Readers \cup Goroutines : x # g => rd'[x] = rd[x]
        /\ rd'[g] = t.input
    BY <1>4, <1>10 DEF TypeOK
  <2>2. FrameUses(dec', rd', g, f)
    BY <1>5, <1>9, <2>1 DEF FrameUses, ReadsFrom
  <2>3. ASSUME NEW h \in Goroutines, NEW i \in 1 .. Len(frames[h]), ~(h = g /\ i = n)
        PROVE  FrameUses(dec', rd', h, frames[h][i])
    <3>1. frames[h][i].dec # t.dec /\ ReadsFrom(h, frames[h][i]) # g
      BY <1>8, <2>3
    <3> QED BY <2>1, <3>1, StillUses
  <2> QED BY <1>7, <2>2, <2>3, UsesKept
<1>15. NothingRetained'
  <2>1. \A e \in decPool : e # t.dec /\ e \in Decoders
    BY <1>3 DEF Exclusive, TypeOK
  <2>2. \A r \in readerPool : r # g /\ r \in Readers
    BY PoolAssumption DEF TypeOK
  <2> QED BY <1>2, <1>10, <2>1, <2>2 DEF NothingRetained, TypeOK
<1> QED BY <1>11, <1>12, <1>13, <1>14, <1>15

(* A step of the call on top that changes its Decoder only: not the reader, *)
(* no strings but its own, and no option of an Unmarshal.                   *)
LEMMA DecoderChanges ==
  ASSUME IInv, NEW g \in Goroutines, frames[g] # <<>>, Top(g).pc = "decode",
         NEW nd \in DecoderRecords, dec' = [dec EXCEPT ![Top(g).dec] = nd],
         UNCHANGED <<rd, decPool, readerPool, frames, calls>>,
         nd.r = dec[Top(g).dec].r, nd.dict \subseteq {Top(g).input},
         Top(g).op = "unmarshal" =>
           /\ nd.flags = dec[Top(g).dec].flags
           /\ nd.structTag = dec[Top(g).dec].structTag
           /\ nd.mapDecoder = dec[Top(g).dec].mapDecoder
  PROVE  IInv'
<1> USE DEF IInv
<1> DEFINE n == Len(frames[g])
           t == Top(g)
<1>1. /\ n \in 1 .. Len(frames[g]) /\ t \in FrameRecords /\ FrameShape(t) /\ t = frames[g][n]
      /\ FrameUses(dec, rd, g, t)
  BY TopFacts DEF Top
<1>2. t.dec \in Decoders
  BY <1>1 DEF FrameRecords, FrameShape
<1>3. /\ dec' = [dec EXCEPT ![t.dec] = nd] /\ t.pc = "decode"
      /\ nd.r = dec[t.dec].r /\ nd.dict \subseteq {t.input}
      /\ t.op = "unmarshal" =>
           /\ nd.flags = dec[t.dec].flags
           /\ nd.structTag = dec[t.dec].structTag
           /\ nd.mapDecoder = dec[t.dec].mapDecoder
  OBVIOUS
<1> HIDE DEF n, t
<1>4. TypeOK'
  <2>1. dec' \in [Decoders -> DecoderRecords]
    BY <1>3 DEF TypeOK
  <2> QED BY <2>1 DEF TypeOK
<1>5. Shapes' /\ Exclusive'
  BY DEF Shapes, Exclusive
<1>6. Uses'
  <2> SUFFICES ASSUME NEW h \in Goroutines, NEW i \in 1 .. Len(frames[h])
               PROVE  FrameUses(dec', rd', h, frames[h][i])
    BY DEF Uses
  <2>1. CASE h = g /\ i = n
    <3>1. dec'[t.dec] = nd
      BY <1>2, <1>3 DEF TypeOK
    <3> QED BY <1>1, <1>3, <2>1, <3>1 DEF FrameUses
  <2>2. CASE ~(h = g /\ i = n)
    <3>1. frames[h][i].dec # t.dec
      BY <1>1, <1>2, <2>2, PoolAssumption DEF Exclusive
    <3>2. \A e \in Decoders : e # t.dec => dec'[e] = dec[e]
      BY <1>3 DEF TypeOK
    <3> QED BY <3>1, <3>2, StillUses
  <2> QED BY <2>1, <2>2
<1>7. NothingRetained'
  <2>1. \A e \in decPool : e # t.dec /\ e \in Decoders
    BY <1>1 DEF Exclusive, TypeOK
  <2> QED BY <1>3, <2>1 DEF NothingRetained, TypeOK
<1> QED BY <1>4, <1>5, <1>6, <1>7

(* The setters keep the invariant.                                          *)
LEMMA ConfigureStep ==
  ASSUME IInv, NEW g \in Goroutines, Configure(g)
  PROVE  IInv'
<1> DEFINE d == dec[Top(g).dec]
<1>1. /\ frames[g] # <<>> /\ Top(g).op = "session" /\ Top(g).pc = "decode"
      /\ UNCHANGED <<rd, decPool, readerPool, frames, calls>>
  BY DEF Configure, At
<1>2. PICK nd \in {[d EXCEPT !.flags = fs] : fs \in {Flags, {}}}
                  \cup {[d EXCEPT !.structTag = TRUE, !.mapDecoder = TRUE]}
                  \cup {SetDecodeDepthLimit(d, m) : m \in Depths} :
        dec' = [dec EXCEPT ![Top(g).dec] = nd]
  BY DEF Configure
<1>3. /\ Top(g) \in FrameRecords /\ FrameShape(Top(g)) /\ FrameUses(dec, rd, g, Top(g))
  BY <1>1, TopFacts DEF IInv
<1>4. Top(g).dec \in Decoders
  BY <1>1, <1>3 DEF FrameRecords, FrameShape
<1>5. d \in DecoderRecords
  BY <1>4 DEF IInv, TypeOK
<1>6. d.dict \subseteq {Top(g).input}
  BY <1>1, <1>3 DEF FrameUses
<1>7. nd \in DecoderRecords /\ nd.r = d.r /\ nd.dict = d.dict
  <2> HIDE DEF d
  <2>1. CASE nd \in {[d EXCEPT !.flags = fs] : fs \in {Flags, {}}}
    BY <1>5, <2>1 DEF DecoderRecords
  <2>2. CASE nd = [d EXCEPT !.structTag = TRUE, !.mapDecoder = TRUE]
    BY <1>5, <2>2 DEF DecoderRecords
  <2>3. ASSUME NEW m \in Depths, nd = SetDecodeDepthLimit(d, m)
        PROVE  nd \in DecoderRecords /\ nd.r = d.r /\ nd.dict = d.dict
    <3> DEFINE k == IF m <= 0 THEN DefaultDepth ELSE m
    <3>1. k \in Nat \ {0}
      BY PoolAssumption
    <3>2. nd = [d EXCEPT !.maxDepth = k]
      BY <2>3 DEF SetDecodeDepthLimit
    <3> HIDE DEF k
    <3> QED BY <1>5, <3>1, <3>2 DEF DecoderRecords
  <2> QED BY <2>1, <2>2, <2>3, <1>2
<1> HIDE DEF d
<1> QED BY <1>1, <1>2, <1>6, <1>7, DecoderChanges DEF d

(* A decode keeps the invariant.                                            *)
LEMMA DecodeStep ==
  ASSUME IInv, NEW g \in Goroutines, Decode(g)
  PROVE  IInv'
<1> DEFINE d == dec[Top(g).dec]
<1>1. /\ frames[g] # <<>> /\ Top(g).pc = "decode"
      /\ UNCHANGED <<rd, decPool, readerPool, frames, calls>>
  BY DEF Decode
<1>2. PICK n \in BufSizes, strings \in {{}, {Top(g).input}} :
        dec' = [dec EXCEPT ![Top(g).dec] = Decoded(d, n, strings)]
  BY DEF Decode
<1>3. /\ Top(g) \in FrameRecords /\ FrameShape(Top(g)) /\ FrameUses(dec, rd, g, Top(g))
  BY <1>1, TopFacts DEF IInv
<1>4. Top(g).dec \in Decoders /\ Top(g).input \in Inputs
  BY <1>1, <1>3 DEF FrameRecords, FrameShape
<1>5. d \in DecoderRecords
  BY <1>4 DEF IInv, TypeOK
<1>6. d.dict \subseteq {Top(g).input}
  BY <1>1, <1>3 DEF FrameUses
<1> DEFINE nd == Decoded(d, n, strings)
<1>7. /\ nd \in DecoderRecords /\ nd.r = d.r /\ nd.dict \subseteq {Top(g).input}
      /\ nd.flags = d.flags /\ nd.structTag = d.structTag /\ nd.mapDecoder = d.mapDecoder
  <2> HIDE DEF d
  <2> DEFINE b == IF n > d.buf THEN n ELSE d.buf
             ss == d.dict \cup strings
  <2>1. b \in Nat
    BY <1>5, PoolAssumption DEF DecoderRecords
  <2>2. ss \in SUBSET Inputs /\ ss \subseteq {Top(g).input}
    BY <1>4, <1>6
  <2>3. nd = [d EXCEPT !.buf = b, !.dict = ss]
    BY DEF Decoded
  <2> HIDE DEF b, ss, nd
  <2> QED BY <1>5, <2>1, <2>2, <2>3 DEF DecoderRecords
<1> HIDE DEF d, nd
<1> QED BY <1>1, <1>2, <1>7, DecoderChanges DEF d, nd

(* A panic drops the Decoder and its reader and keeps the invariant.        *)
LEMMA PanicStep ==
  ASSUME IInv, NEW g \in Goroutines, Panic(g)
  PROVE  IInv'
<1> USE DEF IInv
<1> DEFINE n == Len(frames[g])
           t == Top(g)
           x == ReadsFrom(g, t)
<1>1. /\ frames[g] # <<>> /\ t.pc = "decode" /\ frames' = Pop(g)
      /\ dec' = [dec EXCEPT ![t.dec] = NewDecoder]
      /\ rd' = [rd EXCEPT ![x] = NoInput]
      /\ UNCHANGED <<decPool, readerPool, calls>>
  BY DEF Panic, ReadsFrom
<1>2. n \in 1 .. Len(frames[g]) /\ t \in FrameRecords /\ FrameShape(t) /\ t = frames[g][n]
  BY <1>1, TopFacts DEF Top
<1>3. t.dec \in Decoders
  BY <1>1, <1>2 DEF FrameRecords, FrameShape
<1>4. x \in Readers \cup Goroutines /\ (x = g \/ x = t.reader)
  BY <1>1, <1>2 DEF FrameRecords, FrameShape, ReadsFrom
<1> HIDE DEF n, t, x
<1>5. Touches(g, n, {})
  BY <1>1, Pops DEF n
<1>6. ASSUME NEW h \in Goroutines, NEW i \in 1 .. Len(frames[h]), ~(h = g /\ i = n)
      PROVE  frames[h][i].dec # t.dec /\ ReadsFrom(h, frames[h][i]) # x
  <2>1. frames[h][i].dec # t.dec
    BY <1>2, <1>3, <1>6, PoolAssumption DEF Exclusive
  <2>2. ReadsFrom(h, frames[h][i]) # ReadsFrom(g, frames[g][n])
    BY <1>1, <1>2, <1>6, ReadersDiffer
  <2> QED BY <1>2, <2>1, <2>2 DEF x
<1>7. TypeOK'
  <2>1. dec' \in [Decoders -> DecoderRecords]
    BY <1>1, NewTypes DEF TypeOK
  <2>2. rd' \in [Readers \cup Goroutines -> Inputs \cup {NoInput}]
    BY <1>1 DEF TypeOK
  <2> QED BY <1>1, <1>5, <2>1, <2>2 DEF TypeOK, Touches, Touched
<1>8. Shapes'
  BY <1>5, ShapesKept
<1>9. Exclusive'
  <2>1. ASSUME NEW h \in Goroutines, NEW i \in 1 .. Len(frames[h]), ~(h = g /\ i = n)
        PROVE  frames[h][i].dec \notin decPool' /\ frames[h][i].reader \notin readerPool'
    BY <1>1 DEF Exclusive
  <2> QED BY <1>5, <2>1, ExclusiveKept
<1>10. Uses'
  <2>1. /\ \A e \in Decoders : e # t.dec => dec'[e] = dec[e]
        /\ \A r \in Readers \cup Goroutines : r # x => rd'[r] = rd[r]
    BY <1>1 DEF TypeOK
  <2>2. ASSUME NEW h \in Goroutines, NEW i \in 1 .. Len(frames[h]), ~(h = g /\ i = n)
        PROVE  FrameUses(dec', rd', h, frames[h][i])
    <3>1. frames[h][i].dec # t.dec /\ ReadsFrom(h, frames[h][i]) # x
      BY <1>6, <2>2
    <3> QED BY <2>1, <3>1, StillUses
  <2> QED BY <1>5, <2>2, UsesKept
<1>11. NothingRetained'
  <2>1. \A e \in decPool : e # t.dec /\ e \in Decoders
    BY <1>2 DEF Exclusive, TypeOK
  <2> QED BY <1>1, <2>1 DEF NothingRetained, TypeOK
<1> QED BY <1>7, <1>8, <1>9, <1>10, <1>11

(* PutDecoder keeps the invariant.                                          *)
LEMMA PutDecoderStep ==
  ASSUME IInv, NEW g \in Goroutines, PutDecoder(g)
  PROVE  IInv'
<1> USE DEF IInv
<1> DEFINE n == Len(frames[g])
           t == Top(g)
           f == [t EXCEPT !.dec = NoReader, !.pc = "putReader"]
<1>1. /\ frames[g] # <<>> /\ t.pc = "decode"
      /\ dec' = [dec EXCEPT ![t.dec] = Put(@)]
      /\ decPool' = decPool \cup {t.dec}
      /\ UNCHANGED <<readerPool, calls>>
  BY DEF PutDecoder
<1>2. /\ t.op = "session" => frames' = Pop(g) /\ rd' = [rd EXCEPT ![g] = NoInput]
      /\ t.op # "session" => /\ frames' = [frames EXCEPT ![g] = [@ EXCEPT ![n] = f]]
                             /\ rd' = rd
  BY DEF PutDecoder, Top
<1>3. n \in 1 .. Len(frames[g]) /\ t \in FrameRecords /\ FrameShape(t) /\ t = frames[g][n]
  BY <1>1, TopFacts DEF Top
<1>4. t.dec \in Decoders
  BY <1>1, <1>3 DEF FrameRecords, FrameShape
<1>5. t.op # "session" => /\ f \in FrameRecords /\ FrameShape(f) /\ f.pc = "putReader" /\ f.dec = NoReader
                          /\ f.reader = t.reader /\ f.op = "unmarshal"
  BY <1>1, <1>3 DEF FrameRecords, FrameShape
<1> DEFINE New == IF t.op = "session" THEN {} ELSE {f}
<1> HIDE DEF f, n, t
<1>6. Touches(g, n, New)
  <2>1. CASE t.op = "session"
    BY <1>1, <1>2, <2>1, Pops DEF n
  <2>2. CASE t.op # "session"
    BY <1>1, <1>2, <1>5, <2>2, Replaces DEF n
  <2> QED BY <2>1, <2>2
<1>7. \A e \in New : e = f /\ t.op # "session"
  OBVIOUS
<1> HIDE DEF New
<1>8. ASSUME NEW h \in Goroutines, NEW i \in 1 .. Len(frames[h]), ~(h = g /\ i = n)
      PROVE  frames[h][i].dec # t.dec
  BY <1>3, <1>4, <1>8, PoolAssumption DEF Exclusive
<1>9. Put(dec[t.dec]) \in DecoderRecords /\ Put(dec[t.dec]).r = NoReader
      /\ Put(dec[t.dec]).buf <= MaxPooledBufSize
  BY <1>4, PutTypes DEF TypeOK
<1>10. TypeOK'
  <2>1. dec' \in [Decoders -> DecoderRecords]
    BY <1>1, <1>9 DEF TypeOK
  <2>2. rd' \in [Readers \cup Goroutines -> Inputs \cup {NoInput}]
    BY <1>2 DEF TypeOK
  <2> QED BY <1>1, <1>4, <1>6, <2>1, <2>2 DEF TypeOK, Touches, Touched
<1>11. Shapes'
  BY <1>5, <1>6, <1>7, ShapesKept
<1>12. Exclusive'
  <2>1. ASSUME NEW h \in Goroutines, NEW i \in 1 .. Len(frames[h]), ~(h = g /\ i = n)
        PROVE  /\ frames[h][i].dec \notin decPool' /\ frames[h][i].reader \notin readerPool'
               /\ \A e \in New : e.reader # NoReader => e.reader # frames[h][i].reader
    <3>1. frames[h][i].dec \notin decPool'
      BY <1>1, <1>8, <2>1 DEF Exclusive
    <3>2. t.reader # NoReader => t.reader # frames[h][i].reader
      BY <1>3, <2>1 DEF Exclusive
    <3> QED BY <1>1, <1>5, <1>7, <3>1, <3>2 DEF Exclusive
  <2>2. \A e \in New : e.dec \notin decPool' /\ e.reader \notin readerPool' /\ e.dec = NoReader /\ e.op # "session"
    <3>1. NoReader \notin decPool' /\ t.reader \notin readerPool'
      BY <1>1, <1>3, <1>4, PoolAssumption DEF TypeOK, Exclusive
    <3> QED BY <1>5, <1>7, <3>1
  <2> QED BY <1>6, <2>1, <2>2, ExclusiveKept
<1>13. Uses'
  <2>1. \A e \in Decoders : e # t.dec => dec'[e] = dec[e]
    BY <1>1 DEF TypeOK
  <2>2. ASSUME NEW h \in Goroutines, NEW i \in 1 .. Len(frames[h]), ~(h = g /\ i = n)
        PROVE  FrameUses(dec', rd', h, frames[h][i])
    <3>1. frames[h][i].dec # t.dec
      BY <1>8, <2>2
    <3>2. CASE t.op = "session"
      <4>1. ReadsFrom(g, t) = g
        BY <3>2 DEF ReadsFrom
      <4>2. ReadsFrom(h, frames[h][i]) # ReadsFrom(g, frames[g][n])
        BY <1>1, <1>3, <2>2, ReadersDiffer
      <4>3. ReadsFrom(h, frames[h][i]) # g
        BY <1>3, <4>1, <4>2
      <4>4. \A r \in Readers \cup Goroutines : r # g => rd'[r] = rd[r]
        BY <1>2, <3>2 DEF TypeOK
      <4> QED BY <2>1, <3>1, <4>3, <4>4, StillUses
    <3>3. CASE t.op # "session"
      BY <1>2, <2>1, <3>1, <3>3, StillUses
    <3> QED BY <3>2, <3>3
  <2>3. \A e \in New : FrameUses(dec', rd', g, e)
    BY <1>5, <1>7 DEF FrameUses
  <2> QED BY <1>6, <2>2, <2>3, UsesKept
<1>14. NothingRetained'
  <2>1. dec'[t.dec] = Put(dec[t.dec]) /\ \A e \in Decoders : e # t.dec => dec'[e] = dec[e]
    BY <1>1, <1>4 DEF TypeOK
  <2>2. \A r \in readerPool : rd'[r] = rd[r]
    <3>1. \A r \in readerPool : r # g /\ r \in Readers
      BY PoolAssumption DEF TypeOK
    <3> QED BY <1>2, <3>1 DEF TypeOK
  <2> QED BY <1>1, <1>9, <2>1, <2>2 DEF NothingRetained, TypeOK
<1> QED BY <1>10, <1>11, <1>12, <1>13, <1>14

(* The return of the reader to its pool keeps the invariant.                *)
LEMMA PutReaderStep ==
  ASSUME IInv, NEW g \in Goroutines, PutReader(g)
  PROVE  IInv'
<1> USE DEF IInv
<1> DEFINE n == Len(frames[g])
           t == Top(g)
<1>1. /\ frames[g] # <<>> /\ t.op = "unmarshal" /\ t.pc = "putReader" /\ frames' = Pop(g)
      /\ rd' = [rd EXCEPT ![t.reader] = NoInput]
      /\ readerPool' = readerPool \cup {t.reader}
      /\ UNCHANGED <<dec, decPool, calls>>
  BY DEF PutReader, At
<1>2. n \in 1 .. Len(frames[g]) /\ t \in FrameRecords /\ FrameShape(t) /\ t = frames[g][n]
  BY <1>1, TopFacts DEF Top
<1>3. t.reader \in Readers
  BY <1>1, <1>2 DEF FrameRecords, FrameShape
<1> HIDE DEF n, t
<1>4. Touches(g, n, {})
  BY <1>1, Pops DEF n
<1>5. ASSUME NEW h \in Goroutines, NEW i \in 1 .. Len(frames[h]), ~(h = g /\ i = n)
      PROVE  frames[h][i].reader # t.reader /\ ReadsFrom(h, frames[h][i]) # t.reader
  <2>1. frames[h][i].reader # t.reader
    BY <1>2, <1>3, <1>5, PoolAssumption DEF Exclusive
  <2> QED BY <1>3, <2>1, PoolAssumption DEF ReadsFrom
<1>6. TypeOK'
  <2>1. rd' \in [Readers \cup Goroutines -> Inputs \cup {NoInput}]
    BY <1>1 DEF TypeOK
  <2> QED BY <1>1, <1>3, <1>4, <2>1 DEF TypeOK, Touches, Touched
<1>7. Shapes'
  BY <1>4, ShapesKept
<1>8. Exclusive'
  <2>1. ASSUME NEW h \in Goroutines, NEW i \in 1 .. Len(frames[h]), ~(h = g /\ i = n)
        PROVE  frames[h][i].dec \notin decPool' /\ frames[h][i].reader \notin readerPool'
    BY <1>1, <1>5, <2>1 DEF Exclusive
  <2> QED BY <1>4, <2>1, ExclusiveKept
<1>9. Uses'
  <2>1. \A r \in Readers \cup Goroutines : r # t.reader => rd'[r] = rd[r]
    BY <1>1 DEF TypeOK
  <2>2. ASSUME NEW h \in Goroutines, NEW i \in 1 .. Len(frames[h]), ~(h = g /\ i = n)
        PROVE  FrameUses(dec', rd', h, frames[h][i])
    <3>1. ReadsFrom(h, frames[h][i]) # t.reader
      BY <1>5, <2>2
    <3> QED BY <1>1, <2>1, <3>1, StillUses
  <2> QED BY <1>4, <2>2, UsesKept
<1>10. NothingRetained'
  BY <1>1, <1>3 DEF NothingRetained, TypeOK
<1> QED BY <1>6, <1>7, <1>8, <1>9, <1>10

(* A pool that drops an object keeps the invariant.                         *)
LEMMA EvictStep ==
  ASSUME IInv, Evict
  PROVE  IInv'
<1> USE DEF IInv
<1>1. ASSUME NEW d \in decPool, decPool' = decPool \ {d}, dec' = [dec EXCEPT ![d] = NewDecoder],
             UNCHANGED <<rd, readerPool, frames, calls>>
      PROVE  IInv'
  <2>1. TypeOK'
    <3>1. dec' \in [Decoders -> DecoderRecords]
      BY <1>1, NewTypes DEF TypeOK
    <3> QED BY <1>1, <3>1 DEF TypeOK
  <2>2. Shapes' /\ Exclusive'
    BY <1>1 DEF Shapes, Exclusive
  <2>3. \A e \in Decoders : e # d => dec'[e] = dec[e]
    BY <1>1 DEF TypeOK
  <2>4. Uses'
    <3> SUFFICES ASSUME NEW h \in Goroutines, NEW i \in 1 .. Len(frames[h])
                 PROVE  FrameUses(dec', rd', h, frames[h][i])
      BY <1>1 DEF Uses
    <3>1. frames[h][i].dec # d
      BY DEF Exclusive
    <3> QED BY <1>1, <2>3, <3>1, StillUses
  <2>5. NothingRetained'
    BY <1>1, <2>3 DEF NothingRetained, TypeOK
  <2> QED BY <2>1, <2>2, <2>4, <2>5
<1>2. ASSUME NEW r \in readerPool, readerPool' = readerPool \ {r},
             UNCHANGED <<dec, rd, decPool, frames, calls>>
      PROVE  IInv'
  <2>1. TypeOK'
    BY <1>2 DEF TypeOK
  <2>2. Shapes' /\ Exclusive' /\ Uses' /\ NothingRetained'
    BY <1>2 DEF Shapes, Exclusive, Uses, NothingRetained
  <2> QED BY <2>1, <2>2
<1> QED BY <1>1, <1>2 DEF Evict

-----------------------------------------------------------------------------
(* The invariant holds initially.                                           *)
LEMMA InitIInv ==
  ASSUME Init
  PROVE  IInv
<1>1. \A g \in Goroutines : frames[g] = <<>> /\ Len(frames[g]) = 0
  BY DEF Init
<1>2. TypeOK
  <2>1. dec \in [Decoders -> DecoderRecords]
    BY NewTypes DEF Init
  <2>2. frames \in [Goroutines -> Seq(FrameRecords)]
    BY DEF Init
  <2> QED BY <2>1, <2>2, PoolAssumption DEF Init, TypeOK
<1>3. Shapes /\ Exclusive /\ Uses
  BY <1>1 DEF Shapes, Exclusive, Uses
<1>4. NothingRetained
  BY DEF Init, NothingRetained
<1> QED BY <1>2, <1>3, <1>4 DEF IInv

(* Every step keeps the invariant.                                          *)
LEMMA StepIInv ==
  ASSUME IInv, [Next]_vars
  PROVE  IInv'
<1>1. CASE UNCHANGED vars
  BY <1>1 DEF vars, IInv, TypeOK, Shapes, Exclusive, Uses, NothingRetained
<1> QED BY <1>1, GetDecoderStep, PrepareStep, StartSessionStep, ConfigureStep, DecodeStep, PanicStep,
           PutDecoderStep, PutReaderStep, EvictStep DEF Next

(* The invariant holds in every reachable state.                            *)
LEMMA AlwaysIInv == Spec => []IInv
BY InitIInv, StepIInv, PTL DEF Spec

(* The types of the Decoders, readers, pools and active calls.              *)
THEOREM TypeCorrect == Spec => []TypeOK
<1>1. IInv => TypeOK
  BY DEF IInv
<1> QED BY <1>1, AlwaysIInv, PTL

(* Whatever goroutines run Unmarshal, inside one another or beside sessions *)
(* on pooled Decoders, each call reads its own input through a Decoder no   *)
(* other call holds.                                                        *)
THEOREM CallsAreIsolated == Spec => []Isolation
<1>1. IInv => Isolation
  <2> SUFFICES ASSUME IInv, NEW g \in Goroutines, NEW i \in 1 .. Len(frames[g])
               PROVE  /\ frames[g][i].pc = "decode" =>
                           /\ rd[dec[frames[g][i].dec].r] = frames[g][i].input
                           /\ dec[frames[g][i].dec].dict \subseteq {frames[g][i].input}
                      /\ frames[g][i].dec # NoReader =>
                           /\ frames[g][i].dec \notin decPool
                           /\ \A h \in Goroutines : \A j \in 1 .. Len(frames[h]) :
                                frames[h][j].dec = frames[g][i].dec => g = h /\ i = j
    BY DEF Isolation
  <2>1. FrameUses(dec, rd, g, frames[g][i])
    BY DEF IInv, Uses
  <2>2. frames[g][i].pc = "decode" =>
           /\ rd[dec[frames[g][i].dec].r] = frames[g][i].input
           /\ dec[frames[g][i].dec].dict \subseteq {frames[g][i].input}
    BY <2>1 DEF FrameUses
  <2> QED BY <2>2 DEF IInv, Exclusive
<1> QED BY <1>1, AlwaysIInv, PTL

(* Unmarshal decodes with preallocation and no other option, whatever the   *)
(* last user of its pooled Decoder had set.                                 *)
THEOREM OptionsAreDefault == Spec => []DefaultOptions
<1>1. IInv => DefaultOptions
  BY DEF IInv, Uses, FrameUses, DefaultOptions
<1> QED BY <1>1, AlwaysIInv, PTL

(* The pools keep no caller's data and no oversized scratch buffer.         *)
THEOREM PoolsRetainNothing == Spec => []NothingRetained
<1>1. IInv => NothingRetained
  BY DEF IInv
<1> QED BY <1>1, AlwaysIInv, PTL
=============================================================================
