-------------------------- MODULE EncoderPoolProofs --------------------------
(***************************************************************************)
(* For any number of goroutines, Encoders, arrays and nested calls: the    *)
(* bytes that a call returned stay what it encoded, and AppendMarshal      *)
(* encodes with the default options.                                       *)
(***************************************************************************)
EXTENDS EncoderPool, SequenceTheorems, TLAPS

-----------------------------------------------------------------------------
(***************************************************************************)
(* The active calls of the goroutines are kept as one stack per goroutine. *)
(* What the proofs need to know of a step that enters, leaves or changes   *)
(* the call on top of one of the stacks.                                   *)
(***************************************************************************)
(* From s to t, the stacks with frames in R of the goroutines G: the step   *)
(* touches the call at depth n of g's stack and no other.  The call becomes *)
(* one of New, or is gone if that is empty.                                 *)
Touched(G, R, s, t, g, n, New) ==
  /\ t \in [G -> Seq(R)]
  /\ \A h \in G : \A i \in 1 .. Len(t[h]) :
       \/ h = g /\ i = n /\ t[h][i] \in New
       \/ i \in 1 .. Len(s[h]) /\ t[h][i] = s[h][i] /\ ~(h = g /\ i = n)

(* A call is entered.                                                       *)
LEMMA Pushed ==
  ASSUME NEW G, NEW R, NEW s \in [G -> Seq(R)], NEW g \in G, NEW f \in R, NEW t,
         t = [s EXCEPT ![g] = Append(@, f)]
  PROVE  Touched(G, R, s, t, g, Len(s[g]) + 1, {f})
<1>1. s[g] \in Seq(R)
  OBVIOUS
<1>2. /\ Append(s[g], f) \in Seq(R)
      /\ Len(Append(s[g], f)) = Len(s[g]) + 1
      /\ \A i \in 1 .. Len(s[g]) : Append(s[g], f)[i] = s[g][i]
      /\ Append(s[g], f)[Len(s[g]) + 1] = f
  BY <1>1, AppendProperties
<1>3. Len(s[g]) \in Nat
  BY <1>1
<1>4. t[g] = Append(s[g], f) /\ \A h \in G : h # g => t[h] = s[h]
  BY <1>1
<1>5. t \in [G -> Seq(R)]
  BY <1>1, <1>2
<1>6. ASSUME NEW h \in G, NEW i \in 1 .. Len(t[h])
      PROVE  \/ h = g /\ i = Len(s[g]) + 1 /\ t[h][i] \in {f}
             \/ /\ i \in 1 .. Len(s[h]) /\ t[h][i] = s[h][i]
                /\ ~(h = g /\ i = Len(s[g]) + 1)
  <2>1. CASE h = g
    BY <1>2, <1>3, <1>4, <2>1
  <2>2. CASE h # g
    BY <1>4, <2>2
  <2> QED BY <2>1, <2>2
<1> QED BY <1>5, <1>6 DEF Touched

(* A call returns.                                                          *)
LEMMA Popped ==
  ASSUME NEW G, NEW R, NEW s \in [G -> Seq(R)], NEW g \in G, s[g] # <<>>, NEW t,
         t = [s EXCEPT ![g] = SubSeq(@, 1, Len(@) - 1)]
  PROVE  Touched(G, R, s, t, g, Len(s[g]), {})
<1>1. s[g] \in Seq(R)
  OBVIOUS
<1>2. Len(s[g]) \in Nat \ {0}
  BY <1>1, EmptySeq
<1> DEFINE p == SubSeq(s[g], 1, Len(s[g]) - 1)
<1>3. /\ p \in Seq(R)
      /\ Len(p) = Len(s[g]) - 1
      /\ \A i \in 1 .. Len(s[g]) - 1 : p[i] = s[g][i]
  <2> DEFINE m == Len(s[g]) - 1
  <2>1. m \in Nat /\ m \in 1 - 1 .. Len(s[g])
    BY <1>2
  <2> HIDE DEF m
  <2>2. /\ SubSeq(s[g], 1, m) \in Seq(R)
        /\ Len(SubSeq(s[g], 1, m)) = m
        /\ \A i \in 1 .. m : SubSeq(s[g], 1, m)[i] = s[g][i]
    BY <1>1, <1>2, <2>1
  <2> QED BY <2>2 DEF m
<1>4. t[g] = p /\ \A h \in G : h # g => t[h] = s[h]
  BY <1>1
<1>5. t \in [G -> Seq(R)]
  BY <1>1, <1>3
<1> HIDE DEF p
<1>6. ASSUME NEW h \in G, NEW i \in 1 .. Len(t[h])
      PROVE  /\ i \in 1 .. Len(s[h]) /\ t[h][i] = s[h][i]
             /\ ~(h = g /\ i = Len(s[g]))
  <2>1. CASE h = g
    BY <1>2, <1>3, <1>4, <2>1
  <2>2. CASE h # g
    BY <1>4, <2>2
  <2> QED BY <2>1, <2>2
<1> QED BY <1>5, <1>6 DEF Touched

(* A call goes on.                                                          *)
LEMMA Replaced ==
  ASSUME NEW G, NEW R, NEW s \in [G -> Seq(R)], NEW g \in G, s[g] # <<>>, NEW f \in R, NEW t,
         t = [s EXCEPT ![g] = [@ EXCEPT ![Len(s[g])] = f]]
  PROVE  Touched(G, R, s, t, g, Len(s[g]), {f})
<1>1. s[g] \in Seq(R)
  OBVIOUS
<1>2. Len(s[g]) \in Nat \ {0}
  BY <1>1, EmptySeq
<1> DEFINE n == Len(s[g])
           p == [s[g] EXCEPT ![n] = f]
<1>3. p \in Seq(R) /\ Len(p) = n
  BY <1>1, <1>2, ExceptSeq
<1>4. p[n] = f /\ \A i \in 1 .. n : i # n => p[i] = s[g][i]
  BY <1>1, <1>2
<1>5. t[g] = p /\ \A h \in G : h # g => t[h] = s[h]
  BY <1>1
<1>6. t \in [G -> Seq(R)]
  BY <1>1, <1>3
<1> HIDE DEF p, n
<1>7. ASSUME NEW h \in G, NEW i \in 1 .. Len(t[h])
      PROVE  \/ h = g /\ i = n /\ t[h][i] \in {f}
             \/ i \in 1 .. Len(s[h]) /\ t[h][i] = s[h][i] /\ ~(h = g /\ i = n)
  <2>1. CASE h = g
    BY <1>3, <1>4, <1>5, <2>1 DEF n
  <2>2. CASE h # g
    BY <1>5, <2>2
  <2> QED BY <2>1, <2>2
<1> QED BY <1>6, <1>7 DEF Touched, n

-----------------------------------------------------------------------------
(***************************************************************************)
(* The invariant                                                           *)
(***************************************************************************)
(* An Encoder that a call uses is not pooled, and two calls share it only   *)
(* if they are of one goroutine that has called Append again.               *)
Held ==
  \A g \in Goroutines : \A i \in 1 .. Len(frames[g]) :
    /\ frames[g][i].enc \notin encPool
    /\ \A h \in Goroutines : \A j \in 1 .. Len(frames[h]) :
         frames[h][j].enc = frames[g][i].enc => g = h /\ (i = j \/ g \in reentered)

(* Every call encodes with the default options into appendBuf, and an inner *)
(* Append restores appendBuf as the writer.                                 *)
Settings ==
  \A g \in Goroutines : \A i \in 1 .. Len(frames[g]) :
    /\ ~enc[frames[g][i].enc].options /\ ~enc[frames[g][i].enc].dict
    /\ enc[frames[g][i].enc].w = "appendBuf"
    /\ \A j \in 1 .. Len(frames[g]) :
         j < i /\ frames[g][j].enc = frames[g][i].enc => frames[g][i].old = "appendBuf"

(* The array that a call writes to is in no result and no other call's, but *)
(* for results and calls of a goroutine that has called Append again.       *)
Separate ==
  \A g \in Goroutines : \A i \in 1 .. Len(frames[g]) :
    enc[frames[g][i].enc].b.arr # NoArray =>
      /\ \A r \in results : r.slice.arr = enc[frames[g][i].enc].b.arr => r.owner = g /\ g \in reentered
      /\ \A h \in Goroutines : \A j \in 1 .. Len(frames[h]) :
           enc[frames[h][j].enc].b.arr = enc[frames[g][i].enc].b.arr => g = h /\ (i = j \/ g \in reentered)

(* appendBuf is within what was written to its array.                       *)
Within ==
  \A e \in Encoders :
    IF enc[e].b.arr = NoArray THEN enc[e].b.len = 0 ELSE enc[e].b.len <= Len(mem[enc[e].b.arr])

(* appendBuf holds what the call has written.                               *)
Wrote ==
  \A g \in Goroutines \ reentered : \A i \in 1 .. Len(frames[g]) :
    Contents(enc[frames[g][i].enc].b) = frames[g][i].wrote

(* The inductive invariant.                                                 *)
IInv == TypeOK /\ Held /\ Settings /\ Separate /\ Within /\ Wrote /\ ReturnedIntact

-----------------------------------------------------------------------------
(* A step of g touches its call at depth n and no other.                    *)
Touches(g, n, New) == Touched(Goroutines, FrameRecords, frames, frames', g, n, New)

(* The call on top of a stack is its last.                                  *)
LEMMA TopFacts ==
  ASSUME TypeOK, NEW g \in Goroutines, frames[g] # <<>>
  PROVE  /\ Len(frames[g]) \in 1 .. Len(frames[g])
         /\ Top(g) = frames[g][Len(frames[g])] /\ Top(g) \in FrameRecords
<1>1. frames[g] \in Seq(FrameRecords)
  BY DEF TypeOK
<1>2. Len(frames[g]) \in Nat \ {0}
  BY <1>1, EmptySeq
<1>3. Len(frames[g]) \in 1 .. Len(frames[g])
  BY <1>2
<1> QED BY <1>1, <1>3, ElementOfSeq DEF Top

(* What Separate says of a call and a result.                               *)
LEMMA SeparateResult ==
  ASSUME Separate, NEW g \in Goroutines, NEW i \in 1 .. Len(frames[g]), NEW r \in results,
         enc[frames[g][i].enc].b.arr # NoArray, r.slice.arr = enc[frames[g][i].enc].b.arr
  PROVE  r.owner = g /\ g \in reentered
BY Zenon DEF Separate

(* And of two calls.                                                        *)
LEMMA SeparateCalls ==
  ASSUME Separate, NEW g \in Goroutines, NEW i \in 1 .. Len(frames[g]),
         NEW h \in Goroutines, NEW j \in 1 .. Len(frames[h]),
         enc[frames[g][i].enc].b.arr # NoArray,
         enc[frames[h][j].enc].b.arr = enc[frames[g][i].enc].b.arr
  PROVE  g = h /\ (i = j \/ g \in reentered)
<1>1. \A y \in Goroutines : \A z \in 1 .. Len(frames[y]) :
        enc[frames[y][z].enc].b.arr = enc[frames[g][i].enc].b.arr => g = y /\ (i = z \/ g \in reentered)
  BY Zenon DEF Separate
<1> QED BY Zenon, <1>1

(* A step after which no call is new: what is left to show is that the      *)
(* Encoders of the calls that go on are left alone, and that a result that  *)
(* is new is right and shares no array with them.                           *)
Spared(g, n) ==
  \A h \in Goroutines : \A i \in 1 .. Len(frames[h]) :
    ~(h = g /\ i = n) =>
      /\ enc'[frames[h][i].enc] = enc[frames[h][i].enc]
      /\ frames[h][i].enc \notin encPool'
      /\ \A r \in results' \ results :
           enc[frames[h][i].enc].b.arr # NoArray /\ r.slice.arr = enc[frames[h][i].enc].b.arr
             => r.owner = h /\ h \in reentered
NewRight ==
  \A r \in results' \ results : r.owner \notin reentered => Contents(r.slice) = r.wrote

(* A call returns.                                                          *)
LEMMA Leaves ==
  ASSUME IInv, NEW g, NEW n, Touches(g, n, {}), UNCHANGED <<mem, reentered>>, TypeOK', Within',
         Spared(g, n), NewRight
  PROVE  IInv'
<1> USE DEF IInv
<1>1. \A h \in Goroutines : \A i \in 1 .. Len(frames'[h]) :
        /\ i \in 1 .. Len(frames[h]) /\ frames'[h][i] = frames[h][i] /\ ~(h = g /\ i = n)
        /\ enc'[frames[h][i].enc] = enc[frames[h][i].enc] /\ frames[h][i].enc \notin encPool'
  BY DEF Touches, Touched, Spared
<1>2. Held'
  <2>1. ASSUME NEW h \in Goroutines, NEW i \in 1 .. Len(frames'[h]),
               NEW k \in Goroutines, NEW j \in 1 .. Len(frames'[k])
        PROVE  frames'[k][j].enc = frames'[h][i].enc => h = k /\ (i = j \/ h \in reentered')
    <3>1. /\ i \in 1 .. Len(frames[h]) /\ frames'[h][i] = frames[h][i]
          /\ j \in 1 .. Len(frames[k]) /\ frames'[k][j] = frames[k][j]
      BY <1>1
    <3> QED BY <3>1 DEF Held
  <2> QED BY <1>1, <2>1 DEF Held
<1>3. Settings'
  <2>1. ASSUME NEW h \in Goroutines, NEW i \in 1 .. Len(frames'[h])
        PROVE  /\ ~enc'[frames'[h][i].enc].options /\ ~enc'[frames'[h][i].enc].dict
               /\ enc'[frames'[h][i].enc].w = "appendBuf"
    BY <1>1 DEF Settings
  <2>2. ASSUME NEW h \in Goroutines, NEW i \in 1 .. Len(frames'[h]), NEW j \in 1 .. Len(frames'[h]),
               j < i, frames'[h][j].enc = frames'[h][i].enc
        PROVE  frames'[h][i].old = "appendBuf"
    BY <1>1, <2>2 DEF Settings
  <2> QED BY <2>1, <2>2 DEF Settings
<1>4. Separate'
  <2> SUFFICES ASSUME NEW h \in Goroutines, NEW i \in 1 .. Len(frames'[h]),
                      enc'[frames'[h][i].enc].b.arr # NoArray
               PROVE  /\ \A r \in results' : r.slice.arr = enc'[frames'[h][i].enc].b.arr
                                               => r.owner = h /\ h \in reentered'
                      /\ \A k \in Goroutines : \A j \in 1 .. Len(frames'[k]) :
                           enc'[frames'[k][j].enc].b.arr = enc'[frames'[h][i].enc].b.arr
                             => h = k /\ (i = j \/ h \in reentered')
    BY DEF Separate
  <2>0. /\ i \in 1 .. Len(frames[h]) /\ frames'[h][i] = frames[h][i] /\ ~(h = g /\ i = n)
        /\ enc'[frames'[h][i].enc] = enc[frames[h][i].enc]
    <3>1. /\ i \in 1 .. Len(frames[h]) /\ frames'[h][i] = frames[h][i] /\ ~(h = g /\ i = n)
          /\ enc'[frames[h][i].enc] = enc[frames[h][i].enc]
      BY <1>1
    <3> QED BY Zenon, <3>1
  <2>1. ASSUME NEW r \in results', r.slice.arr = enc'[frames'[h][i].enc].b.arr
        PROVE  r.owner = h /\ h \in reentered'
    <3>1. CASE r \in results
      <4>1. enc[frames[h][i].enc].b.arr # NoArray /\ r.slice.arr = enc[frames[h][i].enc].b.arr
        BY Zenon, <2>0, <2>1
      <4> QED BY <2>0, <3>1, <4>1, SeparateResult
    <3>2. CASE r \notin results
      BY <2>0, <2>1, <3>2 DEF Spared
    <3> QED BY <3>1, <3>2
  <2>2. ASSUME NEW k \in Goroutines, NEW j \in 1 .. Len(frames'[k]),
               enc'[frames'[k][j].enc].b.arr = enc'[frames'[h][i].enc].b.arr
        PROVE  h = k /\ (i = j \/ h \in reentered')
    <3>1. /\ j \in 1 .. Len(frames[k]) /\ frames'[k][j] = frames[k][j]
          /\ enc'[frames'[k][j].enc] = enc[frames[k][j].enc]
      BY <1>1
    <3>2. enc[frames[k][j].enc].b.arr = enc[frames[h][i].enc].b.arr /\ enc[frames[h][i].enc].b.arr # NoArray
      BY Zenon, <2>0, <2>2, <3>1
    <3>3. h = k /\ (i = j \/ h \in reentered)
      BY Zenon, <2>0, <3>1, <3>2, SeparateCalls
    <3> QED BY <3>3
  <2> QED BY Zenon, <2>1, <2>2
<1>5. Wrote'
  <2> SUFFICES ASSUME NEW h \in Goroutines, h \notin reentered, NEW i \in 1 .. Len(frames'[h])
               PROVE  Contents(enc[frames[h][i].enc].b)' = frames'[h][i].wrote
    BY DEF Wrote
  <2>1. /\ i \in 1 .. Len(frames[h]) /\ frames'[h][i] = frames[h][i]
        /\ enc'[frames'[h][i].enc] = enc[frames[h][i].enc]
    BY <1>1
  <2>2. Contents(enc[frames[h][i].enc].b) = frames[h][i].wrote
    BY <2>1 DEF Wrote
  <2> QED BY <2>1, <2>2 DEF Contents
<1>6. ReturnedIntact'
  BY DEF ReturnedIntact, NewRight, Contents
<1> QED BY <1>2, <1>3, <1>4, <1>5, <1>6

(* What Put and NewEncoder leave.                                           *)
LEMMA PutTypes ==
  ASSUME NEW e \in EncoderRecords
  PROVE  /\ Put(e) \in EncoderRecords
         /\ Put(e).b \in {e.b, NoSlice}
<1> DEFINE b == IF Cap(e.b) > MaxPooledBufSize THEN NoSlice ELSE e.b
<1>1. b \in Slices /\ b \in {e.b, NoSlice}
  BY DEF EncoderRecords, NoSlice, Slice, Slices
<1>2. Put(e) = [e EXCEPT !.w = "nil", !.b = b]
  BY DEF Put
<1> HIDE DEF b
<1> QED BY <1>1, <1>2 DEF EncoderRecords, Writers

(* NewEncoder gives an Encoder without a buffer.                            *)
LEMMA NewTypes == NewEncoder \in EncoderRecords /\ NewEncoder.b = NoSlice
BY DEF NewEncoder, Reset, ResetWriter, NoSlice, Slice, Slices, EncoderRecords, Writers

(* An Encoder whose appendBuf stays or becomes nil remains within.          *)
LEMMA WithinKept ==
  ASSUME TypeOK, Within, UNCHANGED mem, NEW e \in Encoders, NEW ne,
         enc' = [enc EXCEPT ![e] = ne], ne.b \in {enc[e].b, NoSlice}
  PROVE  Within'
<1>1. enc'[e] = ne /\ \A x \in Encoders : x # e => enc'[x] = enc[x]
  BY DEF TypeOK
<1> QED BY <1>1 DEF Within, NoSlice, Slice

(* The call on top that is the outermost one of its Encoder is the only one *)
(* that uses it.                                                            *)
LEMMA OutermostIsAlone ==
  ASSUME IInv, NEW g \in Goroutines, frames[g] # <<>>, Outermost(g),
         NEW h \in Goroutines, NEW i \in 1 .. Len(frames[h]), ~(h = g /\ i = Len(frames[g]))
  PROVE  frames[h][i].enc # Top(g).enc
<1>1. Len(frames[g]) \in 1 .. Len(frames[g]) /\ Top(g) = frames[g][Len(frames[g])]
  BY TopFacts DEF IInv
<1>2. CASE h # g
  BY <1>1, <1>2 DEF IInv, Held
<1>3. CASE h = g
  <2>1. Len(frames[g]) \in Nat
    <3>1. frames[g] \in Seq(FrameRecords)
      BY DEF IInv, TypeOK
    <3> QED BY <3>1
  <2>2. i \in 1 .. Len(frames[g]) - 1
    BY <1>3, <2>1
  <2> QED BY <1>3, <2>2 DEF Outermost
<1> QED BY <1>2, <1>3

(* What the result of the call on top may share its array with, and what it *)
(* holds.                                                                   *)
LEMMA ResultFacts ==
  ASSUME IInv, NEW g \in Goroutines, frames[g] # <<>>, NEW ok \in BOOLEAN, Returned(g, ok)
  PROVE  /\ results' \subseteq [owner : Goroutines, slice : Slices, wrote : Seq(Items)]
         /\ \A r \in results' \ results : r.owner \notin reentered => Contents(r.slice) = r.wrote
         /\ \A r \in results' \ results : r.owner = g /\ r.slice = enc[Top(g).enc].b
<1> DEFINE new == [owner |-> g, slice |-> enc[Top(g).enc].b, wrote |-> Top(g).wrote]
<1>1. results' \subseteq results \cup {new}
  BY DEF Returned
<1>2. /\ Top(g) \in FrameRecords /\ Len(frames[g]) \in 1 .. Len(frames[g])
      /\ Top(g) = frames[g][Len(frames[g])]
  BY TopFacts DEF IInv
<1>3. Top(g).enc \in Encoders /\ Top(g).wrote \in Seq(Items)
  BY <1>2 DEF FrameRecords
<1>4. enc[Top(g).enc].b \in Slices
  BY <1>3 DEF IInv, TypeOK, EncoderRecords
<1>5. g \notin reentered => Contents(enc[Top(g).enc].b) = Top(g).wrote
  BY <1>2 DEF IInv, Wrote
<1>6. /\ new \in [owner : Goroutines, slice : Slices, wrote : Seq(Items)]
      /\ new.owner = g /\ new.slice = enc[Top(g).enc].b /\ new.wrote = Top(g).wrote
  BY <1>3, <1>4
<1> HIDE DEF new
<1>7. results \subseteq [owner : Goroutines, slice : Slices, wrote : Seq(Items)]
  BY DEF IInv, TypeOK
<1> QED BY <1>1, <1>5, <1>6, <1>7

(* The PutEncoder at the end of AppendMarshal keeps the invariant.          *)
LEMMA PutEncoderStep ==
  ASSUME IInv, NEW g \in Goroutines, PutEncoder(g)
  PROVE  IInv'
<1> USE DEF IInv
<1> DEFINE n == Len(frames[g])
           e == Top(g).enc
           ne == Put([enc[e] EXCEPT !.w = Top(g).old])
<1>1. /\ frames[g] # <<>> /\ Outermost(g) /\ frames' = Pop(g)
      /\ enc' = [enc EXCEPT ![e] = ne]
      /\ encPool' = encPool \cup {e}
      /\ UNCHANGED <<mem, calls, reentered>>
  BY DEF PutEncoder
<1>2. PICK ok \in BOOLEAN : Returned(g, ok)
  BY DEF PutEncoder
<1>3. n \in 1 .. Len(frames[g]) /\ Top(g) = frames[g][n] /\ Top(g) \in FrameRecords
  BY <1>1, TopFacts
<1>4. e \in Encoders /\ Top(g).old \in Writers
  BY <1>3 DEF FrameRecords
<1>5. ne \in EncoderRecords /\ ne.b \in {enc[e].b, NoSlice}
  <2>1. /\ [enc[e] EXCEPT !.w = Top(g).old] \in EncoderRecords
        /\ [enc[e] EXCEPT !.w = Top(g).old].b = enc[e].b
    BY <1>4 DEF TypeOK, EncoderRecords
  <2> QED BY <2>1, PutTypes
<1> HIDE DEF ne
<1>6. Touches(g, n, {})
  BY <1>1, Popped DEF TypeOK, Touches, Pop
<1>7. /\ results' \subseteq [owner : Goroutines, slice : Slices, wrote : Seq(Items)]
      /\ \A r \in results' \ results : r.owner \notin reentered => Contents(r.slice) = r.wrote
      /\ \A r \in results' \ results : r.owner = g /\ r.slice = enc[e].b
  BY <1>1, <1>2, ResultFacts
<1>8. TypeOK'
  <2>1. enc' \in [Encoders -> EncoderRecords]
    BY <1>1, <1>5 DEF TypeOK
  <2> QED BY <1>1, <1>4, <1>6, <1>7, <2>1 DEF TypeOK, Touches, Touched
<1>9. Within'
  BY <1>1, <1>4, <1>5, WithinKept
<1>10. ASSUME NEW h \in Goroutines, NEW i \in 1 .. Len(frames[h]), ~(h = g /\ i = n)
       PROVE  /\ enc'[frames[h][i].enc] = enc[frames[h][i].enc]
              /\ frames[h][i].enc \notin encPool'
              /\ \A r \in results' \ results :
                   enc[frames[h][i].enc].b.arr # NoArray /\ r.slice.arr = enc[frames[h][i].enc].b.arr
                     => r.owner = h /\ h \in reentered
  <2>1. frames[h][i].enc # e
    BY <1>1, <1>10, OutermostIsAlone
  <2>2. enc'[frames[h][i].enc] = enc[frames[h][i].enc]
    BY <1>1, <2>1 DEF TypeOK
  <2>3. frames[h][i].enc \notin encPool'
    BY <1>1, <2>1 DEF Held
  <2>4. ASSUME enc[frames[h][i].enc].b.arr # NoArray, enc[e].b.arr = enc[frames[h][i].enc].b.arr
        PROVE  g = h /\ h \in reentered
    <3>1. n \in 1 .. Len(frames[g]) /\ enc[frames[g][n].enc].b.arr = enc[frames[h][i].enc].b.arr
      BY Zenon, <1>3, <2>4
    <3>2. h = g /\ (i = n \/ h \in reentered)
      BY Zenon, <2>4, <3>1, SeparateCalls
    <3> QED BY Zenon, <1>10, <3>2
  <2> QED BY <1>7, <2>2, <2>3, <2>4
<1> HIDE DEF n, e
<1> QED BY <1>1, <1>6, <1>7, <1>8, <1>9, <1>10, Leaves DEF Spared, NewRight

(* The return of an Append keeps the invariant.                             *)
LEMMA ReturnAppendStep ==
  ASSUME IInv, NEW g \in Goroutines, ReturnAppend(g)
  PROVE  IInv'
<1> USE DEF IInv
<1> DEFINE n == Len(frames[g])
           e == Top(g).enc
<1>1. /\ frames[g] # <<>> /\ ~Outermost(g) /\ frames' = Pop(g)
      /\ enc' = [enc EXCEPT ![e].w = Top(g).old]
      /\ UNCHANGED <<mem, encPool, calls, reentered>>
  BY DEF ReturnAppend
<1>2. PICK ok \in BOOLEAN : Returned(g, ok)
  BY DEF ReturnAppend
<1>3. n \in 1 .. Len(frames[g]) /\ Top(g) = frames[g][n] /\ Top(g) \in FrameRecords
  BY <1>1, TopFacts
<1>4. e \in Encoders
  BY <1>3 DEF FrameRecords
<1>5. PICK j \in 1 .. n - 1 : frames[g][j].enc = e
  BY <1>1 DEF Outermost
<1>6. j \in 1 .. n /\ j < n /\ n \in Nat
  <2>1. frames[g] \in Seq(FrameRecords)
    BY DEF TypeOK
  <2>2. n \in Nat
    BY <2>1
  <2> QED BY <1>5, <2>2
<1>7. g \in reentered
  BY <1>3, <1>5, <1>6 DEF Held
<1>8. Top(g).old = "appendBuf" /\ enc[e].w = "appendBuf"
  BY <1>3, <1>5, <1>6 DEF Settings
<1>9. enc' = enc
  <2>1. enc[e] \in EncoderRecords
    BY <1>4 DEF TypeOK
  <2>2. [enc[e] EXCEPT !.w = "appendBuf"] = enc[e]
    BY <1>8, <2>1 DEF EncoderRecords
  <2>3. enc' = [enc EXCEPT ![e] = [enc[e] EXCEPT !.w = "appendBuf"]]
    BY <1>1, <1>8
  <2>4. enc' = [enc EXCEPT ![e] = enc[e]]
    BY <2>2, <2>3
  <2> QED BY <2>4 DEF TypeOK
<1>10. Touches(g, n, {})
  BY <1>1, Popped DEF TypeOK, Touches, Pop
<1>11. /\ results' \subseteq [owner : Goroutines, slice : Slices, wrote : Seq(Items)]
       /\ \A r \in results' \ results : r.owner \notin reentered => Contents(r.slice) = r.wrote
       /\ \A r \in results' \ results : r.owner = g /\ r.slice = enc[e].b
  BY <1>1, <1>2, ResultFacts
<1>12. TypeOK'
  BY <1>1, <1>9, <1>10, <1>11 DEF TypeOK, Touches, Touched
<1>13. Within'
  BY <1>1, <1>9 DEF Within
<1>14. ASSUME NEW h \in Goroutines, NEW i \in 1 .. Len(frames[h]), ~(h = g /\ i = n)
       PROVE  /\ enc'[frames[h][i].enc] = enc[frames[h][i].enc]
              /\ frames[h][i].enc \notin encPool'
              /\ \A r \in results' \ results :
                   enc[frames[h][i].enc].b.arr # NoArray /\ r.slice.arr = enc[frames[h][i].enc].b.arr
                     => r.owner = h /\ h \in reentered
  <2>1. frames[h][i].enc \notin encPool'
    BY <1>1 DEF Held
  <2>2. ASSUME enc[frames[h][i].enc].b.arr # NoArray, enc[e].b.arr = enc[frames[h][i].enc].b.arr
        PROVE  g = h /\ h \in reentered
    <3>1. n \in 1 .. Len(frames[g]) /\ enc[frames[g][n].enc].b.arr = enc[frames[h][i].enc].b.arr
      BY Zenon, <1>3, <2>2
    <3>2. h = g /\ (i = n \/ h \in reentered)
      BY Zenon, <2>2, <3>1, SeparateCalls
    <3> QED BY Zenon, <1>14, <3>2
  <2> QED BY <1>9, <1>11, <2>1, <2>2
<1> HIDE DEF n, e
<1> QED BY <1>1, <1>10, <1>11, <1>12, <1>13, <1>14, Leaves DEF Spared, NewRight

(* A panic in a custom encoder drops the Encoder and keeps the invariant.   *)
LEMMA PanicStep ==
  ASSUME IInv, NEW g \in Goroutines, Panic(g)
  PROVE  IInv'
<1> USE DEF IInv
<1> DEFINE n == Len(frames[g])
           e == Top(g).enc
<1>1. /\ frames[g] # <<>> /\ Outermost(g) /\ frames' = Pop(g)
      /\ enc' = [enc EXCEPT ![e] = NewEncoder]
      /\ UNCHANGED <<mem, encPool, results, calls, reentered>>
  BY DEF Panic
<1>2. Top(g) \in FrameRecords
  BY <1>1, TopFacts
<1>3. e \in Encoders
  BY <1>2 DEF FrameRecords
<1>4. Touches(g, n, {})
  BY <1>1, Popped DEF TypeOK, Touches, Pop
<1>5. TypeOK'
  <2>1. enc' \in [Encoders -> EncoderRecords]
    BY <1>1, NewTypes DEF TypeOK
  <2> QED BY <1>1, <1>4, <2>1 DEF TypeOK, Touches, Touched
<1>6. Within'
  BY <1>1, <1>3, NewTypes, WithinKept
<1>7. ASSUME NEW h \in Goroutines, NEW i \in 1 .. Len(frames[h]), ~(h = g /\ i = n)
      PROVE  enc'[frames[h][i].enc] = enc[frames[h][i].enc] /\ frames[h][i].enc \notin encPool'
  <2>1. frames[h][i].enc # e
    BY <1>1, <1>7, OutermostIsAlone
  <2> QED BY <1>1, <2>1 DEF TypeOK, Held
<1> HIDE DEF n, e
<1> QED BY <1>1, <1>4, <1>5, <1>6, <1>7, Leaves DEF Spared, NewRight

(* A step that enters and leaves no call.                                   *)
LEMMA NoCall ==
  ASSUME TypeOK, UNCHANGED frames
  PROVE  Touches(0, 0, {})
BY DEF TypeOK, Touches, Touched

(* An Encoder that can be taken is used by no call.                         *)
LEMMA TakenIsAlone ==
  ASSUME IInv, NEW e \in encPool \cup FreeEncoders,
         NEW h \in Goroutines, NEW i \in 1 .. Len(frames[h])
  PROVE  frames[h][i].enc # e
<1>1. frames[h][i] \in AllFrames
  BY DEF AllFrames, FramesOf
<1>2. frames[h][i].enc \notin encPool
  BY DEF IInv, Held
<1> QED BY <1>1, <1>2 DEF FreeEncoders

(* A user's session with a pooled Encoder keeps the invariant.              *)
LEMMA SessionStep ==
  ASSUME IInv, NEW g \in Goroutines, Session(g)
  PROVE  IInv'
<1> USE DEF IInv
<1> DEFINE Used(e) == [Reset(enc[e], "user") EXCEPT !.options = TRUE, !.dict = TRUE]
<1>1. PICK e \in encPool \cup FreeEncoders :
        enc' = [enc EXCEPT ![e] = Put(Used(e))] /\ encPool' = encPool \cup {e}
  BY DEF Session
<1>2. /\ calls < MaxCalls /\ calls' = calls + 1
      /\ UNCHANGED <<mem, frames, results, reentered>>
  BY DEF Session, MayCall
<1>3. e \in Encoders
  BY DEF TypeOK, FreeEncoders
<1>4. Put(Used(e)) \in EncoderRecords /\ Put(Used(e)).b \in {enc[e].b, NoSlice}
  <2>1. enc[e] \in EncoderRecords
    BY <1>3 DEF TypeOK
  <2>2. Used(e) \in EncoderRecords /\ Used(e).b = enc[e].b
    BY <2>1 DEF Reset, ResetWriter, EncoderRecords, Writers
  <2> QED BY <2>2, PutTypes
<1> HIDE DEF Used
<1>5. Touches(0, 0, {})
  BY <1>2, NoCall
<1>6. TypeOK'
  <2>1. enc' \in [Encoders -> EncoderRecords]
    BY <1>1, <1>4 DEF TypeOK
  <2>2. calls' \in 0 .. MaxCalls
    BY <1>2, EncoderPoolAssumption DEF TypeOK
  <2> QED BY <1>1, <1>2, <1>3, <2>1, <2>2 DEF TypeOK
<1>7. Within'
  BY <1>1, <1>2, <1>3, <1>4, WithinKept
<1>8. ASSUME NEW h \in Goroutines, NEW i \in 1 .. Len(frames[h])
      PROVE  enc'[frames[h][i].enc] = enc[frames[h][i].enc] /\ frames[h][i].enc \notin encPool'
  <2>1. frames[h][i].enc # e
    BY TakenIsAlone
  <2> QED BY <1>1, <2>1 DEF TypeOK, Held
<1> QED BY <1>2, <1>5, <1>6, <1>7, <1>8, Leaves DEF Spared, NewRight

(* A result that is given up, or an Encoder that the pool drops, keeps the  *)
(* invariant.                                                               *)
LEMMA DropStep ==
  ASSUME IInv, Drop
  PROVE  IInv'
<1> USE DEF IInv
<1>1. ASSUME NEW r \in results, results' = results \ {r},
             UNCHANGED <<mem, enc, encPool, frames, calls, reentered>>
      PROVE  IInv'
  <2>1. Touches(0, 0, {})
    BY <1>1, NoCall
  <2>2. TypeOK' /\ Within'
    BY <1>1 DEF TypeOK, Within
  <2>3. results' \ results = {}
    BY <1>1
  <2>4. ASSUME NEW h \in Goroutines, NEW i \in 1 .. Len(frames[h])
        PROVE  enc'[frames[h][i].enc] = enc[frames[h][i].enc] /\ frames[h][i].enc \notin encPool'
    BY <1>1 DEF Held
  <2> QED BY <1>1, <2>1, <2>2, <2>3, <2>4, Leaves DEF Spared, NewRight
<1>2. ASSUME NEW e \in encPool, encPool' = encPool \ {e}, enc' = [enc EXCEPT ![e] = NewEncoder],
             UNCHANGED <<mem, frames, results, calls, reentered>>
      PROVE  IInv'
  <2>1. Touches(0, 0, {})
    BY <1>2, NoCall
  <2>2. e \in Encoders
    BY DEF TypeOK
  <2>3. TypeOK'
    <3>1. enc' \in [Encoders -> EncoderRecords]
      BY <1>2, NewTypes DEF TypeOK
    <3> QED BY <1>2, <3>1 DEF TypeOK
  <2>4. Within'
    BY <1>2, <2>2, NewTypes, WithinKept
  <2>5. ASSUME NEW h \in Goroutines, NEW i \in 1 .. Len(frames[h])
        PROVE  enc'[frames[h][i].enc] = enc[frames[h][i].enc] /\ frames[h][i].enc \notin encPool'
    <3>1. frames[h][i].enc # e
      BY TakenIsAlone
    <3> QED BY <1>2, <3>1 DEF TypeOK, Held
  <2> QED BY <1>2, <2>1, <2>3, <2>4, <2>5, Leaves DEF Spared, NewRight
<1> QED BY <1>1, <1>2 DEF Drop

-----------------------------------------------------------------------------
(* The array that Append begins with is in no result that is still used,    *)
(* and no call writes to it but calls of a goroutine that has called Append *)
(* again.                                                                   *)
LEMMA BufFacts ==
  ASSUME IInv, NEW g \in Goroutines, NEW e \in Encoders, NEW dst \in Dsts(g),
         NEW b \in AppendBufs(enc[e], dst), GiveUp(dst)
  PROVE  /\ b \in Slices /\ b.len = 0 /\ b.arr \in Arrays
         /\ results' \subseteq results
         /\ \A r \in results' : r.slice.arr # b.arr
         /\ \A h \in Goroutines : \A i \in 1 .. Len(frames[h]) :
              enc[frames[h][i].enc].b.arr = b.arr => h = g /\ g \in reentered
<1> USE DEF IInv
<1>1. results' \subseteq results
  BY DEF GiveUp
<1>2. CASE Cap(dst) > 0
  <2>1. dst # NoSlice /\ dst.arr # NoArray
    BY <1>2 DEF Cap, NoSlice, Slice
  <2>2. PICK r \in results : r.owner = g /\ dst = r.slice
    BY <2>1 DEF Dsts
  <2>3. dst.arr \in Arrays
    BY <2>1, <2>2 DEF TypeOK, Slices
  <2>4. b = Slice(dst.arr, 0)
    BY <1>2 DEF AppendBufs
  <2>5. b \in Slices /\ b.len = 0 /\ b.arr = dst.arr
    BY <2>3, <2>4 DEF Slice, Slices
  <2>6. \A x \in results' : x.slice.arr # b.arr
    BY <2>1, <2>5 DEF GiveUp
  <2>7. \A h \in Goroutines : \A i \in 1 .. Len(frames[h]) :
          enc[frames[h][i].enc].b.arr = dst.arr => h = g /\ g \in reentered
    BY <2>1, <2>2 DEF Separate
  <2> QED BY <1>1, <2>3, <2>5, <2>6, <2>7
<1>3. CASE ~(Cap(dst) > 0)
  <2>1. PICK a \in FreeArrays : b = Slice(a, 0)
    BY <1>3 DEF AppendBufs
  <2>2. b.len = 0 /\ b.arr = a /\ a \in Arrays /\ b \in Slices
    BY <2>1 DEF Slice, Slices, FreeArrays
  <2>3. \A r \in results : r.slice.arr # a
    BY DEF FreeArrays
  <2>4. ASSUME NEW h \in Goroutines, NEW i \in 1 .. Len(frames[h])
        PROVE  enc[frames[h][i].enc].b.arr # a
    <3>1. frames[h][i] \in FrameRecords
      <4>1. frames[h] \in Seq(FrameRecords)
        BY DEF TypeOK
      <4> QED BY <4>1, ElementOfSeq
    <3>2. frames[h][i].enc \in Encoders
      BY <3>1 DEF FrameRecords
    <3> QED BY <3>2 DEF FreeArrays
  <2> QED BY <1>1, <2>2, <2>3, <2>4
<1> QED BY <1>2, <1>3

(* Separate is kept when a call begins to write to such an array.           *)
LEMMA SeparateKept ==
  ASSUME Separate, NEW g \in Goroutines, NEW n, NEW f, NEW e, NEW b, Touches(g, n, {f}), f.enc = e,
         enc'[e].b = b, results' \subseteq results, reentered \subseteq reentered',
         \A h \in Goroutines : \A i \in 1 .. Len(frames[h]) :
           frames[h][i].enc # e => enc'[frames[h][i].enc] = enc[frames[h][i].enc],
         \A h \in Goroutines : \A i \in 1 .. Len(frames[h]) :
           ~(h = g /\ i = n) /\ (frames[h][i].enc = e \/ enc[frames[h][i].enc].b.arr = b.arr)
             => h = g /\ g \in reentered',
         \A r \in results' : r.slice.arr = b.arr => r.owner = g /\ g \in reentered'
  PROVE  Separate'
<1> DEFINE Was(h, i) == i \in 1 .. Len(frames[h]) /\ frames'[h][i] = frames[h][i] /\ ~(h = g /\ i = n)
           Is(h, i) == h = g /\ i = n /\ frames'[h][i] = f
<1>1. \A h \in Goroutines : \A i \in 1 .. Len(frames'[h]) : Was(h, i) \/ Is(h, i)
  BY DEF Touches, Touched
<1> DEFINE Arr(h, i) == enc'[frames'[h][i].enc].b.arr
<1>2. ASSUME NEW h \in Goroutines, NEW i \in 1 .. Len(frames'[h]), frames'[h][i].enc # e
      PROVE  Was(h, i) /\ Arr(h, i) = enc[frames[h][i].enc].b.arr
  <2>1. Was(h, i)
    BY <1>1, <1>2
  <2> QED BY <1>2, <2>1
<1>3. ASSUME NEW h \in Goroutines, NEW i \in 1 .. Len(frames'[h]), frames'[h][i].enc = e
      PROVE  h = g /\ (i = n \/ g \in reentered')
  BY <1>1, <1>3
<1>4. ASSUME NEW h \in Goroutines, NEW i \in 1 .. Len(frames'[h]), Arr(h, i) # NoArray,
             NEW r \in results', r.slice.arr = Arr(h, i)
      PROVE  r.owner = h /\ h \in reentered'
  <2>1. CASE frames'[h][i].enc = e
    <3>1. r.slice.arr = b.arr
      BY <1>4, <2>1
    <3> QED BY <1>3, <2>1, <3>1
  <2>2. CASE frames'[h][i].enc # e
    <3>1. Was(h, i) /\ Arr(h, i) = enc[frames[h][i].enc].b.arr
      BY <1>2, <2>2
    <3>2. r \in results
      OBVIOUS
    <3>3. enc[frames[h][i].enc].b.arr # NoArray /\ r.slice.arr = enc[frames[h][i].enc].b.arr
      BY <1>4, <3>1
    <3>4. r.owner = h /\ h \in reentered
      BY <3>1, <3>2, <3>3, SeparateResult
    <3> QED BY <3>4
  <2> QED BY <2>1, <2>2
<1>5. ASSUME NEW h \in Goroutines, NEW i \in 1 .. Len(frames'[h]), Arr(h, i) # NoArray,
             NEW k \in Goroutines, NEW j \in 1 .. Len(frames'[k]), Arr(k, j) = Arr(h, i)
      PROVE  h = k /\ (i = j \/ h \in reentered')
  <2>1. CASE frames'[h][i].enc = e /\ frames'[k][j].enc = e
    BY <1>3, <2>1
  <2>2. CASE frames'[h][i].enc = e /\ frames'[k][j].enc # e
    <3>1. Was(k, j) /\ Arr(k, j) = enc[frames[k][j].enc].b.arr /\ Arr(h, i) = b.arr
      BY <1>2, <2>2
    <3>2. k = g /\ g \in reentered'
      BY <1>5, <3>1
    <3> QED BY <1>3, <2>2, <3>2
  <2>3. CASE frames'[h][i].enc # e /\ frames'[k][j].enc = e
    <3>1. Was(h, i) /\ Arr(h, i) = enc[frames[h][i].enc].b.arr /\ Arr(k, j) = b.arr
      BY <1>2, <2>3
    <3>2. h = g /\ g \in reentered'
      BY <1>5, <3>1
    <3> QED BY <1>3, <2>3, <3>2
  <2>4. CASE frames'[h][i].enc # e /\ frames'[k][j].enc # e
    <3>1. /\ Was(h, i) /\ Arr(h, i) = enc[frames[h][i].enc].b.arr
          /\ Was(k, j) /\ Arr(k, j) = enc[frames[k][j].enc].b.arr
      BY <1>2, <2>4
    <3>2. /\ enc[frames[h][i].enc].b.arr # NoArray
          /\ enc[frames[k][j].enc].b.arr = enc[frames[h][i].enc].b.arr
      BY <1>5, <3>1
    <3>3. h = k /\ (i = j \/ h \in reentered)
      BY <3>1, <3>2, SeparateCalls
    <3> QED BY <3>3
  <2> QED BY <2>1, <2>2, <2>3, <2>4
<1>6. ASSUME NEW h \in Goroutines, NEW i \in 1 .. Len(frames'[h]), Arr(h, i) # NoArray
      PROVE  /\ \A r \in results' : r.slice.arr = Arr(h, i) => r.owner = h /\ h \in reentered'
             /\ \A k \in Goroutines : \A j \in 1 .. Len(frames'[k]) :
                  Arr(k, j) = Arr(h, i) => h = k /\ (i = j \/ h \in reentered')
  BY <1>4, <1>5, <1>6
<1> QED BY <1>6 DEF Separate

(* Append begins in a call f with the Encoder e, whose fields become ne:    *)
(* for AppendMarshal an Encoder that no call uses, for an Append inside an  *)
(* Append that of the call on top.                                          *)
Begins(g, e, f, ne, dst) ==
  /\ f \in FrameRecords /\ f.enc = e /\ f.wrote = <<>>
  /\ ne \in EncoderRecords /\ ~ne.options /\ ~ne.dict /\ ne.w = "appendBuf"
  /\ dst \in Dsts(g) /\ ne.b \in AppendBufs(enc[e], dst) /\ GiveUp(dst)
  /\ frames' = [frames EXCEPT ![g] = Append(@, f)] /\ enc' = [enc EXCEPT ![e] = ne]
  /\ e \notin encPool' /\ encPool' \subseteq encPool
  /\ mem' = mem /\ calls' \in 0 .. MaxCalls
  /\ reentered \subseteq reentered' /\ reentered' \subseteq Goroutines
  /\ \A h \in Goroutines : \A i \in 1 .. Len(frames[h]) :
       frames[h][i].enc = e => h = g /\ g \in reentered' /\ f.old = "appendBuf"

(* A call that begins as Begins says keeps the invariant.                   *)
LEMMA Enters ==
  ASSUME IInv, NEW g \in Goroutines, NEW e \in Encoders, NEW f, NEW ne, NEW dst, Begins(g, e, f, ne, dst)
  PROVE  IInv'
<1> USE DEF IInv, Begins
<1> DEFINE n == Len(frames[g]) + 1
           Was(h, i) == i \in 1 .. Len(frames[h]) /\ frames'[h][i] = frames[h][i] /\ ~(h = g /\ i = n)
           Is(h, i) == h = g /\ i = n /\ frames'[h][i] = f
<1>1. Touches(g, n, {f})
  BY Pushed DEF TypeOK, Touches
<1>2. \A h \in Goroutines : \A i \in 1 .. Len(frames'[h]) : Was(h, i) \/ Is(h, i)
  BY <1>1 DEF Touches, Touched
<1>3. /\ ne.b \in Slices /\ ne.b.len = 0 /\ ne.b.arr \in Arrays
      /\ results' \subseteq results
      /\ \A r \in results' : r.slice.arr # ne.b.arr
      /\ \A h \in Goroutines : \A i \in 1 .. Len(frames[h]) :
           enc[frames[h][i].enc].b.arr = ne.b.arr => h = g /\ g \in reentered
  BY BufFacts
<1>4. enc'[e] = ne /\ \A x \in Encoders : x # e => enc'[x] = enc[x]
  BY DEF TypeOK
<1>5. \A h \in Goroutines : \A i \in 1 .. Len(frames[h]) : frames[h][i].enc \in Encoders
  <2> SUFFICES ASSUME NEW h \in Goroutines, NEW i \in 1 .. Len(frames[h])
               PROVE  frames[h][i].enc \in Encoders
    OBVIOUS
  <2>1. frames[h] \in Seq(FrameRecords)
    BY DEF TypeOK
  <2>2. frames[h][i] \in FrameRecords
    BY <2>1, ElementOfSeq
  <2> QED BY <2>2 DEF FrameRecords
<1>6. TypeOK'
  <2>1. enc' \in [Encoders -> EncoderRecords]
    BY DEF TypeOK
  <2> QED BY <1>1, <1>3, <2>1 DEF TypeOK, Touches, Touched
<1>7. Held'
  <2>1. ASSUME NEW h \in Goroutines, NEW i \in 1 .. Len(frames'[h])
        PROVE  frames'[h][i].enc \notin encPool'
    BY <1>2 DEF Held
  <2>2. ASSUME NEW h \in Goroutines, NEW i \in 1 .. Len(frames'[h]),
               NEW k \in Goroutines, NEW j \in 1 .. Len(frames'[k]), frames'[k][j].enc = frames'[h][i].enc
        PROVE  h = k /\ (i = j \/ h \in reentered')
    <3>1. CASE Was(h, i) /\ Was(k, j)
      BY <2>2, <3>1 DEF Held
    <3>2. CASE Is(h, i) /\ Was(k, j)
      BY <2>2, <3>2
    <3>3. CASE Was(h, i) /\ Is(k, j)
      BY <2>2, <3>3
    <3>4. CASE Is(h, i) /\ Is(k, j)
      BY <3>4
    <3> QED BY <1>2, <3>1, <3>2, <3>3, <3>4
  <2> QED BY <2>1, <2>2 DEF Held
<1>8. Settings'
  <2>1. ASSUME NEW h \in Goroutines, NEW i \in 1 .. Len(frames'[h])
        PROVE  /\ ~enc'[frames'[h][i].enc].options /\ ~enc'[frames'[h][i].enc].dict
               /\ enc'[frames'[h][i].enc].w = "appendBuf"
    <3>1. CASE frames'[h][i].enc = e
      BY <1>4, <3>1
    <3>2. CASE frames'[h][i].enc # e
      <4>1. Was(h, i)
        BY <1>2, <3>2
      <4>2. enc'[frames[h][i].enc] = enc[frames[h][i].enc]
        BY <1>4, <1>5, <3>2, <4>1
      <4> QED BY <4>1, <4>2 DEF Settings
    <3> QED BY <3>1, <3>2
  <2>2. ASSUME NEW h \in Goroutines, NEW i \in 1 .. Len(frames'[h]), NEW j \in 1 .. Len(frames'[h]),
               j < i, frames'[h][j].enc = frames'[h][i].enc
        PROVE  frames'[h][i].old = "appendBuf"
    <3>1. CASE Was(h, i) /\ Was(h, j)
      BY <2>2, <3>1 DEF Settings
    <3>2. CASE Is(h, i) /\ Was(h, j)
      BY <2>2, <3>2
    <3>3. ~(Was(h, i) /\ Is(h, j))
      <4>1. Len(frames[g]) \in Nat
        <5>1. frames[g] \in Seq(FrameRecords)
          BY DEF TypeOK
        <5> QED BY <5>1
      <4> QED BY <2>2, <4>1
    <3>4. ~(Is(h, i) /\ Is(h, j))
      BY <2>2
    <3> QED BY <1>2, <3>1, <3>2, <3>3, <3>4
  <2> QED BY <2>1, <2>2 DEF Settings
<1>9. Separate'
  <2>1. \A h \in Goroutines : \A i \in 1 .. Len(frames[h]) :
          frames[h][i].enc # e => enc'[frames[h][i].enc] = enc[frames[h][i].enc]
    BY <1>4, <1>5
  <2>2. Separate /\ enc'[e].b = ne.b
    BY <1>4
  <2>3. \A h \in Goroutines : \A i \in 1 .. Len(frames[h]) :
          ~(h = g /\ i = n) /\ (frames[h][i].enc = e \/ enc[frames[h][i].enc].b.arr = ne.b.arr)
            => h = g /\ g \in reentered'
    BY <1>3
  <2>4. \A r \in results' : r.slice.arr = ne.b.arr => r.owner = g /\ g \in reentered'
    BY <1>3
  <2> HIDE DEF n
  <2> QED BY SMTT(60), <1>1, <1>3, <2>1, <2>2, <2>3, <2>4, SeparateKept
<1>10. Within'
  <2> SUFFICES ASSUME NEW x \in Encoders
               PROVE  IF enc'[x].b.arr = NoArray THEN enc'[x].b.len = 0
                      ELSE enc'[x].b.len <= Len(mem'[enc'[x].b.arr])
    BY DEF Within
  <2>1. CASE x = e
    <3>1. ne.b.arr # NoArray /\ mem[ne.b.arr] \in Seq(Items)
      BY <1>3, EncoderPoolAssumption DEF TypeOK
    <3>2. 0 <= Len(mem[ne.b.arr])
      BY <3>1
    <3> QED BY <1>3, <1>4, <2>1, <3>1, <3>2
  <2>2. CASE x # e
    BY <1>4, <2>2 DEF Within
  <2> QED BY <2>1, <2>2
<1>11. Wrote'
  <2> SUFFICES ASSUME NEW h \in Goroutines \ reentered', NEW i \in 1 .. Len(frames'[h])
               PROVE  Contents(enc[frames[h][i].enc].b)' = frames'[h][i].wrote
    BY DEF Wrote
  <2>1. CASE Is(h, i)
    <3>1. ne.b.arr # NoArray /\ mem[ne.b.arr] \in Seq(Items)
      BY <1>3, EncoderPoolAssumption DEF TypeOK
    <3>2. SubSeq(mem[ne.b.arr], 1, 0) = <<>>
      BY <3>1, SubSeqEmpty
    <3> QED BY <1>3, <1>4, <2>1, <3>1, <3>2 DEF Contents
  <2>2. CASE Was(h, i)
    <3>1. frames[h][i].enc # e
      BY <2>2
    <3>2. enc'[frames[h][i].enc] = enc[frames[h][i].enc]
      BY <1>4, <1>5, <2>2, <3>1
    <3>3. Contents(enc[frames[h][i].enc].b) = frames[h][i].wrote
      BY <2>2 DEF Wrote
    <3> QED BY <2>2, <3>2, <3>3 DEF Contents
  <2> QED BY <1>2, <2>1, <2>2
<1>12. ReturnedIntact'
  BY <1>3 DEF ReturnedIntact, Contents
<1> QED BY <1>6, <1>7, <1>8, <1>9, <1>10, <1>11, <1>12

(* AppendMarshal takes the caller's slice and keeps the invariant.          *)
LEMMA AppendMarshalStep ==
  ASSUME IInv, NEW g \in Goroutines, AppendMarshal(g)
  PROVE  IInv'
<1>1. PICK e \in encPool \cup FreeEncoders, dst \in Dsts(g) :
        \E b \in AppendBufs(enc[e], dst) :
          /\ encPool' = encPool \ {e}
          /\ enc' = [enc EXCEPT ![e] = [Reset(@, "nil") EXCEPT !.b = b, !.w = "appendBuf"]]
          /\ frames' = [frames EXCEPT ![g] = Enter(@, e, "nil")]
          /\ GiveUp(dst)
  BY DEF AppendMarshal
<1>2. PICK b \in AppendBufs(enc[e], dst) :
        /\ encPool' = encPool \ {e}
        /\ enc' = [enc EXCEPT ![e] = [Reset(@, "nil") EXCEPT !.b = b, !.w = "appendBuf"]]
        /\ frames' = [frames EXCEPT ![g] = Enter(@, e, "nil")]
        /\ GiveUp(dst)
  BY <1>1
<1>3. calls < MaxCalls /\ calls' = calls + 1 /\ UNCHANGED <<mem, reentered>>
  BY DEF AppendMarshal, MayCall
<1>4. e \in Encoders
  BY DEF IInv, TypeOK, FreeEncoders
<1>5. b \in Slices
  BY <1>2, <1>4, BufFacts
<1> DEFINE ne == [Reset(enc[e], "nil") EXCEPT !.b = b, !.w = "appendBuf"]
           f == [enc |-> e, old |-> "nil", call |-> calls', wrote |-> <<>>]
<1>6. ne \in EncoderRecords /\ ~ne.options /\ ~ne.dict /\ ne.w = "appendBuf" /\ ne.b = b
  <2>1. enc[e] \in EncoderRecords
    BY <1>4 DEF IInv, TypeOK
  <2> QED BY <1>5, <2>1 DEF Reset, ResetWriter, EncoderRecords, Writers
<1>7. calls' \in 1 .. MaxCalls
  BY <1>3, EncoderPoolAssumption DEF IInv, TypeOK
<1>8. f \in FrameRecords /\ f.enc = e /\ f.wrote = <<>>
  BY <1>4, <1>7 DEF FrameRecords, Writers
<1>9. frames' = [frames EXCEPT ![g] = Append(@, f)] /\ enc' = [enc EXCEPT ![e] = ne]
  BY <1>2 DEF Enter
<1>10. \A h \in Goroutines : \A i \in 1 .. Len(frames[h]) : frames[h][i].enc # e
  BY TakenIsAlone
<1>11. reentered' = reentered /\ reentered' \subseteq Goroutines /\ calls' \in 0 .. MaxCalls /\ mem' = mem
  BY <1>3, <1>7 DEF IInv, TypeOK
<1>12. e \notin encPool' /\ encPool' \subseteq encPool
  BY <1>2
<1> HIDE DEF ne, f
<1>13. Begins(g, e, f, ne, dst)
  BY <1>2, <1>6, <1>8, <1>9, <1>10, <1>11, <1>12 DEF Begins
<1> QED BY <1>4, <1>13, Enters

(* Append into an earlier result keeps the invariant.                       *)
LEMMA AppendAgainStep ==
  ASSUME IInv, NEW g \in Goroutines, AppendAgain(g)
  PROVE  IInv'
<1> DEFINE e == Top(g).enc
<1>1. frames[g] # <<>> /\ reentered' = reentered \cup {g} /\ UNCHANGED <<mem, encPool>>
  BY DEF AppendAgain
<1>2. PICK dst \in Dsts(g) : \E b \in AppendBufs(enc[e], dst) :
        /\ enc' = [enc EXCEPT ![e].b = b, ![e].w = "appendBuf"]
        /\ frames' = [frames EXCEPT ![g] = Enter(@, e, enc[e].w)]
        /\ GiveUp(dst)
  BY DEF AppendAgain
<1>3. PICK b \in AppendBufs(enc[e], dst) :
        /\ enc' = [enc EXCEPT ![e].b = b, ![e].w = "appendBuf"]
        /\ frames' = [frames EXCEPT ![g] = Enter(@, e, enc[e].w)]
        /\ GiveUp(dst)
  BY <1>2
<1>4. calls < MaxCalls /\ calls' = calls + 1
  BY DEF AppendAgain, MayCall
<1>5. /\ Len(frames[g]) \in 1 .. Len(frames[g]) /\ Top(g) = frames[g][Len(frames[g])]
      /\ Top(g) \in FrameRecords
  BY <1>1, TopFacts DEF IInv
<1>6. e \in Encoders
  BY <1>5 DEF FrameRecords
<1>7. b \in Slices
  BY <1>3, <1>6, BufFacts
<1>8. enc[e].w = "appendBuf" /\ ~enc[e].options /\ ~enc[e].dict /\ e \notin encPool
  BY <1>5 DEF IInv, Settings, Held
<1> DEFINE ne == [enc[e] EXCEPT !.b = b, !.w = "appendBuf"]
           f == [enc |-> e, old |-> enc[e].w, call |-> calls', wrote |-> <<>>]
<1>9. enc[e] \in EncoderRecords
  BY <1>6 DEF IInv, TypeOK
<1>10. ne \in EncoderRecords /\ ~ne.options /\ ~ne.dict /\ ne.w = "appendBuf" /\ ne.b = b
  BY <1>7, <1>8, <1>9 DEF EncoderRecords, Writers
<1>11. calls' \in 1 .. MaxCalls /\ calls' \in 0 .. MaxCalls
  BY <1>4, EncoderPoolAssumption DEF IInv, TypeOK
<1>12. f \in FrameRecords /\ f.enc = e /\ f.wrote = <<>> /\ f.old = "appendBuf"
  BY <1>6, <1>8, <1>11 DEF FrameRecords, Writers
<1>13. frames' = [frames EXCEPT ![g] = Append(@, f)]
  BY <1>3 DEF Enter
<1>14. enc' = [enc EXCEPT ![e] = ne]
  BY <1>3, <1>6 DEF IInv, TypeOK
<1>15. \A h \in Goroutines : \A i \in 1 .. Len(frames[h]) : frames[h][i].enc = e => h = g
  BY <1>5 DEF IInv, Held
<1>16. reentered \subseteq reentered' /\ reentered' \subseteq Goroutines /\ g \in reentered'
  BY <1>1 DEF IInv, TypeOK
<1> HIDE DEF ne, f, e
<1>17. Begins(g, e, f, ne, dst)
  <2>1. e \notin encPool' /\ encPool' \subseteq encPool /\ mem' = mem
    BY <1>1, <1>8
  <2>2. dst \in Dsts(g) /\ ne.b \in AppendBufs(enc[e], dst) /\ GiveUp(dst)
    BY <1>3, <1>10
  <2>3. \A h \in Goroutines : \A i \in 1 .. Len(frames[h]) :
          frames[h][i].enc = e => h = g /\ g \in reentered' /\ f.old = "appendBuf"
    BY <1>12, <1>15, <1>16
  <2> QED BY <1>10, <1>11, <1>12, <1>13, <1>14, <1>16, <2>1, <2>2, <2>3 DEF Begins
<1> QED BY <1>6, <1>17, Enters

-----------------------------------------------------------------------------
(* What an array holds after an item was appended behind c: c and the item, *)
(* and what lay behind them if the array is the same.                       *)
LEMMA AppendInPlace ==
  ASSUME NEW S, NEW c \in Seq(S), NEW x \in S, NEW rest \in Seq(S)
  PROVE  /\ Append(c, x) \o rest \in Seq(S)
         /\ Len(Append(c, x) \o rest) = Len(c) + 1 + Len(rest)
         /\ SubSeq(Append(c, x) \o rest, 1, Len(c) + 1) = Append(c, x)
<1> DEFINE p == Append(c, x)
<1>1. p \in Seq(S) /\ Len(p) = Len(c) + 1 /\ Len(c) \in Nat /\ Len(rest) \in Nat
  BY AppendProperties
<1> HIDE DEF p
<1>2. p \o rest \in Seq(S) /\ Len(p \o rest) = Len(p) + Len(rest)
  BY <1>1, ConcatProperties
<1>3. 1 \in 1 .. Len(p) /\ Len(p) \in 1 .. Len(p)
  BY <1>1
<1>4. SubSeq(p \o rest, 1, Len(p)) = SubSeq(p, 1, Len(p))
  BY <1>1, <1>3, SubSeqOfConcat1
<1>5. SubSeq(p, 1, Len(p)) = p
  BY <1>1, SubSeqFull
<1> QED BY <1>1, <1>2, <1>4, <1>5 DEF p

(* What appendBuf of an Encoder holds.                                      *)
LEMMA BufContents ==
  ASSUME TypeOK, Within, NEW e \in Encoders
  PROVE  /\ enc[e].b \in Slices /\ enc[e].b.len \in Nat
         /\ Contents(enc[e].b) \in Seq(Items) /\ Len(Contents(enc[e].b)) = enc[e].b.len
         /\ enc[e].b.len <= Cap(enc[e].b)
<1> DEFINE b == enc[e].b
<1>1. b \in Slices /\ b.len \in Nat /\ b.arr \in Arrays \cup {NoArray}
  BY DEF TypeOK, EncoderRecords, Slices
<1>2. IF b.arr = NoArray THEN b.len = 0 ELSE b.len <= Len(mem[b.arr])
  BY DEF Within
<1> HIDE DEF b
<1>3. CASE b.arr = NoArray
  BY <1>1, <1>2, <1>3 DEF Contents, Cap, b
<1>4. CASE b.arr # NoArray
  <2>1. mem[b.arr] \in Seq(Items) /\ Len(mem[b.arr]) <= Capacity[b.arr]
    BY <1>1, <1>4 DEF TypeOK
  <2>2. Len(mem[b.arr]) \in Nat /\ Capacity[b.arr] \in Nat
    BY <1>1, <1>4, <2>1, EncoderPoolAssumption
  <2>3. b.len <= Capacity[b.arr]
    BY <1>1, <1>2, <1>4, <2>1, <2>2
  <2>4. SubSeq(mem[b.arr], 1, b.len) \in Seq(Items) /\ Len(SubSeq(mem[b.arr], 1, b.len)) = b.len
    BY <1>1, <1>2, <1>4, <2>1, <2>2
  <2> QED BY <1>1, <1>4, <2>3, <2>4 DEF Contents, Cap, b
<1> QED BY <1>3, <1>4

(* A write, in place or after growing, keeps the invariant.                 *)
LEMMA WriteStep ==
  ASSUME IInv, NEW g \in Goroutines, Write(g)
  PROVE  IInv'
<1> DEFINE n == Len(frames[g])
           t == Top(g)
           e == t.enc
           b == enc[e].b
           c == Contents(b)
           item == <<t.call, Len(t.wrote)>>
<1>1. PICK a \in GrowTo(b) :
        /\ mem' = [mem EXCEPT ![a] =
                     Append(c, item) \o IF a = b.arr THEN SubSeq(mem[a], b.len + 2, Len(mem[a])) ELSE <<>>]
        /\ enc' = [enc EXCEPT ![e].b = Slice(a, b.len + 1)]
  BY DEF Write
<1>2. /\ frames[g] # <<>> /\ Len(t.wrote) < MaxItems
      /\ frames' = [frames EXCEPT ![g][n].wrote = Append(@, item)]
      /\ UNCHANGED <<encPool, results, calls, reentered>>
  BY DEF Write
<1>3. n \in 1 .. Len(frames[g]) /\ t = frames[g][n] /\ t \in FrameRecords
  BY <1>2, TopFacts DEF IInv
<1> DEFINE f == [t EXCEPT !.wrote = Append(t.wrote, item)]
           rest == IF a = b.arr THEN SubSeq(mem[a], b.len + 2, Len(mem[a])) ELSE <<>>
           nm == Append(c, item) \o rest
           nb == Slice(a, b.len + 1)
           ne == [enc[e] EXCEPT !.b = nb]
<1>4. frames' = [frames EXCEPT ![g] = [@ EXCEPT ![n] = f]]
  BY <1>2 DEF Top
<1>5. mem' = [mem EXCEPT ![a] = nm] /\ enc' = [enc EXCEPT ![e] = ne]
  BY <1>1
<1>6. e \in Encoders /\ t.call \in 1 .. MaxCalls /\ t.wrote \in Seq(Items)
  BY <1>3 DEF FrameRecords
<1>7. item \in Items
  <2>1. Len(t.wrote) \in 0 .. MaxItems
    BY <1>2, <1>6, EncoderPoolAssumption
  <2> QED BY <1>6, <2>1 DEF Items
<1> HIDE DEF item, t
<1>8. /\ f \in FrameRecords /\ f.enc = e /\ f.old = t.old /\ f.wrote = Append(t.wrote, item)
  <2>1. Append(t.wrote, item) \in Seq(Items)
    BY <1>6, <1>7, AppendProperties
  <2> QED BY <1>3, <2>1 DEF FrameRecords
<1> HIDE DEF f
<1>9. Touches(g, n, {f})
  BY <1>2, <1>4, <1>8, Replaced DEF IInv, TypeOK, Touches
<1>10. b \in Slices /\ b.len \in Nat /\ c \in Seq(Items) /\ Len(c) = b.len /\ b.len <= Cap(b)
  BY <1>6, BufContents DEF IInv
<1> HIDE DEF e
<1>11. /\ a \in Arrays /\ b.len < Capacity[a] /\ Capacity[a] \in Nat
       /\ a = b.arr \/ a \in FreeArrays
  <2>1. CASE b.len < Cap(b)
    <3>1. a = b.arr
      BY <2>1 DEF GrowTo
    <3>2. a # NoArray /\ b.arr \in Arrays \cup {NoArray}
      BY <1>10, <2>1, <3>1 DEF Cap, Slices
    <3> QED BY <2>1, <3>1, <3>2, EncoderPoolAssumption DEF Cap
  <2>2. CASE ~(b.len < Cap(b))
    <3>1. a \in FreeArrays /\ Capacity[a] > Cap(b)
      BY <2>2 DEF GrowTo
    <3>2. a \in Arrays /\ Capacity[a] \in Nat
      BY <3>1, EncoderPoolAssumption DEF FreeArrays
    <3>3. Cap(b) \in Nat
      BY <1>10, EncoderPoolAssumption DEF Cap, Slices
    <3> QED BY <1>10, <3>1, <3>2, <3>3
  <2> QED BY <2>1, <2>2
<1>12. mem[a] \in Seq(Items) /\ Len(mem[a]) \in Nat /\ Len(mem[a]) <= Capacity[a]
  BY <1>11 DEF IInv, TypeOK
<1> HIDE DEF b, c
<1>13. /\ rest \in Seq(Items) /\ Len(rest) \in Nat
       /\ a = b.arr => /\ Len(mem[a]) <= b.len + 1 + Len(rest)
                       /\ b.len + 1 + Len(rest) <= Capacity[a]
       /\ a # b.arr => Len(rest) = 0
  <2>1. CASE a = b.arr
    <3> DEFINE m == b.len + 2
               k == Len(mem[a])
    <3>1. m \in Int /\ k \in Int /\ \A i \in m .. k : mem[a][i] \in Items
      BY <1>10, <1>12
    <3>2. rest = SubSeq(mem[a], m, k)
      BY <2>1
    <3> HIDE DEF m, k, rest
    <3>3. rest \in Seq(Items) /\ Len(rest) = IF m <= k THEN k - m + 1 ELSE 0
      BY <3>1, <3>2, SubSeqProperties
    <3> QED BY SMTT(60), <1>10, <1>11, <1>12, <2>1, <3>3 DEF m, k
  <2>2. CASE a # b.arr
    BY <2>2
  <2> QED BY <2>1, <2>2
<1> HIDE DEF rest
<1>14. /\ nm \in Seq(Items) /\ Len(nm) = b.len + 1 + Len(rest)
       /\ SubSeq(nm, 1, b.len + 1) = Append(c, item)
  <2>1. /\ nm \in Seq(Items) /\ Len(nm) = Len(c) + 1 + Len(rest)
        /\ SubSeq(nm, 1, Len(c) + 1) = Append(c, item)
    BY <1>7, <1>10, <1>13, AppendInPlace
  <2> HIDE DEF nm
  <2> QED BY <1>10, <2>1
<1> HIDE DEF nm
<1>15. /\ Len(nm) <= Capacity[a] /\ b.len + 1 <= Len(nm)
       /\ a = b.arr => Len(mem[a]) <= Len(nm)
  BY <1>10, <1>11, <1>13, <1>14
<1>16. nb \in Slices /\ nb.arr = a /\ nb.len = b.len + 1
  BY <1>10, <1>11 DEF Slice, Slices
<1> HIDE DEF nb
<1>17. /\ ne \in EncoderRecords /\ ne.b = nb
       /\ ne.options = enc[e].options /\ ne.dict = enc[e].dict /\ ne.w = enc[e].w
  <2>1. enc[e] \in EncoderRecords
    BY <1>6 DEF IInv, TypeOK
  <2> QED BY <1>16, <2>1 DEF EncoderRecords
<1> HIDE DEF ne, n
(* Only calls and results of a goroutine that has called Append again share *)
(* the array that is written to.                                            *)
<1>18. /\ enc'[e] = ne /\ \A x \in Encoders : x # e => enc'[x] = enc[x]
       /\ mem'[a] = nm /\ \A x \in Arrays : x # a => mem'[x] = mem[x]
  BY <1>5, <1>6, <1>11 DEF IInv, TypeOK
<1>19. ASSUME NEW x \in Encoders, enc[x].b.arr = a
       PROVE  a = b.arr
  BY <1>11, <1>19 DEF FreeArrays
<1>20. ASSUME NEW r \in results, r.slice.arr = a
       PROVE  r.owner = g /\ g \in reentered
  <2>1. a = b.arr /\ b.arr # NoArray
    BY <1>11, <1>20, EncoderPoolAssumption DEF FreeArrays
  <2> QED BY <1>3, <1>20, <2>1, SeparateResult DEF IInv, b, e
<1>21. ASSUME NEW h \in Goroutines, NEW i \in 1 .. Len(frames[h])
       PROVE  frames[h][i].enc \in Encoders
  <2>1. frames[h] \in Seq(FrameRecords)
    BY DEF IInv, TypeOK
  <2>2. frames[h][i] \in FrameRecords
    BY <2>1, ElementOfSeq
  <2> QED BY <2>2 DEF FrameRecords
<1>22. ASSUME NEW h \in Goroutines, NEW i \in 1 .. Len(frames[h]), ~(h = g /\ i = n),
              frames[h][i].enc = e \/ enc[frames[h][i].enc].b.arr = a
       PROVE  h = g /\ g \in reentered
  <2>1. CASE frames[h][i].enc = e
    BY <1>3, <1>22, <2>1 DEF IInv, Held, e
  <2>2. CASE enc[frames[h][i].enc].b.arr = a
    <3>1. a = b.arr /\ b.arr # NoArray
      BY <1>11, <1>19, <1>21, <2>2, EncoderPoolAssumption
    <3>2. enc[frames[g][n].enc].b.arr = enc[frames[h][i].enc].b.arr /\ enc[frames[h][i].enc].b.arr # NoArray
      BY <1>3, <2>2, <3>1 DEF b, e
    <3> QED BY <1>3, <1>22, <3>2, SeparateCalls DEF IInv
  <2> QED BY <1>22, <2>1, <2>2
<1>23. \A h \in Goroutines : \A i \in 1 .. Len(frames'[h]) :
         \/ h = g /\ i = n /\ frames'[h][i] = f
         \/ i \in 1 .. Len(frames[h]) /\ frames'[h][i] = frames[h][i] /\ ~(h = g /\ i = n)
  BY <1>9 DEF Touches, Touched
<1>24. \A h \in Goroutines : \A i \in 1 .. Len(frames'[h]) :
         /\ i \in 1 .. Len(frames[h])
         /\ frames'[h][i].enc = frames[h][i].enc /\ frames'[h][i].old = frames[h][i].old
  BY <1>3, <1>8, <1>23 DEF e
<1>25. TypeOK'
  <2>1. enc' \in [Encoders -> EncoderRecords]
    BY <1>5, <1>17 DEF IInv, TypeOK
  <2>2. mem' \in [Arrays -> Seq(Items)]
    BY <1>5, <1>14 DEF IInv, TypeOK
  <2>3. \A x \in Arrays : Len(mem'[x]) <= Capacity[x]
    BY <1>15, <1>18 DEF IInv, TypeOK
  <2> QED BY <1>2, <1>9, <2>1, <2>2, <2>3 DEF IInv, TypeOK, Touches, Touched
<1>26. Held'
  <2>1. ASSUME NEW h \in Goroutines, NEW i \in 1 .. Len(frames'[h]),
               NEW k \in Goroutines, NEW j \in 1 .. Len(frames'[k])
        PROVE  /\ frames'[h][i].enc \notin encPool'
               /\ frames'[k][j].enc = frames'[h][i].enc => h = k /\ (i = j \/ h \in reentered')
    <3>1. /\ i \in 1 .. Len(frames[h]) /\ frames'[h][i].enc = frames[h][i].enc
          /\ j \in 1 .. Len(frames[k]) /\ frames'[k][j].enc = frames[k][j].enc
      BY <1>24
    <3> QED BY <1>2, <3>1 DEF IInv, Held
  <2> QED BY <2>1 DEF Held
<1>27. Settings'
  <2>1. ASSUME NEW h \in Goroutines, NEW i \in 1 .. Len(frames'[h]), NEW j \in 1 .. Len(frames'[h])
        PROVE  /\ ~enc'[frames'[h][i].enc].options /\ ~enc'[frames'[h][i].enc].dict
               /\ enc'[frames'[h][i].enc].w = "appendBuf"
               /\ j < i /\ frames'[h][j].enc = frames'[h][i].enc => frames'[h][i].old = "appendBuf"
    <3>1. /\ i \in 1 .. Len(frames[h]) /\ frames'[h][i].enc = frames[h][i].enc
          /\ frames'[h][i].old = frames[h][i].old
          /\ j \in 1 .. Len(frames[h]) /\ frames'[h][j].enc = frames[h][j].enc
      BY <1>24
    <3>2. frames[h][i].enc \in Encoders
      BY <1>21, <3>1
    <3>3. \A x \in Encoders : /\ enc'[x].options = enc[x].options /\ enc'[x].dict = enc[x].dict
                              /\ enc'[x].w = enc[x].w
      BY <1>17, <1>18
    <3> QED BY <3>1, <3>2, <3>3 DEF IInv, Settings
  <2> QED BY <2>1 DEF Settings
<1>28. Separate'
  <2>1. Separate /\ enc'[e].b = nb /\ results' \subseteq results /\ reentered \subseteq reentered'
    BY <1>2, <1>17, <1>18 DEF IInv
  <2>2. \A h \in Goroutines : \A i \in 1 .. Len(frames[h]) :
          frames[h][i].enc # e => enc'[frames[h][i].enc] = enc[frames[h][i].enc]
    BY <1>18, <1>21
  <2>3. \A h \in Goroutines : \A i \in 1 .. Len(frames[h]) :
          ~(h = g /\ i = n) /\ (frames[h][i].enc = e \/ enc[frames[h][i].enc].b.arr = nb.arr)
            => h = g /\ g \in reentered'
    BY <1>2, <1>16, <1>22
  <2>4. \A r \in results' : r.slice.arr = nb.arr => r.owner = g /\ g \in reentered'
    BY <1>2, <1>16, <1>20
  <2> QED BY <1>8, <1>9, <2>1, <2>2, <2>3, <2>4, SeparateKept
<1>29. Within'
  <2> SUFFICES ASSUME NEW x \in Encoders
               PROVE  IF enc'[x].b.arr = NoArray THEN enc'[x].b.len = 0
                      ELSE enc'[x].b.len <= Len(mem'[enc'[x].b.arr])
    BY DEF Within
  <2>1. CASE x = e
    BY <1>11, <1>15, <1>16, <1>17, <1>18, <2>1, EncoderPoolAssumption
  <2>2. CASE x # e
    <3>1. enc'[x].b = enc[x].b /\ enc[x].b \in Slices
      BY <1>18, <2>2 DEF IInv, TypeOK, EncoderRecords
    <3>2. IF enc[x].b.arr = NoArray THEN enc[x].b.len = 0 ELSE enc[x].b.len <= Len(mem[enc[x].b.arr])
      BY DEF IInv, Within
    <3>3. enc[x].b.arr \in Arrays \cup {NoArray} /\ enc[x].b.len \in Nat
      BY <3>1 DEF Slices
    <3>4. CASE enc[x].b.arr = a
      <4>1. enc[x].b.len <= Len(mem[a]) /\ Len(mem[a]) <= Len(nm) /\ Len(nm) \in Nat
        BY <1>11, <1>14, <1>15, <1>19, <3>2, <3>4, EncoderPoolAssumption
      <4>2. enc[x].b.len <= Len(nm)
        BY <1>12, <3>3, <4>1
      <4> QED BY <1>11, <1>18, <3>1, <3>4, <4>2, EncoderPoolAssumption
    <3>5. CASE enc[x].b.arr # a
      BY <1>18, <3>1, <3>2, <3>3, <3>5
    <3> QED BY <3>4, <3>5
  <2> QED BY <2>1, <2>2
<1>30. Wrote'
  <2> SUFFICES ASSUME NEW h \in Goroutines \ reentered', NEW i \in 1 .. Len(frames'[h])
               PROVE  Contents(enc[frames[h][i].enc].b)' = frames'[h][i].wrote
    BY DEF Wrote
  <2>1. CASE h = g /\ i = n /\ frames'[h][i] = f
    <3>1. c = t.wrote
      BY <1>2, <1>3, <2>1 DEF IInv, Wrote, c, b, e
    <3>2. enc'[frames'[h][i].enc].b = nb /\ mem'[nb.arr] = nm /\ nb.arr # NoArray
      BY <1>8, <1>11, <1>16, <1>17, <1>18, <2>1, EncoderPoolAssumption
    <3>3. SubSeq(mem'[nb.arr], 1, nb.len) = Append(t.wrote, item)
      BY <1>14, <1>16, <3>1, <3>2
    <3> QED BY <1>8, <2>1, <3>2, <3>3 DEF Contents
  <2>2. CASE i \in 1 .. Len(frames[h]) /\ frames'[h][i] = frames[h][i] /\ ~(h = g /\ i = n)
    <3>1. frames[h][i].enc # e /\ enc[frames[h][i].enc].b.arr # a
      BY <1>2, <1>22, <2>2
    <3>2. enc'[frames[h][i].enc] = enc[frames[h][i].enc] /\ enc[frames[h][i].enc].b.arr \in Arrays \cup {NoArray}
      BY <1>18, <1>21, <2>2, <3>1 DEF IInv, TypeOK, EncoderRecords, Slices
    <3>3. Contents(enc[frames[h][i].enc].b) = frames[h][i].wrote
      BY <1>2, <2>2 DEF IInv, Wrote
    <3> QED BY <1>18, <2>2, <3>1, <3>2, <3>3 DEF Contents
  <2> QED BY <1>23, <2>1, <2>2
<1>31. ReturnedIntact'
  <2> SUFFICES ASSUME NEW r \in results, r.owner \notin reentered
               PROVE  Contents(r.slice)' = r.wrote
    BY <1>2 DEF ReturnedIntact
  <2>1. r.slice.arr # a /\ r.slice.arr \in Arrays \cup {NoArray}
    BY <1>20 DEF IInv, TypeOK, Slices
  <2>2. Contents(r.slice) = r.wrote
    BY DEF IInv, ReturnedIntact
  <2> QED BY <1>18, <2>1, <2>2 DEF Contents
<1> QED BY <1>25, <1>26, <1>27, <1>28, <1>29, <1>30, <1>31 DEF IInv

-----------------------------------------------------------------------------
(* The invariant holds initially.                                           *)
LEMMA InitIInv ==
  ASSUME Init
  PROVE  IInv
<1>1. \A g \in Goroutines : frames[g] = <<>> /\ Len(frames[g]) = 0
  BY DEF Init
<1>2. TypeOK
  <2>1. enc \in [Encoders -> EncoderRecords]
    BY NewTypes DEF Init
  <2>2. frames \in [Goroutines -> Seq(FrameRecords)] /\ mem \in [Arrays -> Seq(Items)]
    BY DEF Init
  <2>3. \A a \in Arrays : Len(mem[a]) <= Capacity[a]
    BY EncoderPoolAssumption DEF Init
  <2> QED BY <2>1, <2>2, <2>3, EncoderPoolAssumption DEF Init, TypeOK
<1>3. Held /\ Settings /\ Separate /\ Wrote
  BY <1>1 DEF Held, Settings, Separate, Wrote
<1>4. Within
  BY NewTypes DEF Init, Within, NoSlice, Slice
<1>5. ReturnedIntact
  BY DEF Init, ReturnedIntact
<1> QED BY <1>2, <1>3, <1>4, <1>5 DEF IInv

(* Every step keeps the invariant.                                          *)
LEMMA StepIInv ==
  ASSUME IInv, [Next]_vars
  PROVE  IInv'
<1>1. CASE UNCHANGED vars
  <2>1. TypeOK'
    BY <1>1 DEF vars, IInv, TypeOK
  <2>2. Held' /\ Settings'
    BY <1>1 DEF vars, IInv, Held, Settings
  <2>3. Separate' /\ Within'
    BY <1>1 DEF vars, IInv, Separate, Within
  <2>4. Wrote'
    BY <1>1 DEF vars, IInv, Wrote, Contents
  <2>5. ReturnedIntact'
    BY <1>1 DEF vars, IInv, ReturnedIntact, Contents
  <2> QED BY <2>1, <2>2, <2>3, <2>4, <2>5 DEF IInv
<1> QED BY <1>1, AppendMarshalStep, AppendAgainStep, WriteStep, PutEncoderStep, ReturnAppendStep,
           SessionStep, PanicStep, DropStep DEF Next

(* The invariant holds in every reachable state.                            *)
LEMMA AlwaysIInv == Spec => []IInv
BY InitIInv, StepIInv, PTL DEF Spec

(* Types; no array holds more than its capacity.                            *)
THEOREM TypeCorrect == Spec => []TypeOK
<1>1. IInv => TypeOK
  BY DEF IInv
<1> QED BY <1>1, AlwaysIInv, PTL

(* Whoever gets the pooled Encoder whose appendBuf refers to them, and      *)
(* whatever is passed as dst, the bytes that Marshal, AppendMarshal and     *)
(* Append returned stay what the call encoded, but for a goroutine that has *)
(* called Append from inside an Append.                                     *)
THEOREM ResultsStayIntact == Spec => []ReturnedIntact
<1>1. IInv => ReturnedIntact
  BY DEF IInv
<1> QED BY <1>1, AlwaysIInv, PTL

(* AppendMarshal encodes with no option and no dictionary that an earlier   *)
(* user of the Encoder left, into appendBuf.                                *)
THEOREM OptionsAreDefault == Spec => []DefaultOptions
<1>1. IInv => DefaultOptions
  <2> SUFFICES ASSUME IInv, NEW f \in AllFrames
               PROVE  ~enc[f.enc].options /\ ~enc[f.enc].dict /\ enc[f.enc].w = "appendBuf"
    BY DEF DefaultOptions
  <2>1. PICK g \in Goroutines : f \in FramesOf(g)
    BY DEF AllFrames
  <2>2. PICK i \in 1 .. Len(frames[g]) : f = frames[g][i]
    BY <2>1 DEF FramesOf
  <2> QED BY <2>2 DEF IInv, Settings
<1> QED BY <1>1, AlwaysIInv, PTL
=============================================================================
