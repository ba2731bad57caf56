---------------------------- MODULE ReaderProofs ----------------------------
(***************************************************************************)
(* For every input, every buffer between the source and the Decoder and    *)
(* every limit: Len is exact, allocation is bounded, and the reads         *)
(* implement ByteStream.                                                   *)
(***************************************************************************)
EXTENDS Reader, SequenceTheorems, TLAPS

(* Where the stream is: between calls everything taken from the source has  *)
(* been delivered or is held; in a read, got bytes more have arrived, and   *)
(* they are at the start of d.buf in the order of the stream.               *)
Position ==
  /\ pc = "idle" => taken - held = delivered
  /\ pc = "fill" => /\ taken - held = delivered + got
                    /\ \A k \in 1 .. got : mem[k] = delivered + k

(* The inductive invariant.                                                 *)
IInv == TypeOK /\ Position /\ AllocBounded

-----------------------------------------------------------------------------
(* A Read of w bytes that returns k takes the stream k bytes further.       *)
LEMMA SourceAdvances ==
  ASSUME TypeOK, NEW w \in Nat \ {0}, NEW k \in Nat, SourceRead(w, k)
  PROVE  /\ k \in 1 .. w
         /\ taken' \in 0 .. Total
         /\ held' \in 0 .. taken'
         /\ taken' - held' = (taken - held) + k
         /\ (taken - held) + k <= Total
<1>1. bufSize \in Nat /\ Total \in Nat /\ taken \in Nat /\ held \in Nat /\ held <= taken /\ taken <= Total
  BY ReaderAssumption DEF TypeOK
<1>2. CASE held > 0
  BY <1>1, <1>2 DEF SourceRead, Least
<1>3. CASE held = 0 /\ w >= bufSize
  BY <1>1, <1>3 DEF SourceRead, Least, Rest
<1>4. CASE held = 0 /\ w < bufSize
  BY <1>1, <1>4 DEF SourceRead, Least, Rest
<1> QED BY <1>1, <1>2, <1>3, <1>4

(* A function on 1 .. n is a sequence of length n.                          *)
LEMMA FunctionIsSeq ==
  ASSUME NEW S, NEW n \in Nat, NEW f \in [1 .. n -> S]
  PROVE  f \in Seq(S) /\ Len(f) = n
<1>1. f \in Seq(S)
  BY SeqDef
<1>2. DOMAIN f = 1 .. n /\ DOMAIN f = 1 .. Len(f) /\ Len(f) \in Nat
  BY <1>1, LenProperties
<1> QED BY <1>1, <1>2

(* What append(b, make([]byte, more)...) gives: a buffer of bytes that is   *)
(* large enough and keeps the first l of them.                              *)
LEMMA AppendedKeeps ==
  ASSUME NEW m \in Seq(0 .. Total), NEW l \in 0 .. Len(m), NEW more \in Nat, NEW extra \in Nat
  PROVE  /\ Appended(m, l, more, extra) \in Seq(0 .. Total)
         /\ l + more <= Len(Appended(m, l, more, extra))
         /\ \A k \in 1 .. l : Appended(m, l, more, extra)[k] = m[k]
<1> DEFINE a == Appended(m, l, more, extra)
<1>0. Total \in Nat /\ Len(m) \in Nat /\ 0 \in 0 .. Total /\ DOMAIN m = 1 .. Len(m)
  BY ReaderAssumption
<1>1. CASE l + more <= Len(m)
  <2>1. a = [k \in 1 .. Len(m) |-> IF k > l /\ k <= l + more THEN 0 ELSE m[k]]
    BY <1>1 DEF Appended
  <2>2. a \in [1 .. Len(m) -> 0 .. Total]
    BY <1>0, <2>1
  <2>3. a \in Seq(0 .. Total) /\ Len(a) = Len(m)
    BY <1>0, <2>2
  <2> HIDE DEF a
  <2>4. \A k \in 1 .. l : a[k] = m[k]
    BY <1>0, <2>1
  <2> QED BY <1>1, <2>3, <2>4 DEF a
<1>2. CASE ~(l + more <= Len(m))
  <2> DEFINE n == more + extra
             f == Fresh(n)
             p == SubSeq(m, 1, l)
  <2>0. n \in Nat /\ more <= n
    OBVIOUS
  <2> HIDE DEF n
  <2>1. f \in [1 .. n -> 0 .. Total]
    BY <1>0 DEF Fresh
  <2>2. f \in Seq(0 .. Total) /\ Len(f) = n
    BY <2>0, <2>1, FunctionIsSeq
  <2>3. p \in Seq(0 .. Total) /\ Len(p) = l /\ \A k \in 1 .. l : p[k] = m[k]
    BY <1>0
  <2>4. a = p \o f
    BY <1>2 DEF Appended, n
  <2> HIDE DEF a, f, p
  <2>5. /\ a \in Seq(0 .. Total)
        /\ Len(a) = Len(p) + Len(f)
        /\ \A k \in 1 .. l : a[k] = p[k]
    <3>1. /\ p \o f \in Seq(0 .. Total)
          /\ Len(p \o f) = Len(p) + Len(f)
          /\ \A i \in 1 .. Len(p) + Len(f) : (p \o f)[i] = IF i <= Len(p) THEN p[i] ELSE f[i - Len(p)]
      BY <2>2, <2>3, ConcatProperties
    <3>2. \A i \in 1 .. l : i \in 1 .. Len(p) + Len(f) /\ i <= Len(p)
      BY <2>0, <2>2, <2>3
    <3> QED BY <2>4, <3>1, <3>2
  <2>6. l + more <= Len(a)
    BY <2>0, <2>2, <2>3, <2>5
  <2> QED BY <2>3, <2>5, <2>6 DEF a
<1> QED BY <1>1, <1>2

-----------------------------------------------------------------------------
(* The types are preserved by every step.                                   *)
LEMMA TypeStep ==
  ASSUME TypeOK, Position, [Next]_vars
  PROVE  TypeOK'
<1> USE ReaderAssumption
<1>1. CASE readCode
  <2>1. /\ taken' \in 0 .. Total /\ held' \in 0 .. taken'
        /\ taken' - held' = (taken - held) + 1
    BY <1>1, SourceAdvances DEF readCode
  <2>2. taken - held = delivered /\ delivered' = delivered + 1 /\ delivered \in Nat
    BY <1>1 DEF readCode, Return, Position, TypeOK
  <2>3. delivered' \in 0 .. Total
    BY <2>1, <2>2
  <2> QED BY <1>1, <2>1, <2>3 DEF readCode, Return, TypeOK, cap
<1>2. CASE PeekCode
  BY <1>2 DEF PeekCode, AtEOF, Rest, Least, TypeOK, cap
<1>3. CASE readCodeFails
  BY <1>3 DEF readCodeFails, Error, TypeOK, cap
<1>4. ASSUME NEW n \in Sizes, readN(n) PROVE TypeOK'
  <2> DEFINE m == IF isNil THEN Fresh(FirstCap(n)) ELSE mem
             l == IF limited THEN Len(m) ELSE IF isNil THEN 0 ELSE len
  <2>1. FirstCap(n) \in Nat /\ n \in Nat
    BY DEF FirstCap, Least
  <2>2. Fresh(FirstCap(n)) \in Seq(0 .. Total)
    <3>1. Fresh(FirstCap(n)) \in [1 .. FirstCap(n) -> 0 .. Total]
      BY <2>1 DEF Fresh
    <3> QED BY <2>1, <3>1, FunctionIsSeq
  <2>3. m \in Seq(0 .. Total) /\ l \in 0 .. Len(m)
    BY <2>2 DEF TypeOK, cap
  <2>4. /\ mem' \in Seq(0 .. Total)
        /\ len' \in 0 .. Len(mem')
        /\ len' <= n
    <3>1. CASE isNil /\ n = 0
      BY <1>4, <3>1 DEF readN
    <3>2. CASE ~(isNil /\ n = 0) /\ n <= Len(m)
      <4>1. mem' = m /\ len' = n
        BY <1>4, <3>2 DEF readN
      <4> HIDE DEF m
      <4> QED BY <2>1, <2>3, <3>2, <4>1
    <3>3. CASE ~(isNil /\ n = 0) /\ ~(n <= Len(m))
      <4>1. PICK extra \in Slack : /\ mem' = Appended(m, l, Part(n, l), extra)
                                  /\ len' = l + Part(n, l)
        BY <1>4, <3>3 DEF readN
      <4> HIDE DEF m, l
      <4>2. Part(n, l) \in Nat /\ l + Part(n, l) <= n
        BY <2>1, <2>3, <3>3 DEF Part, Least, TypeOK
      <4> QED BY <2>1, <2>3, <4>1, <4>2, AppendedKeeps
    <3> QED BY <3>1, <3>2, <3>3
  <2>5. /\ isNil' = FALSE /\ cap0' = IF isNil THEN 0 ELSE cap
        /\ want' = n /\ got' = 0 /\ pc' = "fill"
        /\ UNCHANGED <<bufSize, limited, taken, held, delivered>>
    BY <1>4 DEF readN
  <2>6. cap0' \in Nat
    BY <2>5 DEF TypeOK, cap
  <2>7. isNil' \in BOOLEAN /\ limited' \in BOOLEAN /\ pc' \in {"idle", "fill"}
    BY <2>5 DEF TypeOK
  <2>8. got' \in 0 .. len' /\ len' \in 0 .. cap' /\ len' <= want'
    BY <2>4, <2>5 DEF cap
  <2> QED BY <2>4, <2>5, <2>6, <2>7, <2>8 DEF TypeOK
<1>5. CASE ReadSome
  <2>1. PICK k \in 1 .. (len - got) :
          /\ SourceRead(len - got, k)
          /\ mem' = [j \in 1 .. cap |-> IF j > got /\ j <= got + k
                                        THEN (taken - held) + j - got ELSE mem[j]]
          /\ got' = got + k
    BY <1>5 DEF ReadSome
  <2>2. /\ taken' \in 0 .. Total /\ held' \in 0 .. taken'
        /\ taken' - held' = (taken - held) + k /\ (taken - held) + k <= Total
        /\ len - got \in Nat \ {0} /\ k \in Nat
    <3>1. len - got \in Nat \ {0} /\ k \in Nat
      BY <1>5 DEF ReadSome, TypeOK, cap
    <3> QED BY <2>1, <3>1, SourceAdvances
  <2>3. mem' \in [1 .. cap -> 0 .. Total] /\ cap \in Nat
    <3>1. cap \in Nat /\ got \in Nat /\ \A j \in 1 .. cap : mem[j] \in 0 .. Total
      BY DEF TypeOK, cap
    <3>2. taken \in Nat /\ held \in Nat /\ held <= taken
      BY DEF TypeOK
    <3>3. ASSUME NEW j \in 1 .. cap, j > got, j <= got + k
          PROVE  (taken - held) + j - got \in 0 .. Total
      BY <2>2, <3>1, <3>2, <3>3
    <3> QED BY <2>1, <3>1, <3>3
  <2>4. mem' \in Seq(0 .. Total) /\ Len(mem') = cap
    BY <2>3, FunctionIsSeq
  <2>5. got' \in 0 .. len
    BY <2>1, <2>2 DEF TypeOK, cap
  <2> QED BY <1>5, <2>2, <2>4, <2>5 DEF ReadSome, TypeOK, cap
<1>6. CASE ReadFails
  BY <1>6 DEF ReadFails, Error, TypeOK, cap
<1>7. CASE Grow
  <2>1. PICK extra \in Slack : mem' = Appended(mem, len, Part(want, len), extra)
    BY <1>7 DEF Grow
  <2>2. Part(want, len) \in Nat /\ len + Part(want, len) <= want
    <3>1. want \in Nat /\ len \in Nat /\ len < want
      <4>1. len \in Nat
        BY DEF TypeOK, cap
      <4>2. pc = "fill" /\ len < want
        BY <1>7 DEF Grow
      <4>3. want \in Nat
        BY <4>2 DEF TypeOK
      <4> QED BY <4>1, <4>2, <4>3
    <3> QED BY <3>1 DEF Part, Least
  <2>3. mem' \in Seq(0 .. Total) /\ len + Part(want, len) <= Len(mem')
    BY <2>1, <2>2, AppendedKeeps DEF TypeOK, cap
  <2> QED BY <1>7, <2>2, <2>3 DEF Grow, TypeOK, cap
<1>8. CASE ReadDone
  <2>1. delivered' \in 0 .. Total
    BY <1>8 DEF ReadDone, Return, Position, TypeOK
  <2> QED BY <1>8, <2>1 DEF ReadDone, Return, TypeOK, cap
<1>9. CASE UNCHANGED vars
  BY <1>9 DEF vars, TypeOK, cap
<1> QED BY <1>1, <1>2, <1>3, <1>4, <1>5, <1>6, <1>7, <1>8, <1>9 DEF Next, Fill

(* Position is preserved: what a Read brings is put behind what is there,   *)
(* growing the buffer keeps it, and a failed read has emptied the source.   *)
LEMMA PositionStep ==
  ASSUME TypeOK, Position, [Next]_vars
  PROVE  Position'
<1> USE ReaderAssumption
<1>0. /\ taken \in Nat /\ held \in Nat /\ delivered \in Nat /\ Total \in Nat
      /\ len \in Nat /\ got \in Nat /\ got <= len /\ cap \in Nat /\ len <= cap
      /\ taken <= Total /\ held <= taken
  BY DEF TypeOK, cap
<1>1. CASE readCode
  <2>1. taken' - held' = (taken - held) + 1
    BY <1>1, SourceAdvances DEF readCode
  <2> QED BY <1>0, <1>1, <2>1 DEF readCode, Return, Position
<1>2. CASE PeekCode
  BY <1>0, <1>2 DEF PeekCode, AtEOF, Rest, Least, Position
<1>3. CASE readCodeFails
  BY <1>0, <1>3 DEF readCodeFails, Error, AtEOF, Rest, Position
<1>4. ASSUME NEW n \in Sizes, readN(n) PROVE Position'
  <2>1. /\ pc = "idle" /\ pc' = "fill" /\ got' = 0
        /\ UNCHANGED <<taken, held, delivered>>
    BY <1>4 DEF readN
  <2> QED BY <1>0, <2>1 DEF Position
<1>5. CASE ReadSome
  <2>1. PICK k \in 1 .. (len - got) :
          /\ SourceRead(len - got, k)
          /\ mem' = [j \in 1 .. cap |-> IF j > got /\ j <= got + k
                                        THEN (taken - held) + j - got ELSE mem[j]]
          /\ got' = got + k
    BY <1>5 DEF ReadSome
  <2>2. len - got \in Nat \ {0} /\ k \in Nat
    BY <1>0, <1>5 DEF ReadSome
  <2>3. taken' - held' = (taken - held) + k
    BY <2>1, <2>2, SourceAdvances
  <2>4. pc = "fill" /\ UNCHANGED <<pc, delivered>>
    BY <1>5 DEF ReadSome
  <2>5. taken - held = delivered + got /\ \A j \in 1 .. got : mem[j] = delivered + j
    BY <2>4 DEF Position
  <2>6. taken' - held' = delivered' + got'
    BY <1>0, <2>1, <2>2, <2>3, <2>4, <2>5
  <2>7. ASSUME NEW j \in 1 .. got' PROVE mem'[j] = delivered' + j
    <3>1. j \in 1 .. cap /\ j <= got + k
      BY <1>0, <2>1, <2>2
    <3>2. CASE j > got
      BY <1>0, <2>1, <2>4, <2>5, <3>1, <3>2
    <3>3. CASE ~(j > got)
      <4>1. j \in 1 .. got
        BY <1>0, <3>1, <3>3
      <4> QED BY <2>1, <2>4, <2>5, <3>1, <3>3, <4>1
    <3> QED BY <3>2, <3>3
  <2> QED BY <2>4, <2>6, <2>7 DEF Position
<1>6. CASE ReadFails
  BY <1>0, <1>6 DEF ReadFails, Error, AtEOF, Rest, Position
<1>7. CASE Grow
  <2>1. PICK extra \in Slack : mem' = Appended(mem, len, Part(want, len), extra)
    BY <1>7 DEF Grow
  <2>2. /\ pc = "fill" /\ got = len /\ len < want
        /\ UNCHANGED <<pc, taken, held, delivered, got>>
    BY <1>7 DEF Grow
  <2>3. Part(want, len) \in Nat
    <3>1. want \in Nat
      BY <2>2 DEF TypeOK
    <3> QED BY <1>0, <2>2, <3>1 DEF Part, Least
  <2>4. \A j \in 1 .. len : mem'[j] = mem[j]
    BY SMTT(30), <2>1, <2>3, AppendedKeeps DEF TypeOK, cap
  <2> QED BY <2>2, <2>4 DEF Position
<1>8. CASE ReadDone
  <2>1. /\ pc = "fill" /\ got = want /\ pc' = "idle" /\ delivered' = delivered + want
        /\ UNCHANGED <<taken, held>>
    BY <1>8 DEF ReadDone, Return
  <2> QED BY <1>0, <2>1 DEF Position
<1>9. CASE UNCHANGED vars
  BY <1>9 DEF vars, Position
<1> QED BY <1>1, <1>2, <1>3, <1>4, <1>5, <1>6, <1>7, <1>8, <1>9 DEF Next, Fill

(* So is the bound on what is allocated: a first buffer is within           *)
(* bytesAllocLimit, every part is, and a part follows on bytes that came.   *)
LEMMA AllocStep ==
  ASSUME TypeOK, AllocBounded, [Next]_vars
  PROVE  AllocBounded'
<1> USE ReaderAssumption
<1>0. /\ len \in Nat /\ got \in Nat /\ cap \in Nat /\ cap0 \in Nat /\ AllocLimit \in Nat
  BY DEF TypeOK, cap
<1>1. ASSUME NEW n \in Sizes, readN(n) PROVE AllocBounded'
  <2> DEFINE m == IF isNil THEN Fresh(FirstCap(n)) ELSE mem
  <2> SUFFICES ASSUME limited
               PROVE  len' <= cap0' + AllocLimit \/ len' <= AllocLimit + AllocLimit
    BY <1>1 DEF readN, AllocBounded
  <2>1. n \in Nat /\ FirstCap(n) \in Nat
    BY DEF FirstCap, Least
  <2>2. Len(Fresh(FirstCap(n))) = FirstCap(n)
    <3>1. Fresh(FirstCap(n)) \in [1 .. FirstCap(n) -> {0}]
      BY DEF Fresh
    <3> QED BY <2>1, <3>1, FunctionIsSeq
  <2>3. cap0' = IF isNil THEN 0 ELSE cap
    BY <1>1 DEF readN
  <2>4. \A l \in Nat : l < n => Part(n, l) <= AllocLimit /\ Part(n, l) \in Nat
    BY <2>1 DEF Part, Least
  <2>5. CASE isNil /\ n = 0
    BY <1>1, <2>5 DEF readN
  <2>6. CASE ~(isNil /\ n = 0) /\ n <= Len(m)
    <3>1. len' = n
      BY <1>1, <2>6 DEF readN
    <3>2. CASE isNil
      <4>1. n <= FirstCap(n) /\ FirstCap(n) <= AllocLimit
        BY <2>1, <2>2, <2>6, <3>2 DEF FirstCap, Least
      <4> QED BY <2>1, <3>1, <4>1
    <3>3. CASE ~isNil
      <4>1. n <= cap
        BY <2>6, <3>3 DEF cap
      <4> QED BY <1>0, <2>1, <2>3, <3>1, <3>3, <4>1
    <3> QED BY <3>2, <3>3
  <2>7. CASE ~(isNil /\ n = 0) /\ ~(n <= Len(m))
    <3>1. len' = Len(m) + Part(n, Len(m))
      BY <1>1, <2>7 DEF readN
    <3>2. CASE isNil
      <4>1. Len(m) = FirstCap(n) /\ FirstCap(n) < n
        BY <2>1, <2>2, <2>7, <3>2
      <4>2. FirstCap(n) <= AllocLimit
        BY <2>1, <4>1 DEF FirstCap, Least
      <4> QED BY <1>0, <2>1, <2>4, <3>1, <4>1, <4>2
    <3>3. CASE ~isNil
      <4>1. Len(m) = cap /\ cap < n
        BY <1>0, <2>1, <2>7, <3>3 DEF cap
      <4> QED BY <1>0, <2>1, <2>3, <2>4, <3>1, <3>3, <4>1
    <3> QED BY <3>2, <3>3
  <2> QED BY <2>5, <2>6, <2>7
<1>2. CASE ReadSome
  <2>1. /\ UNCHANGED <<pc, limited, len, cap0>>
        /\ \E k \in 1 .. (len - got) : got' = got + k
    BY <1>2 DEF ReadSome
  <2>2. got' \in Nat /\ got <= got'
    BY <1>0, <2>1
  <2> QED BY <1>0, <2>1, <2>2 DEF AllocBounded
<1>3. CASE Grow
  <2>1. /\ pc = "fill" /\ got = len /\ len < want /\ UNCHANGED <<pc, limited, got, cap0>>
        /\ len' = len + Part(want, len)
    BY <1>3 DEF Grow
  <2>2. want \in Nat
    BY <2>1 DEF TypeOK
  <2>3. limited => Part(want, len) \in Nat /\ Part(want, len) <= AllocLimit
    BY <1>0, <2>1, <2>2 DEF Part, Least
  <2> QED BY <1>0, <2>1, <2>3 DEF AllocBounded
<1>4. CASE readCode \/ PeekCode \/ readCodeFails \/ ReadFails \/ ReadDone
  BY <1>4 DEF readCode, PeekCode, readCodeFails, ReadFails, ReadDone, Return, Error, AllocBounded
<1>5. CASE UNCHANGED vars
  BY <1>5 DEF vars, AllocBounded
<1> QED BY <1>1, <1>2, <1>3, <1>4, <1>5 DEF Next, Fill

-----------------------------------------------------------------------------
(* The inductive invariant.                                                 *)
LEMMA InitIInv ==
  ASSUME Init
  PROVE  IInv
<1>1. TypeOK
  <2>1. mem \in Seq(0 .. Total) /\ cap = 0
    BY DEF Init, cap
  <2> QED BY <2>1, ReaderAssumption DEF Init, TypeOK
<1> QED BY <1>1 DEF Init, IInv, Position, AllocBounded

(* Every step keeps the invariant.                                          *)
LEMMA StepIInv ==
  ASSUME IInv, [Next]_vars
  PROVE  IInv'
BY TypeStep, PositionStep, AllocStep DEF IInv

(* The invariant holds in every reachable state.                            *)
LEMMA AlwaysIInv == Spec => []IInv
BY InitIInv, StepIInv, PTL DEF Spec

(* The buffer's length and what was received stay within its capacity, and  *)
(* no read is given more than it asked for.                                 *)
THEOREM TypeCorrect == Spec => []TypeOK
<1>1. IInv => TypeOK
  BY DEF IInv
<1> QED BY <1>1, AlwaysIInv, PTL

(* Len of the buffered reader is what is left to the Decoder.               *)
THEOREM LenIsExact == Spec => []LenExact
<1>1. IInv => LenExact
  <2> SUFFICES ASSUME IInv, pc = "idle"
               PROVE  held + (Total - taken) = Total - delivered
    BY DEF LenExact, remaining, Rest
  <2>1. taken - held = delivered /\ taken \in Nat /\ held \in Nat /\ Total \in Nat
    BY ReaderAssumption DEF IInv, Position, TypeOK
  <2> QED BY <2>1
<1> QED BY <1>1, AlwaysIInv, PTL

(* No read, of whatever length it claims to be, allocates more than         *)
(* bytesAllocLimit ahead of what there is.                                  *)
THEOREM AllocIsBounded == Spec => []AllocBounded
<1>1. IInv => AllocBounded
  BY DEF IInv
<1> QED BY <1>1, AlwaysIInv, PTL

-----------------------------------------------------------------------------
(* Every step is one of the stream's, or leaves the stream alone.           *)
LEMMA StreamStep ==
  ASSUME TypeOK, Position, [Next]_vars
  PROVE  [Abstract!Next]_(Abstract!streamVars)
<1> USE ReaderAssumption
<1>0. /\ taken \in Nat /\ held \in Nat /\ delivered \in Nat /\ Total \in Nat
      /\ len \in Nat /\ got \in Nat /\ got <= len
      /\ taken <= Total /\ held <= taken
  BY DEF TypeOK, cap
<1>1. CASE readCode
  <2>1. (taken - held) + 1 <= Total
    BY <1>1, SourceAdvances DEF readCode
  <2>2. /\ taken - held = delivered /\ delivered' = delivered + 1
        /\ last' = <<taken - held + 1>> /\ ok' = TRUE
    BY <1>1 DEF readCode, Return, Position
  <2>3. last' = [k \in 1 .. 1 |-> (delivered + 1) + k - 1]
    <3>1. last' = <<delivered + 1>>
      BY <2>2
    <3> QED BY <1>0, <3>1
  <2>4. Abstract!Read(1)
    <3>1. (delivered + 1) + 1 - 1 <= Total
      <4>1. delivered + 1 <= Total
        BY <2>1, <2>2
      <4> QED BY <1>0, <4>1
    <3>2. last' = Abstract!Bytes(delivered + 1, 1)
      BY <2>3 DEF Abstract!Bytes
    <3>3. (delivered + 1)' = (delivered + 1) + 1
      BY <2>2
    <3> QED BY <2>2, <3>1, <3>2, <3>3 DEF Abstract!Read
  <2> QED BY <2>4 DEF Abstract!Next
<1>2. CASE PeekCode
  <2>1. /\ pc = "idle" /\ ~AtEOF /\ last' = <<taken - held + 1>> /\ ok' = TRUE
        /\ delivered' = delivered
    BY <1>2 DEF PeekCode
  <2>2. taken - held = delivered
    BY <2>1 DEF Position
  <2>3. delivered + 1 <= Total
    BY <1>0, <2>1, <2>2 DEF AtEOF, Rest
  <2>4. Abstract!Peek
    BY <2>1, <2>2, <2>3 DEF Abstract!Peek
  <2> QED BY <2>4 DEF Abstract!Next
<1>3. CASE readCodeFails
  <2>1. /\ pc = "idle" /\ AtEOF /\ last' = <<>> /\ ok' = FALSE /\ delivered' = Total
    BY <1>3 DEF readCodeFails, Error
  <2>2. delivered = Total
    BY <1>0, <2>1 DEF Position, AtEOF, Rest
  <2>3. Abstract!Fail(1)
    BY <1>0, <2>1, <2>2 DEF Abstract!Fail
  <2> QED BY <2>3 DEF Abstract!Next
<1>4. ASSUME NEW n \in Sizes, readN(n) PROVE UNCHANGED Abstract!streamVars
  <2>1. UNCHANGED <<delivered, last, ok>>
    BY <1>4 DEF readN
  <2> QED BY <2>1 DEF Abstract!streamVars
<1>5. CASE ReadSome \/ Grow
  <2>1. UNCHANGED <<delivered, last, ok>>
    BY <1>5 DEF ReadSome, Grow
  <2> QED BY <2>1 DEF Abstract!streamVars
<1>6. CASE ReadFails
  <2>1. /\ pc = "fill" /\ AtEOF /\ got < len
        /\ last' = <<>> /\ ok' = FALSE /\ delivered' = Total
    BY <1>6 DEF ReadFails, Error
  <2>2. want \in Sizes /\ want \in Nat /\ len <= want
    BY <2>1 DEF TypeOK
  <2>3. delivered + got = Total
    BY <1>0, <2>1 DEF Position, AtEOF, Rest
  <2>4. Abstract!Fail(want)
    BY <1>0, <2>1, <2>2, <2>3 DEF Abstract!Fail
  <2> QED BY <2>2, <2>4 DEF Abstract!Next
<1>7. CASE ReadDone
  <2>1. /\ pc = "fill" /\ got = len /\ len = want
        /\ last' = SubSeq(mem, 1, len) /\ ok' = TRUE /\ delivered' = delivered + want
    BY <1>7 DEF ReadDone, Return
  <2>2. want \in Sizes /\ want \in Nat
    BY <2>1 DEF TypeOK
  <2>3. taken - held = delivered + got /\ \A k \in 1 .. got : mem[k] = delivered + k
    BY <2>1 DEF Position
  <2>4. SubSeq(mem, 1, len) = [k \in 1 .. len |-> mem[k]]
    <3>1. mem \in Seq(0 .. Total) /\ len \in 0 .. Len(mem)
      BY DEF TypeOK, cap
    <3> QED BY <3>1
  <2>5. last' = [k \in 1 .. want |-> (delivered + 1) + k - 1]
    BY <1>0, <2>1, <2>3, <2>4
  <2>6. Abstract!Read(want)
    BY <1>0, <2>1, <2>2, <2>3, <2>5 DEF Abstract!Read, Abstract!Bytes
  <2> QED BY <2>2, <2>6 DEF Abstract!Next
<1>8. CASE UNCHANGED vars
  BY <1>8 DEF vars, Abstract!streamVars
<1> QED BY <1>1, <1>2, <1>3, <1>4, <1>5, <1>6, <1>7, <1>8 DEF Next, Fill

(* The reads implement ByteStream: whatever was left in d.buf, in however   *)
(* many parts a read came, and however far bufio.Reader was ahead, the      *)
(* Decoder gets the bytes of the input in order, each once, whole reads or  *)
(* an error.                                                                *)
THEOREM Refinement == Spec => ImplementsStream
<1>1. Init => Abstract!Init
  BY DEF Init, Abstract!Init
<1>2. IInv /\ [Next]_vars => [Abstract!Next]_(Abstract!streamVars)
  BY StreamStep DEF IInv
<1> QED BY <1>1, <1>2, AlwaysIInv, PTL DEF Spec, ImplementsStream, Abstract!Spec
=============================================================================
