------------------------------- MODULE Reader -------------------------------
(***************************************************************************)
(* How the Decoder reads (src/pkg/msgpack/decode.go: readCode, PeekCode,   *)
(* readN and readNGrow, ReadFull, newBufferedReader).  A read of n bytes   *)
(* reuses the buffer d.buf; if n exceeds its capacity it grows by at most  *)
(* bytesAllocLimit at a time, each part being filled before the next is    *)
(* allocated.  The source may return fewer bytes than asked for, and a     *)
(* bufio.Reader between the two reads ahead.                               *)
(*                                                                         *)
(* A byte is its position in the input; 0 is a byte of fresh memory.       *)
(***************************************************************************)
EXTENDS Integers, Sequences

CONSTANTS
  Total,       \* length of the input
  Sizes,       \* lengths that are asked for
  BufSizes,    \* buffers of bufio.Reader; 0 if the source is read directly
  MinCap,      \* 64: capacity of a first small buffer
  AllocLimit,  \* bytesAllocLimit
  Slack        \* how much more than asked for append may allocate

ASSUME ReaderAssumption ==
  /\ Total \in Nat /\ Sizes \subseteq Nat /\ BufSizes \subseteq Nat
  /\ MinCap \in Nat /\ MinCap > 0 /\ AllocLimit \in Nat /\ MinCap <= AllocLimit
  /\ Slack \subseteq Nat /\ 0 \in Slack

VARIABLES
  bufSize,    \* the buffer that lies between, fixed
  limited,    \* disableAllocLimitFlag is not set, fixed
  taken,      \* bytes taken from the source
  held,       \* of these, the bytes in the bufio.Reader
  delivered,  \* bytes that the Decoder's methods have consumed
  isNil,      \* d.buf = nil
  mem,        \* d.buf[:cap(d.buf)]
  len,        \* len(d.buf)
  want,       \* the length n of the read in progress
  got,        \* bytes of it received
  cap0,       \* cap(d.buf) when it began
  last, ok,   \* result of the last call
  pc          \* "idle", "fill"

vars == <<bufSize, limited, taken, held, delivered, isNil, mem, len, want, got, cap0, last, ok, pc>>

cap == Len(mem)
Least(a, b) == IF a < b THEN a ELSE b
Fresh(n) == [k \in 1 .. n |-> 0]

-----------------------------------------------------------------------------
(***************************************************************************)
(* The source and bufio.Reader (external)                                  *)
(***************************************************************************)
Rest == Total - taken

(* Read(p) with len(p) = w: k bytes, of which the bufio.Reader held some or *)
(* which it took with others, or straight from the source.                  *)
SourceRead(w, k) ==
  \/ /\ held > 0
     /\ k = Least(held, w) /\ held' = held - k /\ UNCHANGED taken
  \/ /\ held = 0 /\ w >= bufSize
     /\ k \in 1 .. Least(w, Rest) /\ taken' = taken + k /\ UNCHANGED held
  \/ /\ held = 0 /\ w < bufSize
     /\ \E f \in 1 .. Least(bufSize, Rest) :
          k = Least(f, w) /\ taken' = taken + f /\ held' = f - k

AtEOF == held = 0 /\ Rest = 0

(* Mutant: the bytes that bufio.Reader holds are not counted.               *)
remaining_Source == Rest

(* Len of bufferedLenReader, or of the source.                              *)
remaining == held + Rest

-----------------------------------------------------------------------------
(***************************************************************************)
(* Decoder                                                                 *)
(***************************************************************************)
Return(n) ==
  /\ pc' = "idle" /\ ok' = TRUE
  /\ delivered' = delivered + n
Error ==
  /\ pc' = "idle" /\ ok' = FALSE /\ last' = <<>>
  /\ delivered' = Total

(* readCode.                                                                *)
readCode ==
  /\ pc = "idle" /\ ~AtEOF
  /\ SourceRead(1, 1)
  /\ last' = <<taken - held + 1>>
  /\ Return(1)
  /\ UNCHANGED <<bufSize, limited, isNil, mem, len, want, got, cap0>>

(* PeekCode: ReadByte, then UnreadByte, which puts the byte back in the     *)
(* bufio.Reader or moves the source back.                                   *)
PeekCode ==
  /\ pc = "idle" /\ ~AtEOF
  /\ IF bufSize = 0 THEN UNCHANGED <<taken, held>>
     ELSE IF held > 0 THEN UNCHANGED <<taken, held>>
     ELSE \E f \in 1 .. Least(bufSize, Rest) : taken' = taken + f /\ held' = f
  /\ last' = <<taken - held + 1>>
  /\ ok' = TRUE
  /\ UNCHANGED <<bufSize, limited, delivered, isNil, mem, len, want, got, cap0, pc>>

readCodeFails ==
  /\ pc = "idle" /\ AtEOF
  /\ Error
  /\ UNCHANGED <<bufSize, limited, taken, held, isNil, mem, len, want, got, cap0>>

(* The capacity of a buffer made for n bytes: readN's and readNGrow's.      *)
FirstCap(n) ==
  IF ~limited THEN n
  ELSE IF n < MinCap THEN MinCap ELSE Least(n, AllocLimit)

(* Mutant: the bytes are not copied to the larger buffer.                   *)
Appended_NoCopy(m, l, more, extra) ==
  IF l + more <= Len(m) THEN m ELSE Fresh(l + more + extra)

(* append(b, make([]byte, more)...) after l bytes of m.                     *)
Appended(m, l, more, extra) ==
  IF l + more <= Len(m)
  THEN [k \in 1 .. Len(m) |-> IF k > l /\ k <= l + more THEN 0 ELSE m[k]]
  ELSE SubSeq(m, 1, l) \o Fresh(more + extra)

(* Mutant: all of a length over the limit is allocated at once.             *)
Part_Whole(n, l) == n - l

(* How much the buffer grows by when l of n bytes are there.                *)
Part(n, l) == IF limited THEN Least(n - l, AllocLimit) ELSE n - l

(* readN(n) begins: no buffer is needed for nothing, d.buf is cut to n if   *)
(* it can hold n, and otherwise extended to its capacity and grown.         *)
readN(n) ==
  /\ pc = "idle"
  /\ LET m == IF isNil THEN Fresh(FirstCap(n)) ELSE mem
         l == IF limited THEN Len(m) ELSE IF isNil THEN 0 ELSE len
     IN /\ isNil' = FALSE
        /\ cap0' = IF isNil THEN 0 ELSE cap
        /\ IF isNil /\ n = 0 THEN mem' = <<>> /\ len' = 0
           ELSE IF n <= Len(m) THEN mem' = m /\ len' = n
           ELSE \E extra \in Slack :
                  mem' = Appended(m, l, Part(n, l), extra) /\ len' = l + Part(n, l)
  /\ want' = n /\ got' = 0
  /\ pc' = "fill"
  /\ UNCHANGED <<bufSize, limited, taken, held, delivered, last, ok>>

(* io.ReadFull of the part d.buf[pos:]: one Read of the source.             *)
ReadSome ==
  /\ pc = "fill" /\ got < len
  /\ \E k \in 1 .. (len - got) :
       /\ SourceRead(len - got, k)
       /\ mem' = [j \in 1 .. cap |-> IF j > got /\ j <= got + k THEN (taken - held) + j - got ELSE mem[j]]
       /\ got' = got + k
  /\ UNCHANGED <<bufSize, limited, delivered, isNil, len, want, cap0, last, ok, pc>>

(* Mutant: a source that is at its end is asked again.                      *)
ReadFails_Retry ==
  pc = "fill" /\ got < len /\ AtEOF /\ UNCHANGED vars

(* io.ReadFull's error: the bytes that were received are lost.              *)
ReadFails ==
  /\ pc = "fill" /\ got < len /\ AtEOF
  /\ Error
  /\ UNCHANGED <<bufSize, limited, taken, held, isNil, mem, len, want, got, cap0>>

(* The next part of a read that the buffer was too small for.               *)
Grow ==
  /\ pc = "fill" /\ got = len /\ len < want
  /\ \E extra \in Slack : mem' = Appended(mem, len, Part(want, len), extra)
  /\ len' = len + Part(want, len)
  /\ UNCHANGED <<bufSize, limited, taken, held, delivered, isNil, want, got, cap0, last, ok, pc>>

ReadDone ==
  /\ pc = "fill" /\ got = len /\ len = want
  /\ last' = SubSeq(mem, 1, len)
  /\ Return(want)
  /\ UNCHANGED <<bufSize, limited, taken, held, isNil, mem, len, want, got, cap0>>

-----------------------------------------------------------------------------
Init ==
  /\ bufSize \in BufSizes /\ limited \in BOOLEAN
  /\ taken = 0 /\ held = 0 /\ delivered = 0
  /\ isNil = TRUE /\ mem = <<>> /\ len = 0
  /\ want = 0 /\ got = 0 /\ cap0 = 0
  /\ last = <<>> /\ ok = TRUE
  /\ pc = "idle"

Fill == ReadSome \/ ReadFails \/ Grow \/ ReadDone
Next ==
  \/ readCode \/ PeekCode \/ readCodeFails
  \/ \E n \in Sizes : readN(n)
  \/ Fill

(* A source that returns something or fails makes every read end.           *)
Spec == Init /\ [][Next]_vars /\ WF_vars(Fill)

-----------------------------------------------------------------------------
(***************************************************************************)
(* Properties                                                              *)
(***************************************************************************)
(* Types; the buffer's length and the bytes received stay within its        *)
(* capacity, and no read is given more than it asked for.                   *)
TypeOK ==
  /\ bufSize \in BufSizes /\ limited \in BOOLEAN /\ isNil \in BOOLEAN
  /\ taken \in 0 .. Total /\ held \in 0 .. taken /\ delivered \in 0 .. Total
  /\ mem \in Seq(0 .. Total)
  /\ len \in 0 .. cap /\ got \in 0 .. len /\ cap0 \in Nat
  /\ pc \in {"idle", "fill"}
  /\ pc = "fill" => want \in Sizes /\ len <= want

(* Len, which the guards against oversized lengths rely on, is exactly the  *)
(* number of bytes that are left to the Decoder whenever it can be asked,   *)
(* however far bufio.Reader has read ahead.                                 *)
LenExact == pc = "idle" => remaining = Total - delivered

(* A claimed length allocates no more than bytesAllocLimit ahead of what    *)
(* d.buf had, of a first buffer or of the bytes that really came.           *)
AllocBounded ==
  pc = "fill" /\ limited => \E c \in {cap0, AllocLimit, got} : len <= c + AllocLimit

(* The reads implement a stream of bytes read in order, each once, whole    *)
(* or not at all, whatever is left in d.buf, in however many parts.         *)
Abstract == INSTANCE ByteStream WITH next <- delivered + 1
ImplementsStream == Abstract!Spec

(* Every read returns.                                                      *)
ReadEnds == pc = "fill" ~> pc = "idle"
=============================================================================
