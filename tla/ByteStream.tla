----------------------------- MODULE ByteStream -----------------------------
(***************************************************************************)
(* What the Decoder's methods assume of its input: bytes come in order,    *)
(* each once, as many as asked for or an error, and a peeked byte is read  *)
(* again.  A byte is its position in the input.                            *)
(***************************************************************************)
EXTENDS Integers, Sequences

CONSTANTS
  Total,  \* length of the input
  Sizes   \* lengths that are asked for

VARIABLES
  next,  \* the first byte not read
  last,  \* what the last read returned
  ok     \* whether it succeeded

streamVars == <<next, last, ok>>

Init == next = 1 /\ last = <<>> /\ ok = TRUE

Bytes(p, n) == [k \in 1 .. n |-> p + k - 1]

Read(n) ==
  /\ next + n - 1 <= Total
  /\ last' = Bytes(next, n) /\ next' = next + n /\ ok' = TRUE

(* Nothing is left after an error.                                          *)
Fail(n) ==
  /\ next + n - 1 > Total
  /\ last' = <<>> /\ next' = Total + 1 /\ ok' = FALSE

Peek ==
  /\ next <= Total
  /\ last' = <<next>> /\ ok' = TRUE
  /\ UNCHANGED next

Next == Peek \/ \E n \in Sizes \cup {1} : Read(n) \/ Fail(n)

Spec == Init /\ [][Next]_streamVars
=============================================================================
