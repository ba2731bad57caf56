---------------------------- MODULE MCEncoderPool ----------------------------
(* Small instances of EncoderPool: arrays s* of the initial capacity, one   *)
(* item, and b* above the pooling cap, two items.                           *)
EXTENDS EncoderPool, TLC

CONSTANTS SmallArrays, BigArrays

MCCapacity == [a \in Arrays |-> IF a \in SmallArrays THEN 1 ELSE 2]

MCSymmetry ==
  Permutations(Goroutines) \cup Permutations(Encoders)
    \cup Permutations(SmallArrays) \cup Permutations(BigArrays)
=============================================================================
