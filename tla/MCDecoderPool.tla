---------------------------- MODULE MCDecoderPool ----------------------------
(* Small instances of DecoderPool.                                          *)
EXTENDS DecoderPool, TLC

MCSymmetry ==
  Permutations(Goroutines) \cup Permutations(Decoders) \cup Permutations(Readers)
    \cup Permutations(Inputs)
=============================================================================
