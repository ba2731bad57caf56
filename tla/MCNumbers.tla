----------------------------- MODULE MCNumbers ------------------------------
(* Bytes of 8 values: 64-bit integers are below 2^24, float64 has 19 bits   *)
(* of significand and float32 has 9, so integers of both signs need         *)
(* rounding.  Bytes of 64 values in lengths: more than the 32 lengths a     *)
(* string code holds.                                                       *)
EXTENDS Numbers

MCRadix == 8
MCLenRadix == 64
MCPrecision32 == 2^9
MCPrecision64 == 2^19
MCNegFixedNumLow == -1

(* Every number within one of a bound of some width.                        *)
Edges == {-1, 0, 1}
Around(S) == {n + e : n \in S, e \in Edges}
Bounds == UNION {{MinInt(w), MaxInt(w), MaxUint(w)} : w \in {1, 2, 4, 8}}
MCIntegers == Around(Bounds \cup {0, NegFixedNumLow, Precision32, Precision64, -Precision64})
                \cap (MinInt(8) .. MaxUint(8))

(* Halves and integers, the bounds included; a float64 just inside 2^63.    *)
MCHalves ==
  {2 * n + e : n \in {0, 1, -1, 3, 300, -300, Precision32, Precision64 \div 4}, e \in Edges}
    \cup {2 * (MaxInt(8) + 1), 2 * MinInt(8), 2 * (MaxUint(8) + 1),
          2 * (MaxInt(8) + 1) - 2^5, 2 * (MaxUint(8) + 1) - 2^6}

MCLengths ==
  0 .. 33 \cup Around({LenMod(1), LenMod(2), MaxInt32}) \cup {LenMod(4) - 1, LenMod(4)}

(* What amd64 (MinInt64) and arm64 (saturating) return, and a zero.         *)
MCGarbage == {MinInt(8), MaxInt(8), 0}

MCDests == IntTypes \cup FloatTypes \cup [k : {"any", "loose"}]
Ints64 == {t \in IntTypes : t.w = 8 /\ ~t.any}
IntsNarrow == {t \in IntTypes : t.w < 8}
=============================================================================
