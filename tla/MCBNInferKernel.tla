--------------------------- MODULE MCBNInferKernel ---------------------------
(***************************************************************************)
(* Small launches of the inference kernels for TLC: 2 samples, 2          *)
(* channels, 3 image positions, 4 threads.  The statistics include a      *)
(* zero variance (only epsilon keeps rsqrt finite) and one whose          *)
(* 1/sqrt is irrational.                                                   *)
(***************************************************************************)
EXTENDS BNInferKernel

MCEpsilon == Lit(1, 4)
MCX == [i \in Elems |-> Lit(((i * 5) % 7) - 3, 1)]
MCEstMean     == [k \in StatCellsOf("PerActivation") |-> Lit(k % 2, 1)]
MCEstVariance == [k \in StatCellsOf("PerActivation") |-> IF k % 2 = 0 THEN Zero ELSE Lit(1, 4)]
MCScale       == [k \in StatCellsOf("PerActivation") |-> Lit((k % 3) + 1, 1)]
MCBias        == [k \in StatCellsOf("PerActivation") |-> Lit(k % 2, 2)]
\* What an out-of-bounds read of the statistics may return.
MCGarbage == {[mean |-> Lit(1, 1), var |-> Zero, scale |-> One, bias |-> Zero]}
=============================================================================
