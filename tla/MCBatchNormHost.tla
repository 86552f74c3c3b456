--------------------------- MODULE MCBatchNormHost ---------------------------
(***************************************************************************)
(* Small instances of BatchNormHost for TLC.  Every configuration has     *)
(* four tensor elements; the input values are chosen so that some groups  *)
(* have a zero variance (then var + eps is a rational square here) and    *)
(* others a variance whose var + eps is not a square, and so that the     *)
(* sums of dy are not zero.                                                *)
(***************************************************************************)
EXTENDS BatchNormHost

\* An integer tensor of four elements
Tensor(s) == [i \in 0 .. Len(s) - 1 |-> Lit(s[i + 1], 1)]

MCXSet == {Tensor(<<0, 1, 2, 1>>), Tensor(<<1, 3, 2, 0>>), Tensor(<<1, 1, 1, 1>>)}
MCDySet == {Tensor(<<1, 0, 0, 0>>), Tensor(<<1, 2, -1, 0>>)}
MCParamSet ==
  {[scale |-> [g \in Groups |-> One], bias |-> ZeroStats],
   [scale |-> [g \in Groups |-> Lit(2, 1)], bias |-> [g \in Groups |-> One]]}
MCEpsilon == Lit(1, 4)
MCFactor == Lit(1, 2)
=============================================================================
