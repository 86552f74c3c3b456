--------------------------- MODULE MCNLLLossDriver ---------------------------
(* Command-line values for model checking the NLLLoss driver. *)
EXTENDS NLLLossDriver

\* 4-d inputs N x C x D1 x D2 (the problems of the 4d kernel), a 3-d, a
\* 2-d and a 1-d one.
MCDims == {<<2, 3, 1, 2>>, <<1, 2, 3, 2>>, <<3, 2, 2>>, <<2, 3>>, <<4>>}
MCReduce == {"none", "mean", "sum", "max"}
MCContig == {0, 1, 2}
MCIgnore == {-1, 1}
=============================================================================
