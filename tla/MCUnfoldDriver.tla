---------------------------- MODULE MCUnfoldDriver ----------------------------
(* Command-line values for model checking the Unfold driver. *)
EXTENDS UnfoldDriver

\* 4-d inputs N x C x H x W whose windows fit (the default of the driver
\* is 2x5x3x4 with kernel 2,3).
MCDims == {<<1, 2, 3, 4>>, <<2, 1, 4, 4>>, <<1, 1, 5, 5>>}
MCKernel == {<<2, 3>>, <<3, 1>>}
MCStride == {<<1, 1>>, <<2, 1>>}
MCPad == {<<0, 0>>, <<1, 1>>, <<2, 2>>}
MCDil == {<<1, 1>>, <<1, 2>>}

\* A kernel larger than the padded input, with stride 2.
MCDimsSmall == {<<1, 1, 1, 4>>, <<1, 1, 3, 4>>}
MCKernelLarge == {<<2, 2>>, <<3, 2>>}
=============================================================================
