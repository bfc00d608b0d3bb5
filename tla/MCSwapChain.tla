----------------------------- MODULE MCSwapChain -----------------------------
(* Instances of SwapChain for TLC.                                         *)
EXTENDS SwapChain

TwoSizes == {<<1, 1>>, <<2, 1>>}
\* A minimised window has no extent.
SizesOfMinimised == {<<0, 0>>, <<2, 1>>}

=============================================================================
