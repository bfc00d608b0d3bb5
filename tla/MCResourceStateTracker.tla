----------------------- MODULE MCResourceStateTracker -----------------------
(* Instances of ResourceStateTracker for TLC.                              *)
EXTENDS ResourceStateTracker

CONSTANTS target, chain

\* A render target with one subresource, and a texture whose mips are made.
Counts == target :> 1 @@ chain :> 2

Symmetry == Permutations(Lists)

=============================================================================
