------------------------- MODULE MCDirectX12Engine -------------------------
(* Instances of DirectX12Engine for TLC.                                   *)
EXTENDS DirectX12Engine

\* A node with an opaque and a transparent mesh and a node with an opaque
\* one; scenes of one mesh of either kind; the axis.
Models == (Axis :> <<<<FALSE>>>>) @@ (Content :> <<<<FALSE, TRUE>>, <<FALSE>>>>)
          @@ (1 :> <<<<TRUE>>, <<>>>>) @@ (2 :> <<<<FALSE>>>>)

=============================================================================
