--------------------------- MODULE MCCommandQueue ---------------------------
(***************************************************************************)
(* Instances of CommandQueue for TLC.                                      *)
(***************************************************************************)
EXTENDS CommandQueue, TLC

CONSTANTS main, loader

\* Who submits where.  The loading task records on the copy queue
\* (DirectX12Engine.cpp:178); the window's thread does so while the program
\* starts (:240), and renders on the direct queue (:520).
Loading  == loader :> {Copy}
Starting == main :> {Copy} @@ loader :> {Copy}
Program  == main :> {Direct, Copy} @@ loader :> {Copy}

\* Bounds on the operations each thread starts.
TwoLoads  == loader :> 2
TwoAndOne == main :> 2 @@ loader :> 1
=============================================================================
