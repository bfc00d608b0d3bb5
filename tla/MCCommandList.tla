---------------------------- MODULE MCCommandList ----------------------------
(* Instances of CommandList for TLC, and of the loop of GenerateMips.      *)
EXTENDS CommandList, GenerateMips, TLC

CONSTANTS mesh, post

\* Two root signatures that use the same indices for different things.
RootTables  == mesh :> (1 :> 1 @@ 2 :> 1) @@ post :> (1 :> 2)
RootInline  == mesh :> {} @@ post :> {2}
RootDynamic == mesh :> {3} @@ post :> {}

\* What is left in a DWORD: the most it holds (-1), or some number.
AnyDWORD == {-1, 0, 2, 9}

\* A list draws, or it generates mips, as the lists of the compute queue do.
InitLists == Init /\ InitMips
Draws     == texture = NoTexture /\ Next /\ UNCHANGED mipVars
Mips      == calls = 0 /\ GenerateMips_UAV /\ UNCHANGED vars
Lists     == InitLists /\ [][Draws \/ Mips]_<<vars, mipVars>>

=============================================================================
