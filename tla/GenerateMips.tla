----------------------------- MODULE GenerateMips -----------------------------
(***************************************************************************)
(* The loop of CommandList::GenerateMips_UAV, for a texture of any size    *)
(* and any number of levels.  A pass reads level srcMip                    *)
(* of a texture and writes the next mipCount levels.  The shader may       *)
(* halve a level again in the same pass only if that is exact, so how many *)
(* it writes is read off the lowest bit that is set in the size of the     *)
(* first level it writes.  The bit scan says nothing of a mask without a   *)
(* bit (a width of 1 and a height that was shifted to 0, or the reverse):  *)
(* mipCount is then what the memory held before.                           *)
(***************************************************************************)
EXTENDS Integers, FiniteSets, FiniteSetsExt, Functions

CONSTANTS
  Uninitialised,  \* what an uninitialised DWORD may hold; 2^32 - 1 is -1
  Extents,        \* bound on widths and heights
  NoTexture

MaxExtent == 16384  \* D3D12_REQ_TEXTURE2D_U_OR_V_DIMENSION

ASSUME MipsAssumption ==
  /\ Extents \subseteq 1..MaxExtent
  /\ Uninitialised \subseteq Nat \cup {-1}

VARIABLES
  texture,  \* the texture whose mips are generated: its width, height and levels
  srcMip,
  source    \* the level each level that was written has been made from

mipVars == <<texture, srcMip, source>>

\* A width or height shifted to a level, and the size the level has.
Shifted(size, level) ==
  LET shifted[l \in 0..level] == IF l = 0 THEN size ELSE shifted[l - 1] \div 2
  IN  shifted[level]
SizeOf(size, level) == IF Shifted(size, level) = 0 THEN 1 ELSE Shifted(size, level)

\* The bits of a size (D3D12 has none above 2^14), and the mask of two.
BitsOf(n) == {b \in 0..15 : Shifted(n, b) % 2 = 1}
Mask(dstWidth, dstHeight) ==
  BitsOf(IF dstWidth = 1 THEN dstHeight ELSE dstWidth) \cup
  BitsOf(IF dstHeight = 1 THEN dstWidth ELSE dstHeight)

\* _BitScanForward.
BitScanForward(mask) == IF mask = {} THEN Uninitialised ELSE {Min(mask)}

\* At most 4, and the levels that are left.
AtMostFour_mutant(n) == n
AtMostFour(n) == IF n < 4 THEN n ELSE 4
Clamped(n, mip, levels) == IF mip + n >= levels THEN levels - mip - 1 ELSE n

\* The levels a texture has room for.
MaxLevels(width, height) ==
  Max({n \in 1..16 : n = 1 \/ Shifted(width, n - 1) > 0 \/ Shifted(height, n - 1) > 0})

\* What mipCount may be in the next pass.
MipCounts ==
  {Clamped(AtMostFour(b + 1), srcMip, texture.levels) :
     b \in BitScanForward(Mask(Shifted(texture.width, srcMip + 1), Shifted(texture.height, srcMip + 1)))}

-----------------------------------------------------------------------------

InitMips == texture = NoTexture /\ srcMip = 0 /\ source = <<>>

BeginMips ==
  /\ texture = NoTexture
  /\ \E width \in Extents, height \in Extents : \E levels \in 2..MaxLevels(width, height) :
       texture' = [width |-> width, height |-> height, levels |-> levels]
  /\ srcMip' = 0 /\ source' = <<>>

Pass ==
  /\ texture # NoTexture /\ srcMip < texture.levels - 1
  /\ \E n \in MipCounts :
       /\ source' = [mip \in 1..(srcMip + n) |-> IF mip <= srcMip THEN source[mip] ELSE srcMip]
       /\ srcMip' = srcMip + n
  /\ UNCHANGED texture

EndMips ==
  /\ texture # NoTexture /\ srcMip = texture.levels - 1
  /\ texture' = NoTexture /\ srcMip' = 0 /\ source' = <<>>

GenerateMips_UAV == BeginMips \/ Pass \/ EndMips

MipsSpec == InitMips /\ [][GenerateMips_UAV]_mipVars

-----------------------------------------------------------------------------

\* From the first level a pass writes, a size can be halved to its n-th level
\* without a rest; one that is 1 to begin with needs no halving.
Halves(size, mip, n) ==
  SizeOf(size, mip + 1) = 1 \/ \A i \in 1..(n - 1) : SizeOf(size, mip + i) % 2 = 0

\* The most levels the pass that reads a level may write.
Exact(mip) ==
  Max({n \in 1..4 : /\ mip + n < texture.levels
                    /\ Halves(texture.width, mip, n) /\ Halves(texture.height, mip, n)})

\* Whatever the size of a texture and the levels it has, each level is
\* written once, none beyond the last, and each pass has written as many as
\* are exact: where the mask was empty the clamp has made up for what the
\* scan does not say.  So every pass gets on, unless the DWORD held 2^32 - 1
\* before a pass to the last level a texture can have.
PassesAreExact ==
  texture # NoTexture =>
    /\ DOMAIN source = 1..srcMip /\ srcMip < texture.levels
    /\ \A mip \in Range(source) : {m \in DOMAIN source : source[m] = mip} = (mip + 1)..(mip + Exact(mip))
    /\ srcMip < texture.levels - 1 /\ 0 \in MipCounts =>
         -1 \in Uninitialised /\ srcMip = MaxLevels(texture.width, texture.height) - 2

=============================================================================
