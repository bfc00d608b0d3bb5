-------------------------- MODULE SwapChain_proofs --------------------------
(***************************************************************************)
(* Proofs about SwapChain, for any number of back buffers, frames and      *)
(* resizes.                                                                *)
(***************************************************************************)
EXTENDS SwapChain, SequenceTheorems, FiniteSetTheorems, TLAPS

-----------------------------------------------------------------------------
(* The direct queue G, whose fence has completed f of the v values taken.  *)

IsSignal(c) == c.op = "signal"

\* The values of the signals that are left increase, from f to v.
Ordered(G, f, v) ==
  /\ \A j \in 1..Len(G) : IsSignal(G[j]) => f < G[j].value /\ G[j].value <= v
  /\ \A i, j \in 1..Len(G) :
       i < j /\ IsSignal(G[i]) /\ IsSignal(G[j]) => G[i].value < G[j].value

\* Command j is executed before value w is completed.
Before(G, j, f, w) ==
  /\ f < w
  /\ \A i \in 1..(j - 1) : IsSignal(G[i]) => G[i].value < w

\* A command that uses buffer i comes before the value that F has for i, or
\* belongs to the frame that is being made.
Guarded(G, f, F, g, cur, making) ==
  \A j \in 1..Len(G) : ~IsSignal(G[j]) =>
    /\ G[j].buffer.generation = g
    /\ \/ making /\ G[j].buffer.index = cur
       \/ Before(G, j, f, F[G[j].buffer.index])

LEMMA GpuTypes ==
  ASSUME NEW G \in Seq(Commands)
  PROVE  \A j \in 1..Len(G) :
           /\ G[j] \in Commands
           /\ G[j].value \in Nat
           /\ ~IsSignal(G[j]) => G[j].buffer \in BackBuffers /\ G[j].buffer.index \in Indices
BY DEF Commands, IsSignal, BackBuffers

LEMMA AppendFacts ==
  ASSUME NEW S, NEW G \in Seq(S), NEW c \in S
  PROVE  /\ Append(G, c) \in Seq(S)
         /\ Len(Append(G, c)) = Len(G) + 1
         /\ Len(G) \in Nat
         /\ \A j \in 1..Len(G) : Append(G, c)[j] = G[j]
         /\ Append(G, c)[Len(G) + 1] = c
         /\ 1..Len(Append(G, c)) = 1..Len(G) \cup {Len(G) + 1}
BY AppendProperties

LEMMA TailFacts ==
  ASSUME NEW S, NEW G \in Seq(S), G # <<>>
  PROVE  /\ Tail(G) \in Seq(S)
         /\ Len(G) \in Nat /\ Len(G) > 0
         /\ Len(Tail(G)) = Len(G) - 1
         /\ Head(G) = G[1] /\ Head(G) \in S
         /\ \A j \in 1..Len(Tail(G)) : j + 1 \in 1..Len(G) /\ Tail(G)[j] = G[j + 1]
<1>1. Tail(G) \in Seq(S) /\ Head(G) \in S /\ Len(Tail(G)) = Len(G) - 1
      /\ \A j \in 1..Len(Tail(G)) : Tail(G)[j] = G[j + 1]
  BY HeadTailProperties
<1>2. Len(G) \in Nat /\ Len(G) > 0 /\ Head(G) = G[1]
  BY EmptySeq
<1>3. \A j \in 1..Len(Tail(G)) : j + 1 \in 1..Len(G)
  BY <1>1, <1>2
<1>  QED BY <1>1, <1>2, <1>3

\* A command that uses the buffer of the frame that is being made.
LEMMA AppendUse ==
  ASSUME NEW G \in Seq(Commands), NEW f \in Nat, NEW v \in Nat, NEW F, NEW g, NEW cur,
         NEW making, Ordered(G, f, v), Guarded(G, f, F, g, cur, making),
         NEW c \in Commands, ~IsSignal(c), c.buffer.generation = g, c.buffer.index = cur
  PROVE  /\ Ordered(Append(G, c), f, v)
         /\ Guarded(Append(G, c), f, F, g, cur, TRUE)
<1> DEFINE H == Append(G, c)
<1>1. /\ \A j \in 1..Len(G) : H[j] = G[j]
      /\ H[Len(G) + 1] = c
      /\ 1..Len(H) = 1..Len(G) \cup {Len(G) + 1}
      /\ Len(G) \in Nat
  BY AppendFacts
<1> HIDE DEF H
<1>2. Ordered(H, f, v)
  <2>1. \A j \in 1..Len(H) : IsSignal(H[j]) => j \in 1..Len(G) /\ H[j] = G[j]
    BY <1>1
  <2>  QED BY <2>1 DEF Ordered
<1>3. ASSUME NEW j \in 1..Len(H), ~IsSignal(H[j])
      PROVE  /\ H[j].buffer.generation = g
             /\ H[j].buffer.index = cur \/ Before(H, j, f, F[H[j].buffer.index])
  <2>1. CASE j = Len(G) + 1
    BY <2>1, <1>1
  <2>2. CASE j \in 1..Len(G)
    <3>1. H[j] = G[j] /\ \A i \in 1..(j - 1) : H[i] = G[i]
      BY <2>2, <1>1
    <3>2. /\ G[j].buffer.generation = g
          /\ G[j].buffer.index = cur \/ Before(G, j, f, F[G[j].buffer.index])
      BY <2>2, <3>1, <1>3 DEF Guarded
    <3>  QED BY <3>1, <3>2 DEF Before
  <2>  QED BY <2>1, <2>2, <1>1
<1>4. Guarded(H, f, F, g, cur, TRUE)
  BY <1>3 DEF Guarded
<1>  QED BY <1>2, <1>4 DEF H

\* A signal of the next value, behind all commands.
LEMMA AppendSignal ==
  ASSUME NEW G \in Seq(Commands), NEW f \in Nat, NEW v \in Nat, f <= v,
         NEW F \in [Indices -> Nat], NEW g, NEW cur, NEW making \in BOOLEAN,
         Ordered(G, f, v), Guarded(G, f, F, g, cur, making),
         NEW c \in Commands, IsSignal(c), c.value = v + 1
  PROVE  /\ Ordered(Append(G, c), f, v + 1)
         /\ Guarded(Append(G, c), f, F, g, cur, making)
         /\ \A next : Guarded(Append(G, c), f, [F EXCEPT ![cur] = v + 1], g, next, FALSE)
<1> DEFINE H == Append(G, c)
<1>1. /\ \A j \in 1..Len(G) : H[j] = G[j]
      /\ H[Len(G) + 1] = c
      /\ 1..Len(H) = 1..Len(G) \cup {Len(G) + 1}
      /\ Len(G) \in Nat
  BY AppendFacts
<1>2. \A j \in 1..Len(G) : /\ G[j].value \in Nat
                           /\ ~IsSignal(G[j]) => G[j].buffer.index \in Indices
  BY GpuTypes
<1> HIDE DEF H
<1>3. Ordered(H, f, v + 1)
  <2>1. ASSUME NEW j \in 1..Len(H), IsSignal(H[j]) PROVE f < H[j].value /\ H[j].value <= v + 1
    <3>1. CASE j \in 1..Len(G)
      BY <2>1, <3>1, <1>1, <1>2 DEF Ordered
    <3>2. CASE j = Len(G) + 1
      BY <3>2, <1>1
    <3>  QED BY <3>1, <3>2, <1>1
  <2>2. ASSUME NEW i \in 1..Len(H), NEW j \in 1..Len(H), i < j, IsSignal(H[i]), IsSignal(H[j])
        PROVE  H[i].value < H[j].value
    <3>1. i \in 1..Len(G)
      BY <2>2, <1>1
    <3>2. CASE j \in 1..Len(G)
      BY <2>2, <3>1, <3>2, <1>1 DEF Ordered
    <3>3. CASE j = Len(G) + 1
      <4>1. G[i].value <= v /\ G[i].value \in Nat
        BY <2>2, <3>1, <1>1, <1>2 DEF Ordered
      <4>  QED BY <4>1, <3>1, <3>3, <1>1
    <3>  QED BY <3>2, <3>3, <1>1
  <2>  QED BY <2>1, <2>2 DEF Ordered
<1>4. ASSUME NEW j \in 1..Len(H), ~IsSignal(H[j])
      PROVE  /\ j \in 1..Len(G) /\ H[j] = G[j] /\ ~IsSignal(G[j])
             /\ \A i \in 1..(j - 1) : i \in 1..Len(G) /\ H[i] = G[i]
             /\ G[j].buffer.generation = g /\ G[j].buffer.index \in Indices
             /\ (making /\ G[j].buffer.index = cur) \/ Before(G, j, f, F[G[j].buffer.index])
  <2>1. j \in 1..Len(G) /\ H[j] = G[j] /\ ~IsSignal(G[j])
    BY <1>1, <1>4
  <2>2. \A i \in 1..(j - 1) : i \in 1..Len(G) /\ H[i] = G[i]
    BY <2>1, <1>1
  <2>  QED BY <2>1, <2>2, <1>2 DEF Guarded
<1>5. Guarded(H, f, F, g, cur, making)
  BY <1>4 DEF Guarded, Before
<1>6. ASSUME NEW next PROVE Guarded(H, f, [F EXCEPT ![cur] = v + 1], g, next, FALSE)
  <2> DEFINE K == [F EXCEPT ![cur] = v + 1]
  <2>1. \A i \in Indices : K[i] = IF i = cur THEN v + 1 ELSE F[i]
    OBVIOUS
  <2> HIDE DEF K
  <2> SUFFICES ASSUME NEW j \in 1..Len(H), ~IsSignal(H[j])
               PROVE  H[j].buffer.generation = g /\ Before(H, j, f, K[H[j].buffer.index])
    BY DEF Guarded, K
  <2>2. /\ j \in 1..Len(G) /\ H[j] = G[j] /\ ~IsSignal(G[j])
        /\ \A i \in 1..(j - 1) : i \in 1..Len(G) /\ H[i] = G[i]
        /\ G[j].buffer.generation = g /\ G[j].buffer.index \in Indices
        /\ (making /\ G[j].buffer.index = cur) \/ Before(G, j, f, F[G[j].buffer.index])
    BY <1>4
  <2>3. CASE G[j].buffer.index = cur
    <3>1. \A i \in 1..Len(G) : IsSignal(G[i]) => G[i].value < v + 1
      BY <1>2 DEF Ordered
    <3>  QED BY <3>1, <2>1, <2>2, <2>3 DEF Before
  <2>4. CASE G[j].buffer.index # cur
    BY <2>1, <2>2, <2>4 DEF Before
  <2>  QED BY <2>3, <2>4
<1>  QED BY <1>3, <1>5, <1>6 DEF H

\* The GPU executes the first command.
LEMMA TakeCommand ==
  ASSUME NEW G \in Seq(Commands), G # <<>>, NEW f \in Nat, NEW v \in Nat, f <= v,
         NEW F \in [Indices -> Nat], NEW g, NEW cur, NEW making \in BOOLEAN,
         Ordered(G, f, v), Guarded(G, f, F, g, cur, making)
  PROVE  LET h == IF IsSignal(Head(G)) THEN Head(G).value ELSE f
         IN  /\ h \in Nat /\ f <= h /\ h <= v
             /\ Ordered(Tail(G), h, v)
             /\ Guarded(Tail(G), h, F, g, cur, making)
<1> DEFINE h == IF IsSignal(Head(G)) THEN Head(G).value ELSE f
           T == Tail(G)
<1>1. /\ Len(G) \in Nat /\ Len(G) > 0 /\ Len(T) = Len(G) - 1 /\ Head(G) = G[1]
      /\ \A j \in 1..Len(T) : j + 1 \in 1..Len(G) /\ T[j] = G[j + 1]
  BY TailFacts
<1>2. \A j \in 1..Len(G) : /\ G[j].value \in Nat
                           /\ ~IsSignal(G[j]) => G[j].buffer.index \in Indices
  BY GpuTypes
<1>3. 1 \in 1..Len(G)
  BY <1>1
<1>4. \/ IsSignal(G[1]) /\ h = G[1].value
      \/ ~IsSignal(G[1]) /\ h = f
  BY <1>1
<1> HIDE DEF h, T
<1>5. h \in Nat /\ f <= h /\ h <= v
  BY <1>2, <1>3, <1>4 DEF Ordered
<1>6. Ordered(T, h, v)
  <2>1. ASSUME NEW j \in 1..Len(T), IsSignal(T[j]) PROVE h < T[j].value /\ T[j].value <= v
    <3>1. j + 1 \in 1..Len(G) /\ IsSignal(G[j + 1]) /\ T[j] = G[j + 1] /\ 1 < j + 1
      BY <2>1, <1>1
    <3>2. f < G[j + 1].value /\ G[j + 1].value <= v
      BY <3>1 DEF Ordered
    <3>3. IsSignal(G[1]) => G[1].value < G[j + 1].value
      BY <3>1, <1>3 DEF Ordered
    <3>  QED BY <3>1, <3>2, <3>3, <1>4
  <2>2. ASSUME NEW i \in 1..Len(T), NEW j \in 1..Len(T), i < j, IsSignal(T[i]), IsSignal(T[j])
        PROVE  T[i].value < T[j].value
    <3>1. /\ i + 1 \in 1..Len(G) /\ j + 1 \in 1..Len(G) /\ i + 1 < j + 1
          /\ T[i] = G[i + 1] /\ T[j] = G[j + 1]
      BY <2>2, <1>1
    <3>  QED BY <3>1, <2>2 DEF Ordered
  <2>  QED BY <2>1, <2>2 DEF Ordered
<1>7. Guarded(T, h, F, g, cur, making)
  <2> SUFFICES ASSUME NEW j \in 1..Len(T), ~IsSignal(T[j])
               PROVE  /\ T[j].buffer.generation = g
                      /\ \/ making /\ T[j].buffer.index = cur
                         \/ Before(T, j, h, F[T[j].buffer.index])
    BY DEF Guarded
  <2>1. j + 1 \in 1..Len(G) /\ T[j] = G[j + 1] /\ j \in Nat
    BY <1>1
  <2>2. /\ G[j + 1].buffer.generation = g
        /\ \/ making /\ G[j + 1].buffer.index = cur
           \/ Before(G, j + 1, f, F[G[j + 1].buffer.index])
    BY <2>1 DEF Guarded
  <2>3. ASSUME NEW w, Before(G, j + 1, f, w) PROVE Before(T, j, h, w)
    <3>1. f < w /\ \A i \in 1..j : IsSignal(G[i]) => G[i].value < w
      <4>1. (j + 1) - 1 = j
        BY <2>1
      <4>  QED BY <2>3, <4>1 DEF Before
    <3>2. h < w
      <4>1. 1 \in 1..j
        BY <2>1
      <4>  QED BY <3>1, <4>1, <1>4
    <3>3. \A i \in 1..(j - 1) : i \in 1..Len(T) /\ i + 1 \in 1..j
      BY <2>1, <1>1
    <3>4. \A i \in 1..(j - 1) : IsSignal(T[i]) => T[i].value < w
      BY <3>1, <3>3, <1>1
    <3>  QED BY <3>2, <3>4 DEF Before
  <2>  QED BY <2>1, <2>2, <2>3
<1>  QED BY <1>5, <1>6, <1>7 DEF h, T

\* When the value of buffer i is completed, no command that uses it is left.
LEMMA Reached ==
  ASSUME NEW G, NEW f \in Nat, NEW F \in [Indices -> Nat], NEW g, NEW cur,
         Guarded(G, f, F, g, cur, FALSE), NEW i \in Indices, F[i] <= f,
         NEW j \in 1..Len(G), ~IsSignal(G[j])
  PROVE  G[j].buffer.index # i
<1> SUFFICES ASSUME G[j].buffer.index = i PROVE FALSE
  OBVIOUS
<1>1. f < F[i]
  BY DEF Guarded, Before
<1>2. F[i] \in Nat
  OBVIOUS
<1>  QED BY <1>1, <1>2

-----------------------------------------------------------------------------
(* The inductive invariant.                                                *)

Making == pc \in {"present", "show", "signal"}

QueueOK ==
  /\ Ordered(gpu, fence, fenceValue)
  /\ Guarded(gpu, fence, fenceValues, generation, current, Making)

\* The current back buffer's last use is completed, once it was waited for.
Ready == pc # "wait" => fenceValues[current] <= fence

Drained ==
  /\ pc \in {"flushWait", "resize"} => inFlight = <<>>
  /\ pc = "resize" => fence = fenceValue

References ==
  /\ \A k \in 1..Len(inFlight) : inFlight[k].buffer.generation = generation
  /\ attached # NoBuffer => attached.generation = generation

IInv == TypeOK /\ QueueOK /\ Ready /\ Drained /\ References

LEMMA InitInv == SwapChainAssumption /\ Init => IInv
<1> SUFFICES ASSUME SwapChainAssumption, Init PROVE IInv
  OBVIOUS
<1>1. Len(gpu) = 0 /\ Len(inFlight) = 0
  BY DEF Init
<1>2. TypeOK
  BY DEF Init, TypeOK, SwapChainAssumption
<1>3. QueueOK /\ References
  BY <1>1 DEF QueueOK, Ordered, Guarded, References, Init
<1>4. Ready /\ Drained
  BY DEF Init, Ready, Drained
<1>  QED BY <1>2, <1>3, <1>4 DEF IInv

LEMMA Numbers ==
  ASSUME SwapChainAssumption, TypeOK
  PROVE  /\ fenceValue \in Nat /\ fence \in Nat /\ fence <= fenceValue
         /\ fenceValues \in [Indices -> Nat] /\ current \in Indices
         /\ \A i \in Indices : fenceValues[i] <= fenceValue
         /\ gpu \in Seq(Commands) /\ Making \in BOOLEAN
         /\ Command("execute", BackBuffer, 0) \in Commands
         /\ Command("present", BackBuffer, 0) \in Commands
         /\ \A v \in Nat : Command("signal", NoBuffer, v) \in Commands
<1>1. /\ fenceValue \in Nat /\ fence \in Nat /\ fence <= fenceValue
      /\ fenceValues \in [Indices -> Nat] /\ current \in Indices
      /\ \A i \in Indices : fenceValues[i] <= fenceValue
      /\ gpu \in Seq(Commands)
  BY DEF TypeOK
<1>2. Making \in BOOLEAN
  BY DEF Making
<1>3. BackBuffer \in BackBuffers /\ frame \in Nat
  BY DEF TypeOK, BackBuffer, BackBuffers
<1>4. /\ Command("execute", BackBuffer, 0) \in Commands
      /\ Command("present", BackBuffer, 0) \in Commands
      /\ \A v \in Nat : Command("signal", NoBuffer, v) \in Commands
  BY <1>3 DEF Command, Commands
<1>  QED BY <1>1, <1>2, <1>4

LEMMA Fields ==
  /\ ~IsSignal(Command("execute", BackBuffer, 0))
  /\ Command("execute", BackBuffer, 0).buffer = BackBuffer
  /\ ~IsSignal(Command("present", BackBuffer, 0))
  /\ Command("present", BackBuffer, 0).buffer = BackBuffer
  /\ \A v : /\ IsSignal(Command("signal", NoBuffer, v))
            /\ Command("signal", NoBuffer, v).value = v
  /\ BackBuffer.generation = generation /\ BackBuffer.index = current
BY DEF Command, IsSignal, BackBuffer

\* What a list that uses the current back buffer leaves behind.
LEMMA Executed ==
  ASSUME SwapChainAssumption, TypeOK, QueueOK, References, Execute
  PROVE  /\ gpu' \in Seq(Commands) /\ fenceValue' \in Nat /\ fenceValue' = fenceValue + 1
         /\ fence' = fence
         /\ inFlight' \in Seq([fence : Nat, buffer : BackBuffers])
         /\ Ordered(gpu', fence, fenceValue + 1)
         /\ Guarded(gpu', fence, fenceValues, generation, current, TRUE)
         /\ \A k \in 1..Len(inFlight') : inFlight'[k].buffer.generation = generation
<1>1. PICK a \in Commands, b \in Commands :
        a = Command("execute", BackBuffer, 0) /\ b = Command("signal", NoBuffer, fenceValue + 1)
  BY Numbers
<1>2. /\ ~IsSignal(a) /\ a.buffer.generation = generation /\ a.buffer.index = current
      /\ IsSignal(b) /\ b.value = fenceValue + 1
  BY <1>1, Fields
<1>3. gpu' = Append(Append(gpu, a), b)
  <2>1. gpu' = gpu \o <<a, b>>
    BY <1>1 DEF Execute
  <2>  QED BY <2>1, Numbers
<1>4. Append(gpu, a) \in Seq(Commands) /\ gpu' \in Seq(Commands)
  BY <1>3, Numbers
<1>5. /\ Ordered(Append(gpu, a), fence, fenceValue)
      /\ Guarded(Append(gpu, a), fence, fenceValues, generation, current, TRUE)
  BY <1>2, Numbers, AppendUse DEF QueueOK
<1>6. /\ Ordered(gpu', fence, fenceValue + 1)
      /\ Guarded(gpu', fence, fenceValues, generation, current, TRUE)
  BY <1>2, <1>3, <1>4, <1>5, Numbers, AppendSignal
<1>7. PICK e \in [fence : Nat, buffer : BackBuffers] :
        e.buffer = BackBuffer /\ inFlight' = Append(inFlight, e)
  <2>1. BackBuffer \in BackBuffers /\ fenceValue' \in Nat
    BY Numbers DEF BackBuffer, BackBuffers, Execute, TypeOK
  <2>  QED BY <2>1 DEF Execute
<1>8. inFlight \in Seq([fence : Nat, buffer : BackBuffers])
  BY DEF TypeOK
<1>9. \A k \in 1..Len(inFlight') : inFlight'[k].buffer.generation = generation
  BY <1>7, <1>8, AppendFacts, Fields DEF References
<1>10. inFlight' \in Seq([fence : Nat, buffer : BackBuffers])
  BY <1>7, <1>8, AppendFacts
<1>11. fenceValue' \in Nat /\ fenceValue' = fenceValue + 1 /\ fence' = fence
  <2>1. fenceValue' = fenceValue + 1 /\ fence' = fence
    BY DEF Execute
  <2>  QED BY <2>1, Numbers
<1>  QED BY <1>4, <1>6, <1>9, <1>10, <1>11

LEMMA OnRenderInv ==
  ASSUME SwapChainAssumption, IInv, OnRender PROVE IInv'
<1>1. /\ pc = "idle" /\ pc' = "present" /\ attached' = BackBuffer /\ Execute
      /\ UNCHANGED <<size, current, fenceValues, generation, dxgiIndex, frame, stale>>
  BY DEF OnRender
<1>2. /\ gpu' \in Seq(Commands) /\ fenceValue' \in Nat /\ fenceValue' = fenceValue + 1
      /\ fence' = fence
      /\ inFlight' \in Seq([fence : Nat, buffer : BackBuffers])
      /\ Ordered(gpu', fence, fenceValue + 1)
      /\ Guarded(gpu', fence, fenceValues, generation, current, TRUE)
      /\ \A k \in 1..Len(inFlight') : inFlight'[k].buffer.generation = generation
  BY <1>1, Executed DEF IInv
<1>3. TypeOK'
  <2>1. fenceValues' \in [Indices -> 0..fenceValue'] /\ fence' \in 0..fenceValue'
    BY <1>1, <1>2, Numbers DEF IInv
  <2>2. attached' \in BackBuffers \cup {NoBuffer}
    BY <1>1 DEF IInv, TypeOK, BackBuffer, BackBuffers
  <2>  QED BY <1>1, <1>2, <2>1, <2>2 DEF IInv, TypeOK
<1>4. QueueOK'
  <2>1. Making' = TRUE
    BY <1>1 DEF Making
  <2>  QED BY <1>1, <1>2, <2>1 DEF QueueOK
<1>5. Ready' /\ Drained'
  BY <1>1, <1>2 DEF IInv, Ready, Drained
<1>6. References'
  BY <1>1, <1>2, Fields DEF References
<1>  QED BY <1>3, <1>4, <1>5, <1>6 DEF IInv

LEMMA PresentInv ==
  ASSUME SwapChainAssumption, IInv, Present PROVE IInv'
<1>1. /\ pc = "present" /\ pc' = "show" /\ Execute
      /\ UNCHANGED <<size, current, fenceValues, attached, generation, dxgiIndex, frame, stale>>
  BY DEF Present
<1>2. /\ gpu' \in Seq(Commands) /\ fenceValue' \in Nat /\ fenceValue' = fenceValue + 1
      /\ fence' = fence
      /\ inFlight' \in Seq([fence : Nat, buffer : BackBuffers])
      /\ Ordered(gpu', fence, fenceValue + 1)
      /\ Guarded(gpu', fence, fenceValues, generation, current, TRUE)
      /\ \A k \in 1..Len(inFlight') : inFlight'[k].buffer.generation = generation
  BY <1>1, Executed DEF IInv
<1>3. TypeOK'
  <2>1. fenceValues' \in [Indices -> 0..fenceValue'] /\ fence' \in 0..fenceValue'
    BY <1>1, <1>2, Numbers DEF IInv
  <2>  QED BY <1>1, <1>2, <2>1 DEF IInv, TypeOK
<1>4. QueueOK'
  <2>1. Making' = TRUE
    BY <1>1 DEF Making
  <2>  QED BY <1>1, <1>2, <2>1 DEF QueueOK
<1>5. Ready' /\ Drained'
  BY <1>1, <1>2 DEF IInv, Ready, Drained
<1>6. References'
  BY <1>1, <1>2 DEF IInv, References
<1>  QED BY <1>3, <1>4, <1>5, <1>6 DEF IInv

LEMMA ShowInv ==
  ASSUME SwapChainAssumption, IInv, Show PROVE IInv'
<1>1. /\ pc = "show" /\ pc' = "signal" /\ dxgiIndex' = (dxgiIndex + 1) % BufferCount
      /\ gpu' = Append(gpu, Command("present", BackBuffer, 0))
      /\ UNCHANGED <<size, current, fenceValues, attached, generation,
                     fenceValue, fence, inFlight, frame, stale>>
  BY DEF Show
<1>2. PICK c \in Commands : c = Command("present", BackBuffer, 0)
  BY Numbers DEF IInv
<1>3. ~IsSignal(c) /\ c.buffer.generation = generation /\ c.buffer.index = current
  BY <1>2, Fields
<1>4. gpu' \in Seq(Commands)
  BY <1>1, Numbers DEF IInv
<1>5. /\ Ordered(gpu', fence, fenceValue)
      /\ Guarded(gpu', fence, fenceValues, generation, current, TRUE)
  BY <1>1, <1>2, <1>3, Numbers, AppendUse DEF IInv, QueueOK
<1>6. dxgiIndex' \in Indices
  <2>1. BufferCount \in Nat /\ BufferCount > 0 /\ dxgiIndex \in Nat
    BY DEF SwapChainAssumption, IInv, TypeOK, Indices
  <2>2. (dxgiIndex + 1) % BufferCount \in 0..(BufferCount - 1)
    BY <2>1
  <2>  QED BY <1>1, <2>2 DEF Indices
<1>7. TypeOK'
  BY <1>1, <1>4, <1>6 DEF IInv, TypeOK
<1>8. QueueOK'
  <2>1. Making' = TRUE
    BY <1>1 DEF Making
  <2>  QED BY <1>1, <1>5, <2>1 DEF QueueOK
<1>9. Ready' /\ Drained' /\ References'
  BY <1>1 DEF IInv, Ready, Drained, References
<1>  QED BY <1>7, <1>8, <1>9 DEF IInv

LEMMA SignalInv ==
  ASSUME SwapChainAssumption, IInv, Signal PROVE IInv'
<1>1. /\ pc = "signal" /\ pc' = "wait" /\ fenceValue' = fenceValue + 1
      /\ gpu' = Append(gpu, Command("signal", NoBuffer, fenceValue + 1))
      /\ fenceValues' = [fenceValues EXCEPT ![current] = fenceValue + 1]
      /\ current' = dxgiIndex
      /\ UNCHANGED <<size, attached, generation, dxgiIndex, fence, inFlight, frame, stale>>
  BY DEF Signal, Signalled
<1>2. PICK c \in Commands : c = Command("signal", NoBuffer, fenceValue + 1)
  BY Numbers DEF IInv
<1>3. IsSignal(c) /\ c.value = fenceValue + 1
  BY <1>2, Fields
<1>4. /\ Ordered(gpu', fence, fenceValue + 1)
      /\ Guarded(gpu', fence, fenceValues', generation, current', FALSE)
  <2>1. /\ gpu \in Seq(Commands) /\ fence \in Nat /\ fenceValue \in Nat /\ fence <= fenceValue
        /\ fenceValues \in [Indices -> Nat] /\ Making \in BOOLEAN
    BY Numbers DEF IInv
  <2>2. /\ Ordered(gpu, fence, fenceValue)
        /\ Guarded(gpu, fence, fenceValues, generation, current, Making)
    BY DEF IInv, QueueOK
  <2>3. /\ Ordered(Append(gpu, c), fence, fenceValue + 1)
        /\ \A next : Guarded(Append(gpu, c), fence,
                             [fenceValues EXCEPT ![current] = fenceValue + 1],
                             generation, next, FALSE)
    BY <1>3, <2>1, <2>2, AppendSignal, ZenonT(30)
  <2>4. gpu' = Append(gpu, c)
    BY <1>1, <1>2
  <2>5. fenceValues' = [fenceValues EXCEPT ![current] = fenceValue + 1]
    BY <1>1
  <2>  QED BY <2>3, <2>4, <2>5
<1>5. /\ gpu' \in Seq(Commands) /\ fenceValue' \in Nat /\ fence' \in 0..fenceValue'
      /\ fenceValues' \in [Indices -> 0..fenceValue']
  BY <1>1, <1>2, Numbers DEF IInv
<1>6. TypeOK'
  BY <1>1, <1>5 DEF IInv, TypeOK
<1>7. QueueOK'
  <2>1. Making' = FALSE
    BY <1>1 DEF Making
  <2>  QED BY <1>1, <1>4, <2>1 DEF QueueOK
<1>8. Ready' /\ Drained' /\ References'
  BY <1>1 DEF IInv, Ready, Drained, References
<1>  QED BY <1>6, <1>7, <1>8 DEF IInv

LEMMA GpuInv ==
  ASSUME SwapChainAssumption, IInv, Gpu PROVE IInv'
<1>1. /\ gpu # <<>> /\ gpu' = Tail(gpu)
      /\ fence' = IF IsSignal(Head(gpu)) THEN Head(gpu).value ELSE fence
      /\ UNCHANGED <<pc, size, current, fenceValues, attached, generation, dxgiIndex,
                     fenceValue, inFlight, frame, stale>>
  BY DEF Gpu, IsSignal
<1>2. /\ fence' \in Nat /\ fence <= fence' /\ fence' <= fenceValue
      /\ Ordered(gpu', fence', fenceValue)
      /\ Guarded(gpu', fence', fenceValues, generation, current, Making)
  BY <1>1, Numbers, TakeCommand DEF IInv, QueueOK
<1>3. gpu' \in Seq(Commands)
  BY <1>1, Numbers, TailFacts DEF IInv
<1>4. fenceValue \in Nat /\ fence \in Nat /\ fenceValues[current] \in Nat
  BY Numbers DEF IInv
<1>5. TypeOK'
  BY <1>1, <1>2, <1>3, <1>4 DEF IInv, TypeOK
<1>6. QueueOK'
  BY <1>1, <1>2 DEF QueueOK, Making
<1>7. Ready'
  BY <1>1, <1>2, <1>4 DEF IInv, Ready
<1>8. Drained'
  BY <1>1, <1>2, <1>4 DEF IInv, Drained
<1>9. References'
  BY <1>1 DEF IInv, References
<1>  QED BY <1>5, <1>6, <1>7, <1>8, <1>9 DEF IInv

LEMMA RecycleInv ==
  ASSUME SwapChainAssumption, IInv, Recycle PROVE IInv'
<1>1. /\ inFlight # <<>> /\ inFlight' = Tail(inFlight)
      /\ UNCHANGED <<pc, size, current, fenceValues, attached, generation, dxgiIndex,
                     gpu, fenceValue, fence, frame, stale>>
  BY DEF Recycle
<1>2. inFlight \in Seq([fence : Nat, buffer : BackBuffers])
  BY DEF IInv, TypeOK
<1>3. inFlight' \in Seq([fence : Nat, buffer : BackBuffers])
  BY <1>1, <1>2, TailFacts
<1>4. \A k \in 1..Len(inFlight') : inFlight'[k].buffer.generation = generation
  BY <1>1, <1>2, TailFacts DEF IInv, References
<1>5. TypeOK'
  BY <1>1, <1>3 DEF IInv, TypeOK
<1>6. QueueOK' /\ Ready'
  BY <1>1 DEF IInv, QueueOK, Making, Ready
<1>7. Drained'
  BY <1>1 DEF IInv, Drained
<1>8. References'
  BY <1>1, <1>4 DEF IInv, References
<1>  QED BY <1>5, <1>6, <1>7, <1>8 DEF IInv

LEMMA ResizeBuffersInv ==
  ASSUME SwapChainAssumption, IInv, NEW i \in Indices, ResizeBuffers(i) PROVE IInv'
<1>1. /\ pc = "resize" /\ pc' = "idle" /\ attached' = NoBuffer /\ generation' = generation + 1
      /\ dxgiIndex' = i /\ current' = i
      /\ UNCHANGED <<size, fenceValues, gpu, fenceValue, fence, inFlight, frame, stale>>
  BY DEF ResizeBuffers, DropAttached, queueVars
<1>2. fence = fenceValue /\ inFlight = <<>>
  BY <1>1 DEF IInv, Drained
<1>3. \A j \in 1..Len(gpu) : IsSignal(gpu[j])
  <2> SUFFICES ASSUME NEW j \in 1..Len(gpu), ~IsSignal(gpu[j]) PROVE FALSE
    OBVIOUS
  <2>1. gpu[j].buffer.index \in Indices
    BY Numbers, GpuTypes DEF IInv
  <2>2. fenceValues[gpu[j].buffer.index] <= fence
    BY <2>1, <1>2, Numbers DEF IInv
  <2>3. Guarded(gpu, fence, fenceValues, generation, current, FALSE)
    <3>1. Making = FALSE
      BY <1>1 DEF Making
    <3>  QED BY <3>1 DEF IInv, QueueOK
  <2>  QED BY <2>1, <2>2, <2>3, Numbers, Reached DEF IInv
<1>4. TypeOK'
  BY <1>1 DEF IInv, TypeOK
<1>5. QueueOK'
  BY <1>1, <1>3 DEF IInv, QueueOK, Guarded
<1>6. Ready'
  BY <1>1, <1>2, Numbers DEF IInv, Ready
<1>7. Drained'
  BY <1>1 DEF Drained
<1>8. References'
  <2>1. Len(inFlight') = 0
    BY <1>1, <1>2
  <2>  QED BY <1>1, <2>1 DEF References
<1>  QED BY <1>4, <1>5, <1>6, <1>7, <1>8 DEF IInv

\* The steps of a call that move on without touching the queue.
LEMMA MovesOn ==
  ASSUME SwapChainAssumption, IInv, pc' # "wait",
         pc' \notin {"present", "show", "signal"}, pc \notin {"present", "show", "signal"},
         UNCHANGED <<current, fenceValues, attached, generation, dxgiIndex,
                     gpu, fenceValue, fence, inFlight>>,
         size' \in Nat \X Nat, frame' \in Nat, stale' \subseteq Nat,
         pc' \in {"idle", "release", "flush", "flushWait", "resize"},
         fenceValues[current] <= fence,
         pc' \in {"flushWait", "resize"} => inFlight = <<>>,
         pc' = "resize" => fence = fenceValue
  PROVE  IInv'
<1>1. TypeOK'
  BY DEF IInv, TypeOK
<1>2. QueueOK'
  <2>1. Making' = Making
    BY DEF Making
  <2>  QED BY <2>1 DEF IInv, QueueOK
<1>3. Ready' /\ Drained' /\ References'
  BY DEF IInv, Ready, Drained, References
<1>  QED BY <1>1, <1>2, <1>3 DEF IInv

LEMMA CallInv ==
  ASSUME SwapChainAssumption, IInv,
         \/ WaitForFenceValue \/ ReleaseStaleDescriptors
         \/ Flush \/ FlushReturn \/ \E s \in Sizes : Resize(s)
  PROVE  IInv'
<1>1. /\ size \in Nat \X Nat /\ frame \in Nat /\ stale \subseteq Nat
      /\ fenceValue \in Nat /\ fence \in 0..fenceValue
  BY DEF IInv, TypeOK
<1>2. CASE WaitForFenceValue
  BY <1>1, <1>2, MovesOn DEF WaitForFenceValue, IsFenceComplete, queueVars
<1>3. CASE ReleaseStaleDescriptors
  <2>1. frame' \in Nat /\ stale' \subseteq Nat
    BY <1>1, <1>3 DEF ReleaseStaleDescriptors
  <2>  QED BY <1>1, <1>3, <2>1, MovesOn DEF ReleaseStaleDescriptors, queueVars, IInv, Ready
<1>4. CASE Flush
  BY <1>1, <1>4, MovesOn DEF Flush, Recycled, queueVars, IInv, Ready
<1>5. CASE FlushReturn
  <2>1. fence = fenceValue
    BY <1>1, <1>5 DEF FlushReturn, IsFenceComplete
  <2>  QED BY <1>1, <1>5, <2>1, MovesOn DEF FlushReturn, queueVars, IInv, Ready, Drained
<1>6. ASSUME NEW s \in Sizes, Resize(s) PROVE IInv'
  <2>1. size' \in Nat \X Nat
    <3>1. s[1] \in Nat /\ s[2] \in Nat
      BY DEF SwapChainAssumption
    <3>  QED BY <3>1, <1>6 DEF Resize, AtLeast1
  <2>  QED BY <1>1, <1>6, <2>1, MovesOn DEF Resize, queueVars, IInv, Ready
<1>  QED BY <1>2, <1>3, <1>4, <1>5, <1>6

LEMMA OtherInv ==
  ASSUME IInv, FreeDescriptors \/ UNCHANGED vars PROVE IInv'
<1>1. /\ UNCHANGED <<pc, size, current, fenceValues, attached, generation, dxgiIndex,
                     gpu, fenceValue, fence, inFlight, frame>>
      /\ stale' \subseteq Nat
  BY DEF FreeDescriptors, vars, queueVars, IInv, TypeOK
<1>  QED BY <1>1 DEF IInv, TypeOK, QueueOK, Making, Ready, Drained, References

LEMMA NextInv == SwapChainAssumption /\ IInv /\ [Next]_vars => IInv'
  BY OnRenderInv, PresentInv, ShowInv, SignalInv, GpuInv, RecycleInv, ResizeBuffersInv,
     CallInv, OtherInv DEF Next, Calls

-----------------------------------------------------------------------------
(* The theorems.                                                           *)

\* The invariant, which the theorems below rest on.
THEOREM Invariance == Spec => []IInv
<1>1. Init => IInv
  BY SwapChainAssumption, InitInv
<1>2. IInv /\ [Next]_vars => IInv'
  BY SwapChainAssumption, NextInv
<1>  QED BY <1>1, <1>2, PTL DEF Spec

\* The types, and that no fence value is waited for that is not signalled.
THEOREM TypeCorrect == Spec => []TypeOK
<1>1. IInv => TypeOK
  BY DEF IInv
<1>  QED BY <1>1, Invariance, PTL

\* A frame goes to a back buffer the GPU has done with.
THEOREM BackBufferAlwaysIdle == Spec => []BackBufferIdle
<1>1. IInv => BackBufferIdle
  <2> SUFFICES ASSUME SwapChainAssumption, IInv, pc = "idle",
                      NEW j \in DOMAIN gpu, ~IsSignal(gpu[j]), gpu[j].buffer = BackBuffer
               PROVE  FALSE
    BY SwapChainAssumption DEF BackBufferIdle, Uses, IsSignal
  <2>1. j \in 1..Len(gpu)
    BY Numbers DEF IInv
  <2>2. Guarded(gpu, fence, fenceValues, generation, current, FALSE)
    <3>1. Making = FALSE
      BY DEF Making
    <3>  QED BY <3>1 DEF IInv, QueueOK
  <2>3. fenceValues[current] <= fence
    BY DEF IInv, Ready
  <2>4. gpu[j].buffer.index # current
    BY <2>1, <2>2, <2>3, Numbers, Reached DEF IInv
  <2>  QED BY <2>4, Fields
<1>  QED BY <1>1, Invariance, PTL

\* Nothing refers to a back buffer from before the last resize.
THEOREM OldBuffersGone == Spec => []OldBuffersAreGone
<1>1. IInv => OldBuffersAreGone
  <2> SUFFICES ASSUME SwapChainAssumption, IInv PROVE OldBuffersAreGone
    BY SwapChainAssumption
  <2>1. DOMAIN gpu = 1..Len(gpu) /\ DOMAIN inFlight = 1..Len(inFlight)
    BY DEF IInv, TypeOK
  <2>2. \A j \in 1..Len(gpu) : ~IsSignal(gpu[j]) => gpu[j].buffer.generation = generation
    BY DEF IInv, QueueOK, Guarded
  <2>  QED BY <2>1, <2>2 DEF IInv, References, OldBuffersAreGone, IsSignal
<1>  QED BY <1>1, Invariance, PTL

-----------------------------------------------------------------------------
(* The frames that are left on the queue.  Buffers take turns, so that the  *)
(* value that is waited for before frame n is that of frame n - BufferCount.*)

\* The index of the buffer d frames before the one of index i.
Ago(i, d) == IF d <= i THEN i - d ELSE i + BufferCount - d

\* Command j of G is executed no later than the signal of value w.
UpTo(G, j, f, w) == Before(G, j, f, w) /\ (IsSignal(G[j]) => G[j].value <= w)

\* Frame n takes buffer cur.  What is left of an earlier frame ends with the
\* value F has for that frame's buffer, and goes back at most `back' frames.
Aged(G, f, F, n, cur, making, back) ==
  \A j \in 1..Len(G) :
    \/ making /\ G[j].frame = n
    \/ /\ G[j].frame < n
       /\ n - G[j].frame <= back
       /\ UpTo(G, j, f, F[Ago(cur, n - G[j].frame)])

\* The frame that is made next, or now.
Upcoming == IF pc \in {"wait", "release"} THEN frame + 1 ELSE frame
Back     == IF pc = "wait" THEN BufferCount ELSE BufferCount - 1

FramesOK ==
  /\ Aged(gpu, fence, fenceValues, Upcoming, current, Making, Back)
  /\ dxgiIndex = IF pc = "signal" THEN (current + 1) % BufferCount ELSE current

FInv == IInv /\ FramesOK

\* The turns of the buffers.
LEMMA Turns ==
  ASSUME SwapChainAssumption, NEW i \in Indices
  PROVE  /\ (i + 1) % BufferCount \in Indices
         /\ \A d \in 0..BufferCount : Ago(i, d) \in Indices
         /\ \A d \in 1..(BufferCount - 1) : Ago(i, d) # i
         /\ Ago(i, BufferCount) = i
         /\ Ago((i + 1) % BufferCount, 1) = i
         /\ \A d \in 1..(BufferCount - 1) : Ago((i + 1) % BufferCount, d + 1) = Ago(i, d)
<1>1. BufferCount \in Nat /\ BufferCount > 0 /\ i \in Nat /\ i < BufferCount
  BY DEF SwapChainAssumption, Indices
<1>2. (i + 1) % BufferCount = IF i + 1 = BufferCount THEN 0 ELSE i + 1
  <2>1. \A n \in Nat \ {0} : n % n = 0
    OBVIOUS
  <2>2. \A n \in Nat \ {0}, m \in Nat : m < n => m % n = m
    OBVIOUS
  <2>  QED BY <1>1, <2>1, <2>2
<1>  QED BY <1>1, <1>2 DEF Ago, Indices

LEMMA FramesOfCommands ==
  ASSUME NEW G \in Seq(Commands)
  PROVE  \A j \in 1..Len(G) : G[j] \in Commands /\ G[j].frame \in Nat /\ G[j].value \in Nat
BY DEF Commands

\* A command of the frame that is being made.
LEMMA AgedAppend ==
  ASSUME NEW G \in Seq(Commands), NEW f \in Nat, NEW F, NEW n \in Nat, NEW cur,
         NEW making, NEW back, Aged(G, f, F, n, cur, making, back),
         NEW c \in Commands, c.frame = n
  PROVE  Aged(Append(G, c), f, F, n, cur, TRUE, back)
<1> DEFINE H == Append(G, c)
<1>1. /\ \A j \in 1..Len(G) : H[j] = G[j]
      /\ H[Len(G) + 1] = c
      /\ 1..Len(H) = 1..Len(G) \cup {Len(G) + 1}
      /\ Len(G) \in Nat
  BY AppendFacts
<1> HIDE DEF H
<1>2. SUFFICES ASSUME NEW j \in 1..Len(H), H[j].frame # n
               PROVE  /\ H[j].frame < n /\ n - H[j].frame <= back
                      /\ UpTo(H, j, f, F[Ago(cur, n - H[j].frame)])
  BY DEF Aged, H
<1>3. j \in 1..Len(G) /\ H[j] = G[j] /\ \A i \in 1..(j - 1) : H[i] = G[i]
  BY <1>1, <1>2
<1>4. /\ G[j].frame < n /\ n - G[j].frame <= back
      /\ UpTo(G, j, f, F[Ago(cur, n - G[j].frame)])
  BY <1>2, <1>3 DEF Aged
<1>  QED BY <1>3, <1>4 DEF UpTo, Before

\* The signal behind a frame, whose value is remembered for its buffer.
LEMMA AgedSignal ==
  ASSUME SwapChainAssumption,
         NEW G \in Seq(Commands), NEW f \in Nat, NEW v \in Nat, f <= v,
         NEW F \in [Indices -> Nat], NEW n \in Nat, NEW cur \in Indices,
         NEW making, Ordered(G, f, v), Aged(G, f, F, n, cur, making, BufferCount - 1),
         NEW c \in Commands, IsSignal(c), c.value = v + 1, c.frame = n
  PROVE  Aged(Append(G, c), f, [F EXCEPT ![cur] = v + 1], n + 1, (cur + 1) % BufferCount,
              FALSE, BufferCount)
<1> DEFINE H == Append(G, c)
           K == [F EXCEPT ![cur] = v + 1]
           next == (cur + 1) % BufferCount
<1>1. /\ \A j \in 1..Len(G) : H[j] = G[j]
      /\ H[Len(G) + 1] = c
      /\ 1..Len(H) = 1..Len(G) \cup {Len(G) + 1}
      /\ Len(G) \in Nat
  BY AppendFacts
<1>2. /\ \A d \in 1..(BufferCount - 1) : Ago(cur, d) \in Indices /\ Ago(cur, d) # cur
      /\ Ago(next, 1) = cur
      /\ \A d \in 1..(BufferCount - 1) : Ago(next, d + 1) = Ago(cur, d)
  <2>1. /\ \A d \in 0..BufferCount : Ago(cur, d) \in Indices
        /\ \A d \in 1..(BufferCount - 1) : Ago(cur, d) # cur
        /\ Ago((cur + 1) % BufferCount, 1) = cur
        /\ \A d \in 1..(BufferCount - 1) :
             Ago((cur + 1) % BufferCount, d + 1) = Ago(cur, d)
    BY Turns
  <2>2. \A d \in 1..(BufferCount - 1) : d \in 0..BufferCount
    BY DEF SwapChainAssumption
  <2>  QED BY <2>1, <2>2
<1>3. \A i \in Indices : K[i] = IF i = cur THEN v + 1 ELSE F[i]
  OBVIOUS
<1>4. BufferCount \in Nat /\ BufferCount > 0
  BY DEF SwapChainAssumption
<1>5. \A j \in 1..Len(G) : G[j].frame \in Nat /\ G[j].value \in Nat
  BY FramesOfCommands
<1> HIDE DEF H, K, next
<1>6. SUFFICES ASSUME NEW j \in 1..Len(H)
               PROVE  /\ H[j].frame < n + 1 /\ (n + 1) - H[j].frame <= BufferCount
                      /\ UpTo(H, j, f, K[Ago(next, (n + 1) - H[j].frame)])
  BY DEF Aged, H, K, next
<1>7. CASE H[j].frame = n
  <2>1. (n + 1) - H[j].frame = 1 /\ K[Ago(next, (n + 1) - H[j].frame)] = v + 1
    BY <1>2, <1>3, <1>7
  <2>2. \A i \in 1..Len(G) : IsSignal(G[i]) => G[i].value < v + 1
    BY <1>5 DEF Ordered
  <2>3. \A i \in 1..(j - 1) : i \in 1..Len(G) /\ H[i] = G[i]
    <3>1. \A i \in 1..(j - 1) : i \in 1..Len(G)
      BY <1>1
    <3>  QED BY <3>1, <1>1
  <2>4. ASSUME IsSignal(H[j]) PROVE H[j].value <= v + 1
    <3>1. CASE j \in 1..Len(G)
      <4>1. H[j] = G[j]
        BY <3>1, <1>1
      <4>2. IsSignal(G[j]) => G[j].value \in Nat /\ G[j].value < v + 1
        BY <3>1, <1>5, <2>2
      <4>  QED BY <4>1, <4>2, <2>4
    <3>2. CASE j = Len(G) + 1
      BY <3>2, <1>1
    <3>  QED BY <3>1, <3>2, <1>1
  <2>5. UpTo(H, j, f, v + 1)
    BY <2>2, <2>3, <2>4 DEF UpTo, Before
  <2>  QED BY <1>4, <1>7, <2>1, <2>5
<1>8. CASE H[j].frame # n
  <2>1. j \in 1..Len(G) /\ H[j] = G[j] /\ \A i \in 1..(j - 1) : H[i] = G[i]
    BY <1>1, <1>8
  <2>2. /\ G[j].frame < n /\ n - G[j].frame <= BufferCount - 1
        /\ UpTo(G, j, f, F[Ago(cur, n - G[j].frame)])
    BY <1>8, <2>1 DEF Aged
  <2>3. PICK d \in 1..(BufferCount - 1) : d = n - G[j].frame /\ (n + 1) - G[j].frame = d + 1
    BY <1>4, <1>5, <2>1, <2>2
  <2>4. K[Ago(next, d + 1)] = F[Ago(cur, d)]
    BY <1>2, <1>3
  <2>5. UpTo(H, j, f, F[Ago(cur, d)])
    BY <2>1, <2>2, <2>3 DEF UpTo, Before
  <2>6. (n + 1) - H[j].frame = d + 1
    BY <2>1, <2>3
  <2>7. UpTo(H, j, f, K[Ago(next, (n + 1) - H[j].frame)])
    BY <2>4, <2>5, <2>6
  <2>8. H[j].frame < n + 1 /\ (n + 1) - H[j].frame <= BufferCount
    <3>1. H[j].frame \in Nat /\ H[j].frame < n
      BY <1>5, <2>1, <2>2
    <3>2. d + 1 <= BufferCount
      BY <1>4, <2>3
    <3>  QED BY <1>4, <3>1, <3>2, <2>6, SMTT(30)
  <2>  QED BY <2>7, <2>8
<1>  QED BY <1>7, <1>8

\* The GPU executes the first command.
LEMMA AgedTake ==
  ASSUME NEW G \in Seq(Commands), G # <<>>, NEW f \in Nat, NEW v, NEW F, NEW n \in Nat,
         NEW cur, NEW making, NEW back, Ordered(G, f, v), Aged(G, f, F, n, cur, making, back)
  PROVE  Aged(Tail(G), IF IsSignal(Head(G)) THEN Head(G).value ELSE f, F, n, cur, making, back)
<1> DEFINE h == IF IsSignal(Head(G)) THEN Head(G).value ELSE f
           T == Tail(G)
<1>1. /\ Len(G) \in Nat /\ Len(G) > 0 /\ Len(T) = Len(G) - 1 /\ Head(G) = G[1]
      /\ \A j \in 1..Len(T) : j + 1 \in 1..Len(G) /\ T[j] = G[j + 1]
  BY TailFacts
<1>2. \/ IsSignal(G[1]) /\ h = G[1].value
      \/ ~IsSignal(G[1]) /\ h = f
  BY <1>1
<1> HIDE DEF h, T
<1>3. SUFFICES ASSUME NEW j \in 1..Len(T), ~(making /\ T[j].frame = n)
               PROVE  /\ T[j].frame < n /\ n - T[j].frame <= back
                      /\ UpTo(T, j, h, F[Ago(cur, n - T[j].frame)])
  BY DEF Aged, h, T
<1>4. j + 1 \in 1..Len(G) /\ T[j] = G[j + 1] /\ j \in Nat /\ (j + 1) - 1 = j /\ 1 \in 1..j
  BY <1>1
<1>5. /\ G[j + 1].frame < n /\ n - G[j + 1].frame <= back
      /\ UpTo(G, j + 1, f, F[Ago(cur, n - G[j + 1].frame)])
  BY <1>3, <1>4 DEF Aged
<1>6. ASSUME NEW w, UpTo(G, j + 1, f, w) PROVE UpTo(T, j, h, w)
  <2>1. /\ f < w /\ \A i \in 1..j : IsSignal(G[i]) => G[i].value < w
        /\ IsSignal(G[j + 1]) => G[j + 1].value <= w
    BY <1>4, <1>6 DEF UpTo, Before
  <2>2. h < w
    BY <1>2, <1>4, <2>1
  <2>3. \A i \in 1..(j - 1) : i \in 1..Len(T) /\ i + 1 \in 1..j
    BY <1>4, <1>1
  <2>4. \A i \in 1..(j - 1) : IsSignal(T[i]) => T[i].value < w
    BY <2>1, <2>3, <1>1
  <2>  QED BY <1>4, <2>1, <2>2, <2>4 DEF UpTo, Before
<1>  QED BY <1>4, <1>5, <1>6

\* The value of the next buffer is completed: the frame before it that had
\* this buffer has left nothing.
LEMMA AgedReached ==
  ASSUME SwapChainAssumption,
         NEW G \in Seq(Commands), NEW f \in Nat, NEW F \in [Indices -> Nat], NEW n \in Nat,
         NEW cur \in Indices, Aged(G, f, F, n, cur, FALSE, BufferCount), F[cur] <= f
  PROVE  Aged(G, f, F, n, cur, FALSE, BufferCount - 1)
<1>1. SUFFICES ASSUME NEW j \in 1..Len(G)
               PROVE  n - G[j].frame <= BufferCount - 1
  BY DEF Aged
<1>2. BufferCount \in Nat /\ G[j].frame \in Nat /\ Ago(cur, BufferCount) = cur /\ F[cur] \in Nat
  BY FramesOfCommands, Turns DEF SwapChainAssumption
<1>3. n - G[j].frame <= BufferCount /\ f < F[Ago(cur, n - G[j].frame)]
  BY DEF Aged, UpTo, Before
<1>4. n - G[j].frame # BufferCount
  BY <1>2, <1>3
<1>  QED BY <1>2, <1>3, <1>4

\* A resize begins with an empty queue.
LEMMA NothingLeft ==
  ASSUME SwapChainAssumption, IInv, pc = "resize" PROVE Len(gpu) = 0
<1>1. fence = fenceValue /\ Making = FALSE
  BY DEF IInv, Drained, Making
<1>2. ASSUME NEW j \in 1..Len(gpu) PROVE FALSE
  <2>1. CASE IsSignal(gpu[j])
    <3>1. gpu[j].value \in Nat /\ fence < gpu[j].value /\ gpu[j].value <= fenceValue
      BY <1>2, <2>1, Numbers, GpuTypes DEF IInv, QueueOK, Ordered
    <3>  QED BY <1>1, <3>1, Numbers DEF IInv
  <2>2. CASE ~IsSignal(gpu[j])
    <3>1. gpu[j].buffer.index \in Indices
      BY <1>2, <2>2, Numbers, GpuTypes DEF IInv
    <3>2. fenceValues[gpu[j].buffer.index] <= fence
      BY <3>1, <1>1, Numbers DEF IInv
    <3>3. Guarded(gpu, fence, fenceValues, generation, current, FALSE)
      BY <1>1 DEF IInv, QueueOK
    <3>  QED BY <1>2, <2>2, <3>1, <3>2, <3>3, Numbers, Reached DEF IInv
  <2>  QED BY <2>1, <2>2
<1>3. Len(gpu) \in Nat
  BY Numbers DEF IInv
<1>4. Len(gpu) > 0 => 1 \in 1..Len(gpu)
  BY <1>3
<1>  QED BY <1>2, <1>3, <1>4

LEMMA FramesInit == SwapChainAssumption /\ Init => FramesOK
<1> SUFFICES ASSUME SwapChainAssumption, Init PROVE FramesOK
  OBVIOUS
<1>1. Len(gpu) = 0 /\ dxgiIndex = current /\ pc = "idle"
  BY DEF Init
<1>  QED BY <1>1 DEF FramesOK, Aged

LEMMA FrameNumbers ==
  ASSUME SwapChainAssumption, TypeOK
  PROVE  /\ frame \in Nat /\ Upcoming \in Nat /\ BufferCount \in Nat /\ BufferCount > 0
         /\ \A op, b, v : Command(op, b, v).frame = frame
BY DEF TypeOK, Upcoming, Command, SwapChainAssumption

LEMMA ExecuteFrames ==
  ASSUME SwapChainAssumption, FInv, pc \in {"idle", "present"}, pc' \in {"present", "show"},
         Execute, UNCHANGED <<current, fenceValues, dxgiIndex, frame>>
  PROVE  FramesOK'
<1>1. PICK a \in Commands, b \in Commands :
        a = Command("execute", BackBuffer, 0) /\ b = Command("signal", NoBuffer, fenceValue + 1)
  BY Numbers DEF FInv, IInv
<1>2. gpu' = Append(Append(gpu, a), b)
  <2>1. gpu' = gpu \o <<a, b>>
    BY <1>1 DEF Execute
  <2>  QED BY <2>1, Numbers DEF FInv, IInv
<1>3. /\ a.frame = frame /\ b.frame = frame /\ Append(gpu, a) \in Seq(Commands)
      /\ gpu \in Seq(Commands) /\ frame \in Nat /\ fence \in Nat
  BY <1>1, Numbers, FrameNumbers DEF FInv, IInv
<1>4. /\ Upcoming = frame /\ Upcoming' = frame /\ Back' = Back /\ Making' = TRUE
      /\ fence' = fence
  BY DEF Upcoming, Back, Making, Execute
<1>5. Aged(Append(gpu, a), fence, fenceValues, frame, current, TRUE, Back)
  BY <1>3, <1>4, AgedAppend DEF FInv, FramesOK
<1>6. Aged(gpu', fence, fenceValues, frame, current, TRUE, Back)
  BY <1>2, <1>3, <1>5, AgedAppend
<1>  QED BY <1>4, <1>6 DEF FInv, FramesOK

LEMMA ShowFrames ==
  ASSUME SwapChainAssumption, FInv, Show PROVE FramesOK'
<1>1. /\ pc = "show" /\ pc' = "signal" /\ dxgiIndex' = (dxgiIndex + 1) % BufferCount
      /\ gpu' = Append(gpu, Command("present", BackBuffer, 0))
      /\ UNCHANGED <<current, fenceValues, fence, frame>>
  BY DEF Show
<1>2. PICK c \in Commands : c = Command("present", BackBuffer, 0)
  BY Numbers DEF FInv, IInv
<1>3. c.frame = frame /\ gpu \in Seq(Commands) /\ frame \in Nat /\ fence \in Nat
  BY <1>2, Numbers, FrameNumbers DEF FInv, IInv
<1>4. /\ Upcoming = frame /\ Upcoming' = frame /\ Back' = Back /\ Making' = TRUE
  BY <1>1 DEF Upcoming, Back, Making
<1>5. Aged(gpu', fence, fenceValues, frame, current, TRUE, Back)
  BY <1>1, <1>2, <1>3, <1>4, AgedAppend DEF FInv, FramesOK
<1>  QED BY <1>1, <1>4, <1>5 DEF FInv, FramesOK

LEMMA SignalFrames ==
  ASSUME SwapChainAssumption, FInv, Signal PROVE FramesOK'
<1>1. /\ pc = "signal" /\ pc' = "wait"
      /\ gpu' = Append(gpu, Command("signal", NoBuffer, fenceValue + 1))
      /\ fenceValues' = [fenceValues EXCEPT ![current] = fenceValue + 1]
      /\ current' = dxgiIndex
      /\ UNCHANGED <<dxgiIndex, fence, frame>>
  BY DEF Signal, Signalled
<1>2. PICK c \in Commands : c = Command("signal", NoBuffer, fenceValue + 1)
  BY Numbers DEF FInv, IInv
<1>3. /\ c.frame = frame /\ IsSignal(c) /\ c.value = fenceValue + 1
      /\ gpu \in Seq(Commands) /\ frame \in Nat /\ fence \in Nat /\ fenceValue \in Nat
      /\ fence <= fenceValue /\ fenceValues \in [Indices -> Nat] /\ current \in Indices
  BY <1>2, Numbers, FrameNumbers, Fields DEF FInv, IInv
<1>4. /\ Upcoming = frame /\ Upcoming' = frame + 1 /\ Making' = FALSE
      /\ Back = BufferCount - 1 /\ Back' = BufferCount
  BY <1>1 DEF Upcoming, Back, Making
<1>5. current' = (current + 1) % BufferCount /\ dxgiIndex' = current'
  BY <1>1 DEF FInv, FramesOK
<1>6. Aged(gpu, fence, fenceValues, frame, current, Making, BufferCount - 1)
  BY <1>4 DEF FInv, FramesOK
<1>7. Aged(Append(gpu, c), fence, [fenceValues EXCEPT ![current] = fenceValue + 1],
           frame + 1, (current + 1) % BufferCount, FALSE, BufferCount)
  BY <1>3, <1>6, AgedSignal DEF FInv, IInv, QueueOK
<1>8. Aged(gpu', fence', fenceValues', Upcoming', current', Making', Back')
  BY <1>1, <1>2, <1>4, <1>5, <1>7
<1>  QED BY <1>1, <1>5, <1>8 DEF FramesOK

LEMMA WaitFrames ==
  ASSUME SwapChainAssumption, FInv, WaitForFenceValue PROVE FramesOK'
<1>1. /\ pc = "wait" /\ pc' = "release" /\ fenceValues[current] <= fence
      /\ UNCHANGED <<current, fenceValues, dxgiIndex, gpu, fence, frame>>
  BY Numbers DEF WaitForFenceValue, IsFenceComplete, queueVars, FInv, IInv
<1>2. /\ Upcoming' = Upcoming /\ Making = FALSE /\ Making' = FALSE
      /\ Back = BufferCount /\ Back' = BufferCount - 1
  BY <1>1 DEF Upcoming, Back, Making
<1>3. Aged(gpu, fence, fenceValues, Upcoming, current, FALSE, BufferCount)
  BY <1>2 DEF FInv, FramesOK
<1>4. Aged(gpu, fence, fenceValues, Upcoming, current, FALSE, BufferCount - 1)
  BY <1>1, <1>3, AgedReached, Numbers, FrameNumbers DEF FInv, IInv
<1>5. Aged(gpu', fence', fenceValues', Upcoming', current', Making', Back')
  BY <1>1, <1>2, <1>4
<1>  QED BY <1>1, <1>5 DEF FInv, FramesOK

LEMMA GpuFrames ==
  ASSUME SwapChainAssumption, FInv, Gpu PROVE FramesOK'
<1>1. /\ gpu # <<>> /\ gpu' = Tail(gpu)
      /\ fence' = IF IsSignal(Head(gpu)) THEN Head(gpu).value ELSE fence
      /\ UNCHANGED <<pc, current, fenceValues, dxgiIndex, frame>>
  BY DEF Gpu, IsSignal
<1>2. Upcoming' = Upcoming /\ Back' = Back /\ Making' = Making
  BY <1>1 DEF Upcoming, Back, Making
<1>3. /\ gpu \in Seq(Commands) /\ fence \in Nat /\ Upcoming \in Nat
      /\ Ordered(gpu, fence, fenceValue)
      /\ Aged(gpu, fence, fenceValues, Upcoming, current, Making, Back)
  BY Numbers, FrameNumbers DEF FInv, FramesOK, IInv, QueueOK
<1>4. Aged(gpu', fence', fenceValues, Upcoming, current, Making, Back)
  BY <1>1, <1>3, AgedTake
<1>  QED BY <1>1, <1>2, <1>4 DEF FInv, FramesOK

\* The steps that leave the queue and the buffers alone.
LEMMA KeptFrames ==
  ASSUME FInv, UNCHANGED <<current, fenceValues, dxgiIndex, gpu, fence>>,
         Upcoming' = Upcoming, Making' = Making, Back' = Back, pc # "signal", pc' # "signal"
  PROVE  FramesOK'
BY DEF FInv, FramesOK

LEMMA ResizeBuffersFrames ==
  ASSUME SwapChainAssumption, FInv, NEW i \in Indices, ResizeBuffers(i) PROVE FramesOK'
<1>1. Len(gpu') = 0 /\ dxgiIndex' = current' /\ pc' = "idle"
  BY NothingLeft DEF FInv, ResizeBuffers, queueVars
<1>  QED BY <1>1 DEF FramesOK, Aged

LEMMA OtherFrames ==
  ASSUME SwapChainAssumption, FInv,
         \/ ReleaseStaleDescriptors \/ Flush \/ FlushReturn \/ \E s \in Sizes : Resize(s)
         \/ FreeDescriptors \/ Recycle \/ UNCHANGED vars
  PROVE  FramesOK'
<1>1. CASE ReleaseStaleDescriptors
  BY <1>1, KeptFrames DEF ReleaseStaleDescriptors, queueVars, Upcoming, Making, Back
<1>2. CASE Flush
  BY <1>2, KeptFrames DEF Flush, queueVars, Upcoming, Making, Back
<1>3. CASE FlushReturn
  BY <1>3, KeptFrames DEF FlushReturn, queueVars, Upcoming, Making, Back
<1>4. CASE \E s \in Sizes : Resize(s)
  BY <1>4, KeptFrames DEF Resize, queueVars, Upcoming, Making, Back
<1>5. CASE FreeDescriptors \/ Recycle \/ UNCHANGED vars
  <2>1. UNCHANGED <<pc, current, fenceValues, dxgiIndex, gpu, fence, frame>>
    BY <1>5 DEF FreeDescriptors, Recycle, vars, queueVars
  <2>  QED BY <2>1 DEF FInv, FramesOK, Upcoming, Making, Back
<1>  QED BY <1>1, <1>2, <1>3, <1>4, <1>5

LEMMA FramesNext == SwapChainAssumption /\ FInv /\ [Next]_vars => FInv'
<1> SUFFICES ASSUME SwapChainAssumption, FInv, [Next]_vars PROVE FramesOK'
  BY NextInv DEF FInv
<1>1. CASE OnRender
  BY <1>1, ExecuteFrames DEF OnRender
<1>2. CASE Present
  BY <1>2, ExecuteFrames DEF Present
<1>  QED BY <1>1, <1>2, ShowFrames, SignalFrames, WaitFrames, GpuFrames, ResizeBuffersFrames,
            OtherFrames DEF Next, Calls

\* The frames on the queue and the buffers' turns, along with the invariant
\* above.
THEOREM FramesInvariance == Spec => []FInv
<1>1. Init => FInv
  BY SwapChainAssumption, InitInv, FramesInit DEF FInv
<1>2. FInv /\ [Next]_vars => FInv'
  BY SwapChainAssumption, FramesNext
<1>  QED BY <1>1, <1>2, PTL DEF Spec

\* When a frame begins, the GPU is less than BufferCount frames behind.
THEOREM FewFramesInFlight == Spec => []FramesInFlight
<1>1. FInv => FramesInFlight
  <2> SUFFICES ASSUME SwapChainAssumption, FInv, pc = "idle"
               PROVE  Cardinality({gpu[j].frame : j \in DOMAIN gpu}) < BufferCount
    BY SwapChainAssumption DEF FramesInFlight
  <2> DEFINE Left == {gpu[j].frame : j \in DOMAIN gpu}
             First == frame - BufferCount + 1
             Last == frame - 1
  <2>1. DOMAIN gpu = 1..Len(gpu) /\ \A j \in 1..Len(gpu) : gpu[j].frame \in Nat
    BY Numbers, FramesOfCommands DEF FInv, IInv
  <2>2. frame \in Nat /\ BufferCount \in Nat /\ BufferCount > 0
    BY FrameNumbers DEF FInv, IInv
  <2>3. \A j \in 1..Len(gpu) : gpu[j].frame < frame /\ frame - gpu[j].frame <= BufferCount - 1
    BY DEF FInv, FramesOK, Aged, Upcoming, Making, Back
  <2>4. Left \subseteq First..Last
    BY <2>1, <2>2, <2>3
  <2>5. First \in Int /\ Last \in Int
    BY <2>2
  <2> HIDE DEF Left, First, Last
  <2>6. /\ IsFiniteSet(First..Last)
        /\ Cardinality(First..Last) = IF First > Last THEN 0 ELSE Last - First + 1
    BY <2>5, FS_Interval
  <2>7. IsFiniteSet(Left) /\ Cardinality(Left) <= Cardinality(First..Last)
    BY <2>4, <2>6, FS_Subset
  <2>8. Cardinality(First..Last) < BufferCount
    BY <2>2, <2>6 DEF First, Last
  <2>9. Cardinality(Left) \in Nat /\ Cardinality(First..Last) \in Nat
    BY <2>6, <2>7, FS_CardinalityType
  <2>10. Cardinality(Left) < BufferCount
    BY <2>2, <2>7, <2>8, <2>9
  <2>  QED BY <2>10 DEF Left
<1>  QED BY <1>1, FramesInvariance, PTL

=============================================================================
