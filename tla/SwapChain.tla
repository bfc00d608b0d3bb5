------------------------------ MODULE SwapChain ------------------------------
(***************************************************************************)
(* DX12Lib's SwapChain (SwapChain.cpp) as the window's thread uses it: a   *)
(* frame is rendered to the current back buffer and presented, and between *)
(* two frames the window may be resized.                                   *)
(*                                                                         *)
(* The window's thread is the only one that submits to the direct queue.   *)
(* What it needs of CommandQueue is used as CommandQueue promises it: a    *)
(* list that is executed is followed by a signal, stays in flight until    *)
(* that signal's value is completed, and Flush waits for all of them.      *)
(* WaitForSwapChain returns when DXGI lets it or after a second, nobody    *)
(* looks at which, and it changes nothing: it has no action here.          *)
(***************************************************************************)
EXTENDS Naturals, Sequences, FiniteSets

CONSTANTS
  BufferCount,  \* SwapChain::BufferCount
  Sizes,        \* the pairs of a width and a height the window takes
  MaxFrames,    \* bound on the frames that are rendered
  MaxResizes    \* bound on the times the buffers are resized

ASSUME SwapChainAssumption ==
  /\ BufferCount \in Nat \ {0}
  /\ Sizes \subseteq Nat \X Nat
  /\ MaxFrames \in Nat
  /\ MaxResizes \in Nat

VARIABLES
  pc,           \* how far the window's thread is; "idle" between two calls
  size,         \* m_Width, m_Height
  current,      \* m_CurrentBackBufferIndex
  fenceValues,  \* m_FenceValues
  attached,     \* the back buffer that is attached to m_RenderTarget
  generation,   \* of m_BackBufferTextures: a resize replaces all of them
  dxgiIndex,    \* what GetCurrentBackBufferIndex returns
  gpu,          \* the commands that are left on the direct queue
  fenceValue,   \* the direct queue's m_FenceValue
  fence,        \* its completed value
  inFlight,     \* the direct queue's m_InFlightCommandLists
  frame,        \* the number of the frame, for reference
  stale         \* the frames in which the stale descriptors were freed

queueVars == <<gpu, fenceValue, fence, inFlight>>
vars == <<pc, size, current, fenceValues, attached, generation, dxgiIndex, queueVars, frame, stale>>

Indices     == 0..(BufferCount - 1)
BackBuffers == [generation : Nat, index : Indices]
NoBuffer    == [generation |-> 0, index |-> BufferCount]

BackBuffer == [generation |-> generation, index |-> current]

Command(op, b, v) == [op |-> op, buffer |-> b, value |-> v, frame |-> frame]
Commands ==
  [op : {"execute", "present"}, buffer : BackBuffers, value : {0}, frame : Nat]
    \cup [op : {"signal"}, buffer : {NoBuffer}, value : Nat, frame : Nat]

TypeOK ==
  /\ pc \in {"idle", "present", "show", "signal", "wait", "release",
             "flush", "flushWait", "resize"}
  /\ size \in Nat \X Nat
  /\ current \in Indices
  /\ fenceValues \in [Indices -> 0..fenceValue]
  /\ attached \in BackBuffers \cup {NoBuffer}
  /\ generation \in Nat
  /\ dxgiIndex \in Indices
  /\ gpu \in Seq(Commands)
  /\ fenceValue \in Nat
  /\ fence \in 0..fenceValue
  /\ inFlight \in Seq([fence : Nat, buffer : BackBuffers])
  /\ frame \in Nat
  /\ stale \subseteq Nat

Init ==
  /\ pc = "idle"
  /\ size \in Sizes
  /\ dxgiIndex \in Indices
  /\ current = dxgiIndex
  /\ fenceValues = [i \in Indices |-> 0]
  /\ attached = NoBuffer
  /\ generation = 0
  /\ gpu = <<>>
  /\ fenceValue = 0
  /\ fence = 0
  /\ inFlight = <<>>
  /\ frame = 0
  /\ stale = {}

-----------------------------------------------------------------------------
(* The direct queue.  A definition that ends in _mutant is a slip one could *)
(* make in the code; no specification uses it.                              *)

IsFenceComplete_mutant(v) == fence + 1 >= v
IsFenceCompleteLate_mutant(v) == fence > v
IsFenceComplete(v) == fence >= v

\* A list that uses the current back buffer, and the signal behind it.
Execute ==
  /\ fenceValue' = fenceValue + 1
  /\ gpu' = gpu \o << Command("execute", BackBuffer, 0), Command("signal", NoBuffer, fenceValue') >>
  /\ inFlight' = Append(inFlight, [fence |-> fenceValue', buffer |-> BackBuffer])
  /\ UNCHANGED fence

\* The recycling thread resets a list, which held references to what it uses.
Recycle ==
  /\ inFlight # <<>>
  /\ IsFenceComplete(Head(inFlight).fence)
  /\ inFlight' = Tail(inFlight)
  /\ UNCHANGED <<pc, size, current, fenceValues, attached, generation, dxgiIndex,
                 gpu, fenceValue, fence, frame, stale>>

\* The GPU has come to the end of its next command.
Gpu ==
  /\ gpu # <<>>
  /\ gpu' = Tail(gpu)
  /\ fence' = IF Head(gpu).op = "signal" THEN Head(gpu).value ELSE fence
  /\ UNCHANGED <<pc, size, current, fenceValues, attached, generation, dxgiIndex,
                 fenceValue, inFlight, frame, stale>>

-----------------------------------------------------------------------------
(* A frame.  Whether it shows a scene or a loading screen, OnRender fills   *)
(* the current back buffer, and Present shows it.                           *)

\* Bound: MaxFrames frames.
OnRender ==
  /\ pc = "idle"
  /\ frame < MaxFrames
  /\ attached' = BackBuffer
  /\ Execute
  /\ pc' = "present"
  /\ UNCHANGED <<size, current, fenceValues, generation, dxgiIndex, frame, stale>>

Present ==
  /\ pc = "present"
  /\ Execute
  /\ pc' = "show"
  /\ UNCHANGED <<size, current, fenceValues, attached, generation, dxgiIndex, frame, stale>>

\* DXGI's Present: the buffers of a flip-model swap chain take turns.
Show ==
  /\ pc = "show"
  /\ gpu' = Append(gpu, Command("present", BackBuffer, 0))
  /\ dxgiIndex' = (dxgiIndex + 1) % BufferCount
  /\ pc' = "signal"
  /\ UNCHANGED <<size, current, fenceValues, attached, generation,
                 fenceValue, fence, inFlight, frame, stale>>

\* What Present remembers as the fence value of the buffer.
Signalled_mutant == fenceValue
SignalledAhead_mutant == fenceValue + 2
Signalled == fenceValue + 1

Signal ==
  /\ pc = "signal"
  /\ fenceValue' = fenceValue + 1
  /\ gpu' = Append(gpu, Command("signal", NoBuffer, fenceValue'))
  /\ fenceValues' = [fenceValues EXCEPT ![current] = Signalled]
  /\ current' = dxgiIndex
  /\ pc' = "wait"
  /\ UNCHANGED <<size, attached, generation, dxgiIndex, fence, inFlight, frame, stale>>

WaitForFenceValue ==
  /\ pc = "wait"
  /\ IsFenceComplete(fenceValues[current])
  /\ pc' = "release"
  /\ UNCHANGED <<size, current, fenceValues, attached, generation, dxgiIndex,
                 queueVars, frame, stale>>

ReleaseStaleDescriptors ==
  /\ pc = "release"
  /\ stale' = {}
  /\ frame' = frame + 1
  /\ pc' = "idle"
  /\ UNCHANGED <<size, current, fenceValues, attached, generation, dxgiIndex, queueVars>>

\* Views are destroyed on this thread and on others, at any time.
FreeDescriptors ==
  /\ frame \notin stale
  /\ stale' = stale \cup {frame}
  /\ UNCHANGED <<pc, size, current, fenceValues, attached, generation, dxgiIndex,
                 queueVars, frame>>

-----------------------------------------------------------------------------
(* Resize, between two frames.                                              *)

AtLeast1(n) == IF n = 0 THEN 1 ELSE n

\* Bound: MaxResizes.
Resize(s) ==
  /\ pc = "idle"
  /\ generation < MaxResizes
  /\ size # s
  /\ size' = <<AtLeast1(s[1]), AtLeast1(s[2])>>
  /\ pc' = "flush"
  /\ UNCHANGED <<current, fenceValues, attached, generation, dxgiIndex, queueVars, frame, stale>>

\* Device::Flush: the lists have been recycled, and ...
Recycled_mutant == TRUE
Recycled == inFlight = <<>>

Flush ==
  /\ pc = "flush"
  /\ Recycled
  /\ pc' = "flushWait"
  /\ UNCHANGED <<size, current, fenceValues, attached, generation, dxgiIndex,
                 queueVars, frame, stale>>

\* ... the last fence value has been reached.
FlushReturn ==
  /\ pc = "flushWait"
  /\ IsFenceComplete(fenceValue)
  /\ pc' = "resize"
  /\ UNCHANGED <<size, current, fenceValues, attached, generation, dxgiIndex,
                 queueVars, frame, stale>>

\* The references to the old buffers are dropped, DXGI makes new ones and
\* says which of them comes first.  m_FenceValues keeps what it has.
DropAttached == NoBuffer

ResizeBuffers(i) ==
  /\ pc = "resize"
  /\ attached' = DropAttached
  /\ generation' = generation + 1
  /\ dxgiIndex' = i
  /\ current' = i
  /\ pc' = "idle"
  /\ UNCHANGED <<size, fenceValues, queueVars, frame, stale>>

-----------------------------------------------------------------------------
Calls ==
  \/ Present \/ Show \/ Signal \/ WaitForFenceValue \/ ReleaseStaleDescriptors
  \/ Flush \/ FlushReturn
  \/ \E i \in Indices : ResizeBuffers(i)

Next ==
  \/ OnRender
  \/ \E s \in Sizes : Resize(s)
  \/ Calls
  \/ FreeDescriptors
  \/ Recycle
  \/ Gpu

Spec == Init /\ [][Next]_vars

(* A call goes on, the GPU works off its queue, and the recycling thread   *)
(* loops.                                                                  *)
Fairness == WF_vars(Calls) /\ WF_vars(Gpu) /\ WF_vars(Recycle)

FairSpec == Spec /\ Fairness

-----------------------------------------------------------------------------
(* Properties.                                                             *)

Uses(b) == {j \in DOMAIN gpu : gpu[j].op # "signal" /\ gpu[j].buffer = b}

\* When a frame begins, the GPU has done with the back buffer it goes to:
\* m_FenceValues has the value of the buffer's last use, also after a resize
\* that starts the buffers over (SwapChain.cpp:142, 179-184).
BackBufferIdle == pc = "idle" => Uses(BackBuffer) = {}

\* The GPU is less than BufferCount frames behind, which is the latency that
\* is asked of DXGI (SwapChain.cpp:91), even if the wait for it times out.
FramesInFlight ==
  pc = "idle" => Cardinality({gpu[j].frame : j \in DOMAIN gpu}) < BufferCount

\* No back buffer outlives a resize: neither a command that is still to be
\* executed, nor a list in flight, nor the render target refers to an old
\* one (SwapChain.cpp:127-135).
OldBuffersAreGone ==
  /\ \A j \in DOMAIN gpu : gpu[j].op # "signal" => gpu[j].buffer.generation = generation
  /\ \A k \in DOMAIN inFlight : inFlight[k].buffer.generation = generation
  /\ attached # NoBuffer => attached.generation = generation

\* Present and Resize return: they never wait for a value that is not
\* signalled.
CallsReturn == pc # "idle" ~> pc = "idle"

\* What DescriptorAllocatorPage.h:110-111 says: "Stale descriptors are queued
\* for release until the frame that they were freed has completed."
StaleFramesCompleted ==
  pc = "release" => \A j \in DOMAIN gpu : gpu[j].frame \notin stale

=============================================================================
