# DX12Lib in TLA+

A formal model of the engine in this repository: the rendering library
`DX12Lib`, the `GameFramework` it runs in and the sample that uses both. The
code is C++ on Direct3D 12; what is modelled is its own logic - who may touch
which command list, descriptor or flag, and when - not the GPU's work.

Contents: [the system](#the-system), [the modules](#the-modules),
[the runs](#the-runs), [fairness](#fairness), [the proofs](#the-proofs),
[what is not modelled](#what-is-not-modelled), [the plan](#the-plan).

## The system

Three kinds of threads meet in a program that uses the library:

* the **window's thread** handles messages, updates and renders
  (`GameFramework::Run`, `DirectX12Engine::OnUpdate`, `OnRender`, `OnResize`);
* a **loading task** (`std::async` in `LoadContent` and `OpenFile`) reads a
  scene from a file and records its upload on the copy queue;
* each of the three `CommandQueue`s of a `Device` has a **recycling thread**
  (`ProccessInFlightCommandLists`).

Beside them the **GPU** executes each D3D12 queue in order, the queues
independently of each other, and the **directory watcher** of `GameFramework`
has a thread of its own.

| Component | State | Operations | Talks to | What makes it correct |
|---|---|---|---|---|
| `CommandQueue` | lists in flight and available, fence and its last value, a mutex and condition variable, the thread's flag | `GetCommandList`, `ExecuteCommandLists`, `Signal`, `Wait`, `WaitForFenceValue`, `Flush`, the recycling thread | GPU (commands, fences), `CommandList`, `ResourceStateTracker`, the other queues | a list is in one place, is not reused while the GPU has it, comes back in the end; `Flush` returns and means it |
| `CommandList` | what it records; a compute list for mips; upload pages and descriptor heaps it owns | recording, `Close`, `Reset`, `GenerateMips`, `LoadSceneFromFile` | `CommandQueue`, `ResourceStateTracker`, `UploadBuffer`, `DynamicDescriptorHeap` | what it references lives until it is reset |
| `ResourceStateTracker` | per list: pending barriers, barriers, final states; global: last committed state of each resource, mutex and flag | `ResourceBarrier`, `Flush*`, `CommitFinalResourceStates`, `Lock`, `Unlock` | command lists, in the order in which they are executed | the state before a barrier is the state the resource is in when the GPU gets there |
| `DescriptorAllocator` | pages, set of pages with room; per page: free list, count, stale descriptors | `Allocate`, `Free` (a destructor, on any thread), `ReleaseStaleDescriptors` | `Device`, `SwapChain` (once a frame), views | no descriptor in two hands or lost; free blocks merge; room is found |
| `SwapChain` | back buffers, current index, a fence value per buffer | `Present`, `Resize`, `GetRenderTarget` | direct `CommandQueue`, `Device::Flush`, DXGI | a back buffer is not rendered to while the GPU still has it |
| `UploadBuffer` | pool of pages, available pages, current page | `Allocate`, `Reset` | `CommandList` | allocations are aligned, inside a page and do not overlap |
| `DynamicDescriptorHeap` | staged handles per root table, pool of heaps, stale tables | `StageDescriptors`, `CommitDescriptorTables`, `ParseRootSignature`, `Reset` | `CommandList`, `RootSignature` | a draw sees what was staged last, a heap is not overfull |
| `EffectPSO`, `SceneVisitor` (sample) | what an effect has to bind, with a flag for each that is dirty | setters, `Apply`, `Visit` | `CommandList`, `RootSignature` | a draw finds its own matrices, material and lights bound |
| `DirectX12Engine` (sample) | list of assets, selected entity, loading flags and task | `LoadContent`, `LoadScene`, `OpenFile`, `OnUpdate`, `OnRender`, `OnResize`, keys | all of the above | the loading task and the window's thread do not trip over each other |
| Scene tree | nodes with parents and children | `AddChild`, `RemoveChild`, `SetParent` | sample, import | parent and child agree |
| `ReadDirectoryChanges` | outstanding requests, bounded queue of notifications with its semaphore | `AddDirectory`, completion, `Push`, `Pop`, `CheckOverflow`, `Terminate` | `GameFramework::CheckFileChanges` | notifications come out once and in order; overflow is noticed |
| Window and message loop | size, pointer and focus state, handlers | message handlers | sample | the events the handlers raise are consistent |

Hard to test in this code: everything that depends on how far the GPU or
another thread has got. The code holds no lock across `Empty` and `TryPop`,
releases a mutex before it clears the flag it protects, waits on a condition
variable for another thread and for the GPU with the same mutex held, orders
work on two queues by a fence value, and frees objects on whichever thread
drops the last reference. `PROJECT.json` lists these points, line by line,
under `hazards`.

## The modules

### `CommandQueue`

The three queues of a device, their recycling threads, the GPU behind each and
any number of application threads.

| Code | Model |
|---|---|
| `m_InFlightCommandLists`, `m_AvailableCommandLists` | sequences `inFlight[q]`, `available[q]`; a `ThreadSafeQueue` operation is one step |
| `m_d3d12CommandQueue` | `gpu[q]`: sequence of *execute list*, *signal value*, *wait for another queue's value* |
| `m_d3d12Fence`, `m_FenceValue` | `fence[q]` (completed value) and `fenceValue[q]` |
| mutex, condition variable | `mutex[q]`, and the threads that are in state `"sleep"` |
| `ms_GlobalMutex`, `ms_IsLocked` | `lockOwner`, `isLocked` |
| local variables of a call | `queue`, `slot`, `held`, `toBeQueued`, `signalled`, `toFlush` of the thread |

A call is a sequence of steps of its thread, cut where another thread can see
or change something: `GetCommandList` looks at the queue in one step and pops
in the next; `ExecuteCommandLists` locks the tracker, obtains the list for the
pending barriers, closes and submits, increments the fence value, signals it,
unlocks the mutex, clears the flag, and pushes the lists in flight one by one;
`Flush` tests the condition, sleeps or goes on to wait for the fence. The
recycling thread locks, pops, waits for the fence and recycles until the queue
is empty, unlocks and notifies.

What a command list records is abstracted to whether it carries a list that
generates mips (`CommandList::GenerateMips` on a copy list obtains one from the
compute queue); that list is executed after the copy list, by a nested
`ExecuteCommandLists`, behind a GPU-side wait. Every caller in the repository
passes one list, so the loop over `commandLists` has one round. Whether there
are pending barriers is a free choice.

`lastFence`, `copyFence` and `place` are history: what a thread was given back,
which copy fence a mip list was queued behind, and which container has a list.
They guard nothing.

Spurious wake-ups of the condition variable are not modelled: the thread would
test the predicate, find what it found before, and sleep again.

### `MCCommandQueue`

Instances for TLC: which threads there are and which queues they submit to.
In the sample the window's thread uses the direct queue once it runs and the
loading task the copy queue; while the program starts, `GUI`, `LoadContent` and
the loading task use the copy queue at the same time.

### `CommandQueue_proofs`

The theorems about `CommandQueue`; see [the proofs](#the-proofs).
`CommandQueueFences_proofs` has those about its fence values, over the first
one's invariant. The other `_proofs` modules stand in the same way beside the
component they are named after.

### `DescriptorAllocator`, `DescriptorPool`

One allocator (the device has four, which share nothing), its pages, and the
allocations that are out.

| Code | Model |
|---|---|
| `m_HeapPool`, `m_AvailableHeaps`, `m_NumDescriptorsPerHeap` | `heapPool` (pages are numbered in the order of creation), `available`, `perHeap` |
| `m_FreeListByOffset`, `m_FreeListBySize` | one set of blocks per page, `freeList[p]`, searched by offset and by size |
| `m_NumFreeHandles`, `m_NumDescriptorsInHeap`, `m_StaleDescriptors` | `numFree[p]`, `numDescriptors[p]`, `stale[p]` |
| the `DescriptorAllocation`s that are not null | `live` |
| who holds the allocator's mutex, and its loop variable | `call` |

`Allocate` visits one page a step (`AllocateFromPage`, `SkipPage`), because a
page has a mutex of its own and a destructor may free into it in between, and
creates a page when none has room. `ReleaseStaleDescriptors` locks one page
after the other and frees its stale blocks one by one, while frees go to other
pages. The blocks of a page that have the same size are interchangeable for
`lower_bound`, so which one it finds is a free choice. That the stale
descriptors of a page are a queue matters to nobody: they are all released, in
a call during which the page is locked; `stale[p]` is a set.

`DescriptorPool` is the promise: a descriptor is unused, used or stale, one is
handed out only if it is unused, and becomes unused only after it was stale.
The refinement maps the free blocks to the unused descriptors, the live
allocations to the used ones, the stale blocks to the stale ones. A page splits
and merges blocks; the pool knows none.

### `SwapChain`, `MCSwapChain`

The window's thread as it renders and presents frames and resizes, with the
ring of fence values.

| Code | Model |
|---|---|
| `m_CurrentBackBufferIndex`, `m_FenceValues`, `m_Width`, `m_Height` | `current`, `fenceValues`, `size` |
| `m_BackBufferTextures` | `generation`: a resize replaces all of them; a buffer is a generation and an index |
| the texture in `m_RenderTarget` | `attached` |
| `GetCurrentBackBufferIndex` | `dxgiIndex`; a flip-model swap chain takes its buffers in turn, and after `ResizeBuffers` starts with any |
| the direct queue | `gpu`, `fenceValue`, `fence`, `inFlight`: a coarser `CommandQueue`, as only this thread submits to it |

The steps of `Present` are its calls: execute the list that makes the buffer
presentable, DXGI's `Present`, `Signal`, `WaitForFenceValue`,
`ReleaseStaleDescriptors`. `Resize` flushes in the two steps of
`CommandQueue::Flush` and then lets go of the old buffers. That `Flush` drains
the queue is what `CommandQueue` shows of it. `WaitForSwapChain`
bounds the latency when DXGI keeps its promise; as its timeout is ignored, it
is left out, and `FramesInFlight` shows that the ring alone bounds it.

### `ResourceStateTracker`, `MCResourceStateTracker`

The trackers of lists that are recorded at the same time and executed in any
order on one queue, and the resources they name.

| Code | Model |
|---|---|
| `ms_GlobalResourceState`, `ms_GlobalMutex` | `global`, `owner` |
| `m_PendingResourceBarriers`, `m_ResourceBarriers`, `m_FinalResourceState` | `pending[l]`, `barriers[l]`, `final[l]` |
| `ResourceState` with its map of subresources | a record of `state` and `sub` |
| the D3D12 list, and the one for the pending barriers | `commands[l]`, `before[l]` |
| `m_TrackedObjects` | the resources in `asked[l]`, which also remembers what the caller asked for last of each subresource |
| the queue, and the states the resources are in | `gpu`, `actual` |

`ResourceBarrier`, `Use` (a draw, a dispatch or a copy, with the flush in front
of it) and `Reset` are one step each. `Close` is what `ExecuteCommandLists`
does from `Lock` to `CommitFinalResourceStates`, `Submit` the rest of its
critical section; lists go on being recorded, and resources being destroyed,
between the two. A resource can be destroyed when no list refers to it, and its
address used again: its entry in `global` stays, as in the code.

The barriers that a pending barrier for all subresources resolves to name
different subresources, so the order in which the flush adds them does not matter
and the model takes any.

Two things the callers do are part of the model, in `MayAsk`. They ask for all
subresources of a resource, or for the only one (`ResolveSubresource`); the
exception is `GenerateMips`, which asks for the mips of a texture one by one.
That texture was created in the common state for the list that asks, so the
barrier from `D3D12_RESOURCE_STATE_COMMON` that a second subresource gets is
right. A list that mixed the two ways, or a texture in another state, would
get wrong barriers; no caller in the repository does that. The properties and
the theorems about barriers hold under this discipline and would not show what
becomes of a caller that breaks it.

Left out are UAV and aliasing barriers, which change no state, and Direct3D's
implicit promotion and decay of states, with them what becomes of a resource
that one queue has written and another reads.

### `CommandList`, `UploadBuffer`, `DynamicDescriptorHeap`, `MCCommandList`

One list as it is recorded, executed and reset, with what it owns.
`UploadBuffer` and `DynamicDescriptorHeap` define the operations of the two
classes on their state; `CommandList` extends both and makes its actions of
them.

| Code | Model |
|---|---|
| `m_PagePool`, `m_AvailablePages`, `m_CurrentPage`, `m_Offset` | `pagePool`, `availablePages`, `currentPage`, `offset[p]`; what is in a page is `memory[p]` |
| `m_DescriptorTableCache`, `m_DescriptorHandleCache` | `tables` (number and base), `cache` |
| the bit masks | the sets `tableMask`, `staleTables`, `staleInline` |
| `m_DescriptorHeapPool`, `m_AvailableDescriptorHeaps`, `m_CurrentDescriptorHeap` | `heapPool`, `availableHeaps`, `currentHeap`; what is in a heap is `heaps[h]` |
| both current handles, `m_NumFreeHandles` | `handle`, `numFree` |
| `m_RootSignature`, `m_DescriptorHeaps` | `rootSignature`, `descriptorHeap` |
| the D3D12 list | `bound`: where it looks for each root parameter and for vertices |

The GPU reads heaps and upload pages when the list is executed, after all of it
has been recorded. So the model keeps with every draw what its caller had set
for each parameter (`staged`) and where the draw will look (`reads`), and
`DrawsSeeTheirParameters` says, of every later state of the recording, that
the one is to be found at the other. Each descriptor, address or datum is new
(`Fresh`), so a place that is used twice, or a table left in another heap, is
noticed. The loop in `Draw` that runs over the heaps inside another one
(`CommandList.cpp:1594-1595`) commits several times, and nothing is stale after
the first.

A caller sets every parameter before it draws, and draws with what it staged
inline before it changes the signature. One type of descriptor heap and one
kind of inline descriptor stand for the others, which are handled alike; draws,
constants and vertices stand for dispatches, structured buffers and indices,
and a signature for graphics for one for compute: they differ in the D3D12 call
they end in. `CopyDescriptor` has no caller in the repository; `UseDescriptor`
is what one would be. Root indices are below `MaxDescriptorTables` (32 in the
code). The theorems are in `CommandList_proofs`.

### `DirectoryWatcher`, `MCDirectoryWatcher`

From the file system to the `FileChanged` event: the worker's thread of
`CReadDirectoryChanges`, the bounded `CThreadSafeQueue` it fills, the listener
of `GameFramework` that empties it, and the main thread that registers
directories and destroys the framework. Nothing in the repository calls
`RegisterDirectoryChangeListener`; the model has the callers it allows.

| Code | Model |
|---|---|
| the calls queued for the worker (`QueueUserAPC`, completion routines) | the sequence `apcs` |
| `m_pBlocks`, `m_nOutstandingRequests`, `m_bTerminate` | `blocks`, `outstanding`, `terminated`; `reading` is what `CancelIo` would abort |
| `m_BackupBuffer` | `toPush`, what is left of it |
| the list, `m_hSemaphore`, `m_bOverflow` | `queue`, `semaphore`, `overflow` |
| `m_bTerminateDirectoryChangeThread` | `stopListener` |
| where a thread is in `push`, `CheckFileChanges`, the destructor | `worker`, `listener`, `main` |

`push` is cut where its lock ends and at each later access, `CheckFileChanges`
at each call it makes. The mutex the listener holds from the top of its loop to
the end of its pause is in its control state: `Register` is possible only at the
top. Taking back an entry is done without the lock: on an empty list, or while the
listener takes something from it, the result is undefined, and
`"crashed"` stands for a damaged list. The ten seconds of `Terminate` are
enough for what the worker has to do; they pass only when nothing more will
happen (`TimedOut`). A read completes with one or two changes, or without data,
as when its buffer was too small. The changes that reads report are numbered; what a read
without data loses has no number. `raised`, `known` (the changes that were raised or
that an overflow has told of) and `surplus` are history.
The theorems are in `DirectoryWatcher_proofs`.

### `GenerateMips`

The loop of `CommandList::GenerateMips_UAV`. A state is the texture, the level
`srcMip` the next pass reads, and `source`, the level each written level was
made from. `Pass` is one round of the loop: `BitScanForward` of the sizes of
the first level it writes, the minimum with 4, the clamp to the levels that
are left. The sizes are shifted as in the code, to 0 where one dimension is
used up before the other; `SizeOf` is `std::max( 1, ... )`. When both operands of the
mask are zero `_BitScanForward` leaves `mipCount` alone, which has no value
then: `Uninitialised` is what the DWORD may hold. A shift is a halving repeated
(`Shifted`), as far as a size of `MaxExtent` has bits. What the shader does with a
level, and the descriptors of a pass (those are `CommandList`), are left out.

A list draws or generates mips (`MCCommandList`): the compute list a copy list obtains
for its mips does nothing else.

### `EffectPSO`

The effects of the sample and the visitor that draws a scene with one, as
operators on records: an effect, what is bound in a command list, a rendering.

| Code | Model |
|---|---|
| `m_DirtyFlags` | the set `dirty` |
| `m_pAlignedMVP`, `m_Material`, the lights | `world` and `camera`, `material`, `lights`, each a name for the value |
| what `Apply` sets in the list | `bound`, a value for each root parameter |
| `CommandList::m_RootSignature` | `signature`; another one forgets what was bound |
| `SceneNode::Accept`, `Scene::Accept`, `Visit` | folds over nodes and meshes |
| a draw | what was bound when it was recorded |

`Apply` binds what is dirty and clears the flags, but the list it binds in is
new in every frame, and another effect may set its own signature in between. So
it matters which flags the visitor sets again before each draw. The lights are
set once a frame, the material and the world matrix for every mesh and node.

### `DirectX12Engine`, `MCDirectX12Engine`

The sample's window thread (`LoadContent`, the events, the frame, the end), its
loading tasks, and the copy queue as `CommandQueue` promises it.

| Code | Model |
|---|---|
| where the window's thread is | `window`; `inFrame` remembers who called `OpenFile` |
| the tasks of `std::async` | `task[k]`, `result[k]`; load 1 is `LoadContent`'s, the others are `OpenFile`'s |
| `m_LoadingTask` | `loadingTask`; assigning to it and `get` wait for the task it has |
| `m_IsLoading`, `m_CancelLoading`, `m_ShowFileOpenDialog` | `isLoading`, `cancel`, `showDialog` |
| `m_AssetsList`, `m_Scene`, `m_ModelSelected` | `assets`, `selected`, `selecting` |
| the render target a frame has chosen, its effects, its draws | `offscreen`, `effects`, `draws` |
| commands on the copy queue | `copying`, `copied` |

The scenes `LoadContent` adds are one, `Content`. A task is cut at each access
to what it shares: it sets the flags, reads the file, appends, executes,
flushes, clears the flag. A frame is cut at the three loops over the list and
the two looks at `m_IsLoading`. The frames that the modal file dialog draws
while it is open are frames like others: the model lets them come before
`OpenFile`, whose state they do not see.

What C++ leaves undefined has an outcome of its own. Two threads at the list at
once (`ListRace`) crash or, if both append, may lose an entry. The path of the
file is bound to the task by pointer and freed when the task has been assigned
(`FreePath`, `ReadFreedPath`). A null pointer in the list, which a cancelled or
unreadable load leaves there, ends the program at the next loop over the list.
A frame that has chosen the swap chain's target and then finds the load over
clears a depth buffer that is not there (`CheckLoading`). The exception of a
failed load comes out of `get` when the program ends (`GetTask`). `window =
"crashed"` is all of these; the model shows that they can happen, and the properties
speak of what holds as long as they do not.

`oneSignature` is Direct3D's choice: whether the three equal root signatures of
the effects are one object. `CommandList::SetGraphicsRootSignature` compares objects. `unguarded` is history: the loads that
`m_IsLoading` does not announce to the frame that is being drawn, because they
overlap another load or because they began when the frame had read the flag.

## The runs

| Run | Instance and bounds | Checks | Result |
|---|---|---|---|
| `start_up` | window's thread on the direct and the copy queue (2 operations), loading task on the copy queue (1), 4 lists | `TypeOK`, `OneHolder`, `NoReuseWhileExecuting`, `FenceNeverRegresses` | hold (2,660,000 states) |
| `recycling` | loading task, copy and compute queue, 2 operations, 4 lists, fair | `MipsAfterCopy`, `FlushDrains`, `FlushReturns`, `JoinReturns`, `ListsAreRecycled` | hold (39,000 states) |
| `lock_flag` | window's thread and loading task on the copy queue | `AssertIsLocked` | **violated** |
| `null_command_list` | as `lock_flag`, window's thread with 2 operations | `ObtainsCommandList` | **violated** |
| `mips_after_flush` | loading task, copy and compute queue, 2 operations | `SceneLoadedAfterFlush` | **violated** |
| `pages` | 2 pages made for 2 descriptors, requests of 1, 2 and 3, fair | `TypeOK`, `NoOverlap`, `NoneLost`, `FreeCount`, `Coalesced`, `NoNeedlessPage`, `ImplementsPool`, `StaleAreReleased` | hold (20,000 states) |
| `frames` | 3 buffers as in the code, 5 frames, 2 resizes, one of the sizes empty, fair | `TypeOK`, `BackBufferIdle`, `FramesInFlight`, `OldBuffersAreGone`, `CallsReturn` | hold (167,000 states) |
| `barriers` | 2 lists, a render target and a texture with 2 mips, 2 states, 2 barriers recorded in a list, a queue that is empty when a list is executed | `TypeOK`, `BeforeStatesMatch`, `UsesFindStates`, `GlobalIsLastState` | hold (1,171,000 states) |
| `recording` | tables of 1 and 1 with dynamic constants, a table of 2 with an inline descriptor; 2 heaps of 2 descriptors, 2 pages of 16 bytes, vertices of 3 bytes; 7 calls in a list; textures of 25 widths and heights up to 1024 | `TypeOK`, `DrawsSeeTheirParameters`, `PassesAreExact` | hold (578,000 states) |
| `file_changes` | 2 directories registered in 2 calls, a queue for 2 notifications, 5 changes, up to 2 in a read, fair | `TypeOK`, `CountMatches`, `InOrder`, `NoSilentLoss`, `NotificationsGetOut`, `DestroyReturns` | hold (96,000 states) |
| `sample` | 2 loads, the second of a file that may be broken, a node with an opaque and a transparent mesh, fair | `TypeOK`, `NoLoadIsForgotten`, `DrawsAreBound`, `LoadedBeforeRendered`, `LoadingEnds` | hold (459,000 states) |
| `stale_frames` | 3 buffers, 2 frames | `StaleFramesCompleted` | **violated** |

An operation is a recording that is executed, a flush or (on the direct queue)
a signal. Two operations of a thread on one queue are what it takes for a list
to be obtained, executed, recycled and obtained again, which is where a list
could be reused too early; a second thread is what it takes for two calls to
interleave. Two of the threads in `start_up` meet on the copy queue, so that both see one
available list (`TryPopFails`), and one of them uses two queues. A list stands for what
`CreateCommandList` makes when none is available; in `start_up` and `recycling` a
recording that would need a fifth list waits until one is recycled, in the
other runs there are lists enough.

Requests of one and two on pages of two are the smallest with a split that
leaves something and one that does not; the request of three enlarges the later
pages, which is where a block is freed between two free ones. Five frames go once and a half
round the ring of three buffers, before and after a resize.

In `barriers` two lists are what it takes to execute in another order than to
record; a list has two barriers, which is one pending and one recorded, or two
of either kind. A list may be executed only when the GPU has come to the end of
its queue (`MaxQueue`): the states that a list starts from are those in
`global`, and `GlobalIsLastState` relates those to the end of the queue, not to
where the GPU is, so a longer queue repeats what a short one shows. Two states
are enough to be right and to be wrong. The lists are interchangeable
(`Symmetry`).

In `recording` seven calls are a signature, both of its views, its constants, a
draw, one view again and a draw that needs a second heap; or a draw whose
constants lie between vertices whose size is not a power of two. Root indices
below 4 are all that the two signatures have. A heap that
is just large enough for the largest signature (`ParseRootSignature` asserts as
much) overflows at the second draw; a page has room for three uploads. The
list is reset in every state, and its pages and heaps reused. `CanAllocate`,
`CopyHeap <= MaxHeaps` and `Heap <= MaxHeaps` end what would need a third page
or heap.

In `file_changes` a queue for two overflows at the third change, and two more changes are
what it takes to fill it again after it has been cleared; two
registrations are the same directory twice, or two. `CountMatches` says exactly
when the count and the queue part: when the queue is cleared between a push and
its count. What the count is ahead by makes `Pop` fail, whose result
`CheckFileChanges` ignores, and an event is raised with an uninitialised action.
`NoSilentLoss` follows every change that a read has reported: it is raised, in the
queue or on the way to it, or it was dropped and an overflow was told after that or is
flagged. It does not say that the flag will be told: it may be set when the
count has reached zero, and nothing wakes the listener until the next change. Nor
does it speak of what was never reported: a read that completes without data
loses changes with no flag (`ReadDirectoryChangesPrivate.cpp:105-107`), and its
directory is not read again (below). `DestroyReturns` needs the timeout: a
read that has completed is not aborted by `CancelIo`, so its request is never
counted down.

The textures in `recording` have sizes around the powers of two, odd ones, multiples of 4 and 8
with a rest, and one that is beyond four levels of exact halving; each with
every number of levels it has room for. A dimension of 1 beside a longer one
is what makes the mask empty. An uninitialised DWORD is tried with 2^32 - 1,
which the addition of 1 turns to 0, and with values on both sides of the minimum.

In `sample` two loads are what it takes to overlap and to replace each other in
`m_LoadingTask`. `Broken` allows the second to fail in each way; the first, or
both, would show no more than the crashes do. A node of two meshes and one of one, the axis in
front and a second scene behind, are what it takes for a draw to find what an
earlier draw, of the same node, the same effect or another effect, has left. Frames, selections and cancellations are unbounded.

The runs of `CommandQueue`, `SwapChain`, `DirectoryWatcher` and `DirectX12Engine` turn deadlock checking off: the
bounded instances stop when every thread has made its operations and the queues
are destroyed, all frames are shown, the framework is destroyed, or the sample has ended or crashed, and a thread that was given a null list
stops. The allocator never stops: what is allocated can be freed; nor does the tracker:
a list can be executed and recorded again, and a command list can be reset.

The violated properties are what the code itself says:

* `AssertIsLocked` - `ResourceStateTracker.cpp:139` and `:208` assert that the
  state is locked. `Unlock` releases the mutex and clears the flag afterwards,
  so a thread that gets the mutex in between sets the flag and has it cleared
  under its feet. Release builds do not evaluate the assertion; debug builds of
  a program that loads while it renders can stop there.
* `ObtainsCommandList` - `CommandQueue.h:28-29` says what `GetCommandList`
  returns can be used immediately. Two threads on the copy queue, one list
  available: both see it, one gets it, the other gets a null pointer.
* `SceneLoadedAfterFlush` - `DirectX12Engine.cpp:215` says the flush ensures
  the scene is completely loaded. It flushes the copy queue; the mips are
  generated on the compute queue.
* `StaleFramesCompleted` - `DescriptorAllocatorPage.h:110-111` says stale
  descriptors wait until the frame they were freed in has completed, and
  `Device.h:158` that they are released with a completed frame counter.
  `Present` waits for the fence of the *next* buffer, an older frame, and then
  releases everything, also what was freed during the frame just submitted.

Two more things that the models reach disagree with a comment, and no run
checks them:

* A read that completes without data is not begun again, though
  `ReadDirectoryChangesPrivate.cpp:74` says the call has to be reissued after
  every completion (`NotificationCompletion` with no changes, `:106`). The
  directory stays in `m_pBlocks`, nothing reads it any more, and what is lost
  then and later is neither reported nor flagged; the assertion at `:103` stops
  debug builds only. `NoSilentLoss` does not speak of it.
* One `m_IsLoading` stands for all loads. With Ctrl+O, which does not look at it
  (`DirectX12Engine.cpp:674`), a second load begins while the first runs; the end
  of the first clears the flag, and the frames draw the second scene from the
  moment it is in the list, though `:215` says a scene is loaded before it is
  rendered. So they may with a load that begins when a frame has just found
  that nothing is being loaded. `LoadedBeforeRendered` excepts these loads:
  they are what `unguarded` holds.

## Fairness

`FairSpec` assumes what the code's threads and the GPU do on their own:

* a thread that has begun a call goes on with it, the recycling thread goes on
  looping, and the GPU executes the next command when it can (weak fairness);
* a thread that waits for a mutex which is released again and again gets it in
  the end (strong fairness of `Lock`, `Flush` and `LockInFlight`). The code
  does not queue for its mutexes; that a `std::mutex` does not starve a waiter
  for ever is the assumption without which no program with two threads makes
  progress. The recycling thread yields after each round for the same reason.

For `DescriptorAllocator`, a call that has the mutex goes on (weak fairness),
and the window's thread, which calls `ReleaseStaleDescriptors` in every
`Present`, gets the mutex in the end (strong fairness of `BeginRelease`). For
`SwapChain`, a call that has begun goes on when it can, the GPU works off its
queue and the recycling thread loops (weak fairness).

For `DirectoryWatcher`, the worker and the listener go on when they can, and so
does the main thread once it destroys the framework (weak fairness). The
listener's mutex may starve a registration, so none is assumed to succeed.

For `DirectX12Engine`, a loading task is scheduled and the GPU goes on (weak
fairness), and the program begins. The window's thread need not: its message
loop depends on the messages it gets, and a modal dialog on the user. So
`LoadingEnds` does not lean on a frame.

Nothing makes a thread begin an operation, and nothing makes the program end.

## The proofs

`CommandQueue_proofs` proves, for any set of threads and lists, any assignment
of queues to threads and any number of operations:

| Theorem | Statement |
|---|---|
| `TypeCorrect` | `Spec => []TypeOK` |
| `ListsHaveOneHolder` | `Spec => []OneHolder` |
| `ListsAreNotReused` | `Spec => []NoReuseWhileExecuting` |
| `Invariance` | `Spec => []IInv`, the inductive invariant behind them |

The only assumption is `QueuesAssumption`: the queues are distinct, the special
values are not threads or lists, the functions have the right domains. TLC
evaluates it in each run.

*The argument.* That a list is not reused too early is not inductive: it has
to be known why a list on a GPU queue is safe. `Awaited` says it: for each
command that executes a list there is somebody who has that list and will wait
for a fence value that is signalled behind the command - the thread that has
just submitted it (before or after it has taken the value), an entry of the
in-flight queue, or the entry the recycling thread waits for. `OneHolder` turns
this into "and nobody else has it": when the recycling thread has seen its
fence value, no command of the list is left, and the list can become available.
`FenceValues` (no value is signalled that was not taken) is what keeps the new
value ahead of the completed one; `Control`, `Waiting` and `NewLists` tie the
local variables to the control state. The steps are proved one action at a
time and one conjunct at a time: `TypeStep`, `ControlStep`, `WaitingStep`,
`HolderStep`, `FenceValuesStep` and `AwaitedStep`, with frame lemmas for what
an action leaves alone and lemmas on sequences for what it appends or takes.

`CommandQueueFences_proofs` goes on from there:

| Theorem | Statement |
|---|---|
| `MipsRunAfterCopy` | `Spec => []MipsAfterCopy` |
| `FlushReturnsDrained` | `Spec => FlushDrains` |
| `OrderedFencesGrow` | the completed value of a queue that one thread at a time signals never falls |
| `FencesNeverRegress` | `OneRenderer => (Spec => FenceNeverRegresses)` |
| `FencesInvariance` | `Spec => []FInv`, the inductive invariant behind them |

*The argument.* `FInv` adds to `IInv` who holds the two locks and what that
excludes. `Locked`: a thread in `ExecuteCommandLists` has the tracker's mutex from
the increment of the fence value to its signal, so the signals of a queue are
queued in the order of their values (`Signals`). `Tickets`: a value is handed out
once, so what a thread has executed and given a value is not what another one
pushes in flight. `Mutexes`: the recycling thread has its queue's mutex while it
drains, a flushing thread while it waits; so `Flushed`, which says that none of
the lists it executed is still in flight, covers the entry the worker took out
as well. `MipsWait`: in front of a list that generates mips there is, in the
compute queue, a wait for a copy value that is not less than the copy's own,
unless the copy queue has reached that value (`Behind`).

`CommandQueue::Signal` can also be called from outside, and `SwapChain::Present`
does so on the direct queue. That signal takes no lock; it and the one of an
`ExecuteCommandLists` on another thread may be queued in the opposite order of
their values, and the completed value then falls. `OneRenderer` - at most one
thread uses the direct queue - is what rules it out, a hypothesis of the last
theorem and not an assumption of the module. In the sample it is true:
the direct queue is used by the window's thread only. The other queues need no
such hypothesis (`OrderedFencesGrow`).

`DescriptorAllocator_proofs` proves, for any requests, any size and number of
pages:

| Theorem | Statement |
|---|---|
| `TypeCorrect`, `NoOverlapAlways`, `NoneLostEver`, `FreeCountExact`, `AlwaysCoalesced` | `Spec => []` `TypeOK`, `NoOverlap`, `NoneLost`, `FreeCount`, `Coalesced` |
| `PagesAreNeeded` | `Spec => NoNeedlessPage` |
| `Implements` | `Spec => ImplementsPool`: the allocator implements `DescriptorPool` |
| `Invariance` | `Spec => []IInv` |

It assumes `AllocatorAssumption`: requests and page sizes are positive numbers
up to `MaxIndex`.

*The argument.* `PageInv` says that the blocks of a page are distinct,
pairwise disjoint and cover it, that the count is that of the free list, and
that no two free blocks touch. Splitting a block, and merging a block with what
touches it on either side, are proved to keep that of one page
(`FreeBlock` replaces up to three blocks by one that covers the same
descriptors; coalescing beforehand gives that there is only one on each side).
For `NoNeedlessPage` three more facts are needed: a page with free descriptors
is available or is being swept (`RoomIsFound`), the pages that `Allocate`
has passed have no block for it (`Visited`) - frees in between only add stale
blocks -, and pages that do not exist are empty (`Absent`). With the
invariant, each action maps to one of `DescriptorPool` or to a stutter.

`SwapChain_proofs` proves, for any number of buffers, frames and resizes, from
`SwapChainAssumption`:

| Theorem | Statement |
|---|---|
| `FewFramesInFlight` | `Spec => []FramesInFlight` |
| `FramesInvariance` | `Spec => []FInv`, its inductive invariant |
| `TypeCorrect` | `Spec => []TypeOK` |
| `BackBufferAlwaysIdle` | `Spec => []BackBufferIdle` |
| `OldBuffersGone` | `Spec => []OldBuffersAreGone` |
| `Invariance` | `Spec => []IInv` |

*The argument.* `Ordered`: the values of the signals on the queue increase,
above the completed value. `Guarded`: each command that uses buffer `i` comes
before the signal of a value not above `fenceValues[i]`'s - in terms of the queue,
every signal in front of it has a smaller value - or the
frame is still being made and `i` is its buffer. So once `fenceValues[i]` is
completed no use of `i` is left (`Reached`), which `Ready` says of the current
buffer whenever no wait for it is under way. After a flush the completed value
is the last one taken (`Drained`), so nothing that uses any buffer is left, and
the resize may start over with any index.

That the ring alone keeps the GPU at most `BufferCount` frames behind needs to
know whose value is in which entry. `Aged`: what is left of a frame made `d` frames
ago is executed no later than the signal with the value of `fenceValues` for
the index `d` back in the ring (`Ago`), and `d` is below `BufferCount` except
while the wait is under way. The wait for the current index ends what was made
`BufferCount` frames ago, as the indices go round. A resize breaks their order
- DXGI may start with any -, but it has drained the queue before, so no frame
is left whose age would matter.

`DirectoryWatcher_proofs` proves, for any finite set of directories, any size of
the queue and any number of changes and registrations, from `WatcherAssumption`:

| Theorem | Statement |
|---|---|
| `TypeCorrect` | `Spec => []TypeOK` |
| `CountAlwaysMatches` | `Spec => []CountMatches` |
| `EventsInOrder` | `Spec => []InOrder` |
| `LossIsNeverSilent` | `Spec => []NoSilentLoss` |
| `Invariance` | `Spec => []IInv` |

*The argument.* `IInv` has a part for each thing that could go wrong. `Count`:
what the semaphore, the listener and a push under way count is what the queue
holds, or one more while `surplus` is not 0. That the excess cannot grow
needs a step a reader may miss: when the listener clears the queue, the excess
is one at most, so the semaphore goes to 0 and only the push is left to be
counted too often. With it the queue has at most `MaxCount + 2` entries.
`Order` and `CallOrder`: the changes increase along the way they take - raised,
queued, in the worker's buffer (from its second entry on if the first is in
the queue), with its calls in their order, still to come -, so whatever is taken
out anywhere leaves the rest in order. `Ending` and `Outstanding`: the worker is
told once to terminate, behind everything that is added, `CancelIo` queues one
aborted read for each directory, and `m_nOutstandingRequests` is at least the
number of those, so it never goes below 0. `Held`: while an entry is being pushed
it is the last of the queue, or the listener has taken it, so what a push that overflows
takes back is its own entry and not another one. That is what `NoSilentLoss` needs: the
entry stays in the worker's buffer until the step that flags the overflow, so no
step makes a change missing but one that sets the flag (`LossStep`), and the step
that clears the flag tells of all that are missing.

`ResourceStateTracker_proofs` proves, for any number of lists and resources
with any numbers of subresources, from `TrackerAssumption`:

| Theorem | Statement |
|---|---|
| `TypeCorrect` | `Spec => []TypeOK` |
| `BeforeStatesAlwaysMatch` | `Spec => []BeforeStatesMatch` |
| `UsesAlwaysFindStates` | `Spec => []UsesFindStates` |
| `GlobalStatesAreLast` | `Spec => []GlobalIsLastState` |
| `Invariance` | `Spec => []IInv` |

*The argument.* A barrier names two states, may name all subresources at once,
and is recorded in an order that is not the order of execution; the proof
follows one subresource at a time. `Leaves(G, n, r, i, s, t)` says that the
first `n` commands of `G` leave subresource `i` of `r`, which was in state `s`, in
state `t`; `Fits` that every barrier and every use in `G` finds it in the state
it needs; `Brings` that all of `G` fits and leaves it in `t`. The invariant says
of what the GPU has still to do (`Todo`: the queue, and what the list that is
being submitted adds to it) that it brings each subresource from its actual
state to its global one (`QueueFits`), and of a list under recording that its own
commands bring it from the state its pending barrier asks for (`Starts`) to
its final one (`RecordedFits`). `Close` is where the two meet: the pending
barriers are resolved against the global state, so they bring the subresource
from where the queue leaves it to where the list starts, and the final state
becomes the global one. A mip of a chain has no pending barrier of its own after the
first; it starts in the common state, which is right because one list uses
the chain and does it once (`ChainsOnce`). `References` keeps alive what a
list on the queue names.

`DirectX12Engine_proofs` proves, for any number of loads, whichever of them fail,
and whatever the scenes' trees, meshes and materials are, from
`EngineAssumption`:

| Theorem | Statement |
|---|---|
| `TypeCorrect` | `Spec => []TypeOK` |
| `NoneForgotten` | `Spec => []NoLoadIsForgotten` |
| `DrawsFindTheirParameters` | `Spec => []DrawsAreBound` |
| `DrawnScenesAreLoaded` | `Spec => []LoadedBeforeRendered` |
| `SampleInvariance` | `Spec => []SampleInv` |

*The argument.* `LoadInv`: the loads are started one after another (`InTurn`), so
that the newest is the one the window's thread assigns, and `m_LoadingTask` holds
the newest at all other times (`Held`). `ListInv`: a scene comes into the list
behind its load and once; the null pointers are no more than the loads that
failed, as each that is appended has a load of its own. `GuardInv`: a load that
is not `unguarded` is the only one that runs, and `isLoading` announces it, so a
frame that draws meets none; and a load flushes the copy queue before it
finishes, so what the frame finds in the list is copied.

What a frame draws is the result of a loop over passes, scenes, nodes and
meshes, and so is the proof: each level of the loop has a lemma that says what
holds of the effects and draws it leaves if it held of those it was given
(`VisitKeeps`, `AcceptNodeKeeps`, `AcceptKeeps`, `PassKeeps`, `FrameIsGood`). What is
carried along is that an effect's lights are still to be bound until it draws
first (`LightsInv` at the start of a frame), that from then on they stay bound until
another effect interrupts it with another root signature, and that the unlit
effect draws in the first pass only.

`CommandList_proofs` proves, for any root signatures whose tables fit in a heap,
any sizes of heaps, pages, buffers and vertices and any number of calls, from
`HeapAssumption`, `UploadAssumption` and `ListAssumption`, and for the passes of
`GenerateMips`, from `MipsAssumption`:

| Theorem | Statement |
|---|---|
| `TypeCorrect` | `Spec => []TypeOK` |
| `DrawsAlwaysSeeTheirParameters` | `Spec => []DrawsSeeTheirParameters` |
| `Invariance` | `Spec => []Inv` |
| `EveryPassIsExact` | `MipsSpec => []PassesAreExact` |

*The argument.* A place that a draw was told is safe for one of three reasons
(`HeapRead`, `PageRead`, `ListRead`): it is in the list's heap in front of what is
used next, or in a heap the list has given up and that is not available; it is
below the offset of its page; or it is a descriptor in the list itself. What is
given for a parameter and not stale is where the list is told to look for it
(`GivenTables`, `GivenInline`, `GivenPages`), so the next draw finds it there
without copying it again; what is stale is in the cache, each table in its own
part of it (`TablesApart`). A commit to a new heap takes all tables (`ToCommit`)
because those that are not stale are in the old one.

Two facts about loops carry this, and both are proved for every input. `AndNot`,
which clears the bits of a mask, takes away no more than the mask
(`AndNotBounds`), so `AlignUp` never returns less than its argument, also for an
alignment that is not a power of two: that, and not that the result is aligned,
keeps allocations apart. And the offsets of the tables of a signature do not
overlap (`BeforeFacts`, `BeforeApart`). Both are recursive functions on
numbers. What such a function computes is proved without an induction theorem
that takes an operator: a set of numbers that has 0 and with each number the
next one has all (`SetInduction`, from the well-foundedness of `<`). That there
is such a function at all is proved the same way (`AndNotExists`, `OffsetsUpTo`).

The same way the third loop, the passes of `GenerateMips_UAV`, is followed for
every texture of up to 16384 by 16384 and every number of levels it can have
(`MipsAssumption`; the runs have a few sizes only). `Shifted` halves a size again
and again; a size that is neither 0 nor 1 has a lowest bit, at most the 14th,
and can be halved without a rest exactly that often (`LowestBit`, `HalvesAre`).
Where one of the two sizes is down to 0 or 1 the mask has the bits of the other
(`MaskFacts`), so the scan says how many levels are exact (`ScanFacts`). Where both
are, the mask may have no bit at all; but then the level to be written is the
last one a texture can have (`LastLevel`), so the clamp to the levels that are left
turns whatever `mipCount` held into 1 (`PassFacts`) - but for the one value,
2^32 - 1, that becomes 0 before the clamp.

*Only model-checked*: the liveness properties, which are beyond the proof system: it
has no rules for fairness and `ENABLED`. Every safety invariant, action property
and refinement that a run checks is a theorem as well. The runs that find a
disagreement have counterexamples and nothing to prove.

## What is not modelled

* What the GPU computes, shaders, textures and geometry; Direct3D's and DXGI's
  own checks. Device removal and failing `HRESULT`s end the program
  (`ThrowIfFailed`).
* Construction of views, buffers, pipeline states and the D3D12 side of root signatures: they
  fill in descriptions and keep no state that later calls change.
* After the recycling threads have been joined the queues' destructor releases
  the D3D12 objects; the library does not wait for the GPU there, and neither
  does the sample. The model ends before that.
* The sample's camera, the keys that turn and scale the selected model, full
  screen, and resizing while a scene loads (`SwapChain` has the resize). Point
  and spot lights: nothing in the sample sets them.
* The tree of a scene (`AddChild`, `RemoveChild`, `SetParent`) beyond visiting
  it: the import builds it once, on one thread, and nothing changes it afterwards.
* The lifetime of what the texture cache points to (`CommandList.cpp:403`); the
  loop of `PanoToCubemap`, which writes up to five levels in a pass.
* `EffectPSO.h:185-186` says what the member that holds the previous command
  list is for; no code compares it, so it is not in the model.
* Third-party code: Assimp, ImGui, spdlog, `d3dx12.h`, the tools and data.

## The plan

1. `CommandQueue` and its proofs - done.
2. `DescriptorAllocator` over `DescriptorPool`, and the proofs - done.
3. `SwapChain` and its proofs - done.
4. `ResourceStateTracker` - done.
5. `CommandList` over `UploadBuffer` and `DynamicDescriptorHeap`, and the proofs - done.
6. `DirectoryWatcher` and its proofs - done.
7. The sample (`DirectX12Engine`) over its effects (`EffectPSO`), and the proof
   that no load is forgotten - done.
8. The loop over mips (`GenerateMips`) - done.
9. Proofs of the order of fence values, of the frames in flight and of
   `ResourceStateTracker` - done.
10. Proofs of what the frames of the sample draw, of its type invariant, and of the
    passes of `GenerateMips` - done.
11. Still to do: `PanoToCubemap`'s loop, which passes over levels like
    `GenerateMips_UAV`, and the tree of a scene.
