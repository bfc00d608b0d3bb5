----------------------------- MODULE CommandList -----------------------------
(***************************************************************************)
(* A CommandList as it is recorded, executed and reset (CommandList.cpp),  *)
(* with the upload memory and the descriptor heap it owns.  The list holds *)
(* no data: it tells the GPU where to look when it is executed, which is   *)
(* when everything has been recorded.  So what a draw was meant to see has *)
(* to be where the draw will look until the list is reset.                 *)
(*                                                                         *)
(* A dispatch is recorded like a draw, and a compute root signature is set *)
(* like one for graphics.                                                  *)
(***************************************************************************)
EXTENDS UploadBuffer, DynamicDescriptorHeap

CONSTANTS
  Inline,     \* Inline[s]: the root parameters of s that are inline descriptors
  Dynamic,    \* Dynamic[s]: those that are constant buffers in upload memory
  Vertices,   \* the slot of the vertex buffer
  Constant,   \* D3D12_CONSTANT_BUFFER_DATA_PLACEMENT_ALIGNMENT
  Vertex,     \* the size of a vertex
  Buffers,    \* sizes of constant buffers
  Counts,     \* numbers of vertices
  MaxCalls,   \* bound on what is recorded in a list
  NoSignature \* a null root signature

Signatures == DOMAIN Tables

ASSUME ListAssumption ==
  /\ DOMAIN Inline = Signatures /\ DOMAIN Dynamic = Signatures
  /\ NoSignature \notin Signatures
  \* a root parameter is of one kind, and a slot for vertices is not one
  /\ \A s \in Signatures :
       /\ DOMAIN Tables[s] \cap (Inline[s] \cup Dynamic[s]) = {} /\ Inline[s] \cap Dynamic[s] = {}
       /\ Vertices \notin DOMAIN Tables[s] \cup Inline[s] \cup Dynamic[s]
  /\ Buffers \cup Counts \subseteq Nat
  /\ Constant \in Nat \ {0} /\ Vertex \in Nat \ {0}
  /\ MaxCalls \in Nat

VARIABLES
  rootSignature,   \* m_RootSignature
  descriptorHeap,  \* m_DescriptorHeaps: the heap the D3D12 list is set to
  bound,           \* where the D3D12 list looks for each parameter
  staged,          \* what the caller has given for each parameter
  reads,           \* what the draws in the list were meant to see, and where
  calls            \* how much has been recorded

listVars == <<rootSignature, descriptorHeap, bound, staged, reads, calls>>
vars == <<uploadVars, stagingVars, heapVars, listVars>>

None == [i \in {} |-> Null]

Init ==
  /\ InitUpload /\ InitHeap
  /\ rootSignature = NoSignature
  /\ descriptorHeap = NoHeap
  /\ bound = None /\ staged = None
  /\ reads = {}
  /\ calls = 0

TypeOK ==
  /\ HeapOK
  /\ currentPage \in {Nothing} \cup 1..pagePool
  /\ \A p \in 1..MaxPages : offset[p] \in 0..PageSize
  /\ rootSignature \in Signatures \cup {NoSignature}
  /\ descriptorHeap = currentHeap

\* Descriptors, addresses and data that the list has not been given before.
Fresh == 1 + 2 * calls

\* Bound: MaxCalls.
Record == calls < MaxCalls /\ calls' = calls + 1

-----------------------------------------------------------------------------
(* Parameters.                                                             *)

\* Only the vertices stay.
SetRootSignature(s) ==
  /\ rootSignature # s
  /\ staleInline = {}  \* what was staged inline has been used
  /\ Record
  /\ ParseRootSignature(s)
  /\ rootSignature' = s
  /\ bound' = [i \in DOMAIN bound \cap {Vertices} |-> bound[i]]
  /\ staged' = [k \in DOMAIN staged \cap {<<Vertices, 0>>} |-> staged[k]]
  /\ UNCHANGED <<uploadVars, descriptorHeap, reads>>

\* SetShaderResourceView, SetUnorderedAccessView, SetConstantBufferView.
SetView(i, o, n, d) ==
  /\ Record
  /\ i \in tableMask
  /\ StageDescriptors(i, o, n, d)
  /\ staged' = PutAll(staged, [k \in {i} \X (o..(o + n - 1)) |-> d + (k[2] - o)])
  /\ UNCHANGED <<uploadVars, rootSignature, descriptorHeap, bound, reads>>

\* The same of a buffer.
SetBuffer(i, address) ==
  /\ Record
  /\ i \in Inline[rootSignature]
  /\ StageInline(i, address)
  /\ staged' = Put(staged, <<i, 0>>, address)
  /\ UNCHANGED <<uploadVars, rootSignature, descriptorHeap, bound, reads>>

Upload(i, size, alignment, data) ==
  /\ Record
  /\ Allocate(size, alignment, data)
  /\ bound' = Put(bound, i, [size |-> size, at |-> Location(size, alignment)])
  /\ staged' = Put(staged, <<i, 0>>, data)
  /\ UNCHANGED <<stagingVars, heapVars, rootSignature, descriptorHeap, reads>>

SetGraphicsDynamicConstantBuffer(i, size, data) ==
  /\ i \in Dynamic[rootSignature]
  /\ Upload(i, size, Constant, data)

SetDynamicVertexBuffer(n, data) == Upload(Vertices, n * Vertex, Vertex, data)

-----------------------------------------------------------------------------
(* Draws.                                                                  *)

\* The parameters of the root signature.
Parameters ==
  (UNION {{i} \X (0..(tables[i].num - 1)) : i \in tableMask})
    \cup ((Inline[rootSignature] \cup Dynamic[rootSignature]) \X {0})

Seen == Parameters \cup (DOMAIN staged \cap {<<Vertices, 0>>})

\* The places where a draw looks for parameter k if its parameters are bound as
\* in B and the list is set to heap h: tables are looked for in that heap.
Looks(B, h, k) ==
  LET i == k[1] IN
  IF i \in tableMask
  THEN {[in |-> "heap", number |-> IF B[i].heap = h THEN h ELSE NoHeap, place |-> B[i].start + k[2]]}
  ELSE IF i \in Inline[rootSignature]
  THEN {[in |-> "list", number |-> i, place |-> B[i]]}
  ELSE {[in |-> "page", number |-> B[i].at.page, place |-> n] :
          n \in B[i].at.start..(B[i].at.start + B[i].size - 1)}

Bind ==
  LET set == [i \in staleInline |-> inline[i]] IN
  PutAll(IF staleTables # {} THEN PutAll(bound, Committed) ELSE bound, set)

\* Its caller has given every parameter; the vertices may be those of a mesh,
\* which are not in upload memory.  A second draw would look in the same places.
Draw ==
  /\ rootSignature \in Signatures /\ Parameters \subseteq DOMAIN staged
  /\ Record
  /\ CommitStagedDescriptors
  /\ bound' = Bind
  /\ descriptorHeap' = currentHeap'
  /\ reads' = reads \cup UNION {
       {[from |-> at, value |-> staged[k]] : at \in Looks(bound', currentHeap', k)} : k \in Seen}
  /\ reads' # reads
  /\ UNCHANGED <<uploadVars, rootSignature, staged>>

\* A command that is given a descriptor's place in the heap.
UseDescriptor(d) ==
  /\ Record
  /\ CopyDescriptor(d)
  /\ descriptorHeap' = currentHeap'
  /\ reads' = reads \cup {[from |-> [in |-> "heap", number |-> CopyHeap, place |-> CopyPlace], value |-> d]}
  /\ UNCHANGED <<uploadVars, rootSignature, bound, staged>>

\* The list has been executed and is recorded anew.  What is left in its pages,
\* heaps and cache is nothing that it will be given.
Reset ==
  /\ calls > 0 /\ calls' = 0
  /\ ResetUpload /\ ResetHeap
  /\ rootSignature' = NoSignature
  /\ descriptorHeap' = NoHeap
  /\ bound' = None /\ staged' = None
  /\ reads' = {}

Next ==
  \/ \E s \in Signatures : SetRootSignature(s)
  \/ \E i \in tableMask : \E o \in 0..(tables[i].num - 1) :
       \E n \in 1..(tables[i].num - o) : SetView(i, o, n, Fresh)
  \/ \E s \in {rootSignature} \cap Signatures :
       \/ \E i \in Inline[s] : SetBuffer(i, Fresh)
       \/ \E i \in Dynamic[s], n \in Buffers : SetGraphicsDynamicConstantBuffer(i, n, Fresh)
  \/ \E n \in Counts : SetDynamicVertexBuffer(n, Fresh)
  \/ Draw
  \/ UseDescriptor(Fresh)
  \/ Reset

Spec == Init /\ [][Next]_vars

-----------------------------------------------------------------------------
(* Properties.                                                             *)

Content(at) ==
  CASE at.in = "heap" -> IF at.number = NoHeap THEN Null ELSE heaps[at.number][at.place]
    [] at.in = "page" -> memory[at.number][at.place]
    [] at.in = "list" -> at.place

\* Until the list is reset, every place where a draw of it will look holds what
\* was given for the draw, whatever has been staged, uploaded and drawn since,
\* and a table is in the heap the list is set to ("all descriptor tables must be
\* (re)recopied to the new descriptor heap", DynamicDescriptorHeap.cpp:196-198).
DrawsSeeTheirParameters == \A r \in reads : Content(r.from) = r.value

=============================================================================
