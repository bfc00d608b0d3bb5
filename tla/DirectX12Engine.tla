--------------------------- MODULE DirectX12Engine ---------------------------
(***************************************************************************)
(* The sample DirectX12EngineModels: the window's thread, which draws a    *)
(* frame after another and handles the user's events between them, and the *)
(* tasks that load scenes in the background (std::async).  They share the  *)
(* list of assets, m_IsLoading and m_CancelLoading, without a lock.  The   *)
(* tasks hand their copies to the copy queue, which promises what          *)
(* CommandQueue shows: Flush returns when they are done.                   *)
(*                                                                         *)
(* The scenes LoadContent adds are one, Content; the scene of a load is    *)
(* the number of the load; a load that fails adds a null pointer.  Two     *)
(* threads at the list at once may crash the program or lose an entry.     *)
(***************************************************************************)
EXTENDS EffectPSO, FiniteSets, SequencesExt

CONSTANTS
  MaxLoads,  \* bound on the loads; the first is started by LoadContent
  Broken,    \* the loads whose file may be unreadable or lack a texture
  Nodes      \* the nodes of each scene, with their meshes

Loads   == 1..MaxLoads
Content == 0
NoScene == -1
Axis    == -2   \* m_Axis, which is not in the list
Scenes  == Loads \cup {Content}

ASSUME EngineAssumption ==
  /\ MaxLoads \in Nat \ {0}
  /\ Broken \subseteq Loads
  /\ Nodes \in [Scenes \cup {Axis} -> Seq(Seq(BOOLEAN))]

VARIABLES
  window,       \* where the window's thread is
  inFrame,      \* OpenFile was called by OnUpdate
  task,         \* where each load is: none, ready, loading, push, ...
  result,       \* the scene a load has got
  loadingTask,  \* the load m_LoadingTask holds, 0 if none
  isLoading,    \* m_IsLoading
  cancel,       \* m_CancelLoading
  showDialog,   \* m_ShowFileOpenDialog
  assets,       \* m_AssetsList
  selected,     \* m_Scene
  selecting,    \* m_ModelSelected
  offscreen,    \* the frame's render target is m_RenderTarget
  effects,      \* the three EffectPSOs
  draws,        \* the draws of the frame
  oneSignature, \* the device gives equal root signatures one object
  copying,      \* the scenes whose copies the GPU has yet to run, in order
  copied,       \* the scenes whose copies are done
  unguarded     \* the loads that m_IsLoading does not announce to the frames

taskVars  == <<task, result, loadingTask, unguarded>>
flags     == <<isLoading, cancel, showDialog>>
listVars  == <<assets, selected, selecting>>
frameVars == <<offscreen, effects, draws>>
gpuVars   == <<copying, copied>>
vars == <<window, inFrame, taskVars, flags, listVars, frameVars, gpuVars, oneSignature>>

Lighting == "lighting"
Decal    == "decal"
Unlit    == "unlit"
Effects  == {Lighting, Decal, Unlit}

\* What a value belongs to: this frame or one before.
Now    == <<"now">>
Before == <<"before">>

Init ==
  /\ window = "start" /\ inFrame = FALSE
  /\ task = [k \in Loads |-> "none"]
  /\ result = [k \in Loads |-> NoScene]
  /\ loadingTask = 0 /\ unguarded = {}
  /\ isLoading = TRUE /\ cancel = FALSE /\ showDialog = FALSE
  /\ assets = <<>> /\ selected = NoScene /\ selecting = FALSE
  /\ offscreen = FALSE /\ draws = <<>>
  /\ effects = [e \in Effects |-> NewEffect]
  /\ oneSignature \in BOOLEAN
  /\ copying = <<>> /\ copied = {}

Alive == window # "crashed"

Started  == {k \in Loads : task[k] # "none"}
Ended(k) == task[k] \in {"done", "thrown"}
Running  == {k \in Started : ~Ended(k)}
Newest   == Cardinality(Started)

-----------------------------------------------------------------------------
(* The list of assets.                                                     *)

\* The threads that are in push_back.
Pushing == {k \in Loads : task[k] = "pushing"} \cup
           (IF window = "pushing" THEN {Content} ELSE {})

\* push_back by a thread returns.
PushBack_mutant(s, who) == assets' = Append(Append(assets, s), s)
PushBack(s, who) ==
  \/ assets' = Append(assets, s)
  \/ Pushing # {who} /\ assets' = assets

\* The window's thread goes through the list, or erases an entry of it.
AtTheList == window \in {"first", "nearest", "draw", "gui"} \/ (window = "idle" /\ selected # NoScene)

\* Two threads at the list at once.
ListRace ==
  /\ Alive
  /\ Cardinality(Pushing) > 1 \/ (Pushing # {} /\ AtTheList)
  /\ window' = "crashed"
  /\ UNCHANGED <<inFrame, taskVars, flags, listVars, frameVars, gpuVars, oneSignature>>

\* Every entry is followed: a null pointer ends the program.
NullEntry == NoScene \in ToSet(assets)

-----------------------------------------------------------------------------
(* A loading task: LoadScene.                                              *)

Start(k) ==
  /\ task' = [task EXCEPT ![k] = "ready"]
  /\ unguarded' = IF Running = {} THEN unguarded ELSE unguarded \cup Running \cup {k}

\* The path OpenFile bound was freed before the task has read it.
PathFreed(k) == k > 1 /\ ~(window \in {"assign", "free"} /\ k = Newest)

Goto(k, step) == task' = [task EXCEPT ![k] = step]

\* m_IsLoading is set, which a frame that has read it does not see.
Announce(k) ==
  /\ isLoading' = TRUE /\ cancel' = FALSE
  /\ unguarded' = IF window = "draw" THEN unguarded \cup {k} ELSE unguarded

\* The file's name is made of the bound path; a freed one is anything, and
\* may end the program.
BeginLoad(k) ==
  /\ Alive /\ task[k] = "ready"
  /\ Goto(k, "loading") /\ Announce(k)
  /\ UNCHANGED <<window, inFrame, result, loadingTask, showDialog, listVars,
                 frameVars, gpuVars, oneSignature>>

ReadFreedPath(k) ==
  /\ Alive /\ task[k] = "ready" /\ PathFreed(k)
  /\ \/ window' = "crashed" /\ UNCHANGED <<task, isLoading, cancel, unguarded>>
     \/ Goto(k, "push") /\ Announce(k) /\ UNCHANGED window
  /\ UNCHANGED <<inFrame, result, loadingTask, showDialog, listVars,
                 frameVars, gpuVars, oneSignature>>

\* LoadSceneFromFile returns a scene, or null because the user cancelled
\* (LoadingProgress) or the file is unreadable, or throws for a texture.
LoadSceneFromFile(k) ==
  /\ Alive /\ task[k] = "loading"
  /\ \/ Goto(k, "push") /\ result' = [result EXCEPT ![k] = k]
     \/ Goto(k, "push") /\ UNCHANGED result /\ (cancel \/ k \in Broken)
     \/ Goto(k, "thrown") /\ UNCHANGED result /\ k \in Broken
  /\ UNCHANGED <<window, inFrame, loadingTask, unguarded, flags, listVars, frameVars,
                 gpuVars, oneSignature>>

BeginPush(k) ==
  /\ Alive /\ task[k] = "push"
  /\ Goto(k, "pushing")
  /\ UNCHANGED <<window, inFrame, result, loadingTask, unguarded, flags, listVars,
                 frameVars, gpuVars, oneSignature>>

EndPush(k) ==
  /\ Alive /\ task[k] = "pushing"
  /\ PushBack(result[k], k)
  /\ Goto(k, "execute")
  /\ UNCHANGED <<window, inFrame, result, loadingTask, unguarded, flags, selected, selecting,
                 frameVars, gpuVars, oneSignature>>

ExecuteCommandList(k) ==
  /\ Alive /\ task[k] = "execute"
  /\ copying' = Append(copying, k)
  /\ Goto(k, "flush")
  /\ UNCHANGED <<window, inFrame, result, loadingTask, unguarded, flags, listVars, frameVars,
                 copied, oneSignature>>

Flushed_mutant(k) == TRUE
Flushed(k) == k \in copied

Flush(k) ==
  /\ Alive /\ task[k] = "flush" /\ Flushed(k)
  /\ Goto(k, "finish")
  /\ UNCHANGED <<window, inFrame, result, loadingTask, unguarded, flags, listVars, frameVars,
                 gpuVars, oneSignature>>

\* What a load leaves in m_IsLoading, whatever it has found.
LoadingAfter_mutant(k) == result[k] = NoScene
LoadingAfter(k) == FALSE

FinishLoad(k) ==
  /\ Alive /\ task[k] = "finish"
  /\ isLoading' = LoadingAfter(k)
  /\ Goto(k, "done")
  /\ UNCHANGED <<window, inFrame, result, loadingTask, unguarded, cancel, showDialog, listVars,
                 frameVars, gpuVars, oneSignature>>

LoadScene(k) ==
  \/ BeginLoad(k) \/ ReadFreedPath(k) \/ LoadSceneFromFile(k) \/ BeginPush(k) \/ EndPush(k)
  \/ ExecuteCommandList(k) \/ Flush(k) \/ FinishLoad(k)

\* The copy queue.
Copy ==
  /\ Alive /\ copying # <<>>
  /\ copied' = copied \cup {Head(copying)}
  /\ copying' = Tail(copying)
  /\ UNCHANGED <<window, inFrame, taskVars, flags, listVars, frameVars, oneSignature>>

-----------------------------------------------------------------------------
(* The window's thread: LoadContent, then the message loop.                *)

StartFirst ==
  /\ window = "start"
  /\ Start(1) /\ loadingTask' = 1
  /\ window' = "push"
  /\ UNCHANGED <<inFrame, result, flags, listVars, frameVars, gpuVars, oneSignature>>

BeginPushContent ==
  /\ window = "push" /\ window' = "pushing"
  /\ UNCHANGED <<inFrame, taskVars, flags, listVars, frameVars, gpuVars, oneSignature>>

EndPushContent ==
  /\ window = "pushing"
  /\ PushBack(Content, Content)
  /\ window' = "first"
  /\ UNCHANGED <<inFrame, taskVars, flags, selected, selecting, frameVars, gpuVars, oneSignature>>

\* m_AssetsList[0] is moved, whichever scene that is; the list is executed.
PlaceFirst ==
  /\ window = "first"
  /\ IF assets = <<>> \/ Head(assets) = NoScene
     THEN window' = "crashed" /\ UNCHANGED copying
     ELSE window' = "wait" /\ copying' = Append(copying, Content)
  /\ UNCHANGED <<inFrame, taskVars, flags, listVars, frameVars, copied, oneSignature>>

WaitForFenceValue ==
  /\ window = "wait" /\ Content \in copied
  /\ window' = "idle"
  /\ UNCHANGED <<inFrame, taskVars, flags, listVars, frameVars, gpuVars, oneSignature>>

-----------------------------------------------------------------------------
(* Events between frames.                                                  *)

Idle == window = "idle"

\* Left button: select what is nearest in the next frame, or no longer.
PressLeft ==
  /\ Idle /\ selecting' \in BOOLEAN
  /\ UNCHANGED <<window, inFrame, taskVars, flags, assets, selected, frameVars, gpuVars, oneSignature>>

\* C and its like: forget the selection.
Deselect ==
  /\ Idle /\ selected' = NoScene /\ selecting' \in {selecting, FALSE}
  /\ UNCHANGED <<window, inFrame, taskVars, flags, assets, frameVars, gpuVars, oneSignature>>

\* Delete: the selected scene leaves the list but stays selected.
DeleteEntity ==
  /\ Idle /\ selected # NoScene
  /\ assets' = RemoveFirst(assets, selected)
  /\ selecting' = FALSE
  /\ UNCHANGED <<window, inFrame, taskVars, flags, selected, frameVars, gpuVars, oneSignature>>

\* Ctrl+O, or OnUpdate when the menu asked for it: the user picks a file.
OpenFile(from) ==
  /\ window = from /\ Newest < MaxLoads
  /\ Start(Newest + 1)
  /\ window' = "assign" /\ inFrame' = (from = "dialog")
  /\ UNCHANGED <<result, loadingTask, flags, listVars, frameVars, gpuVars, oneSignature>>

\* The user closes the dialog without a file.
CancelDialog ==
  /\ window = "dialog" /\ window' = "update"
  /\ UNCHANGED <<inFrame, taskVars, flags, listVars, frameVars, gpuVars, oneSignature>>

\* The future m_LoadingTask held is destroyed, which waits for its task.
MayAssign_mutant == TRUE
MayAssign == Ended(loadingTask)

AssignTask ==
  /\ window = "assign" /\ MayAssign
  /\ loadingTask' = Newest /\ window' = "free"
  /\ UNCHANGED <<inFrame, task, result, unguarded, flags, listVars, frameVars, gpuVars, oneSignature>>

\* CoTaskMemFree.
FreePath ==
  /\ window = "free"
  /\ window' = IF inFrame THEN "update" ELSE "idle"
  /\ inFrame' = FALSE
  /\ UNCHANGED <<taskVars, flags, listVars, frameVars, gpuVars, oneSignature>>

\* Escape, Exit, or no message that waits.
LeaveLoop ==
  /\ Idle /\ window' = "get"
  /\ UNCHANGED <<inFrame, taskVars, flags, listVars, frameVars, gpuVars, oneSignature>>

\* m_LoadingTask.get(), which throws what the task has thrown.
GetTask ==
  /\ window = "get" /\ Ended(loadingTask)
  /\ window' = IF task[loadingTask] = "thrown" THEN "crashed" ELSE "unload"
  /\ UNCHANGED <<inFrame, taskVars, flags, listVars, frameVars, gpuVars, oneSignature>>

UnloadContent ==
  /\ window = "unload" /\ window' = "end"
  /\ UNCHANGED <<inFrame, taskVars, flags, listVars, frameVars, gpuVars, oneSignature>>

-----------------------------------------------------------------------------
(* A frame: OnUpdate with OnRender and OnGUI.                              *)

OnUpdate ==
  /\ Idle
  /\ window' = IF showDialog THEN "dialog" ELSE "update"
  /\ showDialog' = FALSE
  /\ UNCHANGED <<inFrame, taskVars, isLoading, cancel, listVars, frameVars, gpuVars, oneSignature>>

SetLights ==
  /\ window = "update" /\ window' = "nearest"
  /\ effects' = [e \in Effects |-> IF e = Unlit THEN effects[e]
                                  ELSE SetDirectionalLights(effects[e], Now)]
  /\ UNCHANGED <<inFrame, taskVars, flags, listVars, offscreen, draws, gpuVars, oneSignature>>

\* The first asset near the pointer, if there is one, is selected on demand.
NearestEntity ==
  /\ window = "nearest"
  /\ \/ NullEntry /\ window' = "crashed" /\ UNCHANGED <<selected, selecting>>
     \/ /\ ~NullEntry /\ window' = "target"
        /\ \/ UNCHANGED <<selected, selecting>>
           \/ selecting /\ selected' \in ToSet(assets) /\ selecting' = FALSE
  /\ UNCHANGED <<inFrame, taskVars, flags, assets, frameVars, gpuVars, oneSignature>>

\* The render target is chosen by m_IsLoading ...
ChooseTarget ==
  /\ window = "target" /\ window' = "check"
  /\ offscreen' = ~isLoading
  /\ UNCHANGED <<inFrame, taskVars, flags, listVars, effects, draws, gpuVars, oneSignature>>

\* ... which is read again; the swap chain's target has no depth buffer to clear.
CheckLoading ==
  /\ window = "check"
  /\ window' = CASE isLoading -> "gui" [] ~isLoading /\ offscreen -> "draw" [] OTHER -> "crashed"
  /\ UNCHANGED <<inFrame, taskVars, flags, listVars, frameVars, gpuVars, oneSignature>>

\* The three effects describe equal root signatures.
SignatureOf(e) == IF oneSignature THEN <<"signature">> ELSE <<e>>

\* One scene, drawn with one effect.
Pass(frame, scene, e, transparent) ==
  LET r == Accept([pso |-> e, effect |-> frame.effects[e], signature |-> SignatureOf(e),
                   list |-> frame.list, draws |-> frame.draws],
                  scene, Nodes[scene], Now, transparent)
  IN  [effects |-> [frame.effects EXCEPT ![e] = r.effect], list |-> r.list, draws |-> r.draws]

DrawScene(frame, scene) == Pass(Pass(frame, scene, Lighting, FALSE), scene, Decal, TRUE)

Frame ==
  LET drawn[i \in 0..Len(assets)] ==
        IF i = 0 THEN Pass([effects |-> effects, list |-> NewList, draws |-> <<>>], Axis, Unlit, FALSE)
        ELSE DrawScene(drawn[i - 1], assets[i])
  IN  drawn[Len(assets)]

OnRender ==
  /\ window = "draw"
  /\ IF NullEntry
     THEN window' = "crashed" /\ UNCHANGED <<effects, draws>>
     ELSE window' = "gui" /\ effects' = Frame.effects /\ draws' = Frame.draws
  /\ UNCHANGED <<inFrame, taskVars, flags, listVars, offscreen, gpuVars, oneSignature>>

\* An effect, once its frame is over.
Aged(e) ==
  LET Age(v) == IF v = Unset THEN Unset ELSE Before
  IN  [e EXCEPT !.world = Age(@), !.camera = Age(@), !.material = Age(@), !.lights = Age(@)]

\* The button that cancels, the menu, the inspector's list; Present.
OnGUI ==
  /\ window = "gui"
  /\ window' = IF NullEntry THEN "crashed" ELSE "idle"
  /\ \/ UNCHANGED <<cancel, showDialog>>
     \/ isLoading /\ cancel' = TRUE /\ UNCHANGED showDialog
     \/ ~isLoading /\ showDialog' = TRUE /\ UNCHANGED cancel
  /\ effects' = [e \in Effects |-> Aged(effects[e])]
  /\ draws' = <<>> /\ offscreen' = FALSE
  /\ UNCHANGED <<inFrame, taskVars, isLoading, listVars, gpuVars, oneSignature>>

-----------------------------------------------------------------------------

LoadContent == StartFirst \/ BeginPushContent \/ EndPushContent \/ PlaceFirst \/ WaitForFenceValue

Events ==
  \/ PressLeft \/ Deselect \/ DeleteEntity \/ OpenFile("idle") \/ OpenFile("dialog")
  \/ CancelDialog \/ AssignTask \/ FreePath \/ LeaveLoop \/ GetTask \/ UnloadContent

Drawing ==
  OnUpdate \/ SetLights \/ NearestEntity \/ ChooseTarget \/ CheckLoading \/ OnRender \/ OnGUI

Next ==
  \/ \E k \in Loads : LoadScene(k)
  \/ LoadContent \/ Events \/ Drawing \/ Copy \/ ListRace

Spec == Init /\ [][Next]_vars

\* Threads are scheduled, the GPU goes on, LoadContent begins; the user and
\* the frames need not.
FairSpec ==
  /\ Spec
  /\ WF_vars(StartFirst) /\ WF_vars(Copy)
  /\ \A k \in Loads : WF_vars(LoadScene(k))

-----------------------------------------------------------------------------

WindowSteps ==
  {"start", "push", "pushing", "first", "wait", "idle", "dialog", "assign", "free", "get",
   "unload", "end", "update", "nearest", "target", "check", "draw", "gui", "crashed"}

Pushed == {"execute", "flush", "finish", "done"}

TaskSteps ==
  {"none", "ready", "loading", "push", "pushing", "thrown"} \cup Pushed

\* Types, and what the list holds: scenes whose loads got that far, each
\* once, and a null pointer only where a load has failed.
TypeOK ==
  /\ window \in WindowSteps /\ inFrame \in BOOLEAN
  /\ task \in [Loads -> TaskSteps]
  /\ \A k \in Loads : result[k] \in {NoScene, k}
  /\ loadingTask \in Loads \cup {0} /\ unguarded \subseteq Loads
  /\ isLoading \in BOOLEAN /\ cancel \in BOOLEAN /\ showDialog \in BOOLEAN
  /\ selected \in Scenes \cup {NoScene} /\ selecting \in BOOLEAN
  /\ offscreen \in BOOLEAN /\ oneSignature \in BOOLEAN
  /\ \A e \in Effects : effects[e].dirty \subseteq Flags
  /\ ToSet(copying) \subseteq Scenes /\ copied \subseteq Scenes
  /\ ToSet(assets) \subseteq Scenes \cup {NoScene}
  /\ \A s \in Scenes : Cardinality({i \in DOMAIN assets : assets[i] = s}) <= 1
  /\ \A k \in Loads : Contains(assets, k) => task[k] \in Pushed
  /\ Cardinality({i \in DOMAIN assets : assets[i] = NoScene})
       <= Cardinality({k \in Loads : task[k] \in Pushed /\ result[k] = NoScene})

\* A load that has not ended is the one m_LoadingTask holds, or the one that
\* is being assigned to it (window = "assign"): there are never more, and
\* none is left when UnloadContent lets the device go.
NoLoadIsForgotten ==
  Alive =>
  /\ Running \subseteq {loadingTask} \cup (IF window = "assign" THEN {Newest} ELSE {})
  /\ window \in {"unload", "end"} => Running = {}

\* The draws before draw i came back to its effect from another one.
CameBack(i) ==
  \E j \in 1..(i - 1), k \in 1..(i - 1) :
    j < k /\ draws[j].pso = draws[i].pso /\ draws[k].pso # draws[i].pso

\* Though an effect forgets what it has bound (EffectPSO::Apply clears its
\* flags) and the list is a new one, every draw finds its own node's matrices
\* for this frame's camera and its own mesh's material bound.  What lights it
\* is bound too, but where the device keeps three equal root signatures as
\* three objects only until the frame comes back to the effect.
DrawsAreBound ==
  \A i \in DOMAIN draws :
    LET d == draws[i]
    IN  /\ d.bound["MatricesCB"] = <<d.node, Now>>
        /\ d.bound["MaterialCB"] = d.material /\ d.bound["Textures"] = d.material
        /\ d.pso # Unlit /\ (oneSignature \/ ~CameBack(i)) =>
             d.bound["DirectionalLights"] = Now /\ d.bound["LightPropertiesCB"] = Now

\* "Ensure that the scene is completely loaded before rendering."
\* (DirectX12Engine.cpp:215).  The scene of a load that m_IsLoading announces to the
\* frames, and that runs beside no other load, is drawn only when its copies are done:
\* the flush comes before the end of the announcement (:213-219).  The other loads are
\* in unguarded, and their scenes may be drawn too early.
LoadedBeforeRendered ==
  \A i \in DOMAIN draws : draws[i].node[1] \in copied \cup unguarded \cup {Axis}

\* The screen that shows a load's progress goes away, unless the program
\* crashes or a load throws, which leaves m_IsLoading as it was.
LoadingEnds ==
  isLoading ~> (~isLoading \/ ~Alive \/ \E k \in Loads : task[k] = "thrown")

=============================================================================
