------------------------ MODULE DirectX12Engine_proofs ------------------------
(***************************************************************************)
(* Proofs about the sample, for any number of loads, whatever the scenes   *)
(* hold and whichever loads fail: the loads and their future; what a frame *)
(* draws, pass by pass and mesh by mesh; and the list of assets and the    *)
(* guards that keep a scene from being drawn before its copies are done.   *)
(***************************************************************************)
EXTENDS DirectX12Engine, FiniteSetTheorems, SequenceTheorems, WellFoundedInduction, TLAPS

\* The loads are started in order.
InTurn ==
  /\ task \in [Loads -> TaskSteps]
  /\ \E n \in 0..MaxLoads : Started = 1..n

\* m_LoadingTask holds the newest load, but while a newer one is assigned to it,
\* and none before LoadContent has begun.
Held ==
  /\ window = "start" => Started = {}
  /\ window \notin {"start", "assign", "crashed"} => Newest = loadingTask

\* A load that has not ended is held or about to be, and UnloadContent finds none.
Kept ==
  /\ window # "crashed" => Running \subseteq {loadingTask} \cup (IF window = "assign" THEN {Newest} ELSE {})
  /\ window \in {"unload", "end"} => Running = {}

LoadInv == InTurn /\ Held /\ Kept

LEMMA CountInterval ==
  ASSUME NEW n \in Nat
  PROVE  Cardinality(1..n) = n
<1>1. Cardinality(1..n) = IF 1 > n THEN 0 ELSE n - 1 + 1
  BY FS_Interval
<1>  QED BY <1>1

LEMMA CountStarted ==
  ASSUME EngineAssumption, InTurn
  PROVE  Newest \in 0..MaxLoads /\ Started = 1..Newest
<1>1. PICK n \in 0..MaxLoads : Started = 1..n
  BY DEF InTurn
<1>2. n \in Nat
  BY DEF EngineAssumption
<1>  QED BY <1>1, <1>2, CountInterval DEF Newest

\* A step that starts no load and ends none.
LEMMA TasksFrame ==
  ASSUME LoadInv, task' = task
  PROVE  InTurn' /\ Started' = Started /\ Newest' = Newest /\ Running' = Running
BY DEF LoadInv, InTurn, Started, Newest, Running, Ended

LEMMA WindowFrame ==
  ASSUME LoadInv, UNCHANGED <<task, loadingTask>>,
         window' # window =>
           \/ window' = "crashed"
           \/ {window, window'} \cap {"start", "assign", "crashed", "unload", "end"} = {}
  PROVE  LoadInv'
BY TasksFrame DEF LoadInv, Held, Kept

\* A load takes a step of its own.
LEMMA LoadStep ==
  ASSUME EngineAssumption, LoadInv, NEW k \in Loads, LoadScene(k)
  PROVE  LoadInv'
<1>1. /\ k \in Running /\ loadingTask' = loadingTask /\ window' \in {window, "crashed"}
      /\ \E step \in TaskSteps \ {"none"} : task' = [task EXCEPT ![k] = step] \/ task' = task
  <2>1. window' \in {window, "crashed"} /\ loadingTask' = loadingTask
    BY DEF LoadScene, BeginLoad, ReadFreedPath, LoadSceneFromFile, BeginPush, EndPush,
         ExecuteCommandList, Flush, FinishLoad
  <2>2. k \in Running
    BY DEF LoadScene, BeginLoad, ReadFreedPath, LoadSceneFromFile, BeginPush, EndPush,
         ExecuteCommandList, Flush, FinishLoad, Running, Started, Ended
  <2>3. \E step \in TaskSteps \ {"none"} : task' = [task EXCEPT ![k] = step] \/ task' = task
    <3>1. CASE BeginLoad(k)
      BY <3>1 DEF BeginLoad, Goto, TaskSteps
    <3>2. CASE ReadFreedPath(k)
      BY <3>2 DEF ReadFreedPath, Goto, TaskSteps
    <3>3. CASE LoadSceneFromFile(k)
      BY <3>3 DEF LoadSceneFromFile, Goto, TaskSteps
    <3>4. CASE BeginPush(k)
      BY <3>4 DEF BeginPush, Goto, TaskSteps
    <3>5. CASE EndPush(k)
      BY <3>5 DEF EndPush, Goto, TaskSteps, Pushed
    <3>6. CASE ExecuteCommandList(k)
      BY <3>6 DEF ExecuteCommandList, Goto, TaskSteps, Pushed
    <3>7. CASE Flush(k)
      BY <3>7 DEF Flush, Goto, TaskSteps, Pushed
    <3>8. CASE FinishLoad(k)
      BY <3>8 DEF FinishLoad, Goto, TaskSteps, Pushed
    <3>  QED BY <3>1, <3>2, <3>3, <3>4, <3>5, <3>6, <3>7, <3>8 DEF LoadScene
  <2>  QED BY <2>1, <2>2, <2>3
<1>2. /\ task' \in [Loads -> TaskSteps]
      /\ \A j \in Loads : j # k => task'[j] = task[j]
      /\ task[k] # "none" /\ task'[k] # "none"
  BY <1>1 DEF LoadInv, InTurn, Running, Started
<1>3. Started' = Started /\ Newest' = Newest
  BY <1>2 DEF Started, Newest
<1>4. Running' \subseteq Running
  BY <1>1, <1>2, <1>3 DEF Running, Ended, Started
<1>5. Running # {}
  BY <1>1
<1>  QED BY <1>1, <1>2, <1>3, <1>4, <1>5 DEF LoadInv, InTurn, Held, Kept

\* The window's thread starts a load.
LEMMA StartStep ==
  ASSUME EngineAssumption, LoadInv, NEW k, k = Newest + 1, k <= MaxLoads, Start(k)
  PROVE  /\ InTurn' /\ Newest' = Newest + 1 /\ Started' = Started \cup {k}
         /\ Running' \subseteq Running \cup {k}
<1>1. Newest \in Nat /\ Started = 1..Newest /\ MaxLoads \in Nat
  BY CountStarted DEF LoadInv, EngineAssumption
<1>2. k \in Loads /\ Started \cup {k} = 1..k
  BY <1>1 DEF Loads
<1>3. task' \in [Loads -> TaskSteps] /\ \A j \in Loads : task'[j] = IF j = k THEN "ready" ELSE task[j]
  BY <1>2 DEF Start, LoadInv, InTurn, TaskSteps
<1>4. Started' = Started \cup {k}
  BY <1>2, <1>3 DEF Started
<1>5. InTurn'
  BY <1>1, <1>2, <1>3, <1>4 DEF InTurn
<1>6. Newest' = k
  <2>1. k \in Nat
    BY <1>1
  <2>2. Started' = 1..k
    BY <1>2, <1>4
  <2>3. Newest' = Cardinality(Started')
    BY DEF Newest
  <2>  QED BY <2>1, <2>2, <2>3, CountInterval
<1>7. Running' \subseteq Running \cup {k}
  BY <1>3, <1>4 DEF Running, Ended, Started
<1>  QED BY <1>4, <1>5, <1>6, <1>7

LEMMA NextInv ==
  ASSUME EngineAssumption, LoadInv, [Next]_vars
  PROVE  LoadInv'
<1>1. CASE \E k \in Loads : LoadScene(k)
  BY <1>1, LoadStep
<1>2. CASE StartFirst
  <2>1. Started = {} /\ Newest = 0 /\ Running = {}
    BY <1>2, FS_EmptySet DEF StartFirst, LoadInv, Held, Newest, Running
  <2>2. 1 <= MaxLoads
    BY DEF EngineAssumption
  <2>3. InTurn' /\ Newest' = 1 /\ Running' \subseteq {1}
    BY <1>2, <2>1, <2>2, StartStep DEF StartFirst
  <2>  QED BY <1>2, <2>3 DEF StartFirst, LoadInv, Held, Kept
<1>3. CASE OpenFile("idle") \/ OpenFile("dialog")
  <2>1. /\ window \in {"idle", "dialog"} /\ Newest < MaxLoads /\ Start(Newest + 1)
        /\ window' = "assign" /\ loadingTask' = loadingTask
    BY <1>3 DEF OpenFile
  <2>2. Newest \in Nat /\ MaxLoads \in Nat /\ Newest + 1 <= MaxLoads
    BY <2>1, CountStarted DEF EngineAssumption, LoadInv
  <2>3. InTurn' /\ Newest' = Newest + 1 /\ Running' \subseteq Running \cup {Newest + 1}
    BY <2>1, <2>2, StartStep
  <2>4. Running \subseteq {loadingTask}
    BY <2>1 DEF LoadInv, Kept
  <2>  QED BY <2>1, <2>3, <2>4 DEF LoadInv, Held, Kept
<1>4. CASE AssignTask
  <2>1. /\ window = "assign" /\ window' = "free" /\ loadingTask' = Newest /\ task' = task
        /\ loadingTask \notin Running
    BY <1>4 DEF AssignTask, MayAssign, Running
  <2>2. InTurn' /\ Newest' = Newest /\ Running' = Running
    BY <2>1, TasksFrame
  <2>3. Running \subseteq {Newest}
    BY <2>1 DEF LoadInv, Kept
  <2>  QED BY <2>1, <2>2, <2>3 DEF LoadInv, Held, Kept
<1>5. CASE GetTask
  <2>1. /\ window = "get" /\ window' \in {"unload", "crashed"}
        /\ UNCHANGED <<task, loadingTask>> /\ loadingTask \notin Running
    BY <1>5 DEF GetTask, taskVars, Running
  <2>2. InTurn' /\ Newest' = Newest /\ Running' = Running
    BY <2>1, TasksFrame
  <2>3. Running = {}
    BY <2>1 DEF LoadInv, Kept
  <2>  QED BY <2>1, <2>2, <2>3 DEF LoadInv, Held, Kept
<1>6. CASE UnloadContent
  <2>1. window = "unload" /\ window' = "end" /\ UNCHANGED <<task, loadingTask>>
    BY <1>6 DEF UnloadContent, taskVars
  <2>2. InTurn' /\ Newest' = Newest /\ Running' = Running
    BY <2>1, TasksFrame
  <2>  QED BY <2>1, <2>2 DEF LoadInv, Held, Kept
<1>7. CASE BeginPushContent \/ EndPushContent \/ PlaceFirst \/ WaitForFenceValue
  BY <1>7, WindowFrame
     DEF BeginPushContent, EndPushContent, PlaceFirst, WaitForFenceValue, taskVars
<1>8. CASE PressLeft \/ Deselect \/ DeleteEntity \/ CancelDialog \/ FreePath \/ LeaveLoop
  BY <1>8, WindowFrame
     DEF PressLeft, Deselect, DeleteEntity, CancelDialog, FreePath, LeaveLoop, Idle, taskVars
<1>9. CASE OnUpdate \/ SetLights \/ NearestEntity \/ ChooseTarget
  BY <1>9, WindowFrame DEF OnUpdate, SetLights, NearestEntity, ChooseTarget, Idle, taskVars
<1>10. CASE CheckLoading
  <2>1. window = "check" /\ window' \in {"gui", "draw", "crashed"} /\ UNCHANGED <<task, loadingTask>>
    BY <1>10 DEF CheckLoading, taskVars
  <2>  QED BY <2>1, WindowFrame
<1>11. CASE OnRender \/ OnGUI
  <2>1. /\ window \in {"draw", "gui"} /\ window' \in {"gui", "idle", "crashed"}
        /\ UNCHANGED <<task, loadingTask>>
    BY <1>11 DEF OnRender, OnGUI, taskVars
  <2>  QED BY <2>1, WindowFrame
<1>12. CASE Copy \/ ListRace
  BY <1>12, WindowFrame DEF Copy, ListRace, taskVars
<1>13. CASE UNCHANGED vars
  BY <1>13, WindowFrame DEF vars, taskVars
<1>  QED BY <1>1, <1>2, <1>3, <1>4, <1>5, <1>6, <1>7, <1>8, <1>9, <1>10, <1>11, <1>12, <1>13
     DEF Next, LoadContent, Events, Drawing

\* However often the user opens files while scenes load, a load that has not ended is
\* the one m_LoadingTask holds or the one that is being assigned to it, so that
\* UnloadContent, behind m_LoadingTask.get(), finds none (DirectX12Engine.cpp).
THEOREM NoneForgotten == Spec => []NoLoadIsForgotten
<1>1. Init => LoadInv
  <2> SUFFICES ASSUME Init PROVE LoadInv
    OBVIOUS
  <2>1. task \in [Loads -> TaskSteps] /\ Started = {} /\ window = "start"
    BY DEF Init, TaskSteps, Started
  <2>2. 0 \in 0..MaxLoads /\ 1..0 = {}
    BY EngineAssumption DEF EngineAssumption
  <2>3. Running = {}
    BY <2>1 DEF Running
  <2>  QED BY <2>1, <2>2, <2>3 DEF LoadInv, InTurn, Held, Kept
<1>2. LoadInv /\ [Next]_vars => LoadInv'
  BY NextInv, EngineAssumption
<1>3. LoadInv => NoLoadIsForgotten
  BY DEF LoadInv, Kept, NoLoadIsForgotten, Alive
<1>  QED BY <1>1, <1>2, <1>3, PTL DEF Spec

-----------------------------------------------------------------------------
(* What a frame draws.                                                     *)

LEMMA SetInduction ==
  ASSUME NEW S, 0 \in S, \A n \in Nat : n \in S => n + 1 \in S
  PROVE  Nat \subseteq S
<1> SUFFICES ASSUME Nat \ S # {} PROVE FALSE
    OBVIOUS
<1> DEFINE R == OpToRel(<, Nat)
<1>1. IsWellFoundedOn(R, Nat)
  BY NatLessThanWellFounded
<1>2. PICK x \in Nat \ S : \A y \in Nat \ S : ~(<<y, x>> \in R)
  <2> HIDE DEF R
  <2>  QED BY <1>1, WFMin
<1>3. \A y \in Nat \ S : ~(y < x)
  BY <1>2 DEF OpToRel
<1>4. x - 1 \in Nat
  OBVIOUS
<1>  QED BY <1>3, <1>4

IsSeq(s) == \E D : s \in Seq(D)

LEMMA AppendFacts ==
  ASSUME NEW s, IsSeq(s), NEW x
  PROVE  /\ IsSeq(Append(s, x)) /\ Len(s) \in Nat
         /\ DOMAIN s = 1..Len(s) /\ DOMAIN Append(s, x) = 1..(Len(s) + 1)
         /\ \A i \in DOMAIN s : Append(s, x)[i] = s[i]
         /\ Append(s, x)[Len(s) + 1] = x
<1>1. PICK D : s \in Seq(D)
  BY DEF IsSeq
<1> DEFINE E == D \cup {x}
<1>2. s \in Seq(E) /\ x \in E
  BY <1>1
<1> HIDE DEF E
<1>3. Append(s, x) \in Seq(E) /\ Len(Append(s, x)) = Len(s) + 1
  BY <1>2, AppendProperties
<1>4. Len(s) \in Nat /\ DOMAIN s = 1..Len(s) /\ DOMAIN Append(s, x) = 1..(Len(s) + 1)
  BY <1>2, <1>3, LenProperties
<1>  QED BY <1>2, <1>3, <1>4, AppendProperties DEF IsSeq

\* What an effect, a command list and a rendering are made of.
IsEffect(e) ==
  /\ e = [dirty |-> e.dirty, world |-> e.world, camera |-> e.camera,
          material |-> e.material, lights |-> e.lights]
  /\ e.dirty \subseteq Flags

IsList(l) ==
  /\ l = [signature |-> l.signature, bound |-> l.bound]
  /\ l.bound = [p \in RootParameters |-> l.bound[p]]

IsRendering(r) ==
  /\ r = [pso |-> r.pso, effect |-> r.effect, signature |-> r.signature,
          list |-> r.list, draws |-> r.draws]
  /\ IsEffect(r.effect) /\ IsList(r.list) /\ IsSeq(r.draws)

\* The list a draw finds: its own, or a new one.
Found(r) == SetGraphicsRootSignature(r.list, r.signature)

LEMMA FoundFacts ==
  ASSUME NEW r, IsRendering(r)
  PROVE  /\ IsList(Found(r)) /\ Found(r).signature = r.signature
         /\ r.list.signature = r.signature => Found(r).bound = r.list.bound
<1>1. CASE r.list.signature = r.signature
  BY <1>1 DEF Found, SetGraphicsRootSignature, IsRendering
<1>2. CASE r.list.signature # r.signature
  BY <1>2 DEF Found, SetGraphicsRootSignature, NewList, IsList
<1>  QED BY <1>1, <1>2

\* What Visit(Mesh) leaves.
LEMMA DrawnFacts ==
  ASSUME NEW r, IsRendering(r), NEW node, NEW mesh, mesh # Unset,
         NEW d, d = Drawn(r, node, mesh)
  PROVE  /\ IsRendering(d) /\ d.pso = r.pso /\ d.signature = r.signature
         /\ d.effect.dirty = {} /\ d.effect.lights = r.effect.lights
         /\ d.effect.world = r.effect.world /\ d.effect.camera = r.effect.camera
         /\ d.list.signature = r.signature
         /\ d.draws = Append(r.draws, [pso |-> r.pso, node |-> node, material |-> mesh,
                                       bound |-> d.list.bound])
         /\ d.list.bound["MaterialCB"] = mesh /\ d.list.bound["Textures"] = mesh
         /\ d.list.bound["MatricesCB"] = IF "Matrices" \in r.effect.dirty
                                         THEN <<r.effect.world, r.effect.camera>>
                                         ELSE Found(r).bound["MatricesCB"]
         /\ \A p \in {"DirectionalLights", "LightPropertiesCB"} :
              d.list.bound[p] = IF BoundBy[p] \cap r.effect.dirty # {} THEN r.effect.lights
                                ELSE Found(r).bound[p]
<1> DEFINE e    == SetMaterial(r.effect, mesh)
           list == ApplyTo(e, r.signature, r.list)
           draw == [pso |-> r.pso, node |-> node, material |-> mesh, bound |-> list.bound]
<1>1. e = [dirty |-> r.effect.dirty \cup {"Material"}, world |-> r.effect.world,
           camera |-> r.effect.camera, material |-> mesh, lights |-> r.effect.lights]
  <2> DEFINE f == r.effect
  <2>1. f = [dirty |-> f.dirty, world |-> f.world, camera |-> f.camera,
             material |-> f.material, lights |-> f.lights]
    BY DEF IsRendering, IsEffect
  <2> HIDE DEF f
  <2>2. PICK a, w, c, m, l : f = [dirty |-> a, world |-> w, camera |-> c, material |-> m, lights |-> l]
    BY <2>1
  <2>3. SetMaterial(f, mesh) = [dirty |-> a \cup {"Material"}, world |-> w, camera |-> c,
                                material |-> mesh, lights |-> l]
    <3>1. [f EXCEPT !.material = mesh] = [dirty |-> a, world |-> w, camera |-> c, material |-> mesh, lights |-> l]
      BY <2>2
    <3> DEFINE g == [f EXCEPT !.material = mesh]
               b == a \cup {"Material"}
    <3>2. SetMaterial(f, mesh) = [g EXCEPT !.dirty = b]
      BY <2>2 DEF SetMaterial
    <3> HIDE DEF g, b
    <3>3. g = [dirty |-> a, world |-> w, camera |-> c, material |-> mesh, lights |-> l]
      BY <3>1 DEF g
    <3>4. [g EXCEPT !.dirty = b] = [dirty |-> b, world |-> w, camera |-> c, material |-> mesh, lights |-> l]
      BY <3>3
    <3>  QED BY <3>2, <3>4 DEF b
  <2>4. SetMaterial(f, mesh) = [dirty |-> f.dirty \cup {"Material"}, world |-> f.world,
                                camera |-> f.camera, material |-> mesh, lights |-> f.lights]
    BY <2>2, <2>3
  <2>  QED BY <2>4 DEF f
<1>2. Applied(e) = [dirty |-> {}, world |-> r.effect.world, camera |-> r.effect.camera,
                    material |-> mesh, lights |-> r.effect.lights]
  <2> HIDE DEF e
  <2>  QED BY <1>1 DEF Applied
<1>3. /\ list = [signature |-> r.signature, bound |-> [p \in RootParameters |->
                   IF Binds(e, p) THEN ValueOf(e, p) ELSE Found(r).bound[p]]]
      /\ IsList(list) /\ list.signature = r.signature
      /\ \A p \in RootParameters : list.bound[p] = IF Binds(e, p) THEN ValueOf(e, p) ELSE Found(r).bound[p]
  <2> HIDE DEF e
  <2> DEFINE l     == Found(r)
             bound == [p \in RootParameters |-> IF Binds(e, p) THEN ValueOf(e, p) ELSE Found(r).bound[p]]
  <2>1. list = [l EXCEPT !.bound = bound]
    BY DEF ApplyTo, Found
  <2>2. l = [signature |-> r.signature, bound |-> l.bound]
    BY FoundFacts DEF IsList
  <2> HIDE DEF list, l, bound
  <2>3. list = [signature |-> r.signature, bound |-> bound]
    BY <2>1, <2>2
  <2>4. list.signature = r.signature /\ list.bound = bound
    BY <2>3
  <2>5. bound = [p \in RootParameters |-> bound[p]]
    BY DEF bound
  <2>6. IsList(list)
    BY <2>3, <2>4, <2>5 DEF IsList
  <2>  QED BY <2>3, <2>4, <2>6 DEF bound
<1>4. Drawn(r, node, mesh) = [r EXCEPT !.effect = Applied(e), !.list = list,
                                       !.draws = Append(r.draws, draw)]
  BY DEF Drawn, IsRendering
<1> HIDE DEF e, list
<1>5. /\ d.pso = r.pso /\ d.signature = r.signature /\ d.effect = Applied(e) /\ d.list = list
      /\ d.draws = Append(r.draws, draw)
      /\ d = [pso |-> d.pso, effect |-> d.effect, signature |-> d.signature,
              list |-> d.list, draws |-> d.draws]
  BY <1>4 DEF IsRendering
<1>6. IsSeq(Append(r.draws, draw))
  BY AppendFacts DEF IsRendering
<1>7. /\ {"MatricesCB", "MaterialCB", "Textures", "DirectionalLights", "LightPropertiesCB"} \subseteq RootParameters
      /\ BoundBy["MatricesCB"] = {"Matrices"} /\ BoundBy["MaterialCB"] = {"Material"}
      /\ BoundBy["Textures"] = {"Material"} /\ BoundBy["DirectionalLights"] = {"DirectionalLights"}
      /\ BoundBy["LightPropertiesCB"] = {"PointLights", "SpotLights", "DirectionalLights"}
  BY DEF BoundBy, RootParameters
<1>8. /\ Binds(e, "MaterialCB") /\ Binds(e, "Textures")
      /\ Binds(e, "MatricesCB") <=> "Matrices" \in r.effect.dirty
      /\ \A p \in {"DirectionalLights", "LightPropertiesCB"} :
           Binds(e, p) <=> BoundBy[p] \cap r.effect.dirty # {}
  BY <1>1, <1>7 DEF Binds
<1>9. /\ ValueOf(e, "MaterialCB") = mesh /\ ValueOf(e, "Textures") = mesh
      /\ ValueOf(e, "MatricesCB") = <<r.effect.world, r.effect.camera>>
      /\ ValueOf(e, "DirectionalLights") = r.effect.lights
      /\ ValueOf(e, "LightPropertiesCB") = r.effect.lights
  BY <1>1 DEF ValueOf
<1>10. IsEffect(d.effect)
  BY <1>2, <1>5 DEF IsEffect
<1>11. IsRendering(d)
  BY <1>3, <1>5, <1>6, <1>10 DEF IsRendering
<1>12. /\ d.effect.dirty = {} /\ d.effect.lights = r.effect.lights
       /\ d.effect.world = r.effect.world /\ d.effect.camera = r.effect.camera
  BY <1>2, <1>5
<1>13. d.draws = Append(r.draws, [pso |-> r.pso, node |-> node, material |-> mesh,
                                  bound |-> d.list.bound])
  BY <1>5 DEF draw
<1>14. /\ d.list.bound["MaterialCB"] = mesh /\ d.list.bound["Textures"] = mesh
       /\ d.list.bound["MatricesCB"] = IF "Matrices" \in r.effect.dirty
                                       THEN <<r.effect.world, r.effect.camera>>
                                       ELSE Found(r).bound["MatricesCB"]
       /\ \A p \in {"DirectionalLights", "LightPropertiesCB"} :
            d.list.bound[p] = IF BoundBy[p] \cap r.effect.dirty # {} THEN r.effect.lights
                              ELSE Found(r).bound[p]
  BY <1>3, <1>5, <1>7, <1>8, <1>9
<1>15. d.list.signature = r.signature
  BY <1>3, <1>5
<1>  QED BY <1>5, <1>11, <1>12, <1>13, <1>14, <1>15

\* Some draw is an effect's, and one by another effect follows it.
DrawnBy(ds, e)     == \E i \in DOMAIN ds : ds[i].pso = e
Interrupted(ds, e) == \E j, k \in DOMAIN ds : j < k /\ ds[j].pso = e /\ ds[k].pso # e

\* CameBack and DrawsAreBound, of any draws.
CameBackIn(ds, i) ==
  \E j \in 1..(i - 1), k \in 1..(i - 1) : j < k /\ ds[j].pso = ds[i].pso /\ ds[k].pso # ds[i].pso

BoundIn(ds, i) ==
  LET d == ds[i]
  IN  /\ d.bound["MatricesCB"] = <<d.node, Now>>
      /\ d.bound["MaterialCB"] = d.material /\ d.bound["Textures"] = d.material
      /\ d.pso # Unlit /\ (oneSignature \/ ~CameBackIn(ds, i)) =>
           d.bound["DirectionalLights"] = Now /\ d.bound["LightPropertiesCB"] = Now

\* Every draw is bound, and of a scene of S.
GoodDraws(ds, S) == \A i \in DOMAIN ds : BoundIn(ds, i) /\ ds[i].node[1] \in S

\* What an effect with lights has to bind, or has bound.
LightsFollow(effect, e, list, ds) ==
  /\ effect.lights = Now
  /\ ~DrawnBy(ds, e) => "DirectionalLights" \in effect.dirty
  /\ DrawnBy(ds, e) /\ (oneSignature \/ ~Interrupted(ds, e)) =>
       /\ list.signature = SignatureOf(e)
       /\ list.bound["DirectionalLights"] = Now /\ list.bound["LightPropertiesCB"] = Now

Lit == {Lighting, Decal}

LEMMA AppendDraw ==
  ASSUME NEW ds, IsSeq(ds), NEW d, NEW more, more = Append(ds, d)
  PROVE  /\ \A e : DrawnBy(more, e) <=> DrawnBy(ds, e) \/ d.pso = e
         /\ \A e : Interrupted(ds, e) => Interrupted(more, e)
         /\ \A e : DrawnBy(ds, e) /\ d.pso # e => Interrupted(more, e)
         /\ CameBackIn(more, Len(ds) + 1) <=> Interrupted(ds, d.pso)
         /\ \A i \in DOMAIN ds : CameBackIn(more, i) <=> CameBackIn(ds, i)
<1> DEFINE n == Len(ds)
<1>1. /\ n \in Nat /\ DOMAIN ds = 1..n /\ DOMAIN more = 1..(n + 1)
      /\ \A i \in DOMAIN ds : more[i] = ds[i]
      /\ more[n + 1] = d
  BY AppendFacts
<1> HIDE DEF n
<1>2. \A e : DrawnBy(more, e) <=> DrawnBy(ds, e) \/ d.pso = e
  BY <1>1 DEF DrawnBy
<1>3. \A e : Interrupted(ds, e) => Interrupted(more, e)
  BY <1>1 DEF Interrupted
<1>4. \A e : DrawnBy(ds, e) /\ d.pso # e => Interrupted(more, e)
  BY <1>1 DEF Interrupted, DrawnBy
<1>5. CameBackIn(more, n + 1) <=> Interrupted(ds, d.pso)
  BY <1>1 DEF Interrupted, CameBackIn
<1>6. \A i \in DOMAIN ds : CameBackIn(more, i) <=> CameBackIn(ds, i)
  BY <1>1 DEF CameBackIn
<1>  QED BY <1>2, <1>3, <1>4, <1>5, <1>6 DEF n

\* A rendering with the effect e, while fx are the effects it was begun with.
Renders(r, e, fx, S) ==
  /\ IsRendering(r) /\ e \in Effects /\ r.pso = e /\ r.signature = SignatureOf(e)
  /\ GoodDraws(r.draws, S)
  /\ e \in Lit => LightsFollow(r.effect, e, r.list, r.draws)
  /\ \A f \in Lit \ {e} : LightsFollow(fx[f], f, r.list, r.draws)
  /\ e \notin Lit => \A f \in Lit : ~DrawnBy(r.draws, f)

\* The matrices of a node are bound or will be.
AtNode(r, node) ==
  /\ r.effect.world = node /\ r.effect.camera = Now
  /\ \/ "Matrices" \in r.effect.dirty
     \/ r.list.signature = r.signature /\ r.list.bound["MatricesCB"] = <<node, Now>>

LEMMA DrawnKeeps ==
  ASSUME NEW r, NEW e, NEW fx, NEW S, Renders(r, e, fx, S), NEW node, node[1] \in S, AtNode(r, node),
         NEW mesh, mesh # Unset, NEW d, d = Drawn(r, node, mesh)
  PROVE  Renders(d, e, fx, S) /\ AtNode(d, node)
<1> DEFINE draw == [pso |-> r.pso, node |-> node, material |-> mesh, bound |-> d.list.bound]
           n    == Len(r.draws)
<1>1. /\ IsRendering(d) /\ d.pso = r.pso /\ d.signature = r.signature
      /\ d.effect.dirty = {} /\ d.effect.lights = r.effect.lights
      /\ d.effect.world = r.effect.world /\ d.effect.camera = r.effect.camera
      /\ d.list.signature = r.signature
      /\ d.draws = Append(r.draws, draw)
      /\ d.list.bound["MaterialCB"] = mesh /\ d.list.bound["Textures"] = mesh
      /\ d.list.bound["MatricesCB"] = IF "Matrices" \in r.effect.dirty
                                      THEN <<r.effect.world, r.effect.camera>>
                                      ELSE Found(r).bound["MatricesCB"]
      /\ \A p \in {"DirectionalLights", "LightPropertiesCB"} :
           d.list.bound[p] = IF BoundBy[p] \cap r.effect.dirty # {} THEN r.effect.lights
                             ELSE Found(r).bound[p]
  BY DrawnFacts DEF Renders
<1>2. r.list.signature = r.signature => Found(r).bound = r.list.bound
  BY FoundFacts DEF Renders
<1>3. d.list.bound["MatricesCB"] = <<node, Now>>
  BY <1>1, <1>2 DEF AtNode
<1>4. AtNode(d, node)
  BY <1>1, <1>3 DEF AtNode
<1>5. IsSeq(r.draws) /\ draw.pso = e /\ r.pso = e /\ r.signature = SignatureOf(e)
  BY DEF Renders, IsRendering
<1>6. /\ \A f : DrawnBy(d.draws, f) <=> DrawnBy(r.draws, f) \/ e = f
      /\ \A f : Interrupted(r.draws, f) => Interrupted(d.draws, f)
      /\ \A f : DrawnBy(r.draws, f) /\ e # f => Interrupted(d.draws, f)
      /\ CameBackIn(d.draws, n + 1) <=> Interrupted(r.draws, e)
      /\ \A i \in DOMAIN r.draws : CameBackIn(d.draws, i) <=> CameBackIn(r.draws, i)
  <2>1. d.draws = Append(r.draws, draw) /\ IsSeq(r.draws) /\ draw.pso = e
    BY <1>1, <1>5
  <2> HIDE DEF draw
  <2>2. /\ \A f : DrawnBy(d.draws, f) <=> DrawnBy(r.draws, f) \/ draw.pso = f
        /\ \A f : Interrupted(r.draws, f) => Interrupted(d.draws, f)
        /\ \A f : DrawnBy(r.draws, f) /\ draw.pso # f => Interrupted(d.draws, f)
        /\ CameBackIn(d.draws, n + 1) <=> Interrupted(r.draws, draw.pso)
        /\ \A i \in DOMAIN r.draws : CameBackIn(d.draws, i) <=> CameBackIn(r.draws, i)
    BY <2>1, AppendDraw
  <2>  QED BY <2>1, <2>2
\* The lights of a lit effect stay bound, or are bound by this draw.
<1>7. ASSUME NEW p \in {"DirectionalLights", "LightPropertiesCB"}, e \in Lit,
             ~DrawnBy(r.draws, e) \/ oneSignature \/ ~Interrupted(r.draws, e)
      PROVE  d.list.bound[p] = Now
  <2>1. "DirectionalLights" \in BoundBy[p]
    BY DEF BoundBy
  <2>2. LightsFollow(r.effect, e, r.list, r.draws)
    BY <1>7 DEF Renders
  <2>3. CASE ~DrawnBy(r.draws, e)
    BY <2>1, <2>2, <2>3, <1>1 DEF LightsFollow
  <2>4. CASE DrawnBy(r.draws, e)
    <3>1. /\ r.list.signature = SignatureOf(e)
          /\ r.list.bound["DirectionalLights"] = Now /\ r.list.bound["LightPropertiesCB"] = Now
          /\ r.effect.lights = Now
      BY <1>7, <2>2, <2>4 DEF LightsFollow
    <3>2. Found(r).bound[p] = Now
      BY <3>1, <1>2, <1>5
    <3>  QED BY <3>1, <3>2, <1>1
  <2>  QED BY <2>3, <2>4
<1>8. ASSUME NEW f \in Lit \ {e}, NEW p \in {"DirectionalLights", "LightPropertiesCB"},
             DrawnBy(r.draws, f), oneSignature
      PROVE  d.list.bound[p] = Now
  <2>1. e \in Lit
    BY <1>8 DEF Renders
  <2>2. LightsFollow(r.effect, e, r.list, r.draws) /\ LightsFollow(fx[f], f, r.list, r.draws)
    BY <1>8, <2>1 DEF Renders
  <2>3. SignatureOf(f) = SignatureOf(e)
    BY <1>8 DEF SignatureOf
  <2>4. r.effect.lights = Now /\ r.list.signature = r.signature /\ r.list.bound[p] = Now
    BY <1>5, <1>8, <2>2, <2>3 DEF LightsFollow
  <2>  QED BY <1>1, <1>2, <2>4
<1>9. e \in Lit => LightsFollow(d.effect, e, d.list, d.draws)
  BY <1>1, <1>5, <1>6, <1>7 DEF LightsFollow, Renders
<1>10. \A f \in Lit \ {e} : LightsFollow(fx[f], f, d.list, d.draws)
  <2> SUFFICES ASSUME NEW f \in Lit \ {e} PROVE LightsFollow(fx[f], f, d.list, d.draws)
    OBVIOUS
  <2>1. LightsFollow(fx[f], f, r.list, r.draws)
    BY DEF Renders
  <2>2. DrawnBy(d.draws, f) => DrawnBy(r.draws, f) /\ Interrupted(d.draws, f)
    BY <1>6
  <2>3. oneSignature => d.list.signature = SignatureOf(f)
    BY <1>1, <1>5 DEF SignatureOf
  <2>4. ~DrawnBy(d.draws, f) => "DirectionalLights" \in fx[f].dirty
    BY <2>1, <1>6 DEF LightsFollow
  <2>  QED BY <2>1, <2>2, <2>3, <2>4, <1>8 DEF LightsFollow
<1>11. e \notin Lit => \A f \in Lit : ~DrawnBy(d.draws, f)
  BY <1>6 DEF Renders
<1>12. /\ n \in Nat /\ DOMAIN r.draws = 1..n /\ DOMAIN d.draws = 1..(n + 1)
       /\ \A i \in DOMAIN r.draws : d.draws[i] = r.draws[i]
       /\ d.draws[n + 1] = draw
  <2> HIDE DEF draw
  <2>  QED BY <1>1, <1>5, AppendFacts
<1>13. BoundIn(d.draws, n + 1) /\ d.draws[n + 1].node[1] \in S
  <2>1. e # Unlit => e \in Lit
    BY DEF Renders, Effects, Lit
  <2>2. /\ d.draws[n + 1].bound = d.list.bound /\ d.draws[n + 1].node = node
        /\ d.draws[n + 1].material = mesh /\ d.draws[n + 1].pso = e
    BY <1>5, <1>12
  <2> HIDE DEF draw, n
  <2>  QED BY <2>1, <2>2, <1>1, <1>3, <1>6, <1>7 DEF BoundIn
<1>14. GoodDraws(d.draws, S)
  <2> HIDE DEF draw, n
  <2> SUFFICES ASSUME NEW i \in DOMAIN d.draws PROVE BoundIn(d.draws, i) /\ d.draws[i].node[1] \in S
    BY DEF GoodDraws
  <2>1. CASE i = n + 1
    BY <2>1, <1>13
  <2>2. CASE i \in DOMAIN r.draws
    <3>1. BoundIn(r.draws, i) /\ r.draws[i].node[1] \in S
      BY <2>2 DEF Renders, GoodDraws
    <3>2. d.draws[i] = r.draws[i] /\ (CameBackIn(d.draws, i) <=> CameBackIn(r.draws, i))
      BY <2>2, <1>6, <1>12
    <3>  QED BY <3>1, <3>2 DEF BoundIn
  <2>  QED BY <2>1, <2>2, <1>12
<1>  QED BY <1>1, <1>4, <1>5, <1>9, <1>10, <1>11, <1>14 DEF Renders

LEMMA SetFacts ==
  ASSUME NEW e, IsEffect(e), NEW v, NEW x,
         x \in {SetWorldMatrix(e, v), SetCamera(e, v), SetDirectionalLights(e, v)}
  PROVE  /\ IsEffect(x) /\ e.dirty \subseteq x.dirty
         /\ x = SetWorldMatrix(e, v) => /\ x.world = v /\ x.camera = e.camera /\ x.lights = e.lights
                                        /\ "Matrices" \in x.dirty
         /\ x = SetCamera(e, v) => x.camera = v /\ x.lights = e.lights
         /\ x = SetDirectionalLights(e, v) => x.lights = v /\ "DirectionalLights" \in x.dirty
<1>1. PICK a, w, c, m, l : /\ e = [dirty |-> a, world |-> w, camera |-> c, material |-> m, lights |-> l]
                           /\ a \subseteq Flags
  BY DEF IsEffect
<1>2. SetWorldMatrix(e, v) =
        [dirty |-> a \cup {"Matrices"}, world |-> v, camera |-> c, material |-> m, lights |-> l]
  <2> DEFINE g == [e EXCEPT !.world = v]
             b == e.dirty \cup {"Matrices"}
  <2>1. SetWorldMatrix(e, v) = [g EXCEPT !.dirty = b]
    BY ONLY TRUE DEF SetWorldMatrix
  <2>2. b = a \cup {"Matrices"}
    BY <1>1
  <2>3. g = [dirty |-> a, world |-> v, camera |-> c, material |-> m, lights |-> l]
    BY <1>1
  <2> HIDE DEF g, b
  <2>4. [g EXCEPT !.dirty = b] = [dirty |-> b, world |-> v, camera |-> c, material |-> m, lights |-> l]
    BY <2>3
  <2>  QED BY <2>1, <2>2, <2>4
<1>3. SetCamera(e, v) =
        [dirty |-> a \cup {"Matrices"}, world |-> w, camera |-> v, material |-> m, lights |-> l]
  <2> DEFINE g == [e EXCEPT !.camera = v]
             b == e.dirty \cup {"Matrices"}
  <2>1. SetCamera(e, v) = [g EXCEPT !.dirty = b]
    BY ONLY TRUE DEF SetCamera
  <2>2. b = a \cup {"Matrices"}
    BY <1>1
  <2>3. g = [dirty |-> a, world |-> w, camera |-> v, material |-> m, lights |-> l]
    BY <1>1
  <2> HIDE DEF g, b
  <2>4. [g EXCEPT !.dirty = b] = [dirty |-> b, world |-> w, camera |-> v, material |-> m, lights |-> l]
    BY <2>3
  <2>  QED BY <2>1, <2>2, <2>4
<1>4. SetDirectionalLights(e, v) =
        [dirty |-> a \cup {"DirectionalLights"}, world |-> w, camera |-> c, material |-> m, lights |-> v]
  <2> DEFINE g == [e EXCEPT !.lights = v]
             b == e.dirty \cup {"DirectionalLights"}
  <2>1. SetDirectionalLights(e, v) = [g EXCEPT !.dirty = b]
    BY ONLY TRUE DEF SetDirectionalLights
  <2>2. b = a \cup {"DirectionalLights"}
    BY <1>1
  <2>3. g = [dirty |-> a, world |-> w, camera |-> c, material |-> m, lights |-> v]
    BY <1>1
  <2> HIDE DEF g, b
  <2>4. [g EXCEPT !.dirty = b] = [dirty |-> b, world |-> w, camera |-> c, material |-> m, lights |-> v]
    BY <2>3
  <2>  QED BY <2>1, <2>2, <2>4
<1>5. \E b : /\ e.dirty \subseteq b /\ b \subseteq Flags
             /\ \E w2, c2, l2 : x = [dirty |-> b, world |-> w2, camera |-> c2, material |-> m, lights |-> l2]
  <2>1. e.dirty = a /\ a \cup {"Matrices"} \subseteq Flags /\ a \cup {"DirectionalLights"} \subseteq Flags
    BY <1>1 DEF Flags
  <2>2. CASE x = SetWorldMatrix(e, v)
    <3>1. \E w2, c2, l2 : x = [dirty |-> a \cup {"Matrices"}, world |-> w2, camera |-> c2, material |-> m, lights |-> l2]
      BY ONLY <1>2, <2>2
    <3>  QED BY ONLY <2>1, <3>1
  <2>3. CASE x = SetCamera(e, v)
    <3>1. \E w2, c2, l2 : x = [dirty |-> a \cup {"Matrices"}, world |-> w2, camera |-> c2, material |-> m, lights |-> l2]
      BY ONLY <1>3, <2>3
    <3>  QED BY ONLY <2>1, <3>1
  <2>4. CASE x = SetDirectionalLights(e, v)
    <3>1. \E w2, c2, l2 : x = [dirty |-> a \cup {"DirectionalLights"}, world |-> w2, camera |-> c2, material |-> m, lights |-> l2]
      BY ONLY <1>4, <2>4
    <3>  QED BY ONLY <2>1, <3>1
  <2>  QED BY <2>2, <2>3, <2>4
<1>6. IsEffect(x) /\ e.dirty \subseteq x.dirty
  <2>1. PICK b : /\ e.dirty \subseteq b /\ b \subseteq Flags
                 /\ \E w2, c2, l2 : x = [dirty |-> b, world |-> w2, camera |-> c2, material |-> m, lights |-> l2]
    BY ONLY <1>5
  <2>2. PICK w2, c2, l2 : x = [dirty |-> b, world |-> w2, camera |-> c2, material |-> m, lights |-> l2]
    BY ONLY <2>1
  <2>  QED BY <2>1, <2>2 DEF IsEffect
<1>7. e.camera = c /\ e.lights = l
  BY <1>1
<1>8. ASSUME x = SetWorldMatrix(e, v)
      PROVE  x.world = v /\ x.camera = e.camera /\ x.lights = e.lights /\ "Matrices" \in x.dirty
  BY <1>2, <1>7, <1>8
<1>9. ASSUME x = SetCamera(e, v)
      PROVE  x.camera = v /\ x.lights = e.lights
  BY <1>3, <1>7, <1>9
<1>10. ASSUME x = SetDirectionalLights(e, v)
       PROVE  x.lights = v /\ "DirectionalLights" \in x.dirty
  BY <1>4, <1>10
<1>  QED BY <1>6, <1>8, <1>9, <1>10

\* A visit that sets the camera or the node's matrices.
LEMMA VisitKeeps ==
  ASSUME NEW r, NEW e, NEW fx, NEW S, Renders(r, e, fx, S), NEW v,
         NEW x, x \in {VisitScene(r, v), VisitNode(r, v)}
  PROVE  /\ Renders(x, e, fx, S)
         /\ x = VisitScene(r, v) => x.effect.camera = v
         /\ x = VisitNode(r, v) /\ r.effect.camera = Now => AtNode(x, v)
<1>1. PICK f : f \in {SetCamera(r.effect, v), SetWorldMatrix(r.effect, v)} /\ x = [r EXCEPT !.effect = f]
  BY DEF VisitScene, VisitNode, Renders, IsRendering
<1>2. IsRendering(r) /\ IsEffect(r.effect)
  BY DEF Renders, IsRendering
<1>3. /\ x.effect = f /\ x.pso = r.pso /\ x.signature = r.signature /\ x.list = r.list /\ x.draws = r.draws
      /\ x = [pso |-> x.pso, effect |-> x.effect, signature |-> x.signature, list |-> x.list, draws |-> x.draws]
  BY <1>1, <1>2 DEF IsRendering
<1>4. IsEffect(f) /\ f.lights = r.effect.lights /\ r.effect.dirty \subseteq f.dirty
  BY <1>1, <1>2, SetFacts
<1>5. IsRendering(x)
  BY <1>2, <1>3, <1>4 DEF IsRendering
<1>6. Renders(x, e, fx, S)
  BY <1>3, <1>4, <1>5 DEF Renders, LightsFollow
<1>7. x = VisitScene(r, v) => x.effect.camera = v
  <2> SUFFICES ASSUME x = VisitScene(r, v) PROVE x.effect.camera = v
    OBVIOUS
  <2>1. x.effect = SetCamera(r.effect, v)
    BY <1>2 DEF VisitScene, IsRendering
  <2>  QED BY <2>1, <1>2, SetFacts
<1>8. x = VisitNode(r, v) /\ r.effect.camera = Now => AtNode(x, v)
  <2> SUFFICES ASSUME x = VisitNode(r, v), r.effect.camera = Now PROVE AtNode(x, v)
    OBVIOUS
  <2>1. x.effect = SetWorldMatrix(r.effect, v)
    BY <1>2 DEF VisitNode, IsRendering
  <2>2. x.effect.world = v /\ x.effect.camera = r.effect.camera /\ "Matrices" \in x.effect.dirty
    BY <2>1, <1>2, SetFacts
  <2>  QED BY <2>2 DEF AtNode
<1>  QED BY <1>6, <1>7, <1>8

LEMMA AcceptNodeKeeps ==
  ASSUME NEW r, NEW e, NEW fx, NEW S, Renders(r, e, fx, S), r.effect.camera = Now,
         NEW scene \in S, NEW n, NEW meshes \in Seq(BOOLEAN), NEW transparent,
         NEW x, x = AcceptNode(r, scene, n, meshes, transparent)
  PROVE  Renders(x, e, fx, S) /\ x.effect.camera = Now
<1> DEFINE node       == <<scene, n>>
           first      == VisitNode(r, node)
           After(y, m) == IF meshes[m] = transparent THEN Drawn(y, node, <<scene, n, m>>) ELSE y
           visited    == CHOOSE visited : visited = [m \in 0..Len(meshes) |->
                           IF m = 0 THEN VisitNode(r, <<scene, n>>)
                           ELSE IF meshes[m] = transparent THEN Drawn(visited[m - 1], <<scene, n>>, <<scene, n, m>>)
                           ELSE visited[m - 1]]
           Good(y)    == Renders(y, e, fx, S) /\ AtNode(y, node)
<1>1. x = visited[Len(meshes)] /\ Len(meshes) \in Nat
  BY DEF AcceptNode
<1>2. visited = [m \in 0..Len(meshes) |-> IF m = 0 THEN first ELSE After(visited[m - 1], m)]
  <2> DEFINE P == {k \in Nat : \E g : g = [m \in 0..k |-> IF m = 0 THEN first ELSE After(g[m - 1], m)]}
  <2> HIDE DEF first, After
  <2>1. 0 \in P
    <3>1. [m \in 0..0 |-> first] = [m \in 0..0 |->
             IF m = 0 THEN first ELSE After([i \in 0..0 |-> first][m - 1], m)]
      OBVIOUS
    <3>  QED BY <3>1
  <2>2. ASSUME NEW k \in Nat, k \in P PROVE k + 1 \in P
    <3>1. PICK g : g = [m \in 0..k |-> IF m = 0 THEN first ELSE After(g[m - 1], m)]
      BY <2>2
    <3> DEFINE h == [m \in 0..(k + 1) |-> IF m <= k THEN g[m] ELSE After(g[k], k + 1)]
    <3>2. h = [m \in 0..(k + 1) |-> IF m = 0 THEN first ELSE After(h[m - 1], m)]
      BY <3>1
    <3> HIDE DEF h
    <3>3. \E f : f = [m \in 0..(k + 1) |-> IF m = 0 THEN first ELSE After(f[m - 1], m)]
      BY <3>2
    <3>  QED BY <3>3
  <2>3. Len(meshes) \in P
    <3> HIDE DEF P
    <3>  QED BY <2>1, <2>2, <1>1, SetInduction
  <2>4. \E g : g = [m \in 0..Len(meshes) |-> IF m = 0 THEN first ELSE After(g[m - 1], m)]
    BY <2>3
  <2>  QED BY <2>4 DEF first, After
<1> HIDE DEF visited
<1>3. Good(first)
  BY VisitKeeps
<1>4. ASSUME NEW y, Good(y), NEW m
      PROVE  Good(After(y, m))
  <2>1. node[1] \in S /\ <<scene, n, m>> # Unset
    BY DEF Unset
  <2> HIDE DEF node
  <2>  QED BY <2>1, <1>4, DrawnKeeps
<1> HIDE DEF Good, first, After
<1> DEFINE Q == {k \in Nat : k <= Len(meshes) => Good(visited[k])}
<1>5. 0 \in Q
  BY <1>1, <1>2, <1>3
<1>6. ASSUME NEW k \in Nat, k \in Q PROVE k + 1 \in Q
  <2>1. k + 1 <= Len(meshes) => visited[k + 1] = After(visited[k], k + 1)
    BY <1>1, <1>2
  <2>  QED BY <1>1, <1>4, <1>6, <2>1
<1>7. Len(meshes) \in Q
  <2> HIDE DEF Q
  <2>  QED BY <1>1, <1>5, <1>6, SetInduction
<1>  QED BY <1>1, <1>7 DEF Good, AtNode

LEMMA AcceptKeeps ==
  ASSUME NEW r, NEW e, NEW fx, NEW S, Renders(r, e, fx, S), NEW scene \in S,
         NEW nodes \in Seq(Seq(BOOLEAN)), NEW transparent,
         NEW x, x = Accept(r, scene, nodes, Now, transparent)
  PROVE  Renders(x, e, fx, S)
<1> DEFINE first       == VisitScene(r, Now)
           After(y, n) == AcceptNode(y, scene, n, nodes[n], transparent)
           visited     == CHOOSE visited : visited = [n \in 0..Len(nodes) |->
                            IF n = 0 THEN VisitScene(r, Now)
                            ELSE AcceptNode(visited[n - 1], scene, n, nodes[n], transparent)]
           Good(y)     == Renders(y, e, fx, S) /\ y.effect.camera = Now
<1>1. x = visited[Len(nodes)] /\ Len(nodes) \in Nat
  BY DEF Accept
<1>2. visited = [n \in 0..Len(nodes) |-> IF n = 0 THEN first ELSE After(visited[n - 1], n)]
  <2> DEFINE P == {k \in Nat : \E g : g = [n \in 0..k |-> IF n = 0 THEN first ELSE After(g[n - 1], n)]}
  <2> HIDE DEF first, After
  <2>1. 0 \in P
    <3>1. [n \in 0..0 |-> first] = [n \in 0..0 |->
             IF n = 0 THEN first ELSE After([i \in 0..0 |-> first][n - 1], n)]
      OBVIOUS
    <3>  QED BY <3>1
  <2>2. ASSUME NEW k \in Nat, k \in P PROVE k + 1 \in P
    <3>1. PICK g : g = [n \in 0..k |-> IF n = 0 THEN first ELSE After(g[n - 1], n)]
      BY <2>2
    <3> DEFINE h == [n \in 0..(k + 1) |-> IF n <= k THEN g[n] ELSE After(g[k], k + 1)]
    <3>2. h = [n \in 0..(k + 1) |-> IF n = 0 THEN first ELSE After(h[n - 1], n)]
      BY <3>1
    <3> HIDE DEF h
    <3>3. \E f : f = [n \in 0..(k + 1) |-> IF n = 0 THEN first ELSE After(f[n - 1], n)]
      BY <3>2
    <3>  QED BY <3>3
  <2>3. Len(nodes) \in P
    <3> HIDE DEF P
    <3>  QED BY <2>1, <2>2, <1>1, SetInduction
  <2>4. \E g : g = [n \in 0..Len(nodes) |-> IF n = 0 THEN first ELSE After(g[n - 1], n)]
    BY <2>3
  <2>  QED BY <2>4 DEF first, After
<1> HIDE DEF visited
<1>3. Good(first)
  BY VisitKeeps
<1>4. ASSUME NEW y, Good(y), NEW n \in 1..Len(nodes)
      PROVE  Good(After(y, n))
  <2>1. nodes[n] \in Seq(BOOLEAN)
    OBVIOUS
  <2>  QED BY <2>1, <1>4, AcceptNodeKeeps
<1> HIDE DEF Good, first, After
<1> DEFINE Q == {k \in Nat : k <= Len(nodes) => Good(visited[k])}
<1>5. 0 \in Q
  BY <1>1, <1>2, <1>3
<1>6. ASSUME NEW k \in Nat, k \in Q PROVE k + 1 \in Q
  <2>1. k + 1 <= Len(nodes) => visited[k + 1] = After(visited[k], k + 1) /\ k + 1 \in 1..Len(nodes)
    BY <1>1, <1>2
  <2>  QED BY <1>1, <1>4, <1>6, <2>1
<1>7. Len(nodes) \in Q
  <2> HIDE DEF Q
  <2>  QED BY <1>1, <1>5, <1>6, SetInduction
<1>  QED BY <1>1, <1>7 DEF Good

\* A frame that is being drawn: the effects, the list and the draws of scenes of S.
GoodFrame(f, S) ==
  /\ f = [effects |-> f.effects, list |-> f.list, draws |-> f.draws]
  /\ f.effects = [e \in Effects |-> f.effects[e]] /\ \A e \in Effects : IsEffect(f.effects[e])
  /\ IsList(f.list) /\ IsSeq(f.draws) /\ GoodDraws(f.draws, S)
  /\ \A e \in Lit : LightsFollow(f.effects[e], e, f.list, f.draws)

NoneLit(f) == \A e \in Lit : ~DrawnBy(f.draws, e)

LEMMA PassKeeps ==
  ASSUME EngineAssumption, NEW f, NEW S, GoodFrame(f, S), NEW scene \in S, scene \in Scenes \cup {Axis},
         NEW e \in Effects, e \in Lit \/ NoneLit(f), NEW transparent,
         NEW g, g = Pass(f, scene, e, transparent)
  PROVE  GoodFrame(g, S) /\ (e \notin Lit => NoneLit(g))
<1> DEFINE r == [pso |-> e, effect |-> f.effects[e], signature |-> SignatureOf(e),
                 list |-> f.list, draws |-> f.draws]
           x == Accept(r, scene, Nodes[scene], Now, transparent)
<1>1. Renders(r, e, f.effects, S)
  <2>1. /\ r.pso = e /\ r.effect = f.effects[e] /\ r.signature = SignatureOf(e)
        /\ r.list = f.list /\ r.draws = f.draws
        /\ r = [pso |-> r.pso, effect |-> r.effect, signature |-> r.signature, list |-> r.list, draws |-> r.draws]
    OBVIOUS
  <2> HIDE DEF r
  <2>2. IsRendering(r)
    BY <2>1 DEF IsRendering, GoodFrame
  <2>  QED BY <2>1, <2>2 DEF Renders, GoodFrame, NoneLit
<1>2. Nodes[scene] \in Seq(Seq(BOOLEAN))
  BY DEF EngineAssumption
<1>3. g = [effects |-> [f.effects EXCEPT ![e] = x.effect], list |-> x.list, draws |-> x.draws]
  BY DEF Pass
<1> HIDE DEF r
<1>4. Renders(x, e, f.effects, S)
  BY <1>1, <1>2, AcceptKeeps
<1> HIDE DEF x
<1>5. /\ g.effects = [f.effects EXCEPT ![e] = x.effect] /\ g.list = x.list /\ g.draws = x.draws
      /\ g = [effects |-> g.effects, list |-> g.list, draws |-> g.draws]
  BY <1>3
<1>6. /\ g.effects = [h \in Effects |-> g.effects[h]]
      /\ \A h \in Effects : g.effects[h] = IF h = e THEN x.effect ELSE f.effects[h]
  BY <1>5 DEF GoodFrame
<1>7. \A h \in Effects : IsEffect(g.effects[h])
  BY <1>4, <1>6 DEF Renders, IsRendering, GoodFrame
<1>8. \A h \in Lit : LightsFollow(g.effects[h], h, g.list, g.draws)
  BY <1>4, <1>5, <1>6 DEF Renders, Lit, Effects
<1>9. IsList(g.list) /\ IsSeq(g.draws) /\ GoodDraws(g.draws, S) /\ (e \notin Lit => NoneLit(g))
  BY <1>4, <1>5 DEF Renders, IsRendering, NoneLit
<1>10. GoodFrame(g, S)
  BY <1>5, <1>6, <1>7, <1>8, <1>9 DEF GoodFrame
<1>  QED BY <1>9, <1>10

\* The effects a frame begins with: the lights are set, and have to be bound.
LightsSet ==
  \A e \in Lit : effects[e].lights = Now /\ "DirectionalLights" \in effects[e].dirty

EffectsOK ==
  /\ effects = [e \in Effects |-> effects[e]]
  /\ \A e \in Effects : IsEffect(effects[e])

LEMMA FrameIsGood ==
  ASSUME EngineAssumption, EffectsOK, LightsSet, assets \in Seq(Scenes)
  PROVE  GoodFrame(Frame, ToSet(assets) \cup {Axis})
<1> DEFINE S           == ToSet(assets) \cup {Axis}
           begin       == [effects |-> effects, list |-> NewList, draws |-> <<>>]
           first       == Pass(begin, Axis, Unlit, FALSE)
           After(f, i) == DrawScene(f, assets[i])
           drawn       == CHOOSE drawn : drawn = [i \in 0..Len(assets) |->
                            IF i = 0 THEN Pass([effects |-> effects, list |-> NewList, draws |-> <<>>],
                                               Axis, Unlit, FALSE)
                            ELSE DrawScene(drawn[i - 1], assets[i])]
           Good(f)     == GoodFrame(f, S)
<1>1. Frame = drawn[Len(assets)] /\ Len(assets) \in Nat
  BY DEF Frame
<1>2. drawn = [i \in 0..Len(assets) |-> IF i = 0 THEN first ELSE After(drawn[i - 1], i)]
  <2> DEFINE P == {k \in Nat : \E g : g = [i \in 0..k |-> IF i = 0 THEN first ELSE After(g[i - 1], i)]}
  <2> HIDE DEF first, After
  <2>1. 0 \in P
    <3>1. [i \in 0..0 |-> first] = [i \in 0..0 |->
             IF i = 0 THEN first ELSE After([n \in 0..0 |-> first][i - 1], i)]
      OBVIOUS
    <3>  QED BY <3>1
  <2>2. ASSUME NEW k \in Nat, k \in P PROVE k + 1 \in P
    <3>1. PICK g : g = [i \in 0..k |-> IF i = 0 THEN first ELSE After(g[i - 1], i)]
      BY <2>2
    <3> DEFINE h == [i \in 0..(k + 1) |-> IF i <= k THEN g[i] ELSE After(g[k], k + 1)]
    <3>2. h = [i \in 0..(k + 1) |-> IF i = 0 THEN first ELSE After(h[i - 1], i)]
      BY <3>1
    <3> HIDE DEF h
    <3>3. \E f : f = [i \in 0..(k + 1) |-> IF i = 0 THEN first ELSE After(f[i - 1], i)]
      BY <3>2
    <3>  QED BY ONLY <3>3
  <2>3. Len(assets) \in P
    <3> HIDE DEF P
    <3>  QED BY <2>1, <2>2, <1>1, SetInduction
  <2>4. \E g : g = [i \in 0..Len(assets) |-> IF i = 0 THEN first ELSE After(g[i - 1], i)]
    BY <2>3
  <2>  QED BY <2>4 DEF first, After
<1> HIDE DEF drawn
<1>3. Good(begin) /\ NoneLit(begin)
  <2>1. /\ begin.effects = effects /\ begin.list = NewList /\ begin.draws = <<>>
        /\ begin = [effects |-> begin.effects, list |-> begin.list, draws |-> begin.draws]
    OBVIOUS
  <2>2. IsList(NewList)
    BY DEF IsList, NewList
  <2>3. IsSeq(<<>>) /\ DOMAIN <<>> = {}
    BY DEF IsSeq
  <2> HIDE DEF begin
  <2>  QED BY <2>1, <2>2, <2>3 DEF GoodFrame, NoneLit, DrawnBy, GoodDraws, LightsFollow, EffectsOK, LightsSet
<1>4. Good(first)
  <2>1. Axis \in S /\ Unlit \in Effects
    BY DEF Effects
  <2> HIDE DEF begin, S
  <2>  QED BY <2>1, <1>3, PassKeeps
<1>5. ASSUME NEW f, Good(f), NEW i \in 1..Len(assets)
      PROVE  Good(After(f, i))
  <2>1. assets[i] \in S /\ assets[i] \in Scenes
    BY DEF ToSet
  <2>2. Lighting \in Lit /\ Decal \in Lit /\ Lit \subseteq Effects
    BY DEF Lit, Effects
  <2> DEFINE g == Pass(f, assets[i], Lighting, FALSE)
  <2> HIDE DEF S
  <2>3. Good(g)
    BY <1>5, <2>1, <2>2, PassKeeps
  <2>4. After(f, i) = Pass(g, assets[i], Decal, TRUE)
    BY DEF DrawScene
  <2> HIDE DEF g
  <2>  QED BY <2>1, <2>2, <2>3, <2>4, PassKeeps
<1> HIDE DEF Good, first, After
<1> DEFINE Q == {k \in Nat : k <= Len(assets) => Good(drawn[k])}
<1>6. 0 \in Q
  BY <1>1, <1>2, <1>4
<1>7. ASSUME NEW k \in Nat, k \in Q PROVE k + 1 \in Q
  <2>1. k + 1 <= Len(assets) => drawn[k + 1] = After(drawn[k], k + 1) /\ k + 1 \in 1..Len(assets)
    BY <1>1, <1>2
  <2>  QED BY <1>1, <1>5, <1>7, <2>1
<1>8. Len(assets) \in Q
  <2> HIDE DEF Q
  <2>  QED BY <1>1, <1>6, <1>7, SetInduction
<1>  QED BY <1>1, <1>8 DEF Good

-----------------------------------------------------------------------------
(* The list of assets, and the loads beside the frames.                    *)

\* A load that m_IsLoading announces, unless another has hidden it.
InLoad == {"loading", "push", "pushing", "execute", "flush", "finish"}

Types ==
  /\ window \in WindowSteps /\ inFrame \in BOOLEAN
  /\ result \in [Loads -> Scenes \cup {NoScene}] /\ \A k \in Loads : result[k] \in {NoScene, k}
  /\ loadingTask \in Loads \cup {0} /\ unguarded \subseteq Loads
  /\ isLoading \in BOOLEAN /\ cancel \in BOOLEAN /\ showDialog \in BOOLEAN
  /\ selected \in Scenes \cup {NoScene} /\ selecting \in BOOLEAN
  /\ offscreen \in BOOLEAN /\ oneSignature \in BOOLEAN
  /\ copying \in Seq(Scenes) /\ copied \subseteq Scenes
  /\ assets \in Seq(Scenes \cup {NoScene})

Nulls  == {i \in DOMAIN assets : assets[i] = NoScene}
Failed == {k \in Loads : task[k] \in Pushed /\ result[k] = NoScene}

\* The list holds a scene once, behind its load, and no more null pointers
\* than loads have failed.
ListInv ==
  /\ \A i, j \in DOMAIN assets : assets[i] = assets[j] /\ assets[i] # NoScene => i = j
  /\ \A i \in DOMAIN assets : assets[i] \in Loads => task[assets[i]] \in Pushed
  /\ window \in {"start", "push", "pushing"} => \A i \in DOMAIN assets : assets[i] # Content
  /\ Cardinality(Nulls) <= Cardinality(Failed)

\* A load flushes before it ends, and what it does is announced to the frames:
\* a load that is not unguarded is the only one that runs.
GuardInv ==
  /\ \A k \in Loads : task[k] \in {"finish", "done"} => k \in copied
  /\ window \notin {"start", "push", "pushing", "first", "wait", "crashed"} => Content \in copied
  /\ \A k \in Loads \ unguarded : task[k] \in InLoad => isLoading
  /\ \A k \in Running \ unguarded : Running = {k}
  /\ window = "draw" => \A k \in Loads \ unguarded : task[k] \notin InLoad

\* SetLights comes before what a frame draws.
LightsInv ==
  /\ EffectsOK
  /\ window \in {"nearest", "target", "check", "draw"} => LightsSet

SampleInv == LoadInv /\ Types /\ ListInv /\ GuardInv /\ LightsInv /\ DrawsAreBound /\ LoadedBeforeRendered

LEMMA Numbers ==
  ASSUME EngineAssumption
  PROVE  /\ MaxLoads \in Nat \ {0} /\ Loads \subseteq Nat \ {0} /\ IsFiniteSet(Loads)
         /\ Content \notin Loads /\ NoScene \notin Scenes /\ Content \in Scenes
         /\ Loads \subseteq Scenes /\ Axis \notin Scenes
BY FS_Interval DEF EngineAssumption, Loads, Content, NoScene, Scenes, Axis

LEMMA RemoveFacts ==
  ASSUME NEW T, NEW s \in Seq(T), NEW x, NEW out, out = RemoveFirst(s, x)
  PROVE  /\ out \in Seq(T)
         /\ \/ out = s
            \/ \E p \in DOMAIN s :
                 /\ s[p] = x /\ DOMAIN out = 1..(Len(s) - 1)
                 /\ \A i \in DOMAIN out : out[i] = s[IF i < p THEN i ELSE i + 1]
<1>1. Len(s) \in Nat /\ DOMAIN s = 1..Len(s) /\ \A i \in 1..Len(s) : s[i] \in T
  OBVIOUS
<1>2. CASE ~\E i \in 1..Len(s) : s[i] = x
  BY <1>2 DEF RemoveFirst
<1>3. CASE \E i \in 1..Len(s) : s[i] = x
  <2> DEFINE I == {i \in 1..Len(s) : s[i] = x}
             p == CHOOSE i \in I : \A j \in I : i =< j
             a == SubSeq(s, 1, p - 1)
             b == SubSeq(s, p + 1, Len(s))
  <2>1. out = a \o b
    BY <1>3 DEF RemoveFirst, RemoveAt, SelectInSeq, Min
  <2>2. \E i \in I : \A j \in I : i =< j
    <3> SUFFICES ASSUME \A i \in I : \E j \in I : j < i PROVE FALSE
      BY <1>1
    <3> DEFINE M == {n \in Nat : \A i \in I : n < i}
    <3>1. 0 \in M
      BY <1>1
    <3>2. ASSUME NEW n \in Nat, n \in M PROVE n + 1 \in M
      BY <3>2, <1>1
    <3>3. Nat \subseteq M
      <4> HIDE DEF M
      <4>  QED BY <3>1, <3>2, SetInduction
    <3>  QED BY <1>1, <1>3, <3>3
  <2>3. p \in I
    BY <2>2
  <2> HIDE DEF p
  <2>4. p \in 1..Len(s) /\ s[p] = x
    BY <2>3
  <2>5. /\ a \in Seq(T) /\ Len(a) = p - 1 /\ \A i \in 1..(p - 1) : a[i] = s[i]
        /\ b \in Seq(T) /\ Len(b) = Len(s) - p /\ \A i \in 1..(Len(s) - p) : b[i] = s[p + i]
    <3>1. /\ a \in Seq(T) /\ Len(a) = IF 1 <= p - 1 THEN p - 1 - 1 + 1 ELSE 0
          /\ \A i \in 1..(p - 1 - 1 + 1) : a[i] = s[1 + i - 1]
      <4>1. 1 \in Int /\ p - 1 \in Int /\ \A i \in 1..(p - 1) : s[i] \in T
        BY <1>1, <2>4
      <4> HIDE DEF I
      <4>  QED BY <4>1, SubSeqProperties
    <3>2. /\ b \in Seq(T) /\ Len(b) = IF p + 1 <= Len(s) THEN Len(s) - (p + 1) + 1 ELSE 0
          /\ \A i \in 1..(Len(s) - (p + 1) + 1) : b[i] = s[p + 1 + i - 1]
      <4>1. p + 1 \in Int /\ Len(s) \in Int /\ \A i \in (p + 1)..Len(s) : s[i] \in T
        BY <1>1, <2>4
      <4> HIDE DEF I
      <4>  QED BY <4>1, SubSeqProperties
    <3> HIDE DEF a, b, I
    <3>3. Len(a) = p - 1 /\ Len(b) = Len(s) - p
      <4>1. p \in Int /\ Len(s) \in Int /\ 1 <= p /\ p <= Len(s)
        BY <1>1, <2>4
      <4>2. /\ Len(a) = IF 1 <= p - 1 THEN p - 1 - 1 + 1 ELSE 0
            /\ Len(b) = IF p + 1 <= Len(s) THEN Len(s) - (p + 1) + 1 ELSE 0
        BY <3>1, <3>2
      <4>  QED BY ONLY <4>1, <4>2
    <3>4. ASSUME NEW i \in 1..(p - 1) PROVE a[i] = s[i]
      <4>1. i \in 1..(p - 1 - 1 + 1) /\ 1 + i - 1 = i
        BY <2>4
      <4>  QED BY <3>1, <4>1
    <3>5. ASSUME NEW i \in 1..(Len(s) - p) PROVE b[i] = s[p + i]
      <4>1. i \in 1..(Len(s) - (p + 1) + 1) /\ p + 1 + i - 1 = p + i
        BY <1>1, <2>4
      <4>  QED BY <3>2, <4>1
    <3>  QED BY <3>1, <3>2, <3>3, <3>4, <3>5
  <2> HIDE DEF a, b, I
  <2>6. /\ out \in Seq(T) /\ Len(out) = Len(a) + Len(b)
        /\ \A i \in 1..(Len(a) + Len(b)) : out[i] = IF i <= Len(a) THEN a[i] ELSE b[i - Len(a)]
    <3>1. a \in Seq(T) /\ b \in Seq(T)
      BY <2>5
    <3>  QED BY <2>1, <3>1, ConcatProperties
  <2>7. DOMAIN out = 1..(Len(s) - 1)
    <3>1. Len(out) = Len(a) + Len(b) /\ DOMAIN out = 1..Len(out)
      BY <2>6
    <3>2. Len(a) = p - 1 /\ Len(b) = Len(s) - p /\ p \in Int /\ Len(s) \in Int
      BY <1>1, <2>4, <2>5
    <3>3. Len(out) = Len(s) - 1
      BY ONLY <3>1, <3>2
    <3>  QED BY ONLY <3>1, <3>3
  <2>8. ASSUME NEW i \in DOMAIN out PROVE out[i] = s[IF i < p THEN i ELSE i + 1]
    <3>1. /\ Len(a) = p - 1 /\ Len(b) = Len(s) - p /\ p \in Int /\ Len(s) \in Int
          /\ i \in 1..(Len(s) - 1)
      BY <1>1, <2>4, <2>5, <2>7
    <3>2. i \in 1..(Len(a) + Len(b)) /\ i \in Int
      BY ONLY <3>1
    <3>3. out[i] = IF i <= Len(a) THEN a[i] ELSE b[i - Len(a)]
      BY <2>6, <3>2
    <3>4. CASE i < p
      <4>1. i <= Len(a) /\ i \in 1..(p - 1)
        BY ONLY <3>1, <3>4
      <4>2. a[i] = s[i]
        BY <2>5, <4>1
      <4>  QED BY <3>3, <3>4, <4>1, <4>2
    <3>5. CASE ~(i < p)
      <4>1. ~(i <= Len(a)) /\ i - Len(a) \in 1..(Len(s) - p) /\ p + (i - Len(a)) = i + 1
        BY ONLY <3>1, <3>5
      <4>2. b[i - Len(a)] = s[p + (i - Len(a))]
        BY <2>5, <4>1
      <4>  QED BY <3>3, <3>5, <4>1, <4>2
    <3>  QED BY <3>4, <3>5
  <2>  QED BY <1>1, <2>4, <2>6, <2>7, <2>8
<1>  QED BY <1>2, <1>3

\* The window's thread moves on.
LEMMA TypesFrame ==
  ASSUME Types, window' \in WindowSteps, inFrame' \in BOOLEAN, loadingTask' \in Loads \cup {0},
         unguarded' \subseteq Loads,
         UNCHANGED <<result, flags, listVars, offscreen, gpuVars, oneSignature>>
  PROVE  Types'
BY DEF Types, flags, listVars, gpuVars

\* The types of what each step changes.
LEMMA TypesNext ==
  ASSUME EngineAssumption, LoadInv, Types, [Next]_vars
  PROVE  Types'
<1>1. Newest \in Nat /\ Newest <= MaxLoads /\ Started = 1..Newest
  <2>1. Newest \in 0..MaxLoads /\ Started = 1..Newest /\ MaxLoads \in Nat
    BY CountStarted, Numbers DEF LoadInv
  <2>  QED BY <2>1
<1>2. Running \subseteq Loads
  BY DEF Running, Started
<1>3. /\ Content \in Scenes /\ NoScene \in Scenes \cup {NoScene} /\ Loads \subseteq Scenes
      /\ MaxLoads \in Nat \ {0} /\ Loads = 1..MaxLoads
  BY Numbers DEF Loads
<1>4. CASE UNCHANGED vars
  BY <1>4 DEF vars, taskVars, flags, listVars, frameVars, gpuVars, Types
<1>5. CASE \E k \in Loads : LoadScene(k)
  <2>1. PICK k \in Loads : LoadScene(k)
    BY <1>5
  <2>2. window' \in WindowSteps
    BY <2>1 DEF LoadScene, BeginLoad, ReadFreedPath, LoadSceneFromFile, BeginPush, EndPush,
         ExecuteCommandList, Flush, FinishLoad, Types, WindowSteps
  <2>3. /\ UNCHANGED <<inFrame, loadingTask, showDialog, selected, selecting, offscreen, oneSignature, copied>>
        /\ unguarded' \subseteq Loads
    BY <2>1 DEF LoadScene, BeginLoad, ReadFreedPath, LoadSceneFromFile, BeginPush, EndPush,
         ExecuteCommandList, Flush, FinishLoad, Announce, Types, frameVars, flags, listVars, gpuVars
  <2>4. isLoading' \in BOOLEAN /\ cancel' \in BOOLEAN
    BY <2>1 DEF LoadScene, BeginLoad, ReadFreedPath, LoadSceneFromFile, BeginPush, EndPush,
         ExecuteCommandList, Flush, FinishLoad, Announce, LoadingAfter, Types, flags
  <2>5. result' \in [Loads -> Scenes \cup {NoScene}] /\ \A j \in Loads : result'[j] \in {NoScene, j}
    <3>1. result' = result \/ result' = [result EXCEPT ![k] = k]
      BY <2>1 DEF LoadScene, BeginLoad, ReadFreedPath, LoadSceneFromFile, BeginPush, EndPush,
           ExecuteCommandList, Flush, FinishLoad
    <3>2. k \in Scenes /\ result \in [Loads -> Scenes \cup {NoScene}] /\ \A j \in Loads : result[j] \in {NoScene, j}
      BY <1>3 DEF Types
    <3>3. CASE result' = [result EXCEPT ![k] = k]
      <4>1. result' \in [Loads -> Scenes \cup {NoScene}]
        BY <3>2, <3>3
      <4>2. \A j \in Loads : result'[j] = IF j = k THEN k ELSE result[j]
        BY <3>2, <3>3
      <4>  QED BY <3>2, <4>1, <4>2
    <3>  QED BY <3>1, <3>2, <3>3
  <2>6. copying' \in Seq(Scenes)
    <3>1. copying' = copying \/ copying' = Append(copying, k)
      BY <2>1 DEF LoadScene, BeginLoad, ReadFreedPath, LoadSceneFromFile, BeginPush, EndPush,
           ExecuteCommandList, Flush, FinishLoad, gpuVars
    <3>2. k \in Scenes /\ copying \in Seq(Scenes)
      BY <1>3 DEF Types
    <3>3. Append(copying, k) \in Seq(Scenes)
      BY <3>2, AppendProperties
    <3>  QED BY <3>1, <3>2, <3>3
  <2>7. assets' \in Seq(Scenes \cup {NoScene})
    <3>1. assets' = assets \/ assets' = Append(assets, result[k])
      BY <2>1 DEF LoadScene, BeginLoad, ReadFreedPath, LoadSceneFromFile, BeginPush, EndPush,
           ExecuteCommandList, Flush, FinishLoad, PushBack, listVars
    <3>2. result[k] \in Scenes \cup {NoScene} /\ assets \in Seq(Scenes \cup {NoScene})
      BY DEF Types
    <3>3. Append(assets, result[k]) \in Seq(Scenes \cup {NoScene})
      BY <3>2, AppendProperties
    <3>  QED BY <3>1, <3>2, <3>3
  <2>8. inFrame' \in BOOLEAN /\ loadingTask' \in Loads \cup {0} /\ showDialog' \in BOOLEAN
        /\ selected' \in Scenes \cup {NoScene} /\ selecting' \in BOOLEAN /\ offscreen' \in BOOLEAN
        /\ oneSignature' \in BOOLEAN /\ copied' \subseteq Scenes
    BY <2>3 DEF Types
  <2>  QED BY <2>2, <2>3, <2>4, <2>5, <2>6, <2>7, <2>8 DEF Types
<1>6. CASE StartFirst
  <2>1. unguarded' \subseteq Loads
    BY <1>2, <1>3, <1>6 DEF StartFirst, Start, Types
  <2>2. /\ window' \in WindowSteps /\ inFrame' \in BOOLEAN /\ loadingTask' \in Loads
        /\ UNCHANGED <<result, flags, listVars, offscreen, gpuVars, oneSignature>>
    BY <1>3, <1>6 DEF StartFirst, Types, WindowSteps, frameVars
  <2>  QED BY <2>1, <2>2, TypesFrame
<1>7. CASE BeginPushContent
  <2>1. /\ window' \in WindowSteps /\ inFrame' \in BOOLEAN
        /\ UNCHANGED <<result, loadingTask, unguarded, flags, listVars, offscreen, gpuVars, oneSignature>>
    BY <1>7 DEF BeginPushContent, taskVars, frameVars, Types, WindowSteps
  <2>2. loadingTask' \in Loads \cup {0} /\ unguarded' \subseteq Loads
    BY <2>1 DEF Types
  <2>  QED BY <2>1, <2>2, TypesFrame
<1>8. CASE EndPushContent
  <2>1. assets' \in Seq(Scenes \cup {NoScene})
    <3>1. assets' = assets \/ assets' = Append(assets, Content)
      BY <1>8 DEF EndPushContent, PushBack
    <3>2. assets \in Seq(Scenes \cup {NoScene}) /\ Content \in Scenes \cup {NoScene}
      BY <1>3 DEF Types
    <3>3. Append(assets, Content) \in Seq(Scenes \cup {NoScene})
      BY <3>2, AppendProperties
    <3>  QED BY <3>1, <3>2, <3>3
  <2>  QED BY <1>8, <2>1 DEF EndPushContent, taskVars, flags, frameVars, gpuVars, Types, WindowSteps
<1>9. CASE PlaceFirst
  <2>1. copying' \in Seq(Scenes) /\ window' \in WindowSteps
    <3>1. copying' \in {copying, Append(copying, Content)} /\ window' \in {"crashed", "wait"}
      BY <1>9 DEF PlaceFirst
    <3>2. copying \in Seq(Scenes) /\ Content \in Scenes
      BY <1>3 DEF Types
    <3>3. Append(copying, Content) \in Seq(Scenes)
      BY <3>2, AppendProperties
    <3>  QED BY <3>1, <3>2, <3>3 DEF WindowSteps
  <2>  QED BY <1>9, <2>1 DEF PlaceFirst, taskVars, flags, listVars, frameVars, Types
<1>10. CASE WaitForFenceValue
  <2>1. /\ window' \in WindowSteps /\ inFrame' \in BOOLEAN
        /\ UNCHANGED <<result, loadingTask, unguarded, flags, listVars, offscreen, gpuVars, oneSignature>>
    BY <1>10 DEF WaitForFenceValue, taskVars, frameVars, Types, WindowSteps
  <2>2. loadingTask' \in Loads \cup {0} /\ unguarded' \subseteq Loads
    BY <2>1 DEF Types
  <2>  QED BY <2>1, <2>2, TypesFrame
<1>11. CASE PressLeft \/ Deselect
  BY <1>11 DEF PressLeft, Deselect, taskVars, flags, frameVars, gpuVars, Types
<1>12. CASE DeleteEntity
  <2>1. assets' \in Seq(Scenes \cup {NoScene})
    BY <1>12, RemoveFacts DEF DeleteEntity, Types
  <2>  QED BY <1>12, <2>1 DEF DeleteEntity, taskVars, flags, frameVars, gpuVars, Types
<1>13. CASE OpenFile("idle") \/ OpenFile("dialog")
  <2>1. Newest + 1 \in Loads
    BY <1>1, <1>3, <1>13 DEF OpenFile
  <2>2. unguarded' \subseteq Loads
    BY <1>2, <1>13, <2>1 DEF OpenFile, Start, Types
  <2>3. /\ window' \in WindowSteps /\ inFrame' \in BOOLEAN /\ loadingTask' = loadingTask
        /\ UNCHANGED <<result, flags, listVars, offscreen, gpuVars, oneSignature>>
    BY ONLY <1>13 DEF OpenFile, WindowSteps, frameVars
  <2>4. loadingTask' \in Loads \cup {0}
    BY <2>3 DEF Types
  <2>  QED BY <2>2, <2>3, <2>4, TypesFrame
<1>14. CASE CancelDialog \/ FreePath
  <2>1. /\ window' \in WindowSteps /\ inFrame' \in BOOLEAN
        /\ UNCHANGED <<result, loadingTask, unguarded, flags, listVars, offscreen, gpuVars, oneSignature>>
    BY <1>14 DEF CancelDialog, FreePath, taskVars, frameVars, Types, WindowSteps
  <2>2. loadingTask' \in Loads \cup {0} /\ unguarded' \subseteq Loads
    BY <2>1 DEF Types
  <2>  QED BY <2>1, <2>2, TypesFrame
<1>15. CASE AssignTask
  <2>1. loadingTask' \in Loads \cup {0}
    BY <1>1, <1>3, <1>15 DEF AssignTask
  <2>2. /\ window' \in WindowSteps /\ inFrame' \in BOOLEAN /\ unguarded' \subseteq Loads
        /\ UNCHANGED <<result, flags, listVars, offscreen, gpuVars, oneSignature>>
    BY <1>15 DEF AssignTask, Types, WindowSteps, frameVars
  <2>  QED BY <2>1, <2>2, TypesFrame
<1>16. CASE LeaveLoop \/ GetTask \/ UnloadContent
  <2>1. /\ window' \in WindowSteps /\ inFrame' \in BOOLEAN
        /\ UNCHANGED <<result, loadingTask, unguarded, flags, listVars, offscreen, gpuVars, oneSignature>>
    BY <1>16 DEF LeaveLoop, GetTask, UnloadContent, taskVars, frameVars, Types, WindowSteps
  <2>2. loadingTask' \in Loads \cup {0} /\ unguarded' \subseteq Loads
    BY <2>1 DEF Types
  <2>  QED BY <2>1, <2>2, TypesFrame
<1>17. CASE OnUpdate \/ SetLights \/ ChooseTarget
  BY <1>17 DEF OnUpdate, SetLights, ChooseTarget, taskVars, flags, listVars, frameVars, gpuVars, Types, WindowSteps
<1>18. CASE NearestEntity
  <2>1. selected' \in Scenes \cup {NoScene} /\ selecting' \in BOOLEAN /\ window' \in WindowSteps
    <3>1. ToSet(assets) \subseteq Scenes \cup {NoScene}
      BY DEF ToSet, Types
    <3>  QED BY <1>18, <3>1 DEF NearestEntity, Types, WindowSteps
  <2>  QED BY <1>18, <2>1 DEF NearestEntity, taskVars, flags, frameVars, gpuVars, Types
<1>19. CASE CheckLoading
  <2>1. window' \in {"gui", "draw", "crashed"}
    BY <1>19 DEF CheckLoading
  <2>2. window' \in WindowSteps
    BY ONLY <2>1 DEF WindowSteps
  <2>3. UNCHANGED <<inFrame, result, loadingTask, unguarded, flags, listVars, offscreen, gpuVars, oneSignature>>
    BY ONLY <1>19 DEF CheckLoading, taskVars, frameVars
  <2>4. inFrame' \in BOOLEAN /\ loadingTask' \in Loads \cup {0} /\ unguarded' \subseteq Loads
    BY ONLY <2>3, Types DEF Types
  <2>  QED BY <2>2, <2>3, <2>4, TypesFrame
<1>20. CASE OnRender
  <2>1. window' \in WindowSteps
    BY <1>20 DEF OnRender, WindowSteps
  <2>  QED BY <1>20, <2>1 DEF OnRender, taskVars, flags, listVars, gpuVars, Types
<1>21. CASE OnGUI
  <2>1. window' \in WindowSteps /\ cancel' \in BOOLEAN /\ showDialog' \in BOOLEAN
    BY <1>21 DEF OnGUI, Types, WindowSteps
  <2>  QED BY <1>21, <2>1 DEF OnGUI, taskVars, listVars, gpuVars, Types
<1>22. CASE Copy
  <2>1. copying' \in Seq(Scenes) /\ copied' \subseteq Scenes
    BY <1>22 DEF Copy, Types
  <2>  QED BY <1>22, <2>1 DEF Copy, taskVars, flags, listVars, frameVars, Types
<1>23. CASE ListRace
  <2>1. /\ window' \in WindowSteps /\ inFrame' \in BOOLEAN
        /\ UNCHANGED <<result, loadingTask, unguarded, flags, listVars, offscreen, gpuVars, oneSignature>>
    BY <1>23 DEF ListRace, taskVars, frameVars, Types, WindowSteps
  <2>2. loadingTask' \in Loads \cup {0} /\ unguarded' \subseteq Loads
    BY <2>1 DEF Types
  <2>  QED BY <2>1, <2>2, TypesFrame
<1>  QED BY <1>4, <1>5, <1>6, <1>7, <1>8, <1>9, <1>10, <1>11, <1>12, <1>13, <1>14, <1>15, <1>16,
            <1>17, <1>18, <1>19, <1>20, <1>21, <1>22, <1>23 DEF Next, LoadContent, Events, Drawing

LEMMA AgedFacts ==
  ASSUME NEW e, IsEffect(e)
  PROVE  IsEffect(Aged(e))
<1>1. PICK a, w, c, m, l : /\ e = [dirty |-> a, world |-> w, camera |-> c, material |-> m, lights |-> l]
                           /\ a \subseteq Flags
  BY DEF IsEffect
<1> DEFINE Age(v) == IF v = Unset THEN Unset ELSE Before
           e1 == [e EXCEPT !.world = Age(e.world)]
           e2 == [e1 EXCEPT !.camera = Age(e.camera)]
           e3 == [e2 EXCEPT !.material = Age(e.material)]
           e4 == [e3 EXCEPT !.lights = Age(e.lights)]
<1>2. Aged(e) = e4
  BY ONLY TRUE DEF Aged
<1> HIDE DEF Age
<1>3. e1 = [dirty |-> a, world |-> Age(e.world), camera |-> c, material |-> m, lights |-> l]
  BY <1>1
<1> HIDE DEF e1
<1>4. e2 = [dirty |-> a, world |-> Age(e.world), camera |-> Age(e.camera), material |-> m, lights |-> l]
  BY <1>3
<1> HIDE DEF e2
<1>5. e3 = [dirty |-> a, world |-> Age(e.world), camera |-> Age(e.camera), material |-> Age(e.material),
            lights |-> l]
  BY <1>4
<1> HIDE DEF e3
<1>6. e4 = [dirty |-> a, world |-> Age(e.world), camera |-> Age(e.camera), material |-> Age(e.material),
            lights |-> Age(e.lights)]
  BY <1>5
<1> HIDE DEF e4
<1>  QED BY <1>1, <1>2, <1>6 DEF IsEffect

\* What OnRender draws.
LEMMA RenderFacts ==
  ASSUME EngineAssumption, Types, LightsInv, window = "draw", ~NullEntry
  PROVE  GoodFrame(Frame, ToSet(assets) \cup {Axis}) /\ assets \in Seq(Scenes)
<1>1. assets \in Seq(Scenes)
  <2>1. assets \in Seq(Scenes \cup {NoScene}) /\ \A i \in DOMAIN assets : assets[i] # NoScene
    BY DEF Types, NullEntry, ToSet
  <2>2. Len(assets) \in Nat /\ DOMAIN assets = 1..Len(assets)
        /\ assets = [i \in 1..Len(assets) |-> assets[i]]
    BY <2>1
  <2>3. \A i \in 1..Len(assets) : assets[i] \in Scenes
    BY <2>1, <2>2
  <2>  QED BY <2>2, <2>3, SeqDef
<1>2. LightsSet /\ EffectsOK
  BY DEF LightsInv
<1>  QED BY <1>1, <1>2, FrameIsGood

LEMMA LightsNext ==
  ASSUME EngineAssumption, Types, LightsInv, [Next]_vars
  PROVE  LightsInv'
<1> DEFINE W == {"nearest", "target", "check", "draw"}
<1>1. ASSUME effects' = effects, window' \in W => window \in W
      PROVE  LightsInv'
  BY <1>1 DEF LightsInv, EffectsOK, LightsSet
<1>2. CASE UNCHANGED vars
  BY <1>1, <1>2 DEF vars, frameVars
<1>3. CASE \E k \in Loads : LoadScene(k)
  <2>1. PICK k \in Loads : LoadScene(k)
    BY <1>3
  <2>2. window' \in {window, "crashed"} /\ effects' = effects
    BY <2>1 DEF LoadScene, BeginLoad, ReadFreedPath, LoadSceneFromFile, BeginPush, EndPush,
         ExecuteCommandList, Flush, FinishLoad, frameVars
  <2>  QED BY <1>1, <2>2
<1>4. CASE LoadContent
  BY <1>1, <1>4 DEF LoadContent, StartFirst, BeginPushContent, EndPushContent, PlaceFirst,
       WaitForFenceValue, frameVars
<1>5. CASE Events
  <2>1. effects' = effects /\ window' \notin W
    BY <1>5 DEF Events, PressLeft, Deselect, DeleteEntity, OpenFile, CancelDialog, AssignTask,
         FreePath, LeaveLoop, GetTask, UnloadContent, Idle, frameVars
  <2>  QED BY <1>1, <2>1
<1>6. CASE OnUpdate \/ NearestEntity \/ ChooseTarget
  BY <1>1, <1>6 DEF OnUpdate, NearestEntity, ChooseTarget, frameVars
<1>7. CASE CheckLoading
  <2>1. window = "check" /\ effects' = effects
    BY <1>7 DEF CheckLoading, frameVars
  <2>  QED BY <1>1, <2>1
<1>8. CASE SetLights
  <2>1. \A e \in Lit : effects'[e] = SetDirectionalLights(effects[e], Now)
    BY <1>8 DEF SetLights, Lit, Effects, Lighting, Decal, Unlit
  <2>2. effects'[Unlit] = effects[Unlit] /\ effects' = [e \in Effects |-> effects'[e]]
    BY <1>8 DEF SetLights, Effects
  <2>3. \A e \in Effects : IsEffect(effects[e])
    BY DEF LightsInv, EffectsOK
  <2>4. ASSUME NEW e \in Lit
        PROVE  /\ IsEffect(effects'[e]) /\ effects'[e].lights = Now
               /\ "DirectionalLights" \in effects'[e].dirty
    <3>1. e \in Effects
      BY DEF Lit, Effects
    <3>2. IsEffect(effects[e]) /\ effects'[e] = SetDirectionalLights(effects[e], Now)
      BY <2>1, <2>3, <3>1
    <3> DEFINE f == effects[e]
               x == SetDirectionalLights(f, Now)
    <3>3. IsEffect(f)
      BY <3>2
    <3> HIDE DEF f
    <3>4. x = SetDirectionalLights(f, Now)
          /\ x \in {SetWorldMatrix(f, Now), SetCamera(f, Now), SetDirectionalLights(f, Now)}
      OBVIOUS
    <3> HIDE DEF x
    <3>5. IsEffect(x) /\ x.lights = Now /\ "DirectionalLights" \in x.dirty
      BY <3>3, <3>4, SetFacts
    <3>  QED BY <3>2, <3>4, <3>5 DEF f
  <2>5. \A e \in Effects : IsEffect(effects'[e])
    BY <2>2, <2>3, <2>4 DEF Effects, Lit
  <2>  QED BY <2>2, <2>4, <2>5 DEF LightsInv, EffectsOK, LightsSet
<1>9. CASE OnRender
  <2>1. window' \notin W
    BY <1>9 DEF OnRender
  <2>2. CASE NullEntry
    BY <1>1, <1>9, <2>1, <2>2 DEF OnRender
  <2>3. CASE ~NullEntry
    <3>1. effects' = Frame.effects
      BY <1>9, <2>3 DEF OnRender
    <3>2. GoodFrame(Frame, ToSet(assets) \cup {Axis})
      BY <1>9, <2>3, RenderFacts DEF OnRender
    <3> DEFINE f == Frame
    <3>3. f.effects = [e \in Effects |-> f.effects[e]] /\ \A e \in Effects : IsEffect(f.effects[e])
      BY <3>2 DEF GoodFrame
    <3> HIDE DEF f
    <3>4. EffectsOK'
      BY <3>1, <3>3 DEF f, EffectsOK
    <3>  QED BY <2>1, <3>4 DEF LightsInv
  <2>  QED BY <2>2, <2>3
<1>10. CASE OnGUI
  <2>1. window' \notin W /\ effects' = [e \in Effects |-> Aged(effects[e])]
    BY <1>10 DEF OnGUI
  <2>2. effects' = [e \in Effects |-> effects'[e]] /\ \A e \in Effects : effects'[e] = Aged(effects[e])
    BY <2>1
  <2>3. \A e \in Effects : IsEffect(effects'[e])
    BY <2>2, AgedFacts DEF LightsInv, EffectsOK
  <2>4. EffectsOK'
    BY <2>2, <2>3 DEF EffectsOK
  <2>  QED BY <2>1, <2>4 DEF LightsInv
<1>11. CASE Copy \/ ListRace
  BY <1>1, <1>11 DEF Copy, ListRace, frameVars
<1>  QED BY <1>2, <1>3, <1>4, <1>5, <1>6, <1>7, <1>8, <1>9, <1>10, <1>11 DEF Next, Drawing

\* The step a load takes: what it leaves of the tasks and the guards.
LEMMA LoadMoves ==
  ASSUME EngineAssumption, LoadInv, Types, NEW k \in Loads, LoadScene(k)
  PROVE  /\ Alive /\ k \in Running /\ window' \in {window, "crashed"} /\ copied' = copied
         /\ unguarded \subseteq unguarded' /\ Started' = Started
         /\ \A j \in Loads \ {k} : task'[j] = task[j]
         /\ \/ task' = task /\ UNCHANGED <<isLoading, unguarded>> /\ window' = "crashed"
            \/ /\ task[k] = "ready" /\ task'[k] \in {"loading", "push"} /\ isLoading'
               /\ window = "draw" => k \in unguarded'
               /\ \A j \in unguarded' \ unguarded : j = k
            \/ /\ UNCHANGED <<isLoading, unguarded>>
               /\ \/ task[k] \in InLoad /\ task'[k] \in {"push", "pushing", "execute", "flush", "thrown"}
                  \/ task[k] = "flush" /\ task'[k] = "finish" /\ k \in copied
            \/ task[k] = "finish" /\ task'[k] = "done" /\ ~isLoading' /\ unguarded' = unguarded
<1>1. /\ Alive /\ window' \in {window, "crashed"} /\ copied' = copied
      /\ unguarded \subseteq unguarded'
  BY DEF LoadScene, BeginLoad, ReadFreedPath, LoadSceneFromFile, BeginPush, EndPush,
       ExecuteCommandList, Flush, FinishLoad, Announce, gpuVars
<1>2. \/ task' = task /\ UNCHANGED <<isLoading, unguarded>> /\ window' = "crashed"
      \/ /\ task[k] = "ready" /\ \E s \in {"loading", "push"} : Goto(k, s)
         /\ isLoading' = TRUE
         /\ window = "draw" => k \in unguarded'
         /\ \A j \in unguarded' \ unguarded : j = k
      \/ /\ UNCHANGED <<isLoading, unguarded>>
         /\ \/ task[k] \in InLoad /\ \E s \in {"push", "pushing", "execute", "flush", "thrown"} : Goto(k, s)
            \/ task[k] = "flush" /\ Goto(k, "finish") /\ k \in copied
      \/ task[k] = "finish" /\ Goto(k, "done") /\ isLoading' = FALSE /\ unguarded' = unguarded
  <2>1. CASE BeginLoad(k)
    BY <2>1 DEF BeginLoad, Announce
  <2>2. CASE ReadFreedPath(k)
    BY <2>2 DEF ReadFreedPath, Announce
  <2>3. CASE LoadSceneFromFile(k)
    BY <2>3 DEF LoadSceneFromFile, flags, InLoad
  <2>4. CASE BeginPush(k)
    BY <2>4 DEF BeginPush, flags, InLoad
  <2>5. CASE EndPush(k)
    BY <2>5 DEF EndPush, flags, InLoad
  <2>6. CASE ExecuteCommandList(k)
    BY <2>6 DEF ExecuteCommandList, flags, InLoad
  <2>7. CASE Flush(k)
    BY <2>7 DEF Flush, Flushed, flags
  <2>8. CASE FinishLoad(k)
    BY <2>8 DEF FinishLoad, LoadingAfter
  <2>  QED BY <2>1, <2>2, <2>3, <2>4, <2>5, <2>6, <2>7, <2>8 DEF LoadScene
<1>3. task \in [Loads -> TaskSteps]
  BY DEF LoadInv, InTurn
<1>4. \A s : Goto(k, s) => task'[k] = s /\ \A j \in Loads \ {k} : task'[j] = task[j]
  BY <1>3 DEF Goto
<1>5. k \in Running
  BY DEF LoadScene, BeginLoad, ReadFreedPath, LoadSceneFromFile, BeginPush, EndPush,
       ExecuteCommandList, Flush, FinishLoad, Running, Started, Ended
<1>6. \A j \in Loads \ {k} : task'[j] = task[j]
  BY <1>2, <1>4
<1>7. task'[k] # "none" /\ task[k] # "none"
  BY <1>2, <1>4, <1>5 DEF Running, Started
<1>8. Started' = Started
  BY <1>6, <1>7 DEF Started
<1>  QED BY <1>1, <1>2, <1>4, <1>5, <1>6, <1>8

\* The guards while no load takes a step and none is started.
LEMMA GuardFrame ==
  ASSUME GuardInv, UNCHANGED <<task, isLoading, unguarded>>, copied \subseteq copied',
         window' = "draw" => window = "draw" \/ ~isLoading,
         \/ window' \in {window, "crashed", "push", "pushing", "first", "wait"} \/ Content \in copied
  PROVE  GuardInv'
<1>1. Running' = Running
  BY DEF Running, Started, Ended
<1>  QED BY <1>1 DEF GuardInv

\* A load that is started beside another is unguarded, and so is the other.
LEMMA GuardStart ==
  ASSUME EngineAssumption, LoadInv, Types, GuardInv, NEW k \in Loads, task[k] = "none", Start(k),
         UNCHANGED <<isLoading, copied>>, window' # "draw",
         window' = "push" \/ Content \in copied
  PROVE  GuardInv'
<1>1. task \in [Loads -> TaskSteps]
  BY DEF LoadInv, InTurn
<1>2. \A j \in Loads : task'[j] = IF j = k THEN "ready" ELSE task[j]
  BY <1>1 DEF Start
<1>3. Running' = Running \cup {k}
  BY <1>2 DEF Running, Started, Ended
<1>4. unguarded' = IF Running = {} THEN unguarded ELSE unguarded \cup Running \cup {k}
  BY DEF Start
<1>5. \A j \in Running' \ unguarded' : Running' = {j}
  BY <1>3, <1>4
<1>  QED BY <1>2, <1>4, <1>5 DEF GuardInv, InLoad

LEMMA GuardNext ==
  ASSUME EngineAssumption, LoadInv, Types, GuardInv, [Next]_vars
  PROVE  GuardInv'
<1>1. CASE \E k \in Loads : LoadScene(k)
  <2>1. PICK k \in Loads : LoadScene(k)
    BY <1>1
  <2>2. /\ Alive /\ k \in Running /\ window' \in {window, "crashed"} /\ copied' = copied
        /\ unguarded \subseteq unguarded' /\ Started' = Started
        /\ \A j \in Loads \ {k} : task'[j] = task[j]
        /\ \/ task' = task /\ UNCHANGED <<isLoading, unguarded>> /\ window' = "crashed"
           \/ /\ task[k] = "ready" /\ task'[k] \in {"loading", "push"} /\ isLoading'
              /\ window = "draw" => k \in unguarded'
              /\ \A j \in unguarded' \ unguarded : j = k
           \/ /\ UNCHANGED <<isLoading, unguarded>>
              /\ \/ task[k] \in InLoad /\ task'[k] \in {"push", "pushing", "execute", "flush", "thrown"}
                 \/ task[k] = "flush" /\ task'[k] = "finish" /\ k \in copied
           \/ task[k] = "finish" /\ task'[k] = "done" /\ ~isLoading' /\ unguarded' = unguarded
    BY <2>1, LoadMoves
  <2>3. Running' \subseteq Running
    BY <2>2 DEF Running, Ended, Started
  <2>4. \A j \in Running' \ unguarded' : Running' = {j}
    BY <2>2, <2>3 DEF GuardInv
  <2>5. \A j \in Loads : task'[j] \in {"finish", "done"} => j \in copied'
    BY <2>2 DEF GuardInv
  <2>6. window' \notin {"start", "push", "pushing", "first", "wait", "crashed"} => Content \in copied'
    BY <2>2 DEF GuardInv
  <2>7. ASSUME NEW j \in Loads \ unguarded', task'[j] \in InLoad
        PROVE  isLoading' /\ window' # "draw"
    <3>1. j \notin unguarded
      BY <2>2
    <3>2. CASE j = k
      BY <2>2, <2>7, <3>1, <3>2 DEF GuardInv, InLoad
    <3>3. CASE j # k
      <4>1. task[j] \in InLoad /\ isLoading /\ window # "draw"
        BY <2>2, <2>7, <3>1, <3>3 DEF GuardInv
      <4>2. j \in Running
        BY <4>1 DEF Running, Started, Ended, InLoad
      <4>  QED BY <2>2, <3>1, <3>3, <4>2 DEF GuardInv
    <3>  QED BY <3>2, <3>3
  <2>  QED BY <2>4, <2>5, <2>6, <2>7 DEF GuardInv
<1>2. CASE StartFirst
  <2>1. /\ 1 \in Loads /\ Start(1) /\ window' = "push" /\ UNCHANGED <<isLoading, copied>>
        /\ task[1] = "none"
    <3>1. 1 \in Loads
      BY Numbers DEF Loads
    <3>2. window = "start" /\ Start(1) /\ window' = "push" /\ UNCHANGED <<isLoading, copied>>
      BY <1>2 DEF StartFirst, flags, gpuVars
    <3>3. Started = {}
      BY <3>2 DEF LoadInv, Held
    <3>  QED BY <3>1, <3>2, <3>3 DEF Started
  <2>  QED BY <2>1, GuardStart
<1>3. CASE OpenFile("idle") \/ OpenFile("dialog")
  <2>1. Newest + 1 \in Loads /\ task[Newest + 1] = "none"
    <3>1. Newest \in Nat /\ Started = 1..Newest /\ Newest < MaxLoads /\ MaxLoads \in Nat
      <4>1. Newest \in 0..MaxLoads /\ Started = 1..Newest /\ MaxLoads \in Nat
        BY CountStarted, Numbers DEF LoadInv
      <4>  QED BY <1>3, <4>1 DEF OpenFile
    <3>2. Newest + 1 \in Loads /\ Newest + 1 \notin Started
      BY <3>1 DEF Loads
    <3>  QED BY <3>2 DEF Started
  <2>2. /\ Start(Newest + 1) /\ window' = "assign" /\ UNCHANGED <<isLoading, copied>>
        /\ Content \in copied
    BY <1>3 DEF OpenFile, flags, gpuVars, GuardInv
  <2> DEFINE k == Newest + 1
  <2> HIDE DEF k
  <2>3. k \in Loads /\ task[k] = "none" /\ Start(k)
    BY <2>1, <2>2 DEF k
  <2>  QED BY <2>2, <2>3, GuardStart
<1>4. CASE BeginPushContent \/ EndPushContent
  BY <1>4, GuardFrame DEF BeginPushContent, EndPushContent, taskVars, flags, gpuVars
<1>5. CASE PlaceFirst
  <2>1. window' \in {"wait", "crashed"} /\ UNCHANGED <<task, isLoading, unguarded, copied>>
    BY <1>5 DEF PlaceFirst, taskVars, flags
  <2>  QED BY <2>1, GuardFrame
<1>6. CASE WaitForFenceValue
  BY <1>6, GuardFrame DEF WaitForFenceValue, taskVars, flags, gpuVars
<1>7. CASE PressLeft \/ Deselect \/ DeleteEntity
  BY <1>7, GuardFrame DEF PressLeft, Deselect, DeleteEntity, taskVars, flags, gpuVars
<1>8. CASE CancelDialog \/ AssignTask \/ FreePath \/ LeaveLoop \/ GetTask \/ UnloadContent
  <2>1. /\ window \in {"dialog", "assign", "free", "idle", "get", "unload"} /\ window' # "draw"
        /\ UNCHANGED <<task, isLoading, unguarded, copied>>
    BY <1>8 DEF CancelDialog, AssignTask, FreePath, LeaveLoop, GetTask, UnloadContent, Idle,
         taskVars, flags, gpuVars
  <2>2. Content \in copied
    BY <2>1 DEF GuardInv
  <2>  QED BY <2>1, <2>2, GuardFrame
<1>9. CASE Drawing
  <2>1. /\ window \in {"idle", "update", "nearest", "target", "check", "draw", "gui"}
        /\ window' = "draw" => ~isLoading
        /\ UNCHANGED <<task, isLoading, unguarded, copied>>
    <3>1. CASE OnUpdate \/ SetLights \/ NearestEntity \/ ChooseTarget
      BY <3>1 DEF OnUpdate, SetLights, NearestEntity, ChooseTarget, Idle, taskVars, flags, gpuVars
    <3>2. CASE CheckLoading
      <4>1. window' = "draw" => ~isLoading
        BY <3>2 DEF CheckLoading
      <4>  QED BY <3>2, <4>1 DEF CheckLoading, taskVars, flags, gpuVars
    <3>3. CASE OnRender \/ OnGUI
      BY <3>3 DEF OnRender, OnGUI, taskVars, flags, gpuVars
    <3>  QED BY <1>9, <3>1, <3>2, <3>3 DEF Drawing
  <2>2. Content \in copied
    BY <2>1 DEF GuardInv
  <2>  QED BY <2>1, <2>2, GuardFrame
<1>10. CASE Copy \/ ListRace
  BY <1>10, GuardFrame DEF Copy, ListRace, taskVars, flags, gpuVars
<1>11. CASE UNCHANGED vars
  BY <1>11, GuardFrame DEF vars, taskVars, flags, gpuVars
<1>  QED BY <1>1, <1>2, <1>3, <1>4, <1>5, <1>6, <1>7, <1>8, <1>9, <1>10, <1>11
     DEF Next, LoadContent, Events

\* The loads that are behind their push_back stay there, with what they have found.
PushedStays ==
  \A k \in Loads : task[k] \in Pushed => task'[k] \in Pushed /\ result'[k] = result[k]

LEMMA FailedGrows ==
  ASSUME EngineAssumption, PushedStays
  PROVE  /\ IsFiniteSet(Failed) /\ IsFiniteSet(Failed')
         /\ Failed \subseteq Failed' /\ Cardinality(Failed) <= Cardinality(Failed')
<1>1. Failed \subseteq Failed'
  BY DEF PushedStays, Failed
<1>2. IsFiniteSet(Loads) /\ Failed \in SUBSET Loads /\ Failed' \in SUBSET Loads
  BY Numbers DEF Failed
<1>3. IsFiniteSet(Failed) /\ IsFiniteSet(Failed')
  BY <1>2, FS_Subset
<1> DEFINE A == Failed
           B == Failed'
<1>4. A \in SUBSET B /\ IsFiniteSet(B)
  BY <1>1, <1>3
<1> HIDE DEF A, B
<1>5. Cardinality(A) <= Cardinality(B)
  BY <1>4, FS_Subset
<1>  QED BY <1>1, <1>3, <1>5 DEF A, B

LEMMA NullsFinite ==
  ASSUME Types
  PROVE  IsFiniteSet(Nulls) /\ Cardinality(Nulls) \in Nat
<1>1. Len(assets) \in Nat /\ DOMAIN assets = 1..Len(assets)
  BY DEF Types
<1>2. IsFiniteSet(1..Len(assets))
  BY <1>1, FS_Interval
<1>3. Nulls \in SUBSET (1..Len(assets))
  BY <1>1 DEF Nulls
<1>4. IsFiniteSet(Nulls)
  BY <1>2, <1>3, FS_Subset
<1>  QED BY <1>4, FS_CardinalityType

LEMMA ListFrame ==
  ASSUME EngineAssumption, Types, ListInv, PushedStays, assets' = assets,
         window' \in {"start", "push", "pushing"} => window \in {"start", "push", "pushing"}
  PROVE  ListInv'
<1>1. Cardinality(Failed) <= Cardinality(Failed') /\ Cardinality(Failed) \in Nat /\ Cardinality(Failed') \in Nat
  BY FailedGrows, FS_CardinalityType
<1>2. Nulls' = Nulls
  BY DEF Nulls
<1>3. Cardinality(Nulls') <= Cardinality(Failed')
  BY <1>1, <1>2, NullsFinite DEF ListInv
<1>4. \A i \in DOMAIN assets' : assets'[i] \in Loads => task'[assets'[i]] \in Pushed
  BY DEF ListInv, PushedStays
<1>  QED BY <1>3, <1>4 DEF ListInv

\* A thread adds an entry that is not in the list yet.
LEMMA ListAppend ==
  ASSUME EngineAssumption, Types, ListInv, PushedStays, NEW s, assets' = Append(assets, s),
         \/ s \in Loads /\ task[s] \notin Pushed /\ task'[s] \in Pushed
         \/ s = NoScene /\ Failed' # Failed
         \/ s = Content /\ window = "pushing",
         window' \in {"start", "push", "pushing"} => window \in {"start", "push", "pushing"} /\ s # Content
  PROVE  ListInv'
<1> DEFINE n == Len(assets)
<1>1. /\ n \in Nat /\ DOMAIN assets = 1..n /\ DOMAIN assets' = 1..(n + 1)
      /\ \A i \in 1..n : assets'[i] = assets[i]
      /\ assets'[n + 1] = s
  <2>1. IsSeq(assets)
    BY DEF Types, IsSeq
  <2>  QED BY <2>1, AppendFacts
<1> HIDE DEF n
<1>2. Content \notin Loads /\ NoScene \notin Loads /\ NoScene # Content
  BY Numbers DEF Scenes
<1>3. s # NoScene => \A i \in 1..n : assets[i] # s
  <2>1. CASE s \in Loads /\ task[s] \notin Pushed
    BY <1>1, <2>1 DEF ListInv
  <2>2. CASE s = Content /\ window = "pushing"
    BY <1>1, <2>2 DEF ListInv
  <2>  QED BY <2>1, <2>2
<1>4. \A i, j \in DOMAIN assets' : assets'[i] = assets'[j] /\ assets'[i] # NoScene => i = j
  BY <1>1, <1>3 DEF ListInv
<1>5. \A i \in DOMAIN assets' : assets'[i] \in Loads => task'[assets'[i]] \in Pushed
  BY <1>1, <1>2 DEF ListInv, PushedStays
<1>6. window' \in {"start", "push", "pushing"} => \A i \in DOMAIN assets' : assets'[i] # Content
  BY <1>1 DEF ListInv
<1>7. /\ Failed \subseteq Failed' /\ Cardinality(Failed) <= Cardinality(Failed')
      /\ Cardinality(Failed) \in Nat /\ Cardinality(Failed') \in Nat
      /\ Cardinality(Nulls) \in Nat /\ IsFiniteSet(Nulls) /\ Cardinality(Nulls) <= Cardinality(Failed)
  BY FailedGrows, FS_CardinalityType, NullsFinite DEF ListInv
<1>8. Cardinality(Nulls') <= Cardinality(Failed')
  <2>1. CASE s # NoScene
    <3>1. Nulls' = Nulls
      BY <1>1, <2>1 DEF Nulls
    <3>  QED BY <1>7, <3>1
  <2>2. CASE s = NoScene
    <3>1. Nulls' = Nulls \cup {n + 1}
      BY <1>1, <2>2 DEF Nulls
    <3>2. Cardinality(Nulls') \in Nat /\ Cardinality(Nulls') <= Cardinality(Nulls) + 1
      <4>1. Cardinality(Nulls \cup {n + 1}) \in {Cardinality(Nulls), Cardinality(Nulls) + 1}
        BY <1>7, FS_AddElement
      <4>  QED BY <1>7, <3>1, <4>1
    <3>3. Failed' # Failed
      BY <1>2, <2>2
    <3> DEFINE A == Failed
               B == Failed'
    <3>4. A \in SUBSET B /\ IsFiniteSet(B) /\ A # B
      BY <1>7, <3>3, FailedGrows
    <3> HIDE DEF A, B
    <3>5. Cardinality(A) # Cardinality(B)
      BY <3>4, FS_Subset
    <3>6. Cardinality(Failed) # Cardinality(Failed')
      BY <3>5 DEF A, B
    <3>  QED BY <1>7, <3>2, <3>6
  <2>  QED BY <2>1, <2>2
<1>  QED BY <1>4, <1>5, <1>6, <1>8 DEF ListInv

\* An entry is erased.
LEMMA ListRemove ==
  ASSUME EngineAssumption, Types, ListInv, NEW s, s # NoScene, assets' = RemoveFirst(assets, s),
         UNCHANGED <<task, result, window>>
  PROVE  ListInv'
<1>1. CASE assets' = assets
  BY <1>1, ListFrame DEF PushedStays
<1>2. CASE assets' # assets
  <2>1. PICK p \in DOMAIN assets :
          /\ assets[p] = s /\ DOMAIN assets' = 1..(Len(assets) - 1)
          /\ \A i \in DOMAIN assets' : assets'[i] = assets[IF i < p THEN i ELSE i + 1]
    <3> DEFINE T == Scenes \cup {NoScene}
    <3>1. assets \in Seq(T)
      BY DEF Types
    <3> HIDE DEF T
    <3>  QED BY <1>2, <3>1, RemoveFacts
  <2>2. Len(assets) \in Nat /\ DOMAIN assets = 1..Len(assets)
    BY DEF Types
  <2> DEFINE at(i) == IF i < p THEN i ELSE i + 1
  <2>3. \A i \in DOMAIN assets' : at(i) \in DOMAIN assets /\ assets'[i] = assets[at(i)]
    BY <2>1, <2>2
  <2>4. \A i, j \in DOMAIN assets' : at(i) = at(j) => i = j
    BY <2>1, <2>2
  <2>5. Failed' = Failed
    BY DEF Failed
  <2>6. Cardinality(Nulls') <= Cardinality(Nulls)
    <3> DEFINE A == Nulls'
               B == Nulls
               f == [i \in A |-> at(i)]
    <3>1. \A i \in A : i \in DOMAIN assets' /\ at(i) \in B
      BY <2>3 DEF Nulls
    <3>2. IsFiniteSet(B)
      BY NullsFinite
    <3> HIDE DEF A, B
    <3>3. f \in Injection(A, B)
      <4>1. f \in [A -> B]
        BY <3>1
      <4>2. \A i, j \in A : f[i] = f[j] => i = j
        BY <2>4, <3>1
      <4>  QED BY <4>1, <4>2 DEF Injection, IsInjective
    <3> HIDE DEF f
    <3>4. Cardinality(A) <= Cardinality(B)
      BY <3>2, <3>3, FS_Injection
    <3>  QED BY <3>4 DEF A, B
  <2>7. Cardinality(Nulls') <= Cardinality(Failed')
    <3>1. IsFiniteSet(Nulls') /\ IsFiniteSet(Failed)
      <4>1. IsFiniteSet(Loads) /\ Failed \in SUBSET Loads
        BY Numbers DEF Failed
      <4>2. IsFiniteSet(1..(Len(assets) - 1))
        BY <2>2, FS_Interval
      <4>3. Nulls' \in SUBSET (1..(Len(assets) - 1))
        BY <2>1 DEF Nulls
      <4>  QED BY <4>1, <4>2, <4>3, FS_Subset
    <3>2. Cardinality(Nulls') \in Nat /\ Cardinality(Failed) \in Nat /\ Cardinality(Nulls) \in Nat
      BY <3>1, NullsFinite, FS_CardinalityType
    <3>  QED BY <2>5, <2>6, <3>2 DEF ListInv
  <2> HIDE DEF at
  <2>8. \A i, j \in DOMAIN assets' : assets'[i] = assets'[j] /\ assets'[i] # NoScene => i = j
    BY <2>3, <2>4 DEF ListInv
  <2>9. \A i \in DOMAIN assets' : assets'[i] \in Loads => task'[assets'[i]] \in Pushed
    BY <2>3 DEF ListInv
  <2>10. window' \in {"start", "push", "pushing"} => \A i \in DOMAIN assets' : assets'[i] # Content
    BY <2>3 DEF ListInv
  <2>  QED BY <2>7, <2>8, <2>9, <2>10 DEF ListInv
<1>  QED BY <1>1, <1>2

LEMMA ListNext ==
  ASSUME EngineAssumption, LoadInv, Types, ListInv, [Next]_vars
  PROVE  ListInv'
<1> DEFINE W == {"start", "push", "pushing"}
<1>1. task \in [Loads -> TaskSteps]
  BY DEF LoadInv, InTurn
<1>2. \A k \in Loads, s \in TaskSteps : Goto(k, s) => task'[k] = s /\ \A j \in Loads \ {k} : task'[j] = task[j]
  BY <1>1 DEF Goto
<1>3. CASE \E k \in Loads : LoadScene(k)
  <2>1. PICK k \in Loads : LoadScene(k)
    BY <1>3
  <2>2. CASE EndPush(k)
    <3>1. /\ task[k] = "pushing" /\ task'[k] = "execute" /\ \A j \in Loads \ {k} : task'[j] = task[j]
          /\ result' = result /\ window' = window
          /\ assets' = assets \/ assets' = Append(assets, result[k])
      BY <1>2, <2>2 DEF EndPush, PushBack, TaskSteps, Pushed
    <3>2. PushedStays /\ task[k] \notin Pushed /\ task'[k] \in Pushed
      BY <3>1 DEF PushedStays, Pushed
    <3>3. result[k] = NoScene => k \in Failed' /\ k \notin Failed
      BY <3>1, <3>2 DEF Failed
    <3>4. result[k] \in {NoScene, k} /\ k # Content /\ NoScene # Content
      BY Numbers DEF Types
    <3>5. CASE assets' = assets
      BY <3>1, <3>2, <3>5, ListFrame
    <3>6. CASE assets' = Append(assets, result[k])
      <4> DEFINE s == result[k]
      <4>1. \/ s \in Loads /\ task[s] \notin Pushed /\ task'[s] \in Pushed
            \/ s = NoScene /\ Failed' # Failed
        BY <3>2, <3>3, <3>4
      <4>2. assets' = Append(assets, s) /\ s # Content /\ window' = window
        BY <3>1, <3>4, <3>6
      <4> HIDE DEF s
      <4>  QED BY <3>2, <4>1, <4>2, ListAppend
    <3>  QED BY <3>1, <3>5, <3>6
  <2>3. CASE ~EndPush(k)
    <3>1. assets' = assets /\ window' \in {window, "crashed"}
      BY <2>1, <2>3 DEF LoadScene, BeginLoad, ReadFreedPath, LoadSceneFromFile, BeginPush,
           ExecuteCommandList, Flush, FinishLoad, listVars
    <3>2. PushedStays
      <4>1. CASE BeginLoad(k) \/ ReadFreedPath(k)
        BY <1>2, <4>1 DEF BeginLoad, ReadFreedPath, PushedStays, TaskSteps, Pushed
      <4>2. CASE LoadSceneFromFile(k)
        <5>1. /\ task[k] = "loading" /\ \A j \in Loads \ {k} : task'[j] = task[j]
              /\ result' = result \/ result' = [result EXCEPT ![k] = k]
          BY <1>2, <4>2 DEF LoadSceneFromFile, TaskSteps
        <5>2. \A j \in Loads \ {k} : result'[j] = result[j]
          BY <5>1 DEF Types
        <5>  QED BY <5>1, <5>2 DEF PushedStays, Pushed
      <4>3. CASE BeginPush(k)
        BY <1>2, <4>3 DEF BeginPush, PushedStays, TaskSteps, Pushed
      <4>4. CASE ExecuteCommandList(k) \/ Flush(k) \/ FinishLoad(k)
        BY <1>2, <4>4 DEF ExecuteCommandList, Flush, FinishLoad, PushedStays, TaskSteps, Pushed
      <4>  QED BY <2>1, <2>3, <4>1, <4>2, <4>3, <4>4 DEF LoadScene
    <3>  QED BY <3>1, <3>2, ListFrame
  <2>  QED BY <2>2, <2>3
<1>4. CASE StartFirst \/ OpenFile("idle") \/ OpenFile("dialog")
  <2>1. PICK k : Start(k) /\ k \notin Started
    <3>1. CASE StartFirst
      <4>1. Start(1) /\ Started = {}
        BY <3>1 DEF StartFirst, LoadInv, Held
      <4>  QED BY <4>1
    <3>2. CASE OpenFile("idle") \/ OpenFile("dialog")
      <4>1. Newest \in Nat /\ Started = 1..Newest
        <5>1. Newest \in 0..MaxLoads /\ Started = 1..Newest /\ MaxLoads \in Nat
          BY CountStarted, Numbers DEF LoadInv
        <5>  QED BY <5>1
      <4>2. Start(Newest + 1)
        BY <3>2 DEF OpenFile
      <4>3. Newest + 1 \notin Started
        BY <4>1
      <4>  QED BY <4>2, <4>3
    <3>  QED BY <1>4, <3>1, <3>2
  <2>2. \A j \in Started : task'[j] = task[j]
    BY <1>1, <2>1 DEF Start, Started
  <2>3. result' = result /\ assets' = assets /\ (window' \in W => window \in W)
    BY <1>4 DEF StartFirst, OpenFile, listVars
  <2>4. PushedStays
    BY <2>2, <2>3 DEF PushedStays, Started, Pushed
  <2>  QED BY <2>3, <2>4, ListFrame
<1>5. CASE EndPushContent
  <2>1. /\ window = "pushing" /\ window' = "first" /\ UNCHANGED <<task, result>>
        /\ assets' = assets \/ assets' = Append(assets, Content)
    BY <1>5 DEF EndPushContent, PushBack, taskVars
  <2>2. PushedStays
    BY <2>1 DEF PushedStays
  <2>  QED BY <2>1, <2>2, ListFrame, ListAppend
<1>6. CASE DeleteEntity
  <2>1. /\ selected # NoScene /\ assets' = RemoveFirst(assets, selected)
        /\ UNCHANGED <<task, result, window>>
    BY <1>6 DEF DeleteEntity, taskVars
  <2> DEFINE s == selected
  <2> HIDE DEF s
  <2>2. s # NoScene /\ assets' = RemoveFirst(assets, s)
    BY <2>1 DEF s
  <2>  QED BY <2>1, <2>2, ListRemove
<1>7. ASSUME UNCHANGED <<task, result, assets>>, window' \in W => window \in W
      PROVE  ListInv'
  BY <1>7, ListFrame DEF PushedStays
<1>8. CASE BeginPushContent \/ PlaceFirst \/ WaitForFenceValue
  BY <1>7, <1>8 DEF BeginPushContent, PlaceFirst, WaitForFenceValue, taskVars, listVars
<1>9. CASE PressLeft \/ Deselect \/ CancelDialog \/ AssignTask \/ FreePath \/ LeaveLoop \/ GetTask \/ UnloadContent
  <2>1. UNCHANGED <<task, result, assets>> /\ (window' \in W => window \in W)
    BY <1>9 DEF PressLeft, Deselect, CancelDialog, AssignTask, FreePath, LeaveLoop, GetTask,
         UnloadContent, Idle, taskVars, listVars
  <2>  QED BY <1>7, <2>1
<1>10. CASE Drawing
  <2>1. UNCHANGED <<task, result, assets>>
    BY <1>10 DEF Drawing, OnUpdate, SetLights, NearestEntity, ChooseTarget, CheckLoading, OnRender,
         OnGUI, taskVars, listVars
  <2>2. window' \notin W
    <3>1. CASE CheckLoading
      <4>1. window' \in {"gui", "draw", "crashed"}
        BY <3>1 DEF CheckLoading
      <4>  QED BY <4>1
    <3>2. CASE OnUpdate \/ SetLights \/ NearestEntity \/ ChooseTarget
      BY <3>2 DEF OnUpdate, SetLights, NearestEntity, ChooseTarget, Idle
    <3>3. CASE OnRender \/ OnGUI
      BY <3>3 DEF OnRender, OnGUI
    <3>  QED BY <1>10, <3>1, <3>2, <3>3 DEF Drawing
  <2>  QED BY <1>7, <2>1, <2>2
<1>11. CASE Copy \/ ListRace
  BY <1>7, <1>11 DEF Copy, ListRace, taskVars, listVars
<1>12. CASE UNCHANGED vars
  BY <1>7, <1>12 DEF vars, taskVars, listVars
<1>  QED BY <1>3, <1>4, <1>5, <1>6, <1>8, <1>9, <1>10, <1>11, <1>12 DEF Next, LoadContent, Events

\* When a frame draws, what a scene in the list has copied is done, or its load is unguarded.
LEMMA ListIsCopied ==
  ASSUME EngineAssumption, Types, ListInv, GuardInv, window = "draw", NEW s \in ToSet(assets), s # NoScene
  PROVE  s \in copied \cup unguarded
<1>1. PICK i \in DOMAIN assets : assets[i] = s
  BY DEF ToSet
<1>2. s \in Loads \cup {Content}
  <2>1. s \in Scenes
    BY <1>1 DEF Types
  <2>  QED BY <2>1 DEF Scenes
<1>3. CASE s \in Loads
  BY <1>1, <1>3 DEF ListInv, GuardInv, Pushed, InLoad
<1>4. CASE s = Content
  BY <1>4 DEF GuardInv
<1>  QED BY <1>2, <1>3, <1>4

LEMMA DrawsNext ==
  ASSUME EngineAssumption, SampleInv, [Next]_vars
  PROVE  DrawsAreBound' /\ LoadedBeforeRendered'
<1>1. copied \subseteq copied' /\ unguarded \subseteq unguarded' /\ oneSignature' = oneSignature
  <2>1. CASE \E k \in Loads : LoadScene(k)
    <3>1. PICK k \in Loads : LoadScene(k)
      BY <2>1
    <3>2. copied \subseteq copied' /\ unguarded \subseteq unguarded'
      BY <3>1, LoadMoves DEF SampleInv
    <3>3. oneSignature' = oneSignature
      BY <3>1 DEF LoadScene, BeginLoad, ReadFreedPath, LoadSceneFromFile, BeginPush, EndPush,
           ExecuteCommandList, Flush, FinishLoad
    <3>  QED BY <3>2, <3>3
  <2>2. CASE LoadContent
    BY <2>2 DEF LoadContent, StartFirst, BeginPushContent, EndPushContent, PlaceFirst,
         WaitForFenceValue, Start, taskVars, gpuVars
  <2>3. CASE Events
    BY <2>3 DEF Events, PressLeft, Deselect, DeleteEntity, OpenFile, CancelDialog, AssignTask,
         FreePath, LeaveLoop, GetTask, UnloadContent, Start, taskVars, gpuVars
  <2>4. CASE Drawing
    BY <2>4 DEF Drawing, OnUpdate, SetLights, NearestEntity, ChooseTarget, CheckLoading, OnRender,
         OnGUI, taskVars, gpuVars
  <2>5. CASE Copy \/ ListRace
    BY <2>5 DEF Copy, ListRace, taskVars, gpuVars
  <2>6. CASE UNCHANGED vars
    BY <2>6 DEF vars, taskVars, gpuVars
  <2>  QED BY <2>1, <2>2, <2>3, <2>4, <2>5, <2>6 DEF Next
<1>2. ASSUME draws' = draws
      PROVE  DrawsAreBound' /\ LoadedBeforeRendered'
  BY <1>1, <1>2 DEF SampleInv, DrawsAreBound, CameBack, LoadedBeforeRendered
<1>3. CASE draws' # draws
  <2>1. OnGUI \/ OnRender
    <3>1. ~\E k \in Loads : LoadScene(k)
      BY <1>3 DEF LoadScene, BeginLoad, ReadFreedPath, LoadSceneFromFile, BeginPush, EndPush,
           ExecuteCommandList, Flush, FinishLoad, frameVars
    <3>2. ~LoadContent
      BY <1>3 DEF LoadContent, StartFirst, BeginPushContent, EndPushContent, PlaceFirst,
           WaitForFenceValue, frameVars
    <3>3. ~Events
      BY <1>3 DEF Events, PressLeft, Deselect, DeleteEntity, OpenFile, CancelDialog, AssignTask,
           FreePath, LeaveLoop, GetTask, UnloadContent, frameVars
    <3>4. ~(Copy \/ ListRace) /\ ~UNCHANGED vars
      BY <1>3 DEF Copy, ListRace, vars, frameVars
    <3>5. ~(OnUpdate \/ SetLights \/ NearestEntity \/ ChooseTarget \/ CheckLoading)
      BY <1>3 DEF OnUpdate, SetLights, NearestEntity, ChooseTarget, CheckLoading, frameVars
    <3>  QED BY <3>1, <3>2, <3>3, <3>4, <3>5 DEF Next, Drawing
  <2>2. CASE OnGUI
    <3>1. draws' = <<>>
      BY <2>2 DEF OnGUI
    <3>  QED BY <3>1 DEF DrawsAreBound, LoadedBeforeRendered
  <2>3. CASE OnRender
    <3>1. window = "draw" /\ ~NullEntry /\ draws' = Frame.draws
      BY <1>3, <2>3 DEF OnRender
    <3> DEFINE f == Frame
    <3>2. GoodFrame(f, ToSet(assets) \cup {Axis})
      BY <3>1, RenderFacts DEF SampleInv
    <3> HIDE DEF f
    <3>3. GoodDraws(f.draws, ToSet(assets) \cup {Axis}) /\ draws' = f.draws
      BY <3>1, <3>2 DEF GoodFrame, f
    <3>4. \A s \in ToSet(assets) : s \in copied \cup unguarded
      BY <3>1, ListIsCopied DEF SampleInv, NullEntry
    <3>5. LoadedBeforeRendered'
      BY <1>1, <3>3, <3>4 DEF GoodDraws, LoadedBeforeRendered
    <3>6. DrawsAreBound'
      BY <1>1, <3>3 DEF GoodDraws, BoundIn, CameBackIn, DrawsAreBound, CameBack
    <3>  QED BY <3>5, <3>6
  <2>  QED BY <2>1, <2>2, <2>3
<1>  QED BY <1>2, <1>3

LEMMA InitInv ==
  ASSUME EngineAssumption, Init
  PROVE  SampleInv
<1>1. /\ task \in [Loads -> TaskSteps] /\ \A k \in Loads : task[k] = "none"
      /\ Started = {} /\ Running = {}
  BY DEF Init, TaskSteps, Started, Running
<1>2. LoadInv
  <2>1. 0 \in 0..MaxLoads /\ 1..0 = {}
    BY Numbers
  <2>  QED BY <1>1, <2>1 DEF Init, LoadInv, InTurn, Held, Kept
<1>3. Types
  <2>1. <<>> \in Seq(Scenes) /\ <<>> \in Seq(Scenes \cup {NoScene})
    OBVIOUS
  <2>2. result \in [Loads -> Scenes \cup {NoScene}] /\ \A k \in Loads : result[k] \in {NoScene, k}
    BY DEF Init
  <2>  QED BY <2>1, <2>2 DEF Init, Types, WindowSteps
<1>4. ListInv
  <2>1. Nulls = {} /\ Failed = {}
    BY <1>1 DEF Init, Nulls, Failed, Pushed
  <2>2. Cardinality({}) <= Cardinality({})
    BY FS_EmptySet
  <2>3. DOMAIN assets = {}
    BY DEF Init
  <2>  QED BY <2>1, <2>2, <2>3 DEF ListInv
<1>5. GuardInv
  BY <1>1 DEF Init, GuardInv, InLoad
<1>6. LightsInv
  <2>1. IsEffect(NewEffect)
    BY DEF IsEffect, NewEffect
  <2>2. effects = [e \in Effects |-> NewEffect] /\ window = "start"
    BY DEF Init
  <2>3. effects = [e \in Effects |-> effects[e]] /\ \A e \in Effects : effects[e] = NewEffect
    BY <2>2
  <2>  QED BY <2>1, <2>2, <2>3 DEF LightsInv, EffectsOK
<1>7. DrawsAreBound /\ LoadedBeforeRendered
  <2>1. DOMAIN draws = {}
    BY DEF Init
  <2>  QED BY <2>1 DEF DrawsAreBound, LoadedBeforeRendered
<1>  QED BY <1>2, <1>3, <1>4, <1>5, <1>6, <1>7 DEF SampleInv

LEMMA SampleInvariance == Spec => []SampleInv
<1>1. Init => SampleInv
  BY InitInv, EngineAssumption
<1>2. SampleInv /\ [Next]_vars => SampleInv'
  <2> SUFFICES ASSUME SampleInv, [Next]_vars PROVE SampleInv'
    OBVIOUS
  <2>1. LoadInv /\ Types /\ ListInv /\ GuardInv /\ LightsInv
    BY DEF SampleInv
  <2>2. LoadInv'
    BY <2>1, NextInv, EngineAssumption
  <2>3. Types'
    BY <2>1, TypesNext, EngineAssumption
  <2>4. ListInv'
    BY <2>1, ListNext, EngineAssumption
  <2>5. GuardInv'
    BY <2>1, GuardNext, EngineAssumption
  <2>6. LightsInv'
    BY <2>1, LightsNext, EngineAssumption
  <2>7. DrawsAreBound' /\ LoadedBeforeRendered'
    BY DrawsNext, EngineAssumption
  <2>  QED BY <2>2, <2>3, <2>4, <2>5, <2>6, <2>7 DEF SampleInv
<1>  QED BY <1>1, <1>2, PTL DEF Spec

\* Whatever the threads do at the list, m_AssetsList holds a scene once and only behind
\* its load, and no more null pointers than loads have failed (LoadScene, DeleteEntity).
THEOREM TypeCorrect == Spec => []TypeOK
<1>1. SampleInv => TypeOK
  <2> SUFFICES ASSUME SampleInv PROVE TypeOK
    OBVIOUS
  <2>1. LoadInv /\ Types /\ ListInv /\ LightsInv
    BY DEF SampleInv
  <2>2. Len(assets) \in Nat /\ DOMAIN assets = 1..Len(assets)
        /\ \A i \in DOMAIN assets : assets[i] \in Scenes \cup {NoScene}
    BY <2>1 DEF Types
  <2>3. ToSet(assets) \subseteq Scenes \cup {NoScene}
    BY <2>2 DEF ToSet
  <2>4. ToSet(copying) \subseteq Scenes
    BY <2>1 DEF Types, ToSet
  <2>5. ASSUME NEW s \in Scenes
        PROVE  Cardinality({i \in DOMAIN assets : assets[i] = s}) <= 1
    <3> DEFINE A == {i \in DOMAIN assets : assets[i] = s}
    <3>1. A = {} \/ \E i : A = {i}
      <4>1. s # NoScene
        BY Numbers, EngineAssumption
      <4>2. \A i, j \in A : i = j
        BY <2>1, <4>1 DEF ListInv
      <4> HIDE DEF A
      <4>  QED BY <4>2
    <3> HIDE DEF A
    <3>2. Cardinality(A) \in {0, 1}
      BY <3>1, FS_EmptySet, FS_Singleton
    <3>3. Cardinality(A) <= 1
      BY <3>2
    <3>  QED BY <3>3 DEF A
  <2>6. \A k \in Loads : Contains(assets, k) => task[k] \in Pushed
    BY <2>1, <2>2 DEF ListInv, Contains
  <2>7. \A e \in Effects : effects[e].dirty \subseteq Flags
    BY <2>1 DEF LightsInv, EffectsOK, IsEffect
  <2>8. task \in [Loads -> TaskSteps]
    BY <2>1 DEF LoadInv, InTurn
  <2>9. Cardinality({i \in DOMAIN assets : assets[i] = NoScene})
          <= Cardinality({k \in Loads : task[k] \in Pushed /\ result[k] = NoScene})
    BY <2>1 DEF ListInv, Nulls, Failed
  <2>  QED BY <2>1, <2>3, <2>4, <2>5, <2>6, <2>7, <2>8, <2>9 DEF Types, TypeOK
<1>  QED BY <1>1, SampleInvariance, PTL

\* Every draw of every frame, of any scenes and of any number of them, finds its node's
\* matrices, its mesh's material and, but for what DrawsAreBound excepts, its lights
\* bound, though EffectPSO::Apply binds only what is dirty (EffectPSO.cpp:156-214).
THEOREM DrawsFindTheirParameters == Spec => []DrawsAreBound
<1>1. SampleInv => DrawsAreBound
  BY DEF SampleInv
<1>  QED BY <1>1, SampleInvariance, PTL

\* A scene is drawn when its copies are done, unless its load ran beside another one or
\* was announced too late for the frame (m_IsLoading, DirectX12Engine.cpp:215).
THEOREM DrawnScenesAreLoaded == Spec => []LoadedBeforeRendered
<1>1. SampleInv => LoadedBeforeRendered
  BY DEF SampleInv
<1>  QED BY <1>1, SampleInvariance, PTL

=============================================================================
