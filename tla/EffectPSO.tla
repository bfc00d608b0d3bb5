------------------------------ MODULE EffectPSO ------------------------------
(***************************************************************************)
(* The sample's effects and the visitor that draws a scene with one of     *)
(* them.  An effect (EffectPSO) holds what it has to bind (matrices,       *)
(* material, lights) with a flag for each that is dirty; Apply binds what  *)
(* is dirty in the command list and clears the flags.  A command list      *)
(* forgets what is bound when another root signature is set, and is        *)
(* recorded from nothing every frame.                                      *)
(*                                                                         *)
(* Point and spot lights are never set, so their buffers are empty.        *)
(*                                                                         *)
(* A scene is the sequence of its nodes in the order Accept visits them,   *)
(* a node the sequence of its meshes, and a mesh whether its material is   *)
(* transparent.                                                            *)
(***************************************************************************)
EXTENDS Integers, Sequences

Flags == {"PointLights", "SpotLights", "DirectionalLights", "Material", "Matrices"}

\* The root parameters, each with the flags that make Apply bind it.
BoundBy ==
  [MatricesCB        |-> {"Matrices"},
   MaterialCB        |-> {"Material"},
   Textures          |-> {"Material"},
   PointLights       |-> {"PointLights"},
   SpotLights        |-> {"SpotLights"},
   DirectionalLights |-> {"DirectionalLights"},
   LightPropertiesCB |-> {"PointLights", "SpotLights", "DirectionalLights"}]

RootParameters == DOMAIN BoundBy

\* A value that was never set, a parameter that is not bound.
Unset == <<>>

NewEffect ==
  [dirty |-> Flags, world |-> Unset, camera |-> Unset, material |-> Unset, lights |-> Unset]

SetDirectionalLights(e, lights) ==
  [e EXCEPT !.lights = lights, !.dirty = @ \cup {"DirectionalLights"}]
SetMaterial_mutant(e, material) == [e EXCEPT !.material = material]
SetMaterial(e, material) ==
  [e EXCEPT !.material = material, !.dirty = @ \cup {"Material"}]
SetWorldMatrix(e, world) ==
  [e EXCEPT !.world = world, !.dirty = @ \cup {"Matrices"}]
\* SetViewMatrix and SetProjectionMatrix.
SetCamera(e, camera) ==
  [e EXCEPT !.camera = camera, !.dirty = @ \cup {"Matrices"}]

\* What the effect binds to a parameter.
ValueOf(e, p) ==
  CASE p = "MatricesCB" -> <<e.world, e.camera>>
    [] p \in {"MaterialCB", "Textures"} -> e.material
    [] p \in {"DirectionalLights", "LightPropertiesCB"} -> e.lights
    [] OTHER -> Unset

-----------------------------------------------------------------------------

NewList == [signature |-> Unset, bound |-> [p \in RootParameters |-> Unset]]

SetGraphicsRootSignature(list, signature) ==
  IF list.signature = signature THEN list ELSE [NewList EXCEPT !.signature = signature]

\* A material that was never set is not bound.
Binds(e, p) ==
  /\ BoundBy[p] \cap e.dirty # {}
  /\ "Material" \in BoundBy[p] => e.material # Unset

\* What Apply leaves in the list, and in the effect.
ApplyTo(e, signature, list) ==
  LET l == SetGraphicsRootSignature(list, signature)
  IN  [l EXCEPT !.bound = [p \in RootParameters |-> IF Binds(e, p) THEN ValueOf(e, p) ELSE l.bound[p]]]
Applied(e) == [e EXCEPT !.dirty = {}]

-----------------------------------------------------------------------------
(* SceneVisitor.  A rendering r is the visitor's effect with its           *)
(* signature, the command list and the draws so far; a draw is what was    *)
(* bound when it was recorded.                                             *)

VisitScene(r, camera) == [r EXCEPT !.effect = SetCamera(@, camera)]

VisitNode(r, node) == [r EXCEPT !.effect = SetWorldMatrix(@, node)]

\* Visit(Mesh): set the material, apply, draw.
Drawn(r, node, mesh) ==
  LET e    == SetMaterial(r.effect, mesh)
      list == ApplyTo(e, r.signature, r.list)
  IN  [r EXCEPT !.effect = Applied(e), !.list = list,
                !.draws = Append(@, [pso |-> r.pso, node |-> node, material |-> mesh,
                                     bound |-> list.bound])]

\* SceneNode::Accept, of a node's own matrices and meshes.
AcceptNode(r, scene, n, meshes, transparent) ==
  LET node == <<scene, n>>
      visited[m \in 0..Len(meshes)] ==
        IF m = 0 THEN VisitNode(r, node)
        ELSE IF meshes[m] = transparent THEN Drawn(visited[m - 1], node, <<scene, n, m>>)
        ELSE visited[m - 1]
  IN  visited[Len(meshes)]

\* Scene::Accept.
Accept(r, scene, nodes, camera, transparent) ==
  LET visited[n \in 0..Len(nodes)] ==
        IF n = 0 THEN VisitScene(r, camera)
        ELSE AcceptNode(visited[n - 1], scene, n, nodes[n], transparent)
  IN  visited[Len(nodes)]

=============================================================================
