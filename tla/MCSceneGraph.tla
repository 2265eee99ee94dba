---------------------------- MODULE MCSceneGraph ----------------------------
(* A small scene graph for TLC: a root with a group, a leaf and a kit, and *)
(* a leaf that is shared; one path is built and watched, another is not.   *)
EXTENDS SceneGraph

CONSTANTS r, a, k, x, y, p1, p2

MCNode == {r, a, k, x, y}
MCGroups == <<r, k, a>>
MCKit == {k}
MCPath == {p1, p2}
MCScene == r :> <<a, x, k>> @@ a :> <<y>> @@ k :> <<>>
MCRoutes == p1 :> <<r, 2>> @@ p2 :> <<>>

=============================================================================
