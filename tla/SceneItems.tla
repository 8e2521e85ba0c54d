-------------------------------- MODULE SceneItems --------------------------------
(***************************************************************************)
(* core/LockPolicy.cpp, core/ItemActions.cpp and the hit test of           *)
(* core/PreviewEdit.cpp: which item a click means, which items an action   *)
(* may write, and the plan of a transform copied to other scenes.          *)
(*                                                                         *)
(* A scene's items are a sequence, bottom to top.  An item is              *)
(* [id, source, transform, locked, visible].  Ids are unique within one    *)
(* scene only.  Geometry is abstract: a point is the set of the ids whose  *)
(* boxes contain it, a transform an opaque value.                          *)
(***************************************************************************)
EXTENDS Integers, Sequences, FiniteSets

Ids(scene) == {scene[k].id : k \in DOMAIN scene}

Distinct(scene) == \A k, m \in DOMAIN scene : scene[k].id = scene[m].id => k = m

ItemOf(scene, id) == scene[CHOOSE k \in DOMAIN scene : scene[k].id = id]

Replaced(scene, item) ==
    [k \in DOMAIN scene |-> IF scene[k].id = item.id THEN item ELSE scene[k]]

Without(scene, id) ==
    LET k == CHOOSE n \in DOMAIN scene : scene[n].id = id
    IN SubSeq(scene, 1, k - 1) \o SubSeq(scene, k + 1, Len(scene))

\* obs_sceneitem_set_order(): the item changes places with its neighbour, if there is one.
Moved(scene, id, up) ==
    LET k == CHOOSE n \in DOMAIN scene : scene[n].id = id
        m == IF up THEN k + 1 ELSE k - 1
    IN IF m \in DOMAIN scene
       THEN [scene EXCEPT ![k] = scene[m], ![m] = scene[k]]
       ELSE scene

MayWrite(item) == ~item.locked

CanEdit(scene, id) == id \in Ids(scene) /\ MayWrite(ItemOf(scene, id))

\* The topmost visible item whose box contains the point, 0 when there is none.
HitTopmost(scene, under, lockedToo) ==
    LET hits == {k \in DOMAIN scene : /\ scene[k].id \in under
                                     /\ scene[k].visible
                                     /\ (lockedToo \/ ~scene[k].locked)}
    IN IF hits = {} THEN 0 ELSE scene[CHOOSE k \in hits : \A m \in hits : m <= k].id

\* A locked item never swallows a click meant for one below it.
PickItem(scene, under) ==
    LET free == HitTopmost(scene, under, FALSE)
    IN IF free # 0 THEN free ELSE HitTopmost(scene, under, TRUE)

LockAll(scene, lock) == [k \in DOMAIN scene |-> [scene[k] EXCEPT !.locked = lock]]

\* The items of the other scenes that show the source, where it shows once and unlocked.
PlanCopy(scenes, origin, source) ==
    LET shows(s) == {k \in DOMAIN scenes[s] : scenes[s][k].source = source}
    IN {<<s, scenes[s][CHOOSE k \in shows(s) : TRUE].id>> :
           s \in {t \in DOMAIN scenes \ {origin} :
                    /\ Cardinality(shows(t)) = 1
                    /\ \A k \in shows(t) : MayWrite(scenes[t][k])}}

===================================================================================
