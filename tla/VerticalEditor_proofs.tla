------------------------- MODULE VerticalEditor_proofs -------------------------
(***************************************************************************)
(* The safety of the vertical editor, for any scenes and items, any number *)
(* of events and any order of the posts: what Ctrl+Z goes back to during a *)
(* burst of nudges, and that a write hits the item that was pointed at.    *)
(***************************************************************************)
EXTENDS VerticalEditor, TLAPS

(* A new selection ends the burst, the old one leaves all as it is. *)
LEMMA NewSelection ==
    ASSUME NEW sel, OneUndoPerBurst, PreviewFollows(sel)
    PROVE  OneUndoPerBurst'
BY DEF OneUndoPerBurst, PreviewFollows, NoBurst, gesture

(* A nudge of a burst keeps the undo step of the first; whatever else touches
   the drag or the undo step ends the burst. *)
LEMMA BurstStep == OneUndoPerBurst /\ [Next]_vars => OneUndoPerBurst'
<1> SUFFICES ASSUME OneUndoPerBurst, [Next]_vars PROVE OneUndoPerBurst'
  OBVIOUS
<1>1. CASE Posts
  <2>1. CASE RunQueued
    BY <2>1 DEF RunQueued, OneUndoPerBurst, gesture
  <2>2. CASE RunListener
    BY <2>2 DEF RunListener, OneUndoPerBurst, gesture
  <2>3. CASE FinishRefresh
    BY NewSelection, <2>3 DEF FinishRefresh
  <2>4. CASE RunReload
    BY <2>4 DEF RunReload, OneUndoPerBurst, gesture
  <2> QED BY <1>1, <2>1, <2>2, <2>3, <2>4 DEF Posts
<1>2. CASE InTheList
  <2>1. ASSUME NEW id \in 1..MaxId, ClickRow(id) PROVE OneUndoPerBurst'
    BY NewSelection, <2>1 DEF ClickRow, SelectRow
  <2>2. ASSUME NEW id \in 1..MaxId, ClickPadlock(id) PROVE OneUndoPerBurst'
    BY <2>2 DEF ClickPadlock, OneUndoPerBurst, gesture
  <2>3. ASSUME NEW id \in 1..MaxId, RowMenu(id) PROVE OneUndoPerBurst'
    BY NewSelection, <2>3 DEF RowMenu, SelectRow
  <2>4. ASSUME NEW k \in 1..MaxId, ToggleVisible(k) PROVE OneUndoPerBurst'
    BY <2>4 DEF ToggleVisible, OneUndoPerBurst, gesture
  <2>5. ASSUME NEW up \in BOOLEAN, MoveRow(up) PROVE OneUndoPerBurst'
    BY <2>5 DEF MoveRow, OneUndoPerBurst, gesture
  <2>6. ASSUME NEW t \in Transforms, PanelApply(t) PROVE OneUndoPerBurst'
    BY <2>6 DEF PanelApply, OneUndoPerBurst, gesture
  <2>7. CASE SceneMenu
    BY <2>7 DEF SceneMenu, OneUndoPerBurst, gesture
  <2>8. CASE AskRemove
    BY <2>8 DEF AskRemove, OneUndoPerBurst, gesture
  <2>9. CASE AskRename
    BY <2>9 DEF AskRename, OneUndoPerBurst, gesture
  <2>10. CASE AskAdd
    BY <2>10 DEF AskAdd, OneUndoPerBurst, gesture
  <2> QED BY <1>2, <2>1, <2>2, <2>3, <2>4, <2>5, <2>6, <2>7, <2>8, <2>9, <2>10 DEF InTheList
<1>3. CASE InThePreview
  <2>1. ASSUME NEW under \in SUBSET (1..MaxId), NEW onHandle \in BOOLEAN, Press(under, onHandle)
        PROVE  OneUndoPerBurst'
    <3> DEFINE id == IF active = None THEN 0 ELSE ClickMeans(under, onHandle)
    <3>1. CASE id # 0 /\ CanEdit(items[active], id)
      BY <2>1, <3>1 DEF Press, OneUndoPerBurst, NoBurst
    <3>2. CASE ~(id # 0 /\ CanEdit(items[active], id))
      <4>1. PreviewFollows(Picked(active, id))
        BY <2>1, <3>2 DEF Press
      <4> QED BY <4>1, NewSelection
    <3> QED BY <3>1, <3>2
  <2>2. ASSUME NEW under \in SUBSET (1..MaxId), PreviewMenu(under) PROVE OneUndoPerBurst'
    BY NewSelection, <2>2 DEF PreviewMenu
  <2>3. ASSUME NEW t \in Transforms, DragTo(t) PROVE OneUndoPerBurst'
    BY <2>3 DEF DragTo, OneUndoPerBurst, gesture
  <2>4. ASSUME NEW t \in Transforms, NEW paused \in BOOLEAN, Nudge(t, paused) PROVE OneUndoPerBurst'
    <3> DEFINE id == ItemIn(selection, active)
               before == ItemOf(items[active], id).transform
               begins == paused \/ ~burst.on \/ burst.scene # active \/ burst.id # id
    <3>1. /\ ~drag.on /\ UNCHANGED drag
          /\ burst' = [on |-> TRUE, scene |-> active, id |-> id,
                       from |-> IF begins THEN before ELSE burst.from]
          /\ undo' = IF begins \/ ~undo.valid
                     THEN [valid |-> TRUE, scene |-> active, id |-> id, before |-> before]
                     ELSE undo
      BY <2>4 DEF Nudge
    <3> HIDE DEF id, before
    <3>2. CASE begins
      BY <3>1, <3>2 DEF OneUndoPerBurst
    <3>3. CASE ~begins
      <4>1. /\ burst.on /\ burst.scene = active /\ burst.id = id
            /\ undo = [valid |-> TRUE, scene |-> active, id |-> id, before |-> burst.from]
        BY <3>3 DEF OneUndoPerBurst
      <4> QED BY <3>1, <3>3, <4>1 DEF OneUndoPerBurst
    <3> QED BY <3>2, <3>3
  <2>5. CASE Drop
    BY <2>5 DEF Drop, OneUndoPerBurst, gesture
  <2>6. CASE Escape
    BY <2>6 DEF Escape, OneUndoPerBurst, gesture
  <2>7. CASE Undo
    BY <2>7 DEF Undo, OneUndoPerBurst, NoBurst
  <2> QED BY <1>3, <2>1, <2>2, <2>3, <2>4, <2>5, <2>6, <2>7 DEF InThePreview
<1>4. CASE InADialog
  <2>1. ASSUME NEW lock \in BOOLEAN, ChooseLockAll(lock) PROVE OneUndoPerBurst'
    BY <2>1 DEF ChooseLockAll, OneUndoPerBurst, gesture
  <2>2. ASSUME NEW t \in Transforms, ChooseTransform(t) PROVE OneUndoPerBurst'
    BY <2>2 DEF ChooseTransform, OneUndoPerBurst, gesture
  <2>3. ASSUME NEW source \in Sources, AnswerAdd(source) PROVE OneUndoPerBurst'
    BY <2>3 DEF AnswerAdd, OneUndoPerBurst, gesture
  <2>4. CASE ChooseLock
    BY <2>4 DEF ChooseLock, OneUndoPerBurst, gesture
  <2>5. CASE ChooseRename
    BY <2>5 DEF ChooseRename, OneUndoPerBurst, gesture
  <2>6. CASE ChooseCopy
    BY <2>6 DEF ChooseCopy, OneUndoPerBurst, gesture
  <2>7. CASE AnswerCopy
    BY <2>7 DEF AnswerCopy, OneUndoPerBurst, gesture
  <2>8. CASE AnswerRename
    BY <2>8 DEF AnswerRename, OneUndoPerBurst, gesture
  <2>9. CASE AnswerRemove
    BY <2>9 DEF AnswerRemove, OneUndoPerBurst, gesture
  <2>10. CASE Dismiss
    BY <2>10 DEF Dismiss, OneUndoPerBurst, gesture
  <2> QED BY <1>4, <2>1, <2>2, <2>3, <2>4, <2>5, <2>6, <2>7, <2>8, <2>9, <2>10 DEF InADialog
<1>5. CASE Others
  <2>1. ASSUME NEW s \in Scenes, SwitchScene(s) PROVE OneUndoPerBurst'
    BY <2>1 DEF SwitchScene, OneUndoPerBurst, gesture
  <2>2. ASSUME NEW s \in Scenes, NEW id \in 1..MaxId, OthersLock(s, id) PROVE OneUndoPerBurst'
    BY <2>2 DEF OthersLock, OneUndoPerBurst, gesture
  <2>3. ASSUME NEW s \in Scenes, NEW id \in 1..MaxId, OthersRemove(s, id) PROVE OneUndoPerBurst'
    BY <2>3 DEF OthersRemove, OneUndoPerBurst, gesture
  <2>4. ASSUME NEW s \in Scenes, NEW id \in 1..MaxId, NEW t \in Transforms, OthersMove(s, id, t)
        PROVE  OneUndoPerBurst'
    BY <2>4 DEF OthersMove, OneUndoPerBurst, gesture
  <2>5. ASSUME NEW s \in Scenes, NEW source \in Sources, OthersAdd(s, source) PROVE OneUndoPerBurst'
    BY <2>5 DEF OthersAdd, OneUndoPerBurst, gesture
  <2>6. CASE SceneRemoved
    BY <2>6 DEF SceneRemoved, OneUndoPerBurst, gesture
  <2>7. CASE Shutdown
    BY <2>7 DEF Shutdown, OneUndoPerBurst, NoBurst
  <2> QED BY <1>5, <2>1, <2>2, <2>3, <2>4, <2>5, <2>6, <2>7 DEF Others
<1>6. CASE UNCHANGED vars
  BY <1>6 DEF vars, OneUndoPerBurst, gesture
<1> QED BY <1>1, <1>2, <1>3, <1>4, <1>5, <1>6 DEF Next

(* During a burst of nudges Ctrl+Z goes back to where its first nudge found the
   item, and no drag has come between. *)
THEOREM BurstCorrect == Spec => []OneUndoPerBurst
<1>1. Init => OneUndoPerBurst
  BY DEF Init, OneUndoPerBurst, NoBurst
<1> QED BY <1>1, BurstStep, PTL DEF Spec

-----------------------------------------------------------------------------
(* An id is used in the scene it comes from: there it is the item meant. *)
LEMMA NoStray ==
    ASSUME NEW s, NEW id, WithScene(s)
    PROVE  /\ Stray(Picked(s, id), id) = {}
           /\ Stray(Picked(s, id), Picked(s, id).id) = {}
BY DEF WithScene, Stray, Picked, Nothing

LEMMA ToggleHits ==
    ASSUME NEW s, NEW id, WritesHit, ToggleLock(Picked(s, id))
    PROVE  WritesHit'
<1>1. CASE WithItem(Picked(s, id).scene, Picked(s, id).id)
  <2>1. Picked(s, id).scene = s /\ WithScene(s)
    BY <1>1 DEF WithItem, WithScene, Picked, Nothing
  <2> QED BY <1>1, <2>1, NoStray DEF ToggleLock, WritesHit
<1>2. CASE ~WithItem(Picked(s, id).scene, Picked(s, id).id)
  BY <1>2 DEF ToggleLock, WritesHit
<1> QED BY <1>1, <1>2

LEMMA WriteStep == WritesHit /\ [Next]_vars => WritesHit'
<1> SUFFICES ASSUME WritesHit, [Next]_vars PROVE WritesHit'
  OBVIOUS
<1>1. CASE Posts
  <2>1. CASE RunQueued
    BY <2>1 DEF RunQueued, WritesHit
  <2>2. CASE RunListener
    BY <2>2 DEF RunListener, WritesHit
  <2>3. CASE FinishRefresh
    BY <2>3 DEF FinishRefresh, WritesHit
  <2>4. CASE RunReload
    BY <2>4 DEF RunReload, WritesHit
  <2> QED BY <1>1, <2>1, <2>2, <2>3, <2>4 DEF Posts
<1>2. CASE InTheList
  <2>1. ASSUME NEW id \in 1..MaxId, ClickRow(id) PROVE WritesHit'
    BY <2>1 DEF ClickRow, WritesHit
  <2>2. ASSUME NEW id \in 1..MaxId, ClickPadlock(id) PROVE WritesHit'
    BY ToggleHits, <2>2 DEF ClickPadlock
  <2>3. ASSUME NEW id \in 1..MaxId, RowMenu(id) PROVE WritesHit'
    BY <2>3 DEF RowMenu, WritesHit
  <2>4. ASSUME NEW k \in 1..MaxId, ToggleVisible(k) PROVE WritesHit'
    BY NoStray, <2>4 DEF ToggleVisible, WritesHit, WithItem
  <2>5. ASSUME NEW up \in BOOLEAN, MoveRow(up) PROVE WritesHit'
    BY NoStray, <2>5 DEF MoveRow, WritesHit, WithItem
  <2>6. ASSUME NEW t \in Transforms, PanelApply(t) PROVE WritesHit'
    BY NoStray, <2>6 DEF PanelApply, WritesHit, Write, Writable, WithItem
  <2>7. CASE SceneMenu
    BY <2>7 DEF SceneMenu, WritesHit
  <2>8. CASE AskRemove
    BY <2>8 DEF AskRemove, WritesHit
  <2>9. CASE AskRename
    BY <2>9 DEF AskRename, WritesHit
  <2>10. CASE AskAdd
    BY <2>10 DEF AskAdd, WritesHit
  <2> QED BY <1>2, <2>1, <2>2, <2>3, <2>4, <2>5, <2>6, <2>7, <2>8, <2>9, <2>10 DEF InTheList
<1>3. CASE InThePreview
  <2>1. ASSUME NEW under \in SUBSET (1..MaxId), NEW onHandle \in BOOLEAN, Press(under, onHandle)
        PROVE  WritesHit'
    BY <2>1 DEF Press, WritesHit
  <2>2. ASSUME NEW under \in SUBSET (1..MaxId), PreviewMenu(under) PROVE WritesHit'
    BY <2>2 DEF PreviewMenu, WritesHit
  <2>3. ASSUME NEW t \in Transforms, DragTo(t) PROVE WritesHit'
    BY NoStray, <2>3 DEF DragTo, WritesHit, Write, Writable, WithItem
  <2>4. ASSUME NEW t \in Transforms, NEW paused \in BOOLEAN, Nudge(t, paused) PROVE WritesHit'
    BY NoStray, <2>4 DEF Nudge, WritesHit, Write, Writable, WithItem
  <2>5. CASE Drop
    BY <2>5 DEF Drop, WritesHit
  <2>6. CASE Escape
    BY NoStray, <2>6 DEF Escape, WritesHit, Write, Writable, WithItem
  <2>7. CASE Undo
    BY NoStray, <2>7 DEF Undo, WritesHit, Write, Writable, WithItem
  <2> QED BY <1>3, <2>1, <2>2, <2>3, <2>4, <2>5, <2>6, <2>7 DEF InThePreview
<1>4. CASE InADialog
  <2>1. ASSUME NEW lock \in BOOLEAN, ChooseLockAll(lock) PROVE WritesHit'
    BY <2>1 DEF ChooseLockAll, WritesHit
  <2>2. ASSUME NEW t \in Transforms, ChooseTransform(t) PROVE WritesHit'
    BY NoStray, <2>2 DEF ChooseTransform, WritesHit, Writable, Meant, WithItem
  <2>3. ASSUME NEW source \in Sources, AnswerAdd(source) PROVE WritesHit'
    BY <2>3 DEF AnswerAdd, WritesHit
  <2>4. CASE ChooseLock
    BY ToggleHits, <2>4 DEF ChooseLock, Meant
  <2>5. CASE ChooseRename
    BY <2>5 DEF ChooseRename, WritesHit
  <2>6. CASE ChooseCopy
    BY <2>6 DEF ChooseCopy, WritesHit
  <2>7. CASE AnswerCopy
    BY <2>7 DEF AnswerCopy, WritesHit
  <2>8. CASE AnswerRename
    BY NoStray, <2>8 DEF AnswerRename, WritesHit, Meant, WithItem
  <2>9. CASE AnswerRemove
    BY NoStray, <2>9 DEF AnswerRemove, WritesHit, Meant, WithItem
  <2>10. CASE Dismiss
    BY <2>10 DEF Dismiss, WritesHit
  <2> QED BY <1>4, <2>1, <2>2, <2>3, <2>4, <2>5, <2>6, <2>7, <2>8, <2>9, <2>10 DEF InADialog
<1>5. CASE Others
  <2>1. ASSUME NEW s \in Scenes, SwitchScene(s) PROVE WritesHit'
    BY <2>1 DEF SwitchScene, WritesHit
  <2>2. ASSUME NEW s \in Scenes, NEW id \in 1..MaxId, OthersLock(s, id) PROVE WritesHit'
    BY <2>2 DEF OthersLock, WritesHit
  <2>3. ASSUME NEW s \in Scenes, NEW id \in 1..MaxId, OthersRemove(s, id) PROVE WritesHit'
    BY <2>3 DEF OthersRemove, WritesHit
  <2>4. ASSUME NEW s \in Scenes, NEW id \in 1..MaxId, NEW t \in Transforms, OthersMove(s, id, t)
        PROVE  WritesHit'
    BY <2>4 DEF OthersMove, WritesHit
  <2>5. ASSUME NEW s \in Scenes, NEW source \in Sources, OthersAdd(s, source) PROVE WritesHit'
    BY <2>5 DEF OthersAdd, WritesHit
  <2>6. CASE SceneRemoved
    BY <2>6 DEF SceneRemoved, WritesHit
  <2>7. CASE Shutdown
    BY <2>7 DEF Shutdown, WritesHit
  <2> QED BY <1>5, <2>1, <2>2, <2>3, <2>4, <2>5, <2>6, <2>7 DEF Others
<1>6. CASE UNCHANGED vars
  BY <1>6 DEF vars, WritesHit
<1> QED BY <1>1, <1>2, <1>3, <1>4, <1>5, <1>6 DEF Next

(* However often the scene is switched while a menu, a dialog or a drag is open,
   a write hits the item that was pointed at, never the one with the same id in
   another scene. *)
THEOREM WritesCorrect == Spec => []WritesHit
<1>1. Init => WritesHit
  BY DEF Init, WritesHit
<1> QED BY <1>1, WriteStep, PTL DEF Spec

-----------------------------------------------------------------------------
(* A scene of libobs: ids are distinct and below the next one. *)
Library ==
    /\ items \in [Scenes -> Seq(Items)]
    /\ nextId \in [Scenes -> Nat \ {0}]
    /\ active \in Scenes \cup {None}
    /\ \A s \in Scenes : /\ Distinct(items[s])
                         /\ \A k \in DOMAIN items[s] : items[s][k].id < nextId[s]

(* The transforms that a drag, an undo step and a planned copy keep to be written later. *)
Gestures ==
    /\ drag = [on |-> drag.on, scene |-> drag.scene, id |-> drag.id, start |-> drag.start,
               changed |-> drag.changed]
    /\ drag.on => drag.start \in Transforms
    /\ undo.valid => undo.before \in Transforms

Dialogs ==
    /\ dialog = [kind |-> dialog.kind, scene |-> dialog.scene, id |-> dialog.id,
                 locked |-> dialog.locked, plan |-> dialog.plan, transform |-> dialog.transform]
    /\ dialog.kind = "copy" => dialog.transform \in Transforms

Captured == Gestures /\ Dialogs

(* A change of the active scene or of its items that the rows do not show yet has a post
   on its way, and so has one that the refresh in progress came too early for. *)
Coming == queued \/ listener > 0

NothingMissed ==
    ~closed /\ ~Coming =>
        /\ active # None => conn = active
        /\ refresh.on => refresh.scene = active
        /\ ~refresh.on => list.scene = active /\ list.rows = RowsOf(active)

Row == [id : Nat \ {0}, visible : BOOLEAN, locked : BOOLEAN]

Rows ==
    /\ list = [scene |-> list.scene, rows |-> list.rows, cur |-> list.cur]
    /\ list.rows \in Seq(Row)
    /\ refresh.scene \in Scenes \cup {None}

(* A drag is of an item, of the selected one. *)
Dragged == drag.on => /\ drag.scene # None /\ drag.id # 0
                      /\ selection = Picked(drag.scene, drag.id)

EditorInv ==
    Library /\ Captured /\ Rows /\ NothingMissed /\ listener \in Nat /\ Dragged /\ OneSelection

-----------------------------------------------------------------------------
(* What the changes of a scene keep. *)
SceneOK(scene, next) ==
    /\ scene \in Seq(Items) /\ Distinct(scene)
    /\ \A k \in DOMAIN scene : scene[k].id < next

(* No locked item is written. *)
Unmoved(old, new) ==
    \A k \in DOMAIN old : old[k].locked =>
        \A m \in DOMAIN new : new[m].id = old[k].id => new[m].transform = old[k].transform

LEMMA Chosen ==
    ASSUME NEW scene, NEW id \in Ids(scene)
    PROVE  /\ (CHOOSE n \in DOMAIN scene : scene[n].id = id) \in DOMAIN scene
           /\ scene[CHOOSE n \in DOMAIN scene : scene[n].id = id].id = id
BY DEF Ids

LEMMA ItemOfId ==
    ASSUME NEW next \in Nat, NEW scene, SceneOK(scene, next), NEW id \in Ids(scene)
    PROVE  /\ ItemOf(scene, id) \in Items /\ ItemOf(scene, id).id = id
           /\ \A k \in DOMAIN scene : scene[k].id = id => ItemOf(scene, id) = scene[k]
<1>1. PICK k \in DOMAIN scene : ItemOf(scene, id) = scene[k] /\ scene[k].id = id
  BY Chosen DEF ItemOf
<1> QED BY <1>1 DEF SceneOK, Distinct

LEMMA KeptScene == ASSUME NEW next, NEW scene, SceneOK(scene, next) PROVE Unmoved(scene, scene)
BY DEF SceneOK, Unmoved, Distinct

LEMMA ReplacedScene ==
    ASSUME NEW next \in Nat, NEW scene, SceneOK(scene, next), NEW id \in Ids(scene),
           NEW item \in Items, item.id = id
    PROVE  /\ SceneOK(Replaced(scene, item), next)
           /\ (item.transform = ItemOf(scene, id).transform \/ MayWrite(ItemOf(scene, id)))
                => Unmoved(scene, Replaced(scene, item))
<1>1. SceneOK(Replaced(scene, item), next)
  BY DEF SceneOK, Distinct, Replaced
<1>2. ASSUME item.transform = ItemOf(scene, id).transform \/ MayWrite(ItemOf(scene, id))
      PROVE  Unmoved(scene, Replaced(scene, item))
  BY <1>2, ItemOfId DEF SceneOK, Distinct, Replaced, Unmoved, MayWrite
<1> QED BY <1>1, <1>2

LEMMA WithoutScene ==
    ASSUME NEW next \in Nat, NEW scene, SceneOK(scene, next), NEW id \in Ids(scene)
    PROVE  SceneOK(Without(scene, id), next) /\ Unmoved(scene, Without(scene, id))
<1> DEFINE k == CHOOSE n \in DOMAIN scene : scene[n].id = id
           left == SubSeq(scene, 1, k - 1)
           right == SubSeq(scene, k + 1, Len(scene))
<1>1. k \in DOMAIN scene
  BY Chosen
<1> HIDE DEF k
<1>2. /\ left \in Seq(Items) /\ Len(left) = k - 1
      /\ \A m \in 1..(k - 1) : left[m] = scene[m]
  BY <1>1 DEF SceneOK
<1>3. /\ right \in Seq(Items) /\ Len(right) = Len(scene) - k
      /\ \A m \in 1..(Len(scene) - k) : right[m] = scene[m + k]
  BY <1>1 DEF SceneOK
<1> HIDE DEF left, right
<1> DEFINE new == left \o right
<1>4. new \in Seq(Items) /\ Len(new) = Len(scene) - 1
  BY <1>1, <1>2, <1>3 DEF SceneOK
<1>5. \A m \in 1..(Len(scene) - 1) : new[m] = IF m < k THEN scene[m] ELSE scene[m + 1]
  BY <1>1, <1>2, <1>3, SMTT(30) DEF SceneOK
<1>6. Without(scene, id) = new
  BY DEF Without, left, right, k
<1> HIDE DEF new
<1>7. \A m \in DOMAIN new : \E n \in DOMAIN scene : new[m] = scene[n]
  BY <1>1, <1>4, <1>5 DEF SceneOK
<1>8. Distinct(new)
  BY <1>1, <1>4, <1>5, SMTT(30) DEF SceneOK, Distinct
<1> QED BY <1>4, <1>6, <1>7, <1>8 DEF SceneOK, Distinct, Unmoved

LEMMA MovedScene ==
    ASSUME NEW next \in Nat, NEW scene, SceneOK(scene, next), NEW id \in Ids(scene), NEW up \in BOOLEAN
    PROVE  SceneOK(Moved(scene, id, up), next) /\ Unmoved(scene, Moved(scene, id, up))
<1> DEFINE k == CHOOSE n \in DOMAIN scene : scene[n].id = id
           m == IF up THEN k + 1 ELSE k - 1
<1>1. k \in DOMAIN scene
  BY Chosen
<1>2. Moved(scene, id, up) = IF m \in DOMAIN scene THEN [scene EXCEPT ![k] = scene[m], ![m] = scene[k]]
                             ELSE scene
  BY DEF Moved
<1> HIDE DEF k, m
<1>3. CASE m \in DOMAIN scene
  BY <1>1, <1>2, <1>3, SMTT(30) DEF SceneOK, Distinct, Unmoved
<1>4. CASE m \notin DOMAIN scene
  BY <1>2, <1>4, KeptScene
<1> QED BY <1>3, <1>4

LEMMA LockedScene ==
    ASSUME NEW next \in Nat, NEW scene, SceneOK(scene, next), NEW lock \in BOOLEAN
    PROVE  SceneOK(LockAll(scene, lock), next) /\ Unmoved(scene, LockAll(scene, lock))
<1> DEFINE new == LockAll(scene, lock)
<1>1. \A k \in DOMAIN scene : /\ new[k] \in Items
                             /\ new[k].id = scene[k].id /\ new[k].transform = scene[k].transform
  <2>1. ASSUME NEW k \in DOMAIN scene
        PROVE  new[k] = [scene[k] EXCEPT !.locked = lock] /\ scene[k] \in Items
    BY DEF SceneOK, LockAll
  <2> QED BY <2>1 DEF Items
<1>2. DOMAIN new = DOMAIN scene /\ new = [k \in DOMAIN scene |-> new[k]]
  BY DEF LockAll
<1> HIDE DEF new
<1>3. new \in Seq(Items) /\ DOMAIN new = DOMAIN scene
  BY <1>1, <1>2 DEF SceneOK
<1>4. SceneOK(new, next)
  BY <1>1, <1>3 DEF SceneOK, Distinct
<1>5. Unmoved(scene, new)
  BY <1>1, <1>3 DEF SceneOK, Distinct, Unmoved
<1> QED BY <1>4, <1>5 DEF new

LEMMA AddedScene ==
    ASSUME NEW next \in Nat, NEW scene, SceneOK(scene, next), NEW item \in Items, item.id = next
    PROVE  SceneOK(Append(scene, item), next + 1) /\ Unmoved(scene, Append(scene, item))
<1> DEFINE new == Append(scene, item)
<1>1. /\ new \in Seq(Items) /\ Len(new) = Len(scene) + 1
      /\ \A k \in DOMAIN scene : new[k] = scene[k]
      /\ new[Len(scene) + 1] = item
  BY DEF SceneOK
<1> HIDE DEF new
<1>2. \A k \in DOMAIN new : (new[k].id = next /\ k = Len(scene) + 1) \/ k \in DOMAIN scene
  BY <1>1 DEF SceneOK
<1>3. \A k \in DOMAIN scene : scene[k].id \in Nat /\ scene[k].id < next
  <2>1. \A k \in DOMAIN scene : scene[k] \in Items
    BY DEF SceneOK
  <2> QED BY <2>1 DEF SceneOK, Items
<1> QED BY <1>1, <1>2, <1>3 DEF SceneOK, Distinct, Unmoved

LEMMA CopiedScene ==
    ASSUME NEW next \in Nat, NEW scene, SceneOK(scene, next), NEW t \in Transforms,
           NEW written, \A id \in written : CanEdit(scene, id),
           NEW new, new = [k \in DOMAIN scene |-> IF scene[k].id \in written
                                                 THEN [scene[k] EXCEPT !.transform = t] ELSE scene[k]]
    PROVE  SceneOK(new, next) /\ Unmoved(scene, new)
<1>1. ASSUME NEW k \in DOMAIN scene
      PROVE  /\ new[k] \in Items /\ new[k].id = scene[k].id
             /\ scene[k].locked => new[k] = scene[k]
  <2>1. scene[k] \in Items
    BY DEF SceneOK
  <2>2. CASE scene[k].id \in written
    <3>1. ~scene[k].locked
      BY <2>2, ItemOfId DEF CanEdit, MayWrite
    <3>2. new[k] = [scene[k] EXCEPT !.transform = t]
      BY <2>2
    <3> QED BY <2>1, <3>1, <3>2 DEF Items
  <2>3. CASE scene[k].id \notin written
    BY <2>1, <2>3
  <2> QED BY <2>2, <2>3
<1>2. DOMAIN new = DOMAIN scene /\ new \in Seq(Items)
  BY <1>1 DEF SceneOK
<1>3. SceneOK(new, next)
  BY <1>1, <1>2 DEF SceneOK, Distinct
<1>4. ASSUME NEW k \in DOMAIN scene, NEW m \in DOMAIN new, scene[k].locked, new[m].id = scene[k].id
      PROVE  new[m].transform = scene[k].transform
  <2>1. m = k
    BY <1>1, <1>2, <1>4 DEF SceneOK, Distinct
  <2> QED BY <1>1, <1>4, <2>1
<1> QED BY <1>3, <1>4 DEF Unmoved

-----------------------------------------------------------------------------
(* A step of one scene, and of none. *)
AllUnmoved == \A s \in Scenes : Unmoved(items[s], items'[s])

LEMMA SceneIsOK == ASSUME Library, NEW s \in Scenes PROVE SceneOK(items[s], nextId[s]) /\ nextId[s] \in Nat \ {0}
BY DEF Library, SceneOK

LEMMA NoScene ==
    ASSUME Library, UNCHANGED <<items, nextId>>, active' \in Scenes \cup {None}
    PROVE  Library' /\ AllUnmoved
<1>1. Library'
  BY DEF Library
<1>2. AllUnmoved
  BY SceneIsOK, KeptScene DEF AllUnmoved
<1> QED BY <1>1, <1>2

LEMMA OneScene ==
    ASSUME Library, NEW s \in Scenes, NEW new, NEW next \in Nat \ {0},
           SceneOK(new, next), Unmoved(items[s], new),
           items' = [items EXCEPT ![s] = new], nextId' = [nextId EXCEPT ![s] = next], UNCHANGED active
    PROVE  Library' /\ AllUnmoved
<1>1. Library'
  BY DEF Library, SceneOK
<1>2. AllUnmoved
  <2> SUFFICES ASSUME NEW x \in Scenes PROVE Unmoved(items[x], items'[x])
    BY DEF AllUnmoved
  <2>1. CASE x = s
    BY <2>1 DEF Library
  <2>2. CASE x # s
    <3>1. items'[x] = items[x]
      BY <2>2 DEF Library
    <3> QED BY <3>1, SceneIsOK, KeptScene
  <2> QED BY <2>1, <2>2
<1> QED BY <1>1, <1>2

(* Without an item added. *)
LEMMA SameIds ==
    ASSUME Library, NEW s \in Scenes, NEW new, SceneOK(new, nextId[s]), Unmoved(items[s], new),
           items' = [items EXCEPT ![s] = new], UNCHANGED <<nextId, active>>
    PROVE  Library' /\ AllUnmoved
<1>1. nextId' = [nextId EXCEPT ![s] = nextId[s]] /\ nextId[s] \in Nat \ {0}
  BY DEF Library
<1> QED BY <1>1, OneScene

LEMMA Reached ==
    ASSUME Library, NEW s, NEW id, WithItem(s, id)
    PROVE  active \in Scenes /\ active = s /\ id \in Ids(items[active])
BY DEF Library, WithItem, WithScene

LEMMA WrittenOK ==
    ASSUME Library, NEW s, NEW id, Writable(s, id), NEW t \in Transforms,
           items' = Written(id, t), UNCHANGED <<nextId, active>>
    PROVE  Library' /\ AllUnmoved
<1> DEFINE item == ItemOf(items[active], id)
           new == [item EXCEPT !.transform = t]
<1>1. active \in Scenes /\ id \in Ids(items[active]) /\ MayWrite(item)
  BY Reached DEF Writable
<1>2. new \in Items /\ new.id = id
  <2>1. item \in Items /\ item.id = id
    BY <1>1, ItemOfId, SceneIsOK
  <2> QED BY <2>1 DEF Items
<1>3. items' = [items EXCEPT ![active] = Replaced(items[active], new)]
  BY DEF Written
<1> HIDE DEF new
<1>4. /\ SceneOK(Replaced(items[active], new), nextId[active])
      /\ Unmoved(items[active], Replaced(items[active], new))
  BY <1>1, <1>2, ReplacedScene, SceneIsOK
<1> QED BY <1>1, <1>3, <1>4, SameIds

LEMMA ToggledOK ==
    ASSUME Library, NEW meant, ToggleLock(meant), UNCHANGED <<nextId, active>>
    PROVE  Library' /\ AllUnmoved
<1>1. CASE WithItem(meant.scene, meant.id)
  <2> DEFINE item == ItemOf(items[active], meant.id)
             new == [item EXCEPT !.locked = ~@]
  <2>1. active \in Scenes /\ meant.id \in Ids(items[active])
    BY <1>1, Reached
  <2>2. new \in Items /\ new.id = meant.id /\ new.transform = item.transform
    <3>1. item \in Items /\ item.id = meant.id
      BY <2>1, ItemOfId, SceneIsOK
    <3> QED BY <3>1 DEF Items
  <2>3. items' = [items EXCEPT ![active] = Replaced(items[active], new)]
    BY <1>1 DEF ToggleLock
  <2> HIDE DEF new
  <2>4. /\ SceneOK(Replaced(items[active], new), nextId[active])
        /\ Unmoved(items[active], Replaced(items[active], new))
    BY <2>1, <2>2, ReplacedScene, SceneIsOK
  <2> QED BY <2>1, <2>3, <2>4, SameIds
<1>2. CASE ~WithItem(meant.scene, meant.id)
  <2>1. UNCHANGED items
    BY <1>2 DEF ToggleLock
  <2> QED BY <2>1, NoScene DEF Library
<1> QED BY <1>1, <1>2

LEMMA AddedOK ==
    ASSUME Library, NEW s \in Scenes, NEW source \in Sources,
           items' = [items EXCEPT ![s] = Append(@, NewItem(s, source))],
           nextId' = [nextId EXCEPT ![s] = @ + 1], UNCHANGED active
    PROVE  Library' /\ AllUnmoved
<1>1. NewItem(s, source) \in Items /\ NewItem(s, source).id = nextId[s]
  <2>1. (CHOOSE x \in Transforms : TRUE) \in Transforms
    BY EditorConstants
  <2> QED BY <2>1, SceneIsOK DEF NewItem, Items
<1>2. /\ SceneOK(Append(items[s], NewItem(s, source)), nextId[s] + 1)
      /\ Unmoved(items[s], Append(items[s], NewItem(s, source)))
  BY <1>1, AddedScene, SceneIsOK
<1>3. nextId[s] + 1 \in Nat \ {0}
  BY SceneIsOK
<1> QED BY <1>2, <1>3, OneScene

(* Only another part of OBS moves a locked item. *)
LockKept ==
    \A s \in Scenes : \A k \in DOMAIN items[s] :
        items[s][k].locked =>
           \/ \A m \in DOMAIN items'[s] : items'[s][m].id = items[s][k].id =>
                  items'[s][m].transform = items[s][k].transform
           \/ \E t \in Transforms : OthersMove(s, items[s][k].id, t)

LEMMA MovedByOthers ==
    ASSUME Library, NEW s \in Scenes, NEW id \in 1..MaxId, NEW t \in Transforms, OthersMove(s, id, t)
    PROVE  Library' /\ LockKept
<1> DEFINE item == ItemOf(items[s], id)
           new == [item EXCEPT !.transform = t]
           scene == Replaced(items[s], new)
<1>1. id \in Ids(items[s]) /\ UNCHANGED <<nextId, active>> /\ items' = [items EXCEPT ![s] = scene]
  BY DEF OthersMove
<1>2. new \in Items /\ new.id = id
  <2>1. item \in Items /\ item.id = id
    BY <1>1, ItemOfId, SceneIsOK
  <2> QED BY <2>1 DEF Items
<1> HIDE DEF new
<1>3. SceneOK(scene, nextId[s])
  BY <1>1, <1>2, ReplacedScene, SceneIsOK
<1>4. Library'
  BY <1>1, <1>3 DEF Library, SceneOK
<1>5. ASSUME NEW x \in Scenes, NEW k \in DOMAIN items[x], ~(x = s /\ items[x][k].id = id),
             NEW m \in DOMAIN items'[x], items'[x][m].id = items[x][k].id
      PROVE  items'[x][m] = items[x][k]
  <2>1. items'[x] = IF x = s THEN scene ELSE items[x]
    BY <1>1 DEF Library
  <2>2. Distinct(items[x])
    BY DEF Library
  <2>3. CASE x = s
    <3>1. items[s][m].id # id /\ m \in DOMAIN items[s] /\ items'[x][m] = items[s][m]
      BY <1>2, <1>5, <2>1, <2>3 DEF Replaced
    <3> QED BY <1>5, <2>2, <2>3, <3>1 DEF Distinct
  <2>4. CASE x # s
    BY <1>5, <2>1, <2>2, <2>4 DEF Distinct
  <2> QED BY <2>3, <2>4
<1> QED BY <1>4, <1>5 DEF LockKept

LEMMA Held == AllUnmoved => LockKept
BY DEF AllUnmoved, Unmoved, LockKept

(* The items of all scenes after a step of the list, of the preview, of a dialog. *)
LEMMA Quiet == ASSUME Library, UNCHANGED obs PROVE Library' /\ AllUnmoved
BY NoScene DEF Library, obs

LEMMA ListChangesScene ==
    ASSUME Library, Rows, InTheList
    PROVE  Library' /\ AllUnmoved
<1>1. ASSUME NEW up \in BOOLEAN, MoveRow(up) PROVE Library' /\ AllUnmoved
  <2>1. CASE WithItem(list.scene, list.cur)
    <3>1. active \in Scenes /\ list.cur \in Ids(items[active])
      BY <2>1, Reached
    <3>2. items' = [items EXCEPT ![active] = Moved(items[active], list.cur, up)] /\ UNCHANGED <<nextId, active>>
      BY <1>1, <2>1 DEF MoveRow
    <3> QED BY <3>1, <3>2, MovedScene, SceneIsOK, SameIds
  <2>2. CASE ~WithItem(list.scene, list.cur)
    <3>1. UNCHANGED <<items, nextId, active>>
      BY <1>1, <2>2 DEF MoveRow
    <3> QED BY <3>1, NoScene DEF Library
  <2> QED BY <2>1, <2>2
<1>2. ASSUME NEW n \in 1..MaxId, ToggleVisible(n) PROVE Library' /\ AllUnmoved
  <2> DEFINE row == [list.rows[n] EXCEPT !.visible = ~@]
             item == ItemOf(items[active], row.id)
             new == [item EXCEPT !.visible = row.visible]
  <2>3. row \in Row
    <3>1. list.rows[n] \in Row
      BY <1>2 DEF ToggleVisible, Rows
    <3> QED BY <3>1 DEF Row
  <2>1. CASE WithItem(list.scene, row.id)
    <3>1. active \in Scenes /\ row.id \in Ids(items[active])
      BY <2>1, Reached
    <3>2. new \in Items /\ new.id = row.id /\ new.transform = item.transform
      <4>1. item \in Items /\ item.id = row.id
        BY <3>1, ItemOfId, SceneIsOK
      <4>2. row.visible \in BOOLEAN
        BY <2>3 DEF Row
      <4> HIDE DEF row
      <4> QED BY <4>1, <4>2 DEF Items
    <3>3. items' = [items EXCEPT ![active] = Replaced(items[active], new)] /\ UNCHANGED <<nextId, active>>
      BY <1>2, <2>1 DEF ToggleVisible
    <3> HIDE DEF new, row
    <3> QED BY <3>1, <3>2, <3>3, ReplacedScene, SceneIsOK, SameIds
  <2>2. CASE ~WithItem(list.scene, row.id)
    <3>1. UNCHANGED <<items, nextId, active>>
      BY <1>2, <2>2 DEF ToggleVisible
    <3> QED BY <3>1, NoScene DEF Library
  <2> QED BY <2>1, <2>2
<1>3. ASSUME NEW id \in 1..MaxId, ClickPadlock(id) PROVE Library' /\ AllUnmoved
  BY <1>3, ToggledOK DEF ClickPadlock
<1>4. ASSUME NEW t \in Transforms, PanelApply(t) PROVE Library' /\ AllUnmoved
  <2>1. CASE Writable(editor.scene, editor.id)
    <3>1. items' = Written(editor.id, t) /\ UNCHANGED <<nextId, active>>
      BY <1>4, <2>1 DEF PanelApply, Write, Writable, WithItem, WithScene, Picked
    <3> QED BY <2>1, <3>1, WrittenOK
  <2>2. CASE ~Writable(editor.scene, editor.id)
    <3>1. UNCHANGED <<items, nextId, active>>
      BY <1>4, <2>2 DEF PanelApply
    <3> QED BY <3>1, NoScene DEF Library
  <2> QED BY <2>1, <2>2
<1>5. ASSUME NEW id \in 1..MaxId, ClickRow(id) \/ RowMenu(id) PROVE UNCHANGED obs
  BY <1>5 DEF ClickRow, RowMenu
<1>6. SceneMenu \/ AskRemove \/ AskRename \/ AskAdd => UNCHANGED obs
  BY DEF SceneMenu, AskRemove, AskRename, AskAdd
<1> QED BY <1>1, <1>2, <1>3, <1>4, <1>5, <1>6, Quiet DEF InTheList

LEMMA PreviewChangesScene ==
    ASSUME Library, Captured, InThePreview
    PROVE  Library' /\ AllUnmoved
<1>1. CASE UNCHANGED <<items, nextId, active>>
  BY <1>1, NoScene DEF Library
<1>2. ASSUME NEW s, NEW id, Writable(s, id), NEW to \in Transforms, Write(Picked(s, id), to),
             UNCHANGED <<nextId, active>>
      PROVE  Library' /\ AllUnmoved
  <2>1. items' = Written(id, to)
    BY <1>2, Reached DEF Write, Writable, WithItem, WithScene, Picked, Nothing
  <2> QED BY <1>2, <2>1, WrittenOK
<1>3. ASSUME NEW t \in Transforms, DragTo(t) PROVE Library' /\ AllUnmoved
  BY <1>1, <1>2, <1>3 DEF DragTo
<1>4. ASSUME NEW t \in Transforms, NEW paused \in BOOLEAN, Nudge(t, paused) PROVE Library' /\ AllUnmoved
  BY <1>2, <1>4 DEF Nudge
<1>5. CASE Escape
  BY <1>1, <1>2, <1>5 DEF Escape, Captured, Gestures
<1>6. CASE Undo
  BY <1>1, <1>2, <1>6 DEF Undo, Captured, Gestures
<1>7. ASSUME NEW under \in SUBSET (1..MaxId), NEW onHandle \in BOOLEAN,
             Press(under, onHandle) \/ PreviewMenu(under) \/ Drop
      PROVE  UNCHANGED obs
  BY <1>7 DEF Press, PreviewMenu, Drop
<1> QED BY <1>3, <1>4, <1>5, <1>6, <1>7, Quiet DEF InThePreview

LEMMA DialogChangesScene ==
    ASSUME Library, Captured, InADialog
    PROVE  Library' /\ AllUnmoved
<1>1. CASE UNCHANGED <<items, nextId, active>>
  BY <1>1, NoScene DEF Library
<1>2. CASE ChooseLock
  BY <1>2, ToggledOK DEF ChooseLock
<1>3. ASSUME NEW lock \in BOOLEAN, ChooseLockAll(lock), WithScene(dialog.scene)
      PROVE  Library' /\ AllUnmoved
  <2>1. active \in Scenes
    BY <1>3 DEF WithScene, Library
  <2>2. items' = [items EXCEPT ![active] = LockAll(items[active], lock)] /\ UNCHANGED <<nextId, active>>
    BY <1>3 DEF ChooseLockAll
  <2> QED BY <2>1, <2>2, LockedScene, SceneIsOK, SameIds
<1>4. ASSUME NEW t \in Transforms, ChooseTransform(t), Writable(dialog.scene, dialog.id)
      PROVE  Library' /\ AllUnmoved
  <2>1. items' = Written(dialog.id, t) /\ UNCHANGED <<nextId, active>>
    BY <1>4 DEF ChooseTransform
  <2> QED BY <1>4, <2>1, WrittenOK
<1>5. CASE AnswerRemove /\ WithItem(dialog.scene, dialog.id)
  <2>1. active \in Scenes /\ dialog.id \in Ids(items[active])
    BY <1>5, Reached
  <2>2. items' = [items EXCEPT ![active] = Without(items[active], dialog.id)] /\ UNCHANGED <<nextId, active>>
    BY <1>5 DEF AnswerRemove
  <2> QED BY <2>1, <2>2, WithoutScene, SceneIsOK, SameIds
<1>6. ASSUME NEW source \in Sources, AnswerAdd(source) PROVE Library' /\ AllUnmoved
  <2>1. CASE /\ WithScene(dialog.scene) /\ UNCHANGED active
             /\ items' = [items EXCEPT ![active] = Append(@, NewItem(active, source))]
             /\ nextId' = [nextId EXCEPT ![active] = @ + 1]
    <3>1. active \in Scenes
      BY <2>1 DEF WithScene, Library
    <3> QED BY <2>1, <3>1, AddedOK
  <2> QED BY <1>1, <1>6, <2>1 DEF AnswerAdd
<1>7. CASE AnswerCopy
  <2>1. ASSUME NEW s \in Scenes
        PROVE  SceneOK(items'[s], nextId[s]) /\ Unmoved(items[s], items'[s])
    <3>1. \A id \in CopyTo(s) : CanEdit(items[s], id)
      BY DEF CopyTo
    <3>2. items'[s] = [k \in DOMAIN items[s] |-> IF items[s][k].id \in CopyTo(s)
                                THEN [items[s][k] EXCEPT !.transform = dialog.transform] ELSE items[s][k]]
      BY <1>7 DEF AnswerCopy
    <3>3. dialog.transform \in Transforms
      BY <1>7 DEF AnswerCopy, Answers, Captured, Dialogs
    <3>4. SceneOK(items[s], nextId[s]) /\ nextId[s] \in Nat
      BY SceneIsOK
    <3> DEFINE scene == items[s] next == nextId[s] new == items'[s]
               written == CopyTo(s) to == dialog.transform
    <3> HIDE DEF scene, next, new, written, to
    <3>5. /\ \A id \in written : CanEdit(scene, id)
          /\ new = [k \in DOMAIN scene |-> IF scene[k].id \in written
                                          THEN [scene[k] EXCEPT !.transform = to] ELSE scene[k]]
          /\ to \in Transforms /\ SceneOK(scene, next) /\ next \in Nat
      BY <3>1, <3>2, <3>3, <3>4 DEF scene, next, new, written, to
    <3>6. SceneOK(new, next) /\ Unmoved(scene, new)
      BY <3>5, CopiedScene
    <3> QED BY <3>6 DEF scene, next, new
  <2>2. DOMAIN items' = Scenes /\ items' = [s \in Scenes |-> items'[s]] /\ UNCHANGED <<nextId, active>>
    BY <1>7 DEF AnswerCopy
  <2> QED BY <2>1, <2>2 DEF Library, SceneOK, AllUnmoved
<1>8. ASSUME NEW lock \in BOOLEAN, ChooseLockAll(lock), ~WithScene(dialog.scene)
      PROVE  UNCHANGED <<items, nextId, active>>
  BY <1>8 DEF ChooseLockAll
<1>9. ASSUME NEW t \in Transforms, ChooseTransform(t), ~Writable(dialog.scene, dialog.id)
      PROVE  UNCHANGED <<items, nextId, active>>
  BY <1>9 DEF ChooseTransform
<1>10. AnswerRemove /\ ~WithItem(dialog.scene, dialog.id) => UNCHANGED <<items, nextId, active>>
  BY DEF AnswerRemove
<1>11. ChooseRename \/ ChooseCopy \/ AnswerRename \/ Dismiss => UNCHANGED obs
  BY DEF ChooseRename, ChooseCopy, AnswerRename, Dismiss
<1> QED BY <1>1, <1>2, <1>3, <1>4, <1>5, <1>6, <1>7, <1>8, <1>9, <1>10, <1>11, Quiet DEF InADialog

LEMMA OthersChangeScene ==
    ASSUME Library, Others
    PROVE  Library' /\ LockKept
<1>1. ASSUME NEW s \in Scenes, NEW id \in 1..MaxId, OthersLock(s, id) PROVE Library' /\ AllUnmoved
  <2> DEFINE item == ItemOf(items[s], id)
             new == [item EXCEPT !.locked = ~@]
  <2>1. id \in Ids(items[s]) /\ UNCHANGED <<nextId, active>>
    BY <1>1 DEF OthersLock
  <2>2. new \in Items /\ new.id = id /\ new.transform = item.transform
    <3>1. item \in Items /\ item.id = id
      BY <2>1, ItemOfId, SceneIsOK
    <3> QED BY <3>1 DEF Items
  <2>3. items' = [items EXCEPT ![s] = Replaced(items[s], new)]
    BY <1>1 DEF OthersLock
  <2> HIDE DEF new
  <2> QED BY <2>1, <2>2, <2>3, ReplacedScene, SceneIsOK, SameIds
<1>2. ASSUME NEW s \in Scenes, NEW id \in 1..MaxId, OthersRemove(s, id) PROVE Library' /\ AllUnmoved
  <2>1. /\ id \in Ids(items[s]) /\ UNCHANGED <<nextId, active>>
        /\ items' = [items EXCEPT ![s] = Without(items[s], id)]
    BY <1>2 DEF OthersRemove
  <2> QED BY <2>1, WithoutScene, SceneIsOK, SameIds
<1>3. ASSUME NEW s \in Scenes, NEW source \in Sources, OthersAdd(s, source) PROVE Library' /\ AllUnmoved
  BY <1>3, AddedOK DEF OthersAdd
<1>4. ASSUME NEW s \in Scenes, SwitchScene(s) PROVE Library' /\ AllUnmoved
  BY <1>4, NoScene DEF SwitchScene
<1>5. CASE SceneRemoved
  BY <1>5, NoScene, Held DEF SceneRemoved
<1>6. CASE Shutdown
  BY <1>6, Quiet, Held DEF Shutdown
<1> QED BY <1>1, <1>2, <1>3, <1>4, <1>5, <1>6, MovedByOthers, Held DEF Others

LEMMA LibraryStep ==
    ASSUME Library, Captured, Rows, [Next]_vars
    PROVE  Library' /\ LockKept
<1>1. CASE Posts \/ UNCHANGED vars
  <2>1. UNCHANGED obs
    BY <1>1 DEF Posts, RunQueued, RunListener, FinishRefresh, RunReload, vars
  <2> QED BY <2>1, Quiet, Held
<1> QED BY <1>1, ListChangesScene, PreviewChangesScene, DialogChangesScene, OthersChangeScene, Held DEF Next

-----------------------------------------------------------------------------
(* What was captured for a later write. *)
LEMMA ItemTransform ==
    ASSUME Library, NEW s, NEW id, WithItem(s, id)
    PROVE  ItemOf(items[active], id).transform \in Transforms
<1>1. active \in Scenes /\ id \in Ids(items[active])
  BY Reached
<1>2. ItemOf(items[active], id) \in Items
  BY <1>1, ItemOfId, SceneIsOK
<1> QED BY <1>2 DEF Items

LEMMA SelectionEndsDrag ==
    ASSUME Gestures, NEW sel, PreviewFollows(sel)
    PROVE  Gestures'
BY DEF Gestures, PreviewFollows, Ends, NoDrag, gesture

LEMMA GesturesStep ==
    ASSUME Library, Gestures, [Next]_vars
    PROVE  Gestures'
<1>1. CASE UNCHANGED gesture
  BY <1>1 DEF Gestures, gesture
<1>2. CASE Posts
  BY <1>1, <1>2, SelectionEndsDrag DEF Posts, RunQueued, RunListener, FinishRefresh, RunReload
<1>3. CASE InTheList
  <2>1. ASSUME NEW id \in 1..MaxId, ClickRow(id) \/ RowMenu(id) PROVE Gestures'
    BY <2>1, SelectionEndsDrag DEF ClickRow, RowMenu, SelectRow
  <2>2. ASSUME ~\E id \in 1..MaxId : ClickRow(id) \/ RowMenu(id) PROVE UNCHANGED gesture
    BY <1>3, <2>2 DEF InTheList, ClickPadlock, ToggleVisible, MoveRow, PanelApply, SceneMenu, AskRemove,
                  AskRename, AskAdd
  <2> QED BY <1>1, <2>1, <2>2
<1>4. CASE InThePreview
  <2>1. ASSUME NEW under \in SUBSET (1..MaxId), NEW onHandle \in BOOLEAN, Press(under, onHandle)
        PROVE  Gestures'
    <3> DEFINE id == IF active = None THEN 0 ELSE ClickMeans(under, onHandle)
    <3>1. CASE id # 0 /\ CanEdit(items[active], id)
      <4>1. drag' = DragOf(id) /\ UNCHANGED undo /\ WithItem(active, id)
        BY <2>1, <3>1 DEF Press, UserActs, WithItem, WithScene, CanEdit
      <4> QED BY <4>1, ItemTransform DEF Gestures, DragOf
    <3>2. CASE ~(id # 0 /\ CanEdit(items[active], id))
      <4>1. PreviewFollows(Picked(active, id))
        BY <2>1, <3>2 DEF Press
      <4> QED BY <4>1, SelectionEndsDrag
    <3> QED BY <3>1, <3>2
  <2>2. ASSUME NEW under \in SUBSET (1..MaxId), PreviewMenu(under) PROVE Gestures'
    BY <2>2, SelectionEndsDrag DEF PreviewMenu
  <2>3. ASSUME NEW t \in Transforms, DragTo(t) PROVE Gestures'
    BY <2>3 DEF DragTo, Gestures, NoDrag
  <2>4. ASSUME NEW t \in Transforms, NEW paused \in BOOLEAN, Nudge(t, paused) PROVE Gestures'
    <3> DEFINE id == ItemIn(selection, active)
    <3>1. WithItem(active, id)
      BY <2>4 DEF Nudge, Writable
    <3>2. ItemOf(items[active], id).transform \in Transforms
      BY <3>1, ItemTransform
    <3>3. UNCHANGED drag /\ (UNCHANGED undo \/ undo'.before = ItemOf(items[active], id).transform)
      BY <2>4 DEF Nudge
    <3> QED BY <3>2, <3>3 DEF Gestures
  <2>5. CASE Drop \/ Escape \/ Undo
    BY <2>5 DEF Drop, Escape, Undo, Gestures, NoDrag, NoUndo
  <2> QED BY <1>4, <2>1, <2>2, <2>3, <2>4, <2>5 DEF InThePreview
<1>5. CASE InADialog
  BY <1>1, <1>5 DEF InADialog, ChooseLock, ChooseLockAll, ChooseTransform, ChooseRename, ChooseCopy, AnswerCopy,
                    AnswerRename, AnswerRemove, AnswerAdd, Dismiss
<1>6. CASE Others
  <2>1. CASE Shutdown
    BY <2>1 DEF Shutdown, Gestures, NoDrag, NoUndo
  <2>2. CASE ~Shutdown
    BY <1>1, <1>6, <2>2 DEF Others, SwitchScene, SceneRemoved, OthersLock, OthersMove, OthersRemove, OthersAdd
  <2> QED BY <2>1, <2>2
<1> QED BY <1>1, <1>2, <1>3, <1>4, <1>5, <1>6 DEF Next, vars

LEMMA DialogsStep ==
    ASSUME Library, Dialogs, [Next]_vars
    PROVE  Dialogs'
<1>1. CASE UNCHANGED dialog \/ dialog' = NoDialog
  BY <1>1 DEF Dialogs, NoDialog
<1>2. CASE Posts
  BY <1>1, <1>2 DEF Posts, RunQueued, RunListener, FinishRefresh, RunReload
<1>3. CASE InTheList
  <2>1. ASSUME NEW id \in 1..MaxId, RowMenu(id) PROVE Dialogs'
    BY <1>1, <2>1 DEF RowMenu, ItemMenu, Dialogs, NoDialog
  <2>2. CASE SceneMenu \/ AskRemove \/ AskRename \/ AskAdd
    BY <2>2 DEF SceneMenu, AskRemove, AskRename, AskAdd, Asks, Dialogs, NoDialog
  <2>3. ASSUME ~(SceneMenu \/ AskRemove \/ AskRename \/ AskAdd), ~\E id \in 1..MaxId : RowMenu(id)
        PROVE  UNCHANGED dialog
    BY <1>3, <2>3 DEF InTheList, ClickRow, ClickPadlock, ToggleVisible, MoveRow, PanelApply
  <2> QED BY <1>1, <2>1, <2>2, <2>3
<1>4. CASE InThePreview
  <2>1. ASSUME NEW under \in SUBSET (1..MaxId), PreviewMenu(under) PROVE Dialogs'
    BY <1>1, <2>1 DEF PreviewMenu, ItemMenu, Dialogs, NoDialog
  <2>2. ASSUME ~\E under \in SUBSET (1..MaxId) : PreviewMenu(under) PROVE UNCHANGED dialog
    BY <1>4, <2>2 DEF InThePreview, Press, DragTo, Nudge, Drop, Escape, Undo
  <2> QED BY <1>1, <2>1, <2>2
<1>5. CASE InADialog
  <2>1. CASE ChooseRename
    BY <2>1 DEF ChooseRename, Asks, Dialogs, NoDialog
  <2>2. CASE ChooseCopy
    <3>1. PICK plan : dialog' = [dialog EXCEPT !.kind = "copy", !.plan = plan,
                                   !.transform = ItemOf(items[active], dialog.id).transform]
      BY <2>2 DEF ChooseCopy
    <3>2. ItemOf(items[active], dialog.id).transform \in Transforms
      BY <2>2, ItemTransform DEF ChooseCopy
    <3> QED BY <3>1, <3>2 DEF Dialogs
  <2>3. ASSUME ~ChooseRename, ~ChooseCopy PROVE dialog' = NoDialog
    BY <1>5, <2>3 DEF InADialog, ChooseLock, ChooseLockAll, ChooseTransform, AnswerCopy, AnswerRename,
                      AnswerRemove, AnswerAdd, Dismiss
  <2> QED BY <1>1, <2>1, <2>2, <2>3
<1>6. CASE Others
  BY <1>1, <1>6 DEF Others, SwitchScene, SceneRemoved, OthersLock, OthersMove, OthersRemove, OthersAdd, Shutdown
<1> QED BY <1>1, <1>2, <1>3, <1>4, <1>5, <1>6 DEF Next, vars

-----------------------------------------------------------------------------
(* The rows. *)
LEMMA RowsOfItems ==
    ASSUME Library, NEW s \in Scenes \cup {None}
    PROVE  RowsOf(s) \in Seq(Row)
<1>1. CASE s = None
  BY <1>1 DEF RowsOf
<1>2. CASE s \in Scenes
  <2>1. s # None /\ items[s] \in Seq(Items)
    BY <1>2, EditorConstants DEF Library
  <2>2. ASSUME NEW k \in DOMAIN items[s]
        PROVE  [id |-> items[s][k].id, visible |-> items[s][k].visible, locked |-> items[s][k].locked] \in Row
    <3>1. items[s][k] \in Items
      BY <2>1
    <3> QED BY <3>1 DEF Items, Row
  <2>3. RowsOf(s) \in [1..Len(items[s]) -> Row] /\ Len(items[s]) \in Nat
    BY <2>1, <2>2 DEF RowsOf
  <2> QED BY <2>3
<1> QED BY <1>1, <1>2

LEMMA NewCurrentRow ==
    ASSUME Rows, NEW cur, list' = [list EXCEPT !.cur = cur], UNCHANGED refresh
    PROVE  Rows' /\ list'.scene = list.scene /\ list'.rows = list.rows
BY DEF Rows

LEMMA NewRefresh ==
    ASSUME Library, Rows, NEW p, RefreshNow(p), UNCHANGED list
    PROVE  Rows'
BY DEF Library, Rows, RefreshNow

LEMMA RowsStep ==
    ASSUME Library, Rows, [Next]_vars
    PROVE  Rows'
<1>1. CASE UNCHANGED <<list, refresh>>
  BY <1>1 DEF Rows
<1>2. CASE Posts
  <2>1. CASE FinishRefresh
    <3>1. PICK now : list' = [scene |-> refresh.scene, rows |-> RowsOf(refresh.scene), cur |-> now]
      BY <2>1 DEF FinishRefresh
    <3>2. RowsOf(refresh.scene) \in Seq(Row)
      BY RowsOfItems DEF Rows
    <3> QED BY <2>1, <3>1, <3>2 DEF FinishRefresh, NoRefresh, Rows
  <2>2. CASE RunQueued \/ RunListener \/ RunReload
    BY <1>1, <2>2, NewRefresh DEF RunQueued, RunListener, RunReload, rows
  <2> QED BY <1>2, <2>1, <2>2 DEF Posts
<1>3. CASE InTheList
  <2>1. ASSUME NEW id \in 1..MaxId, ClickRow(id) \/ RowMenu(id) PROVE Rows'
    BY <2>1, NewCurrentRow DEF ClickRow, RowMenu, SelectRow
  <2>2. ASSUME NEW k \in 1..MaxId, ToggleVisible(k) PROVE Rows'
    <3> DEFINE row == [list.rows[k] EXCEPT !.visible = ~@]
    <3>1. list' = [list EXCEPT !.rows[k] = row] /\ k \in DOMAIN list.rows /\ UNCHANGED refresh
      BY <2>2 DEF ToggleVisible
    <3>2. list.rows[k] \in Row
      BY <3>1 DEF Rows
    <3>3. row \in Row
      BY <3>2 DEF Row
    <3> HIDE DEF row
    <3>4. [list.rows EXCEPT ![k] = row] \in Seq(Row)
      BY <3>1, <3>3 DEF Rows
    <3>5. list' = [scene |-> list.scene, rows |-> [list.rows EXCEPT ![k] = row], cur |-> list.cur]
      BY <3>1 DEF Rows
    <3> QED BY <3>1, <3>4, <3>5 DEF Rows
  <2>3. ASSUME NEW up \in BOOLEAN, MoveRow(up) PROVE Rows'
    BY <2>3, NewRefresh DEF MoveRow
  <2>4. ASSUME ~(\E id \in 1..MaxId : ClickRow(id) \/ RowMenu(id)), ~(\E k \in 1..MaxId : ToggleVisible(k)),
               ~(\E up \in BOOLEAN : MoveRow(up))
        PROVE  UNCHANGED <<list, refresh>>
    BY <1>3, <2>4 DEF InTheList, ClickPadlock, PanelApply, SceneMenu, AskRemove, AskRename, AskAdd, rows
  <2> QED BY <1>1, <2>1, <2>2, <2>3, <2>4
<1>4. CASE InThePreview
  <2>1. ASSUME NEW under \in SUBSET (1..MaxId), NEW onHandle \in BOOLEAN,
               Press(under, onHandle) \/ PreviewMenu(under)
        PROVE  Rows'
    <3>1. PICK sel : ListFollows(sel) /\ UNCHANGED refresh
      BY <2>1 DEF Press, PreviewMenu
    <3>2. UNCHANGED list \/ \E cur : list' = [list EXCEPT !.cur = cur]
      BY <3>1 DEF ListFollows
    <3> QED BY <1>1, <3>1, <3>2, NewCurrentRow
  <2>2. CASE (\E t \in Transforms : DragTo(t) \/ \E paused \in BOOLEAN : Nudge(t, paused))
             \/ Drop \/ Escape \/ Undo
    BY <1>1, <2>2 DEF DragTo, Nudge, Drop, Escape, Undo, rows
  <2> QED BY <1>4, <2>1, <2>2 DEF InThePreview
<1>5. CASE InADialog
  <2>1. CASE AnswerRename \/ AnswerRemove \/ \E source \in Sources : AnswerAdd(source)
    BY <2>1, NewRefresh DEF AnswerRename, AnswerRemove, AnswerAdd
  <2>2. CASE ~(AnswerRename \/ AnswerRemove \/ \E source \in Sources : AnswerAdd(source))
    BY <1>1, <1>5, <2>2 DEF InADialog, ChooseLock, ChooseLockAll, ChooseTransform, ChooseRename, ChooseCopy,
                            AnswerCopy, Dismiss, rows
  <2> QED BY <2>1, <2>2
<1>6. CASE Others
  BY <1>1, <1>6 DEF Others, SwitchScene, SceneRemoved, OthersLock, OthersMove, OthersRemove, OthersAdd,
                    Shutdown, rows
<1> QED BY <1>1, <1>2, <1>3, <1>4, <1>5, <1>6 DEF Next, vars, rows

-----------------------------------------------------------------------------
(* No change of the items is lost. *)
SameRows == RowsOf(active)' = RowsOf(active)

LEMMA SameItems == ASSUME UNCHANGED <<items, active>> PROVE SameRows
BY DEF SameRows, RowsOf

LEMMA SameScene == ASSUME UNCHANGED active, active # None => items'[active] = items[active] PROVE SameRows
BY DEF SameRows, RowsOf

LEMMA OnlyTransforms ==
    ASSUME UNCHANGED active, DOMAIN items'[active] = DOMAIN items[active],
           \A k \in DOMAIN items[active] :
              /\ items'[active][k].id = items[active][k].id
              /\ items'[active][k].visible = items[active][k].visible
              /\ items'[active][k].locked = items[active][k].locked
    PROVE  SameRows
<1>1. CASE active = None
  BY <1>1, SameScene
<1>2. CASE active # None
  BY <1>2 DEF SameRows, RowsOf
<1> QED BY <1>1, <1>2

LEMMA TransformOfOne ==
    ASSUME Library, NEW s \in Scenes, NEW id \in Ids(items[s]), NEW t, UNCHANGED active,
           items' = [items EXCEPT ![s] = Replaced(items[s], [ItemOf(items[s], id) EXCEPT !.transform = t])]
    PROVE  SameRows
<1> DEFINE item == ItemOf(items[s], id)
           new == [item EXCEPT !.transform = t]
<1>1. CASE s = active
  <2>1. item \in Items /\ item.id = id /\ \A k \in DOMAIN items[s] : items[s][k].id = id => item = items[s][k]
    BY ItemOfId, SceneIsOK
  <2>2. new.id = id /\ new.visible = item.visible /\ new.locked = item.locked
    BY <2>1 DEF Items
  <2>3. items' = [items EXCEPT ![s] = Replaced(items[s], new)]
    OBVIOUS
  <2> HIDE DEF item, new
  <2>4. items'[s] = Replaced(items[s], new)
    BY <2>3 DEF Library
  <2>5. DOMAIN items'[s] = DOMAIN items[s]
    BY <2>4 DEF Replaced
  <2>6. ASSUME NEW k \in DOMAIN items[s]
        PROVE  /\ items'[s][k].id = items[s][k].id /\ items'[s][k].visible = items[s][k].visible
               /\ items'[s][k].locked = items[s][k].locked
    <3>1. items'[s][k] = IF items[s][k].id = id THEN new ELSE items[s][k]
      BY <2>2, <2>4 DEF Replaced
    <3> QED BY <2>1, <2>2, <3>1
  <2> QED BY <1>1, <2>5, <2>6, OnlyTransforms
<1>2. CASE s # active
  <2>1. items'[active] = items[active]
    BY <1>2, EditorConstants DEF Library
  <2> QED BY <2>1, SameScene
<1> QED BY <1>1, <1>2

LEMMA WrittenRows ==
    ASSUME Library, NEW s, NEW id, Writable(s, id), NEW t, items' = Written(id, t), UNCHANGED active
    PROVE  SameRows
BY Reached, TransformOfOne DEF Writable, Written

LEMMA WriteRows ==
    ASSUME Library, NEW s, NEW id, Writable(s, id), NEW t, Write(Picked(s, id), t), UNCHANGED active
    PROVE  SameRows
<1>1. items' = Written(id, t)
  BY Reached DEF Write, Writable, WithItem, WithScene, Picked, Nothing
<1> QED BY <1>1, WrittenRows

(* The ways in which a step keeps it: the rows are as before, a post is under way, a
   refresh begins. *)
LEMMA NotTouched ==
    ASSUME NothingMissed, UNCHANGED <<active, conn, refresh, closed>>, SameRows, Coming => Coming',
           list'.scene = list.scene, list'.rows = list.rows
    PROVE  NothingMissed'
BY DEF NothingMissed, SameRows

LEMMA Announced ==
    ASSUME NothingMissed, UNCHANGED <<active, conn, closed, listener>>, active # None,
           queued' = Posted(active)
    PROVE  NothingMissed'
BY DEF NothingMissed, Coming, Posted

LEMMA Begun ==
    ASSUME NEW p, RefreshNow(p), UNCHANGED active
    PROVE  NothingMissed'
BY DEF NothingMissed, RefreshNow

LEMMA NowhereNear ==
    ASSUME NothingMissed, UNCHANGED <<obs, posts, rows, closed>>
    PROVE  NothingMissed'
<1>1. UNCHANGED <<active, items, queued, listener, conn, refresh, list, closed>>
  BY DEF obs, posts, rows
<1> QED BY <1>1, SameItems, NotTouched DEF Coming

LEMMA MissedByPosts ==
    ASSUME Library, Rows, NothingMissed, listener \in Nat, Posts
    PROVE  NothingMissed' /\ listener' \in Nat
<1>1. listener' \in Nat
  BY DEF Posts, RunQueued, RunListener, FinishRefresh, RunReload, posts
<1>2. CASE RunQueued \/ RunListener
  <2>1. CASE closed
    BY <1>1, <1>2, <2>1 DEF RunQueued, RunListener, NothingMissed
  <2>2. CASE ~closed
    BY <1>1, <1>2, <2>2, Begun DEF RunQueued, RunListener, obs
  <2> QED BY <2>1, <2>2
<1>3. CASE FinishRefresh
  <2>1. /\ UNCHANGED <<queued, listener, closed, active, items>> /\ refresh.on /\ refresh' = NoRefresh
        /\ list'.scene = refresh.scene /\ list'.rows = RowsOf(refresh.scene)
        /\ conn' = IF refresh.scene = None THEN None ELSE conn
    BY <1>3 DEF FinishRefresh, obs, posts
  <2>3. ASSUME ~closed, ~Coming PROVE refresh.scene = active
    BY <2>1, <2>3 DEF NothingMissed
  <2>4. RowsOf(active)' = RowsOf(active)
    BY <2>1, SameItems DEF SameRows
  <2> QED BY <2>1, <2>3, <2>4 DEF NothingMissed, NoRefresh, Coming
<1>4. CASE RunReload
  BY <1>4, SameItems, NotTouched DEF RunReload, rows, obs, Coming
<1> QED BY <1>1, <1>2, <1>3, <1>4 DEF Posts

(* The list and the panel. *)
LEMMA MissedByList ==
    ASSUME Library, Rows, NothingMissed, InTheList
    PROVE  NothingMissed'
<1>1. ASSUME NEW id \in 1..MaxId, ClickRow(id) \/ RowMenu(id) PROVE NothingMissed'
  <2>1. list' = [list EXCEPT !.cur = id] /\ UNCHANGED <<obs, posts, conn, refresh, closed>>
    BY <1>1 DEF ClickRow, RowMenu, SelectRow
  <2>2. list'.scene = list.scene /\ list'.rows = list.rows
    BY <2>1, NewCurrentRow
  <2> QED BY <2>1, <2>2, SameItems, NotTouched DEF obs, posts, Coming
<1>2. ASSUME NEW up \in BOOLEAN, MoveRow(up) PROVE NothingMissed'
  BY <1>2, Begun DEF MoveRow
<1>3. ASSUME NEW k \in 1..MaxId, ToggleVisible(k) PROVE NothingMissed'
  <2> DEFINE row == [list.rows[k] EXCEPT !.visible = ~@]
             item == ItemOf(items[active], row.id)
             new == [item EXCEPT !.visible = row.visible]
  <2>1. k \in DOMAIN list.rows /\ UNCHANGED <<active, conn, refresh, closed, listener>> /\ ~refresh.on
    BY <1>3 DEF ToggleVisible, InList, UserActs
  <2>2. list.rows[k] \in Row
    BY <2>1 DEF Rows
  <2>3. row.id = list.rows[k].id /\ row.visible = ~list.rows[k].visible /\ list.rows[k].visible \in BOOLEAN
    BY <2>2 DEF Row
  <2>4. CASE ~WithItem(list.scene, row.id)
    <3>1. queued' = TRUE
      BY <1>3, <2>4 DEF ToggleVisible
    <3> QED BY <3>1 DEF NothingMissed, Coming
  <2>5. CASE WithItem(list.scene, row.id)
    <3>1. /\ items' = [items EXCEPT ![active] = Replaced(items[active], new)]
          /\ queued' = IF items' = items THEN queued ELSE Posted(active)
      BY <1>3, <2>5 DEF ToggleVisible
    <3>2. active \in Scenes /\ row.id \in Ids(items[active]) /\ active # None
      BY <2>5, Reached, EditorConstants
    <3>3. new.visible = row.visible /\ new.id = row.id
      <4>1. item \in Items /\ item.id = row.id
        BY <3>2, ItemOfId, SceneIsOK
      <4> QED BY <4>1 DEF Items
    <3>4. CASE items' = items
      <4>1. k \in DOMAIN items[active] /\ items[active][k].id = row.id
               => items[active][k].visible = row.visible
        <5> HIDE DEF new, row
        <5> QED BY <3>1, <3>2, <3>3, <3>4 DEF Library, Replaced
      <4>2. ASSUME ~closed, ~Coming PROVE FALSE
        <5>1. list.rows = RowsOf(active)
          BY <2>1, <4>2 DEF NothingMissed
        <5>2. k \in DOMAIN items[active] /\ list.rows[k].id = items[active][k].id
              /\ list.rows[k].visible = items[active][k].visible
          BY <2>1, <3>2, <5>1 DEF RowsOf
        <5> QED BY <2>3, <4>1, <5>2
      <4>3. queued' = queued
        BY <3>1, <3>4
      <4> QED BY <2>1, <4>2, <4>3 DEF NothingMissed, Coming
    <3>5. CASE items' # items
      BY <2>1, <3>1, <3>2, <3>5, Announced
    <3> QED BY <3>4, <3>5
  <2> QED BY <2>4, <2>5
<1>4. ASSUME NEW id \in 1..MaxId, ClickPadlock(id) PROVE NothingMissed'
  <2>1. ToggleLock(Picked(list.scene, id)) /\ UNCHANGED <<active, conn, refresh, closed, listener, list>>
    BY <1>4 DEF ClickPadlock, rows
  <2>2. CASE UNCHANGED <<items, queued>>
    BY <2>1, <2>2, SameItems, NotTouched DEF Coming
  <2>3. CASE queued' = Posted(active) /\ WithItem(Picked(list.scene, id).scene, Picked(list.scene, id).id)
    BY <2>1, <2>3, Reached, EditorConstants, Announced
  <2> QED BY <2>1, <2>2, <2>3 DEF ToggleLock
<1>5. ASSUME NEW t \in Transforms, PanelApply(t) PROVE NothingMissed'
  <2>1. UNCHANGED <<active, queued, listener, rows, closed>>
    BY <1>5 DEF PanelApply
  <2>2. SameRows
    BY <1>5, <2>1, SameItems, WriteRows DEF PanelApply
  <2> QED BY <2>1, <2>2, NotTouched DEF rows, Coming
<1>6. CASE SceneMenu \/ AskRemove \/ AskRename \/ AskAdd
  <2>1. UNCHANGED <<obs, posts, rows, closed>>
    BY <1>6 DEF SceneMenu, AskRemove, AskRename, AskAdd
  <2> QED BY <2>1, NowhereNear
<1> QED BY <1>1, <1>2, <1>3, <1>4, <1>5, <1>6 DEF InTheList

(* The preview. *)
LEMMA MissedByPreview ==
    ASSUME Library, Rows, NothingMissed, InThePreview
    PROVE  NothingMissed'
<1>1. ASSUME NEW under \in SUBSET (1..MaxId), NEW onHandle \in BOOLEAN,
             Press(under, onHandle) \/ PreviewMenu(under)
      PROVE  NothingMissed'
  <2>1. PICK sel : ListFollows(sel) /\ UNCHANGED <<obs, listener, conn, refresh, closed>>
    BY <1>1 DEF Press, PreviewMenu
  <2>2. (UNCHANGED list \/ \E cur : list' = [list EXCEPT !.cur = cur]) /\ (queued => queued')
    BY <2>1 DEF ListFollows
  <2>3. list'.scene = list.scene /\ list'.rows = list.rows
    BY <2>1, <2>2, NewCurrentRow
  <2> QED BY <2>1, <2>2, <2>3, SameItems, NotTouched DEF obs, Coming
<1>2. ASSUME SameRows, UNCHANGED <<active, queued, listener, rows, closed>> PROVE NothingMissed'
  BY <1>2, NotTouched DEF rows, Coming
<1>3. ASSUME NEW t \in Transforms, DragTo(t) PROVE NothingMissed'
  <2>1. UNCHANGED <<active, queued, listener, rows, closed>>
    BY <1>3 DEF DragTo
  <2>2. SameRows
    BY <1>3, <2>1, SameItems, WriteRows DEF DragTo
  <2> QED BY <1>2, <2>1, <2>2
<1>4. ASSUME NEW t \in Transforms, NEW paused \in BOOLEAN, Nudge(t, paused) PROVE NothingMissed'
  <2>1. UNCHANGED <<active, queued, listener, rows, closed>>
    BY <1>4 DEF Nudge
  <2>2. SameRows
    BY <1>4, <2>1, WriteRows DEF Nudge
  <2> QED BY <1>2, <2>1, <2>2
<1>5. CASE Escape
  <2>1. UNCHANGED <<active, queued, listener, rows, closed>>
    BY <1>5 DEF Escape
  <2>2. SameRows
    BY <1>5, <2>1, SameItems, WriteRows DEF Escape
  <2> QED BY <1>2, <2>1, <2>2
<1>6. CASE Undo
  <2>1. UNCHANGED <<active, queued, listener, rows, closed>>
    BY <1>6 DEF Undo
  <2>2. SameRows
    BY <1>6, <2>1, SameItems, WriteRows DEF Undo
  <2> QED BY <1>2, <2>1, <2>2
<1>7. CASE Drop
  BY <1>7, NowhereNear DEF Drop
<1> QED BY <1>1, <1>3, <1>4, <1>5, <1>6, <1>7 DEF InThePreview

(* The menus and the dialogs. *)
LEMMA MissedByDialog ==
    ASSUME Library, NothingMissed, InADialog
    PROVE  NothingMissed'
<1>1. ASSUME UNCHANGED <<active, listener, rows, closed>>,
             UNCHANGED <<items, queued>> \/ (active # None /\ queued' = Posted(active))
      PROVE  NothingMissed'
  BY <1>1, SameItems, NotTouched, Announced DEF rows, Coming
<1>2. CASE ChooseLock
  <2>1. ToggleLock(Meant) /\ UNCHANGED <<active, listener, rows, closed>>
    BY <1>2 DEF ChooseLock
  <2> QED BY <1>1, <2>1, Reached, EditorConstants DEF ToggleLock
<1>3. ASSUME NEW lock \in BOOLEAN, ChooseLockAll(lock) PROVE NothingMissed'
  BY <1>1, <1>3 DEF ChooseLockAll, WithScene
<1>4. ASSUME NEW t \in Transforms, ChooseTransform(t) PROVE NothingMissed'
  <2>1. UNCHANGED <<active, queued, listener, rows, closed>>
    BY <1>4 DEF ChooseTransform
  <2>2. SameRows
    BY <1>4, <2>1, SameItems, WrittenRows DEF ChooseTransform
  <2> QED BY <2>1, <2>2, NotTouched DEF rows, Coming
<1>5. CASE AnswerCopy
  <2>1. UNCHANGED <<active, queued, listener, rows, closed>>
    BY <1>5 DEF AnswerCopy
  <2>2. SameRows
    <3>1. CASE active = None
      BY <2>1, <3>1, SameScene
    <3>2. CASE active \in Scenes
      <4>1. ASSUME NEW k \in DOMAIN items[active]
            PROVE  /\ items'[active][k].id = items[active][k].id
                   /\ items'[active][k].visible = items[active][k].visible
                   /\ items'[active][k].locked = items[active][k].locked
        <5>1. items[active][k] \in Items
          BY <3>2 DEF Library
        <5>2. \/ items'[active][k] = items[active][k]
              \/ items'[active][k] = [items[active][k] EXCEPT !.transform = dialog.transform]
          BY <1>5, <3>2 DEF AnswerCopy
        <5> QED BY <5>1, <5>2 DEF Items
      <4>2. DOMAIN items'[active] = DOMAIN items[active]
        BY <1>5, <3>2 DEF AnswerCopy
      <4> QED BY <2>1, <4>1, <4>2, OnlyTransforms
    <3> QED BY <3>1, <3>2 DEF Library
  <2> QED BY <2>1, <2>2, NotTouched DEF rows, Coming
<1>6. CASE AnswerRename \/ AnswerRemove \/ \E source \in Sources : AnswerAdd(source)
  BY <1>6, Begun DEF AnswerRename, AnswerRemove, AnswerAdd, obs
<1>7. CASE ChooseRename \/ ChooseCopy \/ Dismiss
  <2>1. UNCHANGED <<obs, posts, rows, closed>>
    BY <1>7 DEF ChooseRename, ChooseCopy, Dismiss
  <2> QED BY <2>1, NowhereNear
<1> QED BY <1>2, <1>3, <1>4, <1>5, <1>6, <1>7 DEF InADialog

(* The rest of OBS. *)
LEMMA MissedByOthers ==
    ASSUME Library, NothingMissed, listener \in Nat, Others
    PROVE  NothingMissed' /\ listener' \in Nat
<1>1. CASE (\E s \in Scenes : SwitchScene(s)) \/ SceneRemoved \/ Shutdown
  BY <1>1 DEF SwitchScene, SceneRemoved, Shutdown, NothingMissed, Coming, posts
<1>2. ASSUME NEW s \in Scenes, UNCHANGED <<active, listener, rows, closed>>, queued' = Posted(s),
             NEW scene, items' = [items EXCEPT ![s] = scene]
      PROVE  NothingMissed'
  <2>1. CASE s = active
    BY <1>2, <2>1, EditorConstants, Announced DEF rows
  <2>2. CASE s # active
    <3>1. active # None => items'[active] = items[active]
      BY <1>2, <2>2 DEF Library
    <3> QED BY <1>2, <3>1, SameScene, NotTouched DEF rows, Coming, Posted
  <2> QED BY <2>1, <2>2
<1>3. ASSUME NEW s \in Scenes, NEW id \in 1..MaxId, OthersLock(s, id) \/ OthersRemove(s, id)
      PROVE  NothingMissed' /\ listener' \in Nat
  BY <1>2, <1>3 DEF OthersLock, OthersRemove
<1>4. ASSUME NEW s \in Scenes, NEW source \in Sources, OthersAdd(s, source)
      PROVE  NothingMissed' /\ listener' \in Nat
  BY <1>2, <1>4 DEF OthersAdd
<1>5. ASSUME NEW s \in Scenes, NEW id \in 1..MaxId, NEW t \in Transforms, OthersMove(s, id, t)
      PROVE  NothingMissed' /\ listener' \in Nat
  <2>1. UNCHANGED <<active, queued, listener, rows, closed>>
    BY <1>5 DEF OthersMove
  <2>2. SameRows
    BY <1>5, <2>1, TransformOfOne DEF OthersMove
  <2> QED BY <2>1, <2>2, NotTouched DEF rows, Coming
<1> QED BY <1>1, <1>3, <1>4, <1>5 DEF Others

LEMMA MissedStep ==
    ASSUME Library, Rows, NothingMissed, listener \in Nat, [Next]_vars
    PROVE  NothingMissed' /\ listener' \in Nat
<1>1. CASE InTheList
  <2>1. UNCHANGED listener
    BY <1>1 DEF InTheList, ClickRow, ClickPadlock, RowMenu, ToggleVisible, MoveRow, PanelApply, SceneMenu,
                AskRemove, AskRename, AskAdd, posts
  <2> QED BY <1>1, <2>1, MissedByList
<1>2. CASE InThePreview
  <2>1. UNCHANGED listener
    BY <1>2 DEF InThePreview, Press, PreviewMenu, DragTo, Nudge, Drop, Escape, Undo, posts
  <2> QED BY <1>2, <2>1, MissedByPreview
<1>3. CASE InADialog
  <2>1. UNCHANGED listener
    BY <1>3 DEF InADialog, ChooseLock, ChooseLockAll, ChooseTransform, ChooseRename, ChooseCopy, AnswerCopy,
                AnswerRename, AnswerRemove, AnswerAdd, Dismiss, posts
  <2> QED BY <1>3, <2>1, MissedByDialog
<1>4. CASE UNCHANGED vars
  <2>1. UNCHANGED <<obs, posts, rows, closed>> /\ UNCHANGED listener
    BY <1>4 DEF vars, posts
  <2> QED BY <2>1, NowhereNear
<1> QED BY <1>1, <1>2, <1>3, <1>4, MissedByPosts, MissedByOthers DEF Next

-----------------------------------------------------------------------------
(* One selection. *)
Shown == AtRest => selection = Picked(list.scene, list.cur)

LEMMA DragFollows ==
    ASSUME Dragged, NEW s, NEW id, PreviewFollows(Picked(s, id)), selection' = Picked(s, id)
    PROVE  Dragged'
<1>1. CASE Picked(s, id) = selection
  BY <1>1 DEF Dragged, PreviewFollows, gesture
<1>2. CASE Picked(s, id) # selection
  <2>1. drag' = IF Ends(Picked(s, id)) THEN NoDrag ELSE drag
    BY <1>2 DEF PreviewFollows
  <2>2. CASE drag'.on
    <3>1. drag' = drag /\ drag.on /\ ItemIn(Picked(s, id), drag.scene) = drag.id
      BY <2>1, <2>2 DEF Ends, NoDrag
    <3>2. Picked(s, id) = Picked(drag.scene, drag.id)
      BY <3>1 DEF Dragged, ItemIn, Picked, Nothing
    <3> QED BY <3>1, <3>2 DEF Dragged
  <2> QED BY <2>2 DEF Dragged
<1> QED BY <1>1, <1>2

(* The list shows what the preview selected, or a refresh is posted that will. *)
LEMMA ListFollowsPreview ==
    ASSUME Rows, Shown, NEW s, NEW id, ListFollows(Picked(s, id)), selection' = Picked(s, id),
           UNCHANGED <<listener, refresh, closed>>
    PROVE  Shown'
<1> DEFINE sel == Picked(s, id)
           at == ItemIn(sel, list.scene)
<1>1. sel = [scene |-> sel.scene, id |-> sel.id] /\ (sel.scene = None => sel.id = 0) /\ (sel.id = 0 => sel.scene = None)
  BY DEF Picked, Nothing
<1>2. CASE sel = selection
  BY <1>2 DEF ListFollows, Shown, AtRest
<1>3. CASE sel # selection /\ sel.scene \notin {None, list.scene}
  BY <1>3 DEF ListFollows, Shown, AtRest
<1>4. CASE sel # selection /\ sel.scene \in {None, list.scene}
  <2>1. sel = Picked(list.scene, at)
    BY <1>1, <1>4 DEF ItemIn, Picked, Nothing
  <2>2. CASE at = list.cur
    <3>1. UNCHANGED list
      BY <2>2 DEF ListFollows
    <3> QED BY <2>1, <2>2, <3>1 DEF Shown
  <2>3. CASE at # list.cur
    <3> DEFINE row == IF at \in Ids(list.rows) THEN at ELSE 0
    <3>1. list' = [list EXCEPT !.cur = row] /\ queued' = (queued \/ (row = 0 /\ at # 0))
      BY <1>4, <2>3 DEF ListFollows
    <3>2. list'.scene = list.scene /\ list'.cur = row
      BY <3>1 DEF Rows
    <3> QED BY <2>1, <3>1, <3>2 DEF Shown, AtRest
  <2> QED BY <2>2, <2>3
<1> QED BY <1>2, <1>3, <1>4

LEMMA SameSelection ==
    ASSUME Shown, UNCHANGED selection, list'.scene = list.scene, list'.cur = list.cur, AtRest' => AtRest
    PROVE  Shown'
BY DEF Shown

LEMMA NotAtRest == ASSUME NEW p, RefreshNow(p) PROVE Shown'
BY DEF Shown, RefreshNow, AtRest

LEMMA SameDrag == ASSUME Dragged, UNCHANGED <<drag, selection>> PROVE Dragged'
BY DEF Dragged

LEMMA SelectionStep ==
    ASSUME Rows, Gestures, Dragged, Shown, listener \in Nat, [Next]_vars
    PROVE  Dragged' /\ Shown'
<1>1. ASSUME UNCHANGED <<drag, selection, list>>, AtRest' => AtRest PROVE Dragged' /\ Shown'
  BY <1>1, SameDrag, SameSelection
<1>2. ASSUME UNCHANGED <<drag, selection>>, NEW p, RefreshNow(p) PROVE Dragged' /\ Shown'
  BY <1>2, SameDrag, NotAtRest
<1>3. CASE Posts
  <2>1. CASE RunQueued \/ RunListener
    <3>1. UNCHANGED <<drag, selection, list, closed>>
      BY <2>1 DEF RunQueued, RunListener, gesture
    <3>2. CASE closed
      BY <1>1, <3>1, <3>2 DEF AtRest
    <3>3. CASE ~closed
      BY <1>2, <2>1, <3>1, <3>3 DEF RunQueued, RunListener
    <3> QED BY <3>2, <3>3
  <2>2. CASE FinishRefresh
    <3>1. PICK s, now : /\ list' = [scene |-> s, rows |-> RowsOf(s), cur |-> now]
                        /\ selection' = Picked(s, now) /\ PreviewFollows(Picked(s, now))
      BY <2>2 DEF FinishRefresh
    <3> QED BY <3>1, DragFollows DEF Shown
  <2>3. CASE RunReload
    BY <1>1, <2>3 DEF RunReload, rows, gesture, AtRest
  <2> QED BY <1>3, <2>1, <2>2, <2>3 DEF Posts
<1>4. CASE InTheList
  <2>1. ASSUME NEW id \in 1..MaxId, ClickRow(id) \/ RowMenu(id) PROVE Dragged' /\ Shown'
    <3>1. /\ list' = [list EXCEPT !.cur = id] /\ selection' = Picked(list.scene, id)
          /\ PreviewFollows(Picked(list.scene, id))
      BY <2>1 DEF ClickRow, RowMenu, SelectRow
    <3>2. list'.scene = list.scene /\ list'.cur = id
      BY <3>1 DEF Rows
    <3> QED BY <3>1, <3>2, DragFollows DEF Shown
  <2>2. ASSUME NEW k \in 1..MaxId, ToggleVisible(k) PROVE Dragged' /\ Shown'
    <3>1. list'.scene = list.scene /\ list'.cur = list.cur
      BY <2>2 DEF ToggleVisible, Rows
    <3>2. UNCHANGED <<drag, selection, listener, refresh, closed>> /\ (queued => queued')
      BY <2>2 DEF ToggleVisible, gesture, Posted
    <3> QED BY <3>1, <3>2, SameDrag, SameSelection DEF AtRest
  <2>3. ASSUME NEW up \in BOOLEAN, MoveRow(up) PROVE Dragged' /\ Shown'
    BY <1>2, <2>3 DEF MoveRow, gesture
  <2>4. ASSUME NEW id \in 1..MaxId, ClickPadlock(id) PROVE Dragged' /\ Shown'
    BY <1>1, <2>4 DEF ClickPadlock, ToggleLock, rows, gesture, AtRest, Posted
  <2>5. ASSUME NEW t \in Transforms, PanelApply(t) PROVE Dragged' /\ Shown'
    BY <1>1, <2>5 DEF PanelApply, rows, gesture, AtRest
  <2>6. CASE SceneMenu \/ AskRemove \/ AskRename \/ AskAdd
    BY <1>1, <2>6 DEF SceneMenu, AskRemove, AskRename, AskAdd, rows, posts, gesture, AtRest
  <2> QED BY <1>4, <2>1, <2>2, <2>3, <2>4, <2>5, <2>6 DEF InTheList
<1>5. CASE InThePreview
  <2>1. ASSUME NEW under \in SUBSET (1..MaxId), NEW onHandle \in BOOLEAN, Press(under, onHandle)
        PROVE  Dragged' /\ Shown'
    <3> DEFINE id == IF active = None THEN 0 ELSE ClickMeans(under, onHandle)
    <3>1. selection' = Picked(active, id) /\ ListFollows(Picked(active, id))
          /\ UNCHANGED <<listener, refresh, closed>>
      BY <2>1 DEF Press
    <3>2. CASE id # 0 /\ CanEdit(items[active], id)
      <4>1. drag' = DragOf(id) /\ active # None
        BY <2>1, <3>2 DEF Press
      <4> HIDE DEF id
      <4> QED BY <3>1, <3>2, <4>1, ListFollowsPreview DEF DragOf, Dragged
    <3>3. CASE ~(id # 0 /\ CanEdit(items[active], id))
      <4>1. PreviewFollows(Picked(active, id))
        BY <2>1, <3>3 DEF Press
      <4> HIDE DEF id
      <4> QED BY <3>1, <4>1, DragFollows, ListFollowsPreview
    <3> QED BY <3>2, <3>3
  <2>2. ASSUME NEW under \in SUBSET (1..MaxId), PreviewMenu(under) PROVE Dragged' /\ Shown'
    <3> DEFINE id == ClickMeans(under, FALSE)
    <3>1. /\ selection' = Picked(active, id) /\ ListFollows(Picked(active, id))
          /\ PreviewFollows(Picked(active, id)) /\ UNCHANGED <<listener, refresh, closed>>
      BY <2>2 DEF PreviewMenu
    <3> HIDE DEF id
    <3> QED BY <3>1, DragFollows, ListFollowsPreview
  <2>3. ASSUME UNCHANGED <<selection, list, queued, listener, refresh, closed>>,
               UNCHANGED drag \/ drag' = NoDrag \/ drag' = [drag EXCEPT !.changed = TRUE]
        PROVE  Dragged' /\ Shown'
    <3>1. Dragged'
      BY <2>3 DEF Dragged, NoDrag, Gestures
    <3> QED BY <2>3, <3>1, SameSelection DEF AtRest
  <2>4. ASSUME NEW t \in Transforms, DragTo(t) PROVE Dragged' /\ Shown'
    BY <2>3, <2>4 DEF DragTo, rows
  <2>5. ASSUME NEW t \in Transforms, NEW paused \in BOOLEAN, Nudge(t, paused) PROVE Dragged' /\ Shown'
    BY <2>3, <2>5 DEF Nudge, rows
  <2>6. CASE Drop \/ Escape \/ Undo
    BY <2>3, <2>6 DEF Drop, Escape, Undo, rows, posts
  <2> QED BY <1>5, <2>1, <2>2, <2>4, <2>5, <2>6 DEF InThePreview
<1>6. CASE InADialog
  <2>1. CASE AnswerRename \/ AnswerRemove \/ \E source \in Sources : AnswerAdd(source)
    BY <1>2, <2>1 DEF AnswerRename, AnswerRemove, AnswerAdd, gesture
  <2>2. CASE ChooseLock \/ \E lock \in BOOLEAN : ChooseLockAll(lock)
    BY <1>1, <2>2 DEF ChooseLock, ChooseLockAll, ToggleLock, rows, gesture, AtRest, Posted
  <2>3. CASE AnswerCopy \/ ChooseRename \/ ChooseCopy \/ Dismiss \/ \E t \in Transforms : ChooseTransform(t)
    BY <1>1, <2>3 DEF AnswerCopy, ChooseRename, ChooseCopy, Dismiss, ChooseTransform, rows, posts, gesture, AtRest
  <2> QED BY <1>6, <2>1, <2>2, <2>3 DEF InADialog
<1>7. CASE Others
  <2>1. CASE Shutdown
    BY <2>1, SameSelection DEF Shutdown, Dragged, NoDrag, AtRest
  <2>2. CASE (\E s \in Scenes : SwitchScene(s)) \/ SceneRemoved
    BY <1>1, <2>2 DEF SwitchScene, SceneRemoved, rows, gesture, AtRest
  <2>3. ASSUME NEW s \in Scenes, NEW id \in 1..MaxId, OthersLock(s, id) \/ OthersRemove(s, id)
        PROVE  Dragged' /\ Shown'
    BY <1>1, <2>3 DEF OthersLock, OthersRemove, rows, gesture, AtRest, Posted
  <2>4. ASSUME NEW s \in Scenes, NEW id \in 1..MaxId, NEW t \in Transforms, OthersMove(s, id, t)
        PROVE  Dragged' /\ Shown'
    BY <1>1, <2>4 DEF OthersMove, rows, gesture, AtRest
  <2>5. ASSUME NEW s \in Scenes, NEW source \in Sources, OthersAdd(s, source) PROVE Dragged' /\ Shown'
    BY <1>1, <2>5 DEF OthersAdd, rows, gesture, AtRest, Posted
  <2> QED BY <1>7, <2>1, <2>2, <2>3, <2>4, <2>5 DEF Others
<1>8. CASE UNCHANGED vars
  BY <1>1, <1>8 DEF vars, rows, posts, gesture, AtRest
<1> QED BY <1>3, <1>4, <1>5, <1>6, <1>7, <1>8 DEF Next

-----------------------------------------------------------------------------
LEMMA InitEditor == Init => EditorInv
<1> SUFFICES ASSUME Init PROVE EditorInv
  OBVIOUS
<1>1. Library
  <2>1. ASSUME NEW s \in Scenes
        PROVE  /\ items[s] \in Seq(Items) /\ Distinct(items[s]) /\ nextId[s] \in Nat \ {0}
               /\ \A k \in DOMAIN items[s] : items[s][k].id < nextId[s]
    <3>1. /\ items[s] \in Seq(Items) /\ Distinct(items[s]) /\ nextId[s] = Len(items[s]) + 1
          /\ \A k \in DOMAIN items[s] : items[s][k].id <= Len(items[s])
      BY EditorConstants DEF Init
    <3>2. \A k \in DOMAIN items[s] : items[s][k].id \in Nat
      <4>1. \A k \in DOMAIN items[s] : items[s][k] \in Items
        BY <3>1
      <4> QED BY <4>1 DEF Items
    <3> QED BY <3>1, <3>2
  <2>2. /\ items = [s \in Scenes |-> items[s]] /\ nextId = [s \in Scenes |-> nextId[s]]
        /\ active \in Scenes
    BY EditorConstants DEF Init, Scenes
  <2> QED BY <2>1, <2>2 DEF Library
<1>2. Captured
  BY DEF Init, Captured, Gestures, Dialogs, NoDrag, NoUndo, NoDialog
<1>3. Rows
  <2>1. list = [scene |-> active, rows |-> RowsOf(active), cur |-> 0] /\ refresh = NoRefresh
    BY DEF Init
  <2>2. RowsOf(active) \in Seq(Row)
    BY <1>1, RowsOfItems DEF Library
  <2> QED BY <2>1, <2>2 DEF Rows, NoRefresh
<1>4. NothingMissed
  BY DEF Init, NothingMissed, NoRefresh
<1>5. listener \in Nat /\ Dragged /\ OneSelection
  BY DEF Init, Dragged, NoDrag, OneSelection, AtRest, Picked
<1> QED BY <1>1, <1>2, <1>3, <1>4, <1>5 DEF EditorInv

LEMMA EditorStep == EditorInv /\ [Next]_vars => EditorInv' /\ LockKept
<1> SUFFICES ASSUME EditorInv, [Next]_vars PROVE EditorInv' /\ LockKept
  OBVIOUS
<1>1. Library /\ Gestures /\ Dialogs /\ Rows /\ NothingMissed /\ listener \in Nat /\ Dragged /\ Shown
  BY DEF EditorInv, Captured, OneSelection, Shown
<1>2. Library' /\ LockKept /\ Gestures' /\ Dialogs' /\ Rows'
  BY <1>1, LibraryStep, GesturesStep, DialogsStep, RowsStep DEF Captured
<1>3. NothingMissed' /\ listener' \in Nat /\ Dragged' /\ Shown'
  BY <1>1, MissedStep, SelectionStep
<1>4. OneSelection'
  BY <1>3 DEF OneSelection, Shown, Dragged
<1> QED BY <1>2, <1>3, <1>4 DEF EditorInv, Captured

(* What the list shows, what gestures and dialogs have captured, what is posted and what is
   selected always fit the scenes: the invariant that the results below rest on. *)
THEOREM EditorInvCorrect == Spec => []EditorInv
<1>1. EditorInv /\ [Next]_vars => EditorInv'
  BY EditorStep
<1> QED BY <1>1, InitEditor, PTL DEF Spec

(* With no refresh posted or in progress the rows are the items of the active scene: the
   coalescing of the posts and the change of signals lose no change of another thread. *)
THEOREM RowsCorrect == Spec => []RowsCurrent
<1>1. EditorInv => RowsCurrent
  BY DEF EditorInv, NothingMissed, Coming, RowsCurrent, AtRest
<1> QED BY <1>1, EditorInvCorrect, PTL

(* At rest the list and the preview agree on what is selected, and a drag is always of
   the selected item. *)
THEOREM SelectionCorrect == Spec => []OneSelection
<1>1. EditorInv => OneSelection
  BY DEF EditorInv
<1> QED BY <1>1, EditorInvCorrect, PTL

(* A locked item keeps its transform, unless another part of OBS moves it: whatever was
   captured before it was locked looks at the lock again when it writes. *)
THEOREM LocksCorrect == Spec => LockedStays
<1>1. EditorInv /\ [Next]_vars => [LockKept]_vars
  BY EditorStep
<1> QED BY <1>1, EditorInvCorrect, PTL DEF Spec, LockedStays, LockKept

=================================================================================
