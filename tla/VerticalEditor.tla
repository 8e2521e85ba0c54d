------------------------------ MODULE VerticalEditor ------------------------------
(***************************************************************************)
(* The editor of the vertical dock: ui/VerticalItemList.cpp (the Sources   *)
(* tab), ui/TransformEditor.cpp (its transform panel), ui/CanvasPreview.cpp*)
(* (clicks, drags, nudges and undo in the preview) and the selection and   *)
(* the listener of ui/VerticalCanvasDock they share.                       *)
(*                                                                         *)
(* All of it runs on the UI thread.  What makes it hard: the items belong  *)
(* to libobs, any thread changes them, and the signals of a change only    *)
(* post; the active scene changes under menus, dialogs and drags, which    *)
(* run the event loop; and an item id means another item in another scene. *)
(***************************************************************************)
EXTENDS SceneItems

CONSTANTS
    Start,          \* the scenes of the canvas and their items
    Sources,        \* what an item may show
    Transforms,     \* the transforms of items
    MaxId,          \* bound: item ids of a scene
    MaxEvents       \* bound: events of the user and of the others

Scenes == DOMAIN Start
None == "none"

Items == [id : Nat \ {0}, source : Sources, transform : Transforms,
          locked : BOOLEAN, visible : BOOLEAN]

\* The ids of a scene are distinct, and below the next one.
ASSUME EditorConstants ==
    /\ None \notin Scenes /\ Transforms # {}
    /\ MaxId \in Nat /\ MaxEvents \in Nat
    /\ Start \in [Scenes -> Seq(Items)]
    /\ \A s \in Scenes : /\ Distinct(Start[s])
                         /\ \A k \in DOMAIN Start[s] : Start[s][k].id <= Len(Start[s])

VARIABLES
    active,     \* the active scene of the canvas (OwnedCanvas::active_scene_ref)
    items,      \* libobs: the items of each scene
    nextId,     \* libobs: the id the next item of a scene gets
    removed,    \* libobs: scenes that were removed
    conn,       \* m_conn_scene: the scene whose signals are connected
    queued,     \* m_refresh_queued: a refresh is posted
    listener,   \* refreshes posted by the active scene listener
    reload,     \* m_reload_queued: "none", "posted", or "timer" when throttled
    refresh,    \* a refresh() in progress: the scene it took, its pending selection
    pending,    \* m_pending_select
    list,       \* the rows, the scene they come from, the current row
    selection,  \* VerticalSelection
    editor,     \* the panel: the item it edits, whether its fields are enabled
    drag,       \* m_drag
    undo,       \* m_undo
    burst,      \* m_nudge_burst; from: history, the transform its first nudge found
    dialog,     \* the menu or dialog that is open, and what it captured
    closed,     \* m_shutdown
    strays,     \* history: writes that hit another item than the one pointed at
    events      \* bound: events so far

obs == <<active, items, nextId, removed>>
posts == <<queued, listener, reload>>
rows == <<conn, refresh, pending, list>>
gesture == <<drag, undo, burst>>
vars == <<obs, posts, rows, selection, editor, gesture, dialog, closed, strays, events>>

Nothing == [scene |-> None, id |-> 0]
Picked(s, id) == IF s = None \/ id = 0 THEN Nothing ELSE [scene |-> s, id |-> id]
ItemIn(sel, s) == IF s # None /\ sel.scene = s THEN sel.id ELSE 0

NoDrag == [on |-> FALSE, scene |-> None, id |-> 0, start |-> None, changed |-> FALSE]
NoUndo == [valid |-> FALSE, scene |-> None, id |-> 0, before |-> None]
NoBurst == [on |-> FALSE, scene |-> None, id |-> 0, from |-> None]
NoRefresh == [on |-> FALSE, scene |-> None, pending |-> 0]
NoDialog == [kind |-> "none", scene |-> None, id |-> 0, locked |-> FALSE,
             plan |-> {}, transform |-> None]

RowsOf(s) ==
    IF s = None THEN <<>>
    ELSE [k \in DOMAIN items[s] |-> [id |-> items[s][k].id, visible |-> items[s][k].visible,
                                     locked |-> items[s][k].locked]]

Init ==
    /\ items = Start /\ active \in Scenes /\ removed = {}
    /\ nextId = [s \in Scenes |-> Len(Start[s]) + 1]
    /\ conn = active /\ queued = FALSE /\ listener = 0 /\ reload = "none"
    /\ refresh = NoRefresh /\ pending = 0
    /\ list = [scene |-> active, rows |-> RowsOf(active), cur |-> 0]
    /\ selection = Nothing
    /\ editor = [scene |-> active, id |-> 0, enabled |-> FALSE]
    /\ drag = NoDrag /\ undo = NoUndo /\ burst = NoBurst
    /\ dialog = NoDialog /\ closed = FALSE /\ strays = {} /\ events = 0

-------------------------------------------------------------------------------
(* Access to libobs.                                                       *)

\* Mutant: the ids of a scene are used on whichever scene is active.
WithScene_Any(s) == ~closed /\ active # None

\* with_scene_impl(): only the scene the ids come from.
WithScene(s) == ~closed /\ s # None /\ active = s

\* with_item()
WithItem(s, id) == WithScene(s) /\ id \in Ids(items[active])

Writable(s, id) == WithItem(s, id) /\ MayWrite(ItemOf(items[active], id))

\* The items once the one with this id has the transform, and who was meant.
Written(id, transform) ==
    [items EXCEPT ![active] = Replaced(@, [ItemOf(@, id) EXCEPT !.transform = transform])]
Stray(meant, id) == IF meant = Picked(active, id) THEN {} ELSE {<<meant, Picked(active, id)>>}

Write(meant, transform) ==
    /\ items' = Written(meant.id, transform)
    /\ strays' = strays \cup Stray(meant, meant.id)

\* on_signal() and on_transform_signal(): a post each, unless one waits.
Posted(s) == queued \/ (s # None /\ conn = s)
ReloadPosted(s) == IF conn = s /\ reload = "none" THEN "posted" ELSE reload

\* TransformEditor::set_item() and reload(), once the items are as given.
Loaded(scenes, s, id) ==
    IF WithScene(s) /\ id \in Ids(scenes[s])
    THEN [scene |-> s, id |-> id, enabled |-> MayWrite(ItemOf(scenes[s], id))]
    ELSE [scene |-> s, id |-> 0, enabled |-> FALSE]

Reloaded(scenes) == Loaded(scenes, editor.scene, editor.id)

-------------------------------------------------------------------------------
(* refresh(): the signals are connected first, then the items are read.    *)

\* Mutant: the signals stay with the scene that was connected first.
RefreshNow_FirstScene(p) ==
    /\ refresh' = [on |-> TRUE, scene |-> active, pending |-> p]
    /\ pending' = 0
    /\ conn' = IF active = None \/ conn # None THEN conn ELSE active

RefreshNow(p) ==
    /\ refresh' = [on |-> TRUE, scene |-> active, pending |-> p]
    /\ pending' = 0
    /\ conn' = IF active = None THEN conn ELSE active

\* The preview's answer to a new selection: a drag of another item is kept and ends.
Ends(sel) == drag.on /\ ItemIn(sel, drag.scene) # drag.id

\* Mutant: a drag goes on when another item is selected.
PreviewFollows_KeepsDrag(sel) ==
    IF sel = selection THEN UNCHANGED gesture
    ELSE UNCHANGED <<drag, undo>> /\ burst' = NoBurst

PreviewFollows(sel) ==
    IF sel = selection THEN UNCHANGED gesture
    ELSE /\ drag' = IF Ends(sel) THEN NoDrag ELSE drag
         /\ undo' = IF Ends(sel) /\ drag.changed
                    THEN [valid |-> TRUE, scene |-> drag.scene, id |-> drag.id, before |-> drag.start]
                    ELSE undo
         /\ burst' = NoBurst

\* The list's answer to a selection the preview made: the rows may be of another scene, or old.
ListFollows(sel) ==
    LET id == ItemIn(sel, list.scene)
        row == IF id \in Ids(list.rows) THEN id ELSE 0
    IN IF sel = selection \/ (sel.scene \notin {None, list.scene}) \/ id = list.cur
       THEN /\ queued' = (queued \/ (sel # selection /\ sel.scene \notin {None, list.scene}))
            /\ UNCHANGED <<list, editor, pending>>
       ELSE /\ list' = [list EXCEPT !.cur = row]
            /\ editor' = Loaded(items, list.scene, row)
            /\ pending' = IF row = 0 /\ id # 0 THEN id ELSE pending
            /\ queued' = (queued \/ (row = 0 /\ id # 0))

\* queue_refresh(), the posted part.
RunQueued ==
    /\ queued /\ ~refresh.on
    /\ queued' = FALSE
    /\ IF closed THEN UNCHANGED <<conn, refresh, pending>> ELSE RefreshNow(pending)
    /\ UNCHANGED <<obs, listener, reload, list, selection, editor, gesture, dialog, closed, strays, events>>

\* The dock's listener of scene switches, the posted part.
RunListener ==
    /\ listener > 0 /\ ~refresh.on
    /\ listener' = listener - 1
    /\ IF closed THEN UNCHANGED <<conn, refresh, pending>> ELSE RefreshNow(pending)
    /\ UNCHANGED <<obs, queued, reload, list, selection, editor, gesture, dialog, closed, strays, events>>

\* The rows are rebuilt.  The panel keeps its fields while the user types in one.
FinishRefresh ==
    /\ refresh.on /\ refresh' = NoRefresh
    /\ LET s == refresh.scene
           previous == IF refresh.pending # 0 THEN refresh.pending ELSE ItemIn(selection, s)
           now == IF previous \in Ids(RowsOf(s)) THEN previous ELSE 0
           sel == Picked(s, now)
       IN /\ list' = [scene |-> s, rows |-> RowsOf(s), cur |-> now]
          /\ conn' = IF s = None THEN None ELSE conn
          /\ IF now # previous \/ now = 0
             THEN editor' = Loaded(items, s, now)
             ELSE editor' \in {Reloaded(items)} \cup
                              IF Ends(sel) /\ drag.changed THEN {} ELSE {editor}
          /\ selection' = sel
          /\ PreviewFollows(sel)
    /\ UNCHANGED <<obs, posts, pending, dialog, closed, strays, events>>

\* The coalesced reload of the panel, at most 30 a second.
RunReload ==
    /\ reload # "none" /\ ~refresh.on
    /\ \/ reload = "posted" /\ ~closed /\ reload' = "timer" /\ UNCHANGED editor
       \/ reload' = "none" /\ editor' \in {editor, IF closed THEN editor ELSE Reloaded(items)}
    /\ UNCHANGED <<obs, queued, listener, rows, selection, gesture, dialog, closed, strays, events>>

-------------------------------------------------------------------------------
(* The user in the list and in the panel: no refresh is in progress, no    *)
(* dialog is open, and the preview has lost the focus, which ends a drag.  *)

UserActs ==
    /\ ~closed /\ ~refresh.on /\ dialog = NoDialog /\ events < MaxEvents
    /\ events' = events + 1

InList == UserActs /\ ~drag.on

\* A row becomes the current one: on_selection_changed().
SelectRow(id) ==
    /\ list' = [list EXCEPT !.cur = id]
    /\ editor' = Loaded(items, list.scene, id)
    /\ selection' = Picked(list.scene, id)
    /\ PreviewFollows(Picked(list.scene, id))

ClickRow(id) ==
    /\ InList /\ id \in Ids(list.rows) /\ id # list.cur
    /\ SelectRow(id)
    /\ UNCHANGED <<obs, posts, conn, refresh, pending, dialog, closed, strays>>

\* on_up() and on_down(): the row stays selected, whatever became of the item.
MoveRow(up) ==
    /\ InList /\ list.cur # 0
    /\ IF WithItem(list.scene, list.cur)
       THEN /\ items' = [items EXCEPT ![active] = Moved(@, list.cur, up)]
            /\ queued' = (IF items' = items THEN queued ELSE Posted(active))
            /\ strays' = strays \cup Stray(Picked(list.scene, list.cur), list.cur)
       ELSE UNCHANGED <<items, queued, strays>>
    /\ RefreshNow(list.cur)
    /\ UNCHANGED <<active, nextId, removed, listener, reload, list, selection, editor, gesture, dialog, closed>>

\* on_item_changed(): the checkbox of a row.
ToggleVisible(k) ==
    /\ InList /\ k \in DOMAIN list.rows
    /\ LET row == [list.rows[k] EXCEPT !.visible = ~@]
       IN /\ list' = [list EXCEPT !.rows[k] = row]
          /\ IF WithItem(list.scene, row.id)
             THEN LET item == ItemOf(items[active], row.id)
                  IN /\ items' = [items EXCEPT ![active] = Replaced(@, [item EXCEPT !.visible = row.visible])]
                     /\ queued' = (IF items' = items THEN queued ELSE Posted(active))
                     /\ strays' = strays \cup Stray(Picked(list.scene, row.id), row.id)
             ELSE queued' = TRUE /\ UNCHANGED <<items, strays>>
    /\ UNCHANGED <<active, nextId, removed, listener, reload, conn, refresh, pending, selection, editor,
                   gesture, dialog, closed>>

\* The lock of an item is toggled, if it can be reached.
ToggleLock(meant) ==
    IF WithItem(meant.scene, meant.id)
    THEN LET item == ItemOf(items[active], meant.id)
         IN /\ items' = [items EXCEPT ![active] = Replaced(@, [item EXCEPT !.locked = ~@])]
            /\ queued' = Posted(active)
            /\ strays' = strays \cup Stray(meant, meant.id)
    ELSE UNCHANGED <<items, queued, strays>>

ClickPadlock(id) ==
    /\ InList /\ id \in Ids(list.rows)
    /\ ToggleLock(Picked(list.scene, id))
    /\ UNCHANGED <<active, nextId, removed, listener, reload, rows, selection, editor, gesture, dialog, closed>>

\* on_apply(), on_fit() and on_fill(): the panel writes, then shows what it reads.
PanelApply(transform) ==
    /\ InList /\ editor.id # 0 /\ editor.enabled
    /\ IF Writable(editor.scene, editor.id)
       THEN /\ Write(Picked(editor.scene, editor.id), transform)
            /\ reload' = ReloadPosted(active)
       ELSE UNCHANGED <<items, strays, reload>>
    /\ editor' = Reloaded(items')
    /\ UNCHANGED <<active, nextId, removed, queued, listener, rows, selection, gesture, dialog, closed>>

-------------------------------------------------------------------------------
(* The user in the preview.                                                *)

DragOf(id) ==
    [on |-> TRUE, scene |-> active, id |-> id, changed |-> FALSE,
     start |-> ItemOf(items[active], id).transform]

\* Inside the selected item, or on one of its handles, it stays the selected one.
ClickMeans(under, onHandle) ==
    LET sel == ItemIn(selection, active)
    IN IF CanEdit(items[active], sel) /\ ItemOf(items[active], sel).visible /\ (onHandle \/ sel \in under)
       THEN sel
       ELSE PickItem(items[active], under)

\* Mutant: a burst of nudges goes on over a drag.
Press_KeepsBurst(under, onHandle) ==
    /\ UserActs /\ ~drag.on
    /\ LET id == IF active = None THEN 0 ELSE ClickMeans(under, onHandle)
           sel == Picked(active, id)
       IN /\ selection' = sel
          /\ ListFollows(sel)
          /\ IF id # 0 /\ CanEdit(items[active], id)
             THEN drag' = DragOf(id) /\ UNCHANGED <<undo, burst>>
             ELSE PreviewFollows(sel)
    /\ UNCHANGED <<obs, listener, reload, conn, refresh, dialog, closed, strays>>

\* mousePressEvent(): a locked item is selected, an unlocked one is dragged too.
Press(under, onHandle) ==
    /\ UserActs /\ ~drag.on
    /\ LET id == IF active = None THEN 0 ELSE ClickMeans(under, onHandle)
           sel == Picked(active, id)
       IN /\ selection' = sel
          /\ ListFollows(sel)
          /\ IF id # 0 /\ CanEdit(items[active], id)
             THEN drag' = DragOf(id) /\ burst' = NoBurst /\ UNCHANGED undo
             ELSE PreviewFollows(sel)
    /\ UNCHANGED <<obs, listener, reload, conn, refresh, dialog, closed, strays>>

\* mouseMoveEvent(): an item out of reach, or locked meanwhile, ends the drag.
DragTo(transform) ==
    /\ drag.on /\ ~closed /\ ~refresh.on /\ dialog = NoDialog
    /\ IF Writable(drag.scene, drag.id)
       THEN /\ Write(Picked(drag.scene, drag.id), transform)
            /\ reload' = ReloadPosted(active)
            /\ drag' = [drag EXCEPT !.changed = TRUE]
       ELSE drag' = NoDrag /\ UNCHANGED <<items, strays, reload>>
    /\ UNCHANGED <<active, nextId, removed, queued, listener, rows, selection, editor, undo, burst,
                   dialog, closed, events>>

\* finish_drag(false): the release, or the focus or the window is lost.
Drop ==
    /\ drag.on /\ ~refresh.on
    /\ drag' = NoDrag
    /\ undo' = IF drag.changed
               THEN [valid |-> TRUE, scene |-> drag.scene, id |-> drag.id, before |-> drag.start]
               ELSE undo
    /\ editor' = IF drag.changed THEN Reloaded(items) ELSE editor
    /\ UNCHANGED <<obs, posts, rows, selection, burst, dialog, closed, strays, events>>

\* finish_drag(true): Escape.
Escape ==
    /\ drag.on /\ ~closed /\ ~refresh.on /\ dialog = NoDialog
    /\ drag' = NoDrag
    /\ IF drag.changed /\ Writable(drag.scene, drag.id)
       THEN /\ Write(Picked(drag.scene, drag.id), drag.start)
            /\ reload' = ReloadPosted(active)
       ELSE UNCHANGED <<items, strays, reload>>
    /\ UNCHANGED <<active, nextId, removed, queued, listener, rows, selection, editor, undo, burst,
                   dialog, closed, events>>

\* nudge_selected(): one undo step per burst, which a pause ends.
Nudge(transform, paused) ==
    LET id == ItemIn(selection, active)
        before == ItemOf(items[active], id).transform
        begins == paused \/ ~burst.on \/ burst.scene # active \/ burst.id # id
    IN /\ UserActs /\ ~drag.on /\ Writable(active, id)
       /\ Write(Picked(active, id), transform)
       /\ reload' = ReloadPosted(active)
       /\ burst' = [on |-> TRUE, scene |-> active, id |-> id,
                    from |-> IF begins THEN before ELSE burst.from]
       /\ undo' = IF begins \/ ~undo.valid
                  THEN [valid |-> TRUE, scene |-> active, id |-> id, before |-> before]
                  ELSE undo
       /\ editor' = Reloaded(items')
       /\ UNCHANGED <<active, nextId, removed, queued, listener, rows, selection, drag, dialog, closed>>

\* undo_last(): the step is spent, refused or not.
Undo ==
    /\ UserActs /\ ~drag.on /\ undo.valid
    /\ IF Writable(undo.scene, undo.id)
       THEN /\ Write(Picked(undo.scene, undo.id), undo.before)
            /\ reload' = ReloadPosted(active)
       ELSE UNCHANGED <<items, strays, reload>>
    /\ undo' = NoUndo /\ burst' = NoBurst
    /\ editor' = Reloaded(items')
    /\ UNCHANGED <<active, nextId, removed, queued, listener, rows, selection, drag, dialog, closed>>

-------------------------------------------------------------------------------
(* Menus and dialogs.  They run the event loop: what they captured when    *)
(* they opened is all that the action that follows goes by.                *)

Asks(kind, s, id) == dialog' = [NoDialog EXCEPT !.kind = kind, !.scene = s, !.id = id]

\* show_item_menu(): no menu for an item that cannot be reached.
ItemMenu(s, id) ==
    IF WithItem(s, id)
    THEN dialog' = [NoDialog EXCEPT !.kind = "menu", !.scene = s, !.id = id,
                                    !.locked = ItemOf(items[s], id).locked]
    ELSE UNCHANGED dialog

\* A right click on a row, which is selected first, or below the rows.
RowMenu(id) ==
    /\ InList /\ id \in Ids(list.rows)
    /\ SelectRow(id)
    /\ ItemMenu(list.scene, id)
    /\ UNCHANGED <<obs, posts, conn, refresh, pending, closed, strays>>

SceneMenu ==
    /\ InList /\ list.scene # None
    /\ Asks("scene menu", list.scene, 0)
    /\ UNCHANGED <<obs, posts, rows, selection, editor, gesture, closed, strays>>

\* A right click in the preview.
PreviewMenu(under) ==
    /\ UserActs /\ ~drag.on /\ active # None
    /\ LET id == ClickMeans(under, FALSE)
           sel == Picked(active, id)
       IN /\ id # 0
          /\ selection' = sel
          /\ ListFollows(sel) /\ PreviewFollows(sel)
          /\ ItemMenu(active, id)
    /\ UNCHANGED <<obs, listener, reload, conn, refresh, closed, strays>>

\* The buttons Remove, Rename and Add.
AskRemove ==
    /\ InList /\ list.cur # 0
    /\ Asks("remove", list.scene, list.cur)
    /\ UNCHANGED <<obs, posts, rows, selection, editor, gesture, closed, strays>>

AskRename ==
    /\ InList /\ list.cur # 0 /\ WithItem(list.scene, list.cur)
    /\ Asks("rename", list.scene, list.cur)
    /\ UNCHANGED <<obs, posts, rows, selection, editor, gesture, closed, strays>>

AskAdd ==
    /\ InList /\ list.scene # None
    /\ Asks("add", list.scene, 0)
    /\ UNCHANGED <<obs, posts, rows, selection, editor, gesture, closed, strays>>

Answers(kinds) == dialog.kind \in kinds /\ ~refresh.on

\* Cancelled, refused, or answered after the shutdown.
Dismiss ==
    /\ Answers({dialog.kind}) /\ dialog # NoDialog
    /\ dialog' = NoDialog
    /\ UNCHANGED <<obs, posts, rows, selection, editor, gesture, closed, strays, events>>

\* The item the dialog was opened for.
Meant == Picked(dialog.scene, dialog.id)

ChooseLock ==
    /\ Answers({"menu"}) /\ dialog' = NoDialog
    /\ ToggleLock(Meant)
    /\ UNCHANGED <<active, nextId, removed, listener, reload, rows, selection, editor, gesture, closed, events>>

\* set_all_locked()
ChooseLockAll(lock) ==
    /\ Answers({"menu", "scene menu"}) /\ dialog' = NoDialog
    /\ IF WithScene(dialog.scene)
       THEN /\ items' = [items EXCEPT ![active] = LockAll(@, lock)]
            /\ queued' = IF items' = items THEN queued ELSE Posted(active)
       ELSE UNCHANGED <<items, queued>>
    /\ UNCHANGED <<active, nextId, removed, listener, reload, rows, selection, editor, gesture,
                   closed, strays, events>>

\* apply_transform(): the menu offers it for an item that was not locked.
ChooseTransform(transform) ==
    /\ Answers({"menu"}) /\ ~dialog.locked /\ dialog' = NoDialog
    /\ IF Writable(dialog.scene, dialog.id)
       THEN /\ items' = Written(dialog.id, transform)
            /\ strays' = strays \cup Stray(Meant, dialog.id)
            /\ reload' = ReloadPosted(active)
       ELSE UNCHANGED <<items, strays, reload>>
    /\ editor' = Reloaded(items')
    /\ UNCHANGED <<active, nextId, removed, queued, listener, rows, selection, gesture, closed, events>>

ChooseRename ==
    /\ Answers({"menu"}) /\ WithItem(dialog.scene, dialog.id)
    /\ Asks("rename", dialog.scene, dialog.id)
    /\ UNCHANGED <<obs, posts, rows, selection, editor, gesture, closed, strays, events>>

\* copy_transform_to_other_scenes(), until its question.
ChooseCopy ==
    /\ Answers({"menu"}) /\ ~dialog.locked /\ WithItem(dialog.scene, dialog.id)
    /\ LET item == ItemOf(items[active], dialog.id)
           plan == PlanCopy([s \in Scenes \ removed |-> items[s]], dialog.scene, item.source)
       IN /\ plan # {}
          /\ dialog' = [dialog EXCEPT !.kind = "copy", !.plan = plan, !.transform = item.transform]
    /\ UNCHANGED <<obs, posts, rows, selection, editor, gesture, closed, strays, events>>

\* Mutant: what the plan found unlocked is written.
CopyTo_AsPlanned(s) ==
    {id \in Ids(items[s]) : <<s, id>> \in dialog.plan /\ s \notin removed}

\* The planned items of a scene that are still there and unlocked.
CopyTo(s) ==
    {id \in Ids(items[s]) : /\ <<s, id>> \in dialog.plan /\ s \notin removed
                            /\ CanEdit(items[s], id)}

AnswerCopy ==
    /\ Answers({"copy"}) /\ ~closed /\ dialog' = NoDialog
    /\ items' = [s \in Scenes |->
                   [k \in DOMAIN items[s] |->
                      IF items[s][k].id \in CopyTo(s)
                      THEN [items[s][k] EXCEPT !.transform = dialog.transform] ELSE items[s][k]]]
    /\ reload' = IF conn # None /\ items'[conn] # items[conn] THEN ReloadPosted(conn) ELSE reload
    /\ editor' = IF \A s \in Scenes : CopyTo(s) = {} THEN editor ELSE Reloaded(items')
    /\ UNCHANGED <<active, nextId, removed, queued, listener, rows, selection, gesture, closed, strays, events>>

\* rename_item(): a renamed item stays selected.
AnswerRename ==
    /\ Answers({"rename"}) /\ ~closed /\ dialog' = NoDialog
    /\ IF WithItem(dialog.scene, dialog.id)
       THEN RefreshNow(dialog.id) /\ strays' = strays \cup Stray(Meant, dialog.id)
       ELSE RefreshNow(pending) /\ UNCHANGED strays
    /\ UNCHANGED <<obs, posts, list, selection, editor, gesture, closed, events>>

\* on_remove()
AnswerRemove ==
    /\ Answers({"remove"}) /\ ~closed /\ dialog' = NoDialog
    /\ IF WithItem(dialog.scene, dialog.id)
       THEN /\ items' = [items EXCEPT ![active] = Without(@, dialog.id)]
            /\ strays' = strays \cup Stray(Meant, dialog.id)
            /\ queued' = Posted(active)
       ELSE UNCHANGED <<items, strays, queued>>
    /\ RefreshNow(pending)
    /\ UNCHANGED <<active, nextId, removed, listener, reload, list, selection, editor, gesture, closed, events>>

NewItem(s, source) ==
    [id |-> nextId[s], source |-> source, transform |-> CHOOSE x \in Transforms : TRUE,
     locked |-> FALSE, visible |-> TRUE]

\* on_add_existing() and on_add_new(): the new item is to be selected, if libobs made one.
AnswerAdd(source) ==
    /\ Answers({"add"}) /\ ~closed /\ dialog' = NoDialog
    /\ \/ /\ WithScene(dialog.scene) /\ nextId[active] <= MaxId
          /\ items' = [items EXCEPT ![active] = Append(@, NewItem(active, source))]
          /\ nextId' = [nextId EXCEPT ![active] = @ + 1]
          /\ queued' = Posted(active)
          /\ RefreshNow(nextId[active])
       \/ UNCHANGED <<items, nextId, queued>> /\ RefreshNow(0)
    /\ UNCHANGED <<active, removed, listener, reload, list, selection, editor, gesture, closed, strays, events>>

-------------------------------------------------------------------------------
(* The rest of OBS.  Scenes are switched on the UI thread, under a menu or *)
(* a drag as well; items change at any moment, on any thread.              *)

OthersAct == events < MaxEvents /\ events' = events + 1 /\ ~closed

SwitchScene(s) ==
    /\ OthersAct /\ ~refresh.on /\ listener < 2
    /\ s \notin removed \cup {active} /\ active' = s
    /\ listener' = listener + 1
    /\ UNCHANGED <<items, nextId, removed, queued, reload, rows, selection, editor, gesture,
                   dialog, closed, strays>>

\* The active scene is removed: none is, until OwnedCanvas switches to another.
SceneRemoved ==
    /\ OthersAct /\ active # None
    /\ removed' = removed \cup {active} /\ active' = None
    /\ queued' = TRUE
    /\ UNCHANGED <<items, nextId, listener, reload, rows, selection, editor, gesture,
                   dialog, closed, strays>>

OthersLock(s, id) ==
    /\ OthersAct /\ s \notin removed /\ id \in Ids(items[s])
    /\ LET item == ItemOf(items[s], id)
       IN items' = [items EXCEPT ![s] = Replaced(@, [item EXCEPT !.locked = ~@])]
    /\ queued' = Posted(s)
    /\ UNCHANGED <<active, nextId, removed, listener, reload, rows, selection, editor, gesture,
                   dialog, closed, strays>>

OthersMove(s, id, transform) ==
    /\ OthersAct /\ s \notin removed /\ id \in Ids(items[s])
    /\ items' = [items EXCEPT ![s] = Replaced(@, [ItemOf(@, id) EXCEPT !.transform = transform])]
    /\ reload' = ReloadPosted(s)
    /\ UNCHANGED <<active, nextId, removed, queued, listener, rows, selection, editor, gesture,
                   dialog, closed, strays>>

OthersRemove(s, id) ==
    /\ OthersAct /\ s \notin removed /\ id \in Ids(items[s])
    /\ items' = [items EXCEPT ![s] = Without(@, id)]
    /\ queued' = Posted(s)
    /\ UNCHANGED <<active, nextId, removed, listener, reload, rows, selection, editor, gesture,
                   dialog, closed, strays>>

OthersAdd(s, source) ==
    /\ OthersAct /\ s \notin removed /\ nextId[s] <= MaxId
    /\ items' = [items EXCEPT ![s] = Append(@, NewItem(s, source))]
    /\ nextId' = [nextId EXCEPT ![s] = @ + 1]
    /\ queued' = Posted(s)
    /\ UNCHANGED <<active, removed, listener, reload, rows, selection, editor, gesture,
                   dialog, closed, strays>>

\* shutdown_preview(): the list, the panel and the preview, in one event.
Shutdown ==
    /\ ~closed /\ ~refresh.on
    /\ closed' = TRUE /\ conn' = None
    /\ drag' = NoDrag /\ undo' = NoUndo /\ burst' = NoBurst
    /\ UNCHANGED <<obs, posts, refresh, pending, list, selection, editor, dialog, strays, events>>

Posts == RunQueued \/ RunListener \/ FinishRefresh \/ RunReload

InTheList ==
    \/ \E id \in 1..MaxId : ClickRow(id) \/ ClickPadlock(id) \/ RowMenu(id)
    \/ \E k \in 1..MaxId : ToggleVisible(k)
    \/ \E up \in BOOLEAN : MoveRow(up)
    \/ \E t \in Transforms : PanelApply(t)
    \/ SceneMenu \/ AskRemove \/ AskRename \/ AskAdd

InThePreview ==
    \/ \E under \in SUBSET (1..MaxId), onHandle \in BOOLEAN : Press(under, onHandle)
    \/ \E under \in SUBSET (1..MaxId) : PreviewMenu(under)
    \/ \E t \in Transforms : DragTo(t) \/ \E paused \in BOOLEAN : Nudge(t, paused)
    \/ Drop \/ Escape \/ Undo

InADialog ==
    \/ \E lock \in BOOLEAN : ChooseLockAll(lock)
    \/ \E t \in Transforms : ChooseTransform(t)
    \/ \E source \in Sources : AnswerAdd(source)
    \/ ChooseLock \/ ChooseRename \/ ChooseCopy
    \/ AnswerCopy \/ AnswerRename \/ AnswerRemove \/ Dismiss

Others ==
    \/ \E s \in Scenes :
          \/ SwitchScene(s)
          \/ \E id \in 1..MaxId : OthersLock(s, id) \/ OthersRemove(s, id)
          \/ \E id \in 1..MaxId, t \in Transforms : OthersMove(s, id, t)
          \/ \E source \in Sources : OthersAdd(s, source)
    \/ SceneRemoved
    \/ Shutdown

Next == Posts \/ InTheList \/ InThePreview \/ InADialog \/ Others

Spec == Init /\ [][Next]_vars

-------------------------------------------------------------------------------
(* Properties.                                                             *)

AtRest == ~closed /\ ~queued /\ listener = 0 /\ ~refresh.on

\* With no refresh posted or in progress the rows are the active scene's items: no change of
\* another thread, and no switch, is lost by the coalescing of posts or the change of signals.
RowsCurrent == AtRest => list.scene = active /\ list.rows = RowsOf(active)

\* One selection: at rest the current row is the selected item, and a drag is always of it.
OneSelection ==
    /\ AtRest => selection = Picked(list.scene, list.cur)
    /\ drag.on => selection = Picked(drag.scene, drag.id)

\* Every write hits the item that was pointed at, however often the scene was switched while
\* a menu, a dialog or a drag was open, though the same id is another item there.
WritesHit == strays = {}

\* A locked item keeps its transform, unless another part of OBS moves it: drags, nudges, undo,
\* the panel, the presets and a confirmed copy all look at the lock when they write.
LockedStays ==
    [][\A s \in Scenes : \A k \in DOMAIN items[s] :
          items[s][k].locked =>
             \/ \A m \in DOMAIN items'[s] : items'[s][m].id = items[s][k].id =>
                    items'[s][m].transform = items[s][k].transform
             \/ \E t \in Transforms : OthersMove(s, items[s][k].id, t)]_vars

\* During a burst of nudges Ctrl+Z goes back to where its first nudge found the item, and no
\* drag has come between.
OneUndoPerBurst ==
    burst.on => /\ ~drag.on
                /\ undo = [valid |-> TRUE, scene |-> burst.scene, id |-> burst.id, before |-> burst.from]

===================================================================================
