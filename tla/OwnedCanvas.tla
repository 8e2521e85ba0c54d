-------------------------------- MODULE OwnedCanvas --------------------------------
(***************************************************************************)
(* pipeline/OwnedCanvas.cpp with its driver in plugin-main.cpp: the        *)
(* plugin's own vertical canvas.  Channel 0 of the canvas holds one of the *)
(* plugin's transitions ("wrappers"): the base fade, or the one prepared   *)
(* for a transition of the frontend.  A wrapper shows scene a, and scene b *)
(* too while it runs.                                                      *)
(*                                                                         *)
(* Everything runs on the UI thread but the end of a transition and the    *)
(* "update" signal (graphics thread), which only post.  OBS itself         *)
(* (scenes, collections, outputs, the main program) is external.           *)
(***************************************************************************)
EXTENDS SceneLink, VerticalTransition, FiniteSets

CONSTANTS
    Transitions,    \* the frontend's transitions
    Type,           \* the type of each: "cut", "fade" or "stinger"
    Custom,         \* the one the custom mode names
    MainScenes,     \* names of the main scenes
    Verticals,      \* names of the vertical scenes, "V Main" among them
    MaxPosts,       \* bound: posts waiting, for new events of OBS and of the user
    MaxEvents       \* bound: of those events

VMain == <<"V", "Main">>

\* OBS has no scene without a name; the custom mode may name a transition that is not in the list.
ASSUME CanvasConstants ==
    /\ VMain \in Verticals /\ NoScene \notin Verticals
    /\ Custom \in Transitions /\ Type \in [Transitions -> {"cut", "fade", "stinger"}]
    /\ MaxPosts \in Nat /\ MaxEvents \in Nat

Base == "base"
Wrappers == Transitions \cup {Base}
Nothing == "nothing"

\* The base wrapper and the empty channel are none of the frontend's transitions.
ASSUME NamesDiffer == Transitions \cap {Base, Nothing} = {}

VARIABLES
    canvas,     \* OBS's canvas: there, its video ("none", "old" frame rate, "ok"), its scenes
    held,       \* m_weak and m_uuid name that canvas
    channel,    \* the wrapper on channel 0, or Nothing
    wrapper,    \* per wrapper: its type ("none" when there is none), settings applied, scenes a and b
    prepared,   \* m_prepared: per frontend transition its plan and the settings it was made from
    frontend,   \* the frontend's list of transitions, the current one, the settings of each
    program,    \* the main program scene (the destination of its transition), and whether that runs
    mode,       \* m_transition_settings.mode
    links,      \* m_links
    wanted,     \* m_scene_name
    posts,      \* posted to the UI thread
    queued,     \* m_refresh_queued
    ui,         \* "free", or "refresh": the flag is reset, the work not done
    due,        \* transitions whose "update" signal is still to come
    video,      \* what keeps OBS's video active: "main" outputs, the plugin's "own"
    down,       \* m_shutting_down
    events,     \* bound: events so far
    diverted    \* history: since the canvas last followed the program scene something else chose

obs == <<canvas, frontend, program, video>>
settings == <<mode, links, wanted>>
own == <<held, channel, wrapper, prepared>>
queue == <<posts, queued, ui, due>>
vars == <<obs, settings, own, queue, down, events, diverted>>

NoWrapper == [type |-> "none", applied |-> 0, a |-> NoScene, b |-> NoScene]
NotPrepared == [plan |-> [Instant EXCEPT !.kind = "none"], from |-> 0]
NoCanvas == [there |-> FALSE, video |-> "none", scenes |-> {}]

Init ==
    /\ canvas \in [there : {TRUE}, video : {"none", "ok"}, scenes : {{}, Verticals}] \cup {NoCanvas}
    /\ held = FALSE /\ channel = Nothing
    /\ wrapper = [w \in Wrappers |-> NoWrapper]
    /\ prepared = [t \in Transitions |-> NotPrepared]
    /\ \E t \in Transitions :
          frontend = [list |-> Transitions, current |-> t, settings |-> [x \in Transitions |-> 0]]
    /\ program \in [scene : MainScenes, moving : {FALSE}]
    /\ mode \in {"follow", "cut", "custom"}
    /\ links = [enabled |-> TRUE, map |-> <<>>]
    /\ wanted \in {NoScene, VMain}
    /\ posts = <<[kind |-> "load"]>> /\ queued = FALSE /\ ui = "free" /\ due = {}
    /\ video = {} /\ down = FALSE /\ events = 0 /\ diverted = FALSE

-------------------------------------------------------------------------------
(* What is on the canvas: a record of channel and wrapper, changed by the  *)
(* operators below, with stopped = a running wrapper was stopped on the    *)
(* way (its signal asks for a refresh).                                    *)

Shown == [channel |-> channel, wrapper |-> wrapper, stopped |-> FALSE]

Running(s, w) == s.wrapper[w].b # NoScene

\* Mutant: the scene that is being left.
Active_Source(s) ==
    LET scene == s.wrapper[s.channel].a
    IN IF s.channel # Nothing /\ scene \in canvas.scenes THEN scene ELSE NoScene

\* The destination while the transition runs, unless that scene was removed.
Active(s) ==
    LET w == s.wrapper[s.channel]
        scene == IF w.b # NoScene THEN w.b ELSE w.a
    IN IF s.channel # Nothing /\ scene \in canvas.scenes THEN scene ELSE NoScene

\* set_transition_stopped().
SetStopped(s, w, scene) ==
    [s EXCEPT !.wrapper[w].a = scene, !.wrapper[w].b = NoScene, !.stopped = @ \/ Running(s, w)]

\* obs_transition_start(): nothing when the scene is already shown.
StartWrapper(s, w, scene) ==
    IF ~Running(s, w) /\ s.wrapper[w].a = scene THEN s
    ELSE [s EXCEPT !.wrapper[w].a = IF Running(s, w) THEN s.wrapper[w].b ELSE @, !.wrapper[w].b = scene]

EnsureBase(s) == IF s.wrapper[Base].type = "none" THEN [s EXCEPT !.wrapper[Base].type = "fade"] ELSE s

\* Mutant: the wrapper that leaves the channel keeps its scenes.
install_KeepOld(s, w) ==
    LET shown == IF Active(s) = NoScene THEN s ELSE SetStopped(s, w, Active(s))
    IN IF s.channel = w THEN s ELSE [shown EXCEPT !.channel = w]

\* The new one first shows what the canvas shows; the old one lets go of its scenes.
install(s, w) ==
    LET shown == IF Active(s) = NoScene THEN s ELSE SetStopped(s, w, Active(s))
        put == [shown EXCEPT !.channel = w]
    IN IF s.channel = w THEN s
       ELSE IF s.channel = Nothing THEN put ELSE SetStopped(put, s.channel, NoScene)

channel_wrapper(s) == IF s.channel # Nothing THEN s ELSE install(EnsureBase(s), Base)

Plan(t) ==
    decide_vertical_transition([mode |-> "follow", stinger_source |-> ""],
        [id |-> Type[t], path |-> "video", matte |-> FALSE, point |-> 0, duration |-> 1], [id |-> "none"],
        IF frontend.settings[t] % 2 = 0 THEN {"suffixed"} ELSE {})

\* A wrapper of its own: not for a cut, nor for what the base fade does.
OwnWrapper(plan) == plan.kind = "play" /\ plan.id # "fade"

\* Wrappers without a use: of transitions that are gone or whose plan is another now.
Retired(s) ==
    {t \in Transitions : s.wrapper[t].type # "none"
                            /\ (t \notin frontend.list \/ ~OwnWrapper(Plan(t)) \/ s.wrapper[t].type # Plan(t).id)}

(***************************************************************************)
(* refresh_prepared_on(): `failed` are wrappers that cannot be created.    *)
(* New settings are applied to a wrapper that does not run.                *)
(***************************************************************************)
Refreshed(s, failed) ==
    LET moved == IF s.channel \in Retired(s) THEN install(EnsureBase(s), Base) ELSE EnsureBase(s)
        created(t) == t \in frontend.list /\ OwnWrapper(Plan(t)) /\ t \notin failed
        kept(t) == IF t \in Retired(s) THEN NoWrapper ELSE moved.wrapper[t]
        made(t) == IF kept(t).type = "none" /\ created(t)
                   THEN [NoWrapper EXCEPT !.type = Plan(t).id, !.applied = frontend.settings[t]]
                   ELSE IF kept(t).type # "none" /\ kept(t).b = NoScene
                   THEN [kept(t) EXCEPT !.applied = frontend.settings[t]] ELSE kept(t)
    IN channel_wrapper([moved EXCEPT !.wrapper = [w \in Wrappers |-> IF w = Base THEN @[Base] ELSE made(w)]])

PreparedNow ==
    [t \in Transitions |-> IF t \in frontend.list THEN [plan |-> Plan(t), from |-> frontend.settings[t]]
                           ELSE NotPrepared]

\* A switch through entry t: its wrapper when its settings are in it, else the base fade.
Ready(s, prep, t) == t # Nothing /\ s.wrapper[t].type # "none" /\ s.wrapper[t].applied = prep[t].from

start_switch(s, prep, scene, t, instant) ==
    IF instant \/ (t # Nothing /\ prep[t].plan.kind = "instant")
    THEN LET c == channel_wrapper(s) IN SetStopped(c, c.channel, scene)
    ELSE LET w == IF Ready(s, prep, t) THEN t ELSE Base
             put == StartWrapper(install(EnsureBase(s), w), w, scene)
         IN [put EXCEPT !.stopped = @ \/ (w = Base /\ (t = Nothing \/ prep[t].plan.id # "fade"))]

\* follow_scene() for the program scene, on canvas c.
Followed(s, prep, c) ==
    LET target == resolve_linked_scene(program.scene, links, c.scenes)
    IN IF c.video # "none" /\ scene_changed_needs_catch_up(target, Active(s))
       THEN start_switch(s, prep, target, Nothing, TRUE) ELSE s

-------------------------------------------------------------------------------
(* The steps.                                                              *)

\* queue_refresh().
QueueRefresh(q) == [posts |-> IF q.queued \/ down THEN q.posts ELSE Append(q.posts, [kind |-> "refresh"]),
                    queued |-> q.queued \/ ~down]

\* The canvas becomes s; the rest of the queue is q, and a stopped wrapper asks for a refresh.
Become(s, q) ==
    /\ channel' = s.channel /\ wrapper' = s.wrapper
    /\ LET after == IF s.stopped THEN QueueRefresh([posts |-> q, queued |-> queued])
                    ELSE [posts |-> q, queued |-> queued]
       IN posts' = after.posts /\ queued' = after.queued

Usable == held /\ canvas.there /\ ~down
UsableVideo == Usable /\ canvas.video # "none"

\* New events of OBS and of the user, on the UI thread unless said otherwise.
Event ==
    /\ ui = "free" /\ Len(posts) < MaxPosts /\ events < MaxEvents /\ events' = events + 1
    /\ \A i \in DOMAIN posts : posts[i].kind # "load"
Handler == ui = "free" /\ UNCHANGED events

(***************************************************************************)
(* ensure(), with follow_program_scene() after a load.  A canvas without   *)
(* video, or with the old frame rate, gets a new one unless `active`       *)
(* outputs keep OBS's video; without video, or after the shutdown, nothing  *)
(* is put on it.                                                           *)
(***************************************************************************)
Ensure(follow, active, q) ==
    LET v == IF ~canvas.there \/ active = {} THEN "ok" ELSE canvas.video
        empty == canvas.scenes = {}
        scene == IF empty THEN VMain ELSE IF wanted \in canvas.scenes THEN wanted
                 ELSE CHOOSE x \in canvas.scenes : TRUE
    IN /\ canvas' = [there |-> TRUE, video |-> v, scenes |-> IF empty /\ v # "none" THEN {VMain} ELSE canvas.scenes]
       /\ held' = TRUE
       /\ IF v = "none" \/ down THEN Become(Shown, q) /\ UNCHANGED <<prepared, diverted>>
          ELSE \E failed \in SUBSET Transitions :
                 LET ready == Refreshed(Shown, failed)
                     filled == IF Active(ready) = NoScene THEN start_switch(ready, PreparedNow, scene, Nothing, TRUE)
                               ELSE ready
                 IN /\ Become(IF follow THEN Followed(filled, PreparedNow, canvas') ELSE filled, q)
                    /\ prepared' = PreparedNow
                    /\ diverted' = (~follow /\ (diverted \/ Active(ready) = NoScene))
       /\ UNCHANGED <<frontend, settings, ui, due, down>>

\* Posted: a collection has loaded, or OBS's video was reset.
Loaded ==
    /\ Handler /\ posts # <<>> /\ Head(posts).kind \in {"load", "reset"}
    /\ Ensure(Head(posts).kind = "load", video, Tail(posts))
    /\ UNCHANGED <<program, video>>

ProfileChanged == Event /\ ~down /\ Ensure(FALSE, video, posts) /\ UNCHANGED <<program, video>>

\* release(): the channel is cleared first, then every wrapper goes.
Release ==
    /\ held' = FALSE /\ channel' = Nothing
    /\ wrapper' = [w \in Wrappers |-> NoWrapper]
    /\ prepared' = [t \in Transitions |-> NotPrepared]

\* Somebody removes the canvas (on_canvas_remove).
CanvasRemoved ==
    /\ Event /\ canvas.there /\ canvas' = NoCanvas
    /\ IF held THEN Release ELSE UNCHANGED own
    /\ diverted' = TRUE
    /\ UNCHANGED <<frontend, program, video, settings, queue, down>>

\* Another collection: the old canvas is released and gone, the new one comes with its own scene
\* name, links and transition settings (on_save_load), and is ensured before any post runs.  Other
\* links and settings are a SetLinks or SetMode event of their own.
CollectionChanged ==
    /\ Event /\ ~down
    /\ Release
    /\ \E scenes \in {{}, Verticals} : canvas' = [there |-> TRUE, video |-> "ok", scenes |-> scenes]
    /\ wanted' \in {NoScene, VMain}
    /\ program' \in [scene : MainScenes, moving : {FALSE}]
    /\ posts' = <<[kind |-> "load"]>> \o posts
    /\ diverted' = TRUE
    /\ UNCHANGED <<frontend, video, mode, links, queued, ui, due, down>>

\* on_save_load(saving): the scene on channel 0 is the one to come back.
Save ==
    /\ Event
    /\ wanted' = IF held /\ canvas.there /\ Active(Shown) # NoScene THEN Active(Shown) ELSE wanted
    /\ wanted' # wanted
    /\ UNCHANGED <<obs, mode, links, own, queue, down, diverted>>

\* The frame rate changes, only while no output is active: the mix of the canvas keeps the old one.
VideoReset ==
    /\ Event /\ video = {}
    /\ canvas' = IF canvas.video = "ok" THEN [canvas EXCEPT !.video = "old"] ELSE canvas
    /\ posts' = Append(posts, [kind |-> "reset"])
    /\ UNCHANGED <<frontend, program, video, settings, own, queued, ui, due, down, diverted>>

OutputStarts(o) ==
    /\ Event /\ o \notin video /\ video' = video \cup {o}
    /\ UNCHANGED <<canvas, frontend, program, settings, own, queue, down, diverted>>

\* After a main output the refused reset is tried again (needs_video).
OutputStops(o) ==
    /\ Event /\ o \in video /\ video' = video \ {o} /\ UNCHANGED program
    /\ IF o = "main" /\ held /\ canvas.there /\ canvas.video # "ok" /\ ~down
       THEN Ensure(FALSE, video', posts)
       ELSE UNCHANGED <<canvas, frontend, settings, own, queue, down, diverted>>

-------------------------------------------------------------------------------
(* The main program.                                                       *)

\* The program transition starts: what it is and where it goes is posted, when its signal is connected.
MainSwitch(t, m) ==
    /\ Event /\ t \in frontend.list /\ m # program.scene
    /\ program' = [scene |-> m, moving |-> TRUE]
    /\ posts' = IF prepared[t] = NotPrepared \/ down THEN posts
                ELSE Append(posts, [kind |-> "start", transition |-> t, dest |-> m])
    /\ UNCHANGED <<canvas, frontend, video, settings, own, queued, ui, due, down, diverted>>

\* It is over: SCENE_CHANGED comes through the same queue.
MainOver ==
    /\ program.moving /\ program' = [program EXCEPT !.moving = FALSE]
    /\ posts' = Append(posts, [kind |-> "changed"])
    /\ UNCHANGED <<canvas, frontend, video, settings, own, queued, ui, due, down, events, diverted>>

\* on_main_transition_start(): the custom transition if it is prepared, else the one that started.
Start ==
    /\ Handler /\ posts # <<>> /\ Head(posts).kind = "start"
    /\ LET p == Head(posts)
           target == resolve_linked_scene(p.dest, links, canvas.scenes)
           named == mode = "custom" /\ prepared[Custom] # NotPrepared
           t == IF named THEN Custom ELSE IF prepared[p.transition] # NotPrepared THEN p.transition ELSE Nothing
           cut == mode = "cut" \/ (mode = "follow" /\ Type[p.transition] = "cut")
           goes == UsableVideo /\ scene_changed_needs_catch_up(target, Active(Shown))
       IN /\ Become(IF goes THEN start_switch(Shown, prepared, target, t, cut) ELSE Shown, Tail(posts))
          /\ diverted' = IF UsableVideo /\ links.enabled THEN p.dest # program.scene ELSE diverted
    /\ UNCHANGED <<obs, settings, held, prepared, ui, due, down>>

\* SCENE_CHANGED: follow_program_scene().
SceneChanged ==
    /\ Handler /\ posts # <<>> /\ Head(posts).kind = "changed"
    /\ Become(IF Usable THEN Followed(Shown, prepared, canvas) ELSE Shown, Tail(posts))
    /\ diverted' = (diverted /\ ~(UsableVideo /\ links.enabled))
    /\ UNCHANGED <<obs, settings, held, prepared, ui, due, down>>

-------------------------------------------------------------------------------
(* The vertical scenes.                                                    *)

\* "Set active" in the dock: switch_scene(Manual).
SetActive(scene) ==
    /\ Event /\ UsableVideo /\ scene \in canvas.scenes
    /\ LET t == IF mode = "custom" /\ prepared[Custom] # NotPrepared THEN Custom
                ELSE IF prepared[frontend.current] # NotPrepared THEN frontend.current ELSE Nothing
       IN Become(start_switch(Shown, prepared, scene, t, mode = "cut"), posts)
    /\ diverted' = TRUE
    /\ UNCHANGED <<obs, settings, held, prepared, ui, due, down>>

\* A scene is removed, by any thread: the hand-over is posted (on_canvas_source_remove).
SceneRemoved(scene) ==
    /\ Len(posts) < MaxPosts /\ events < MaxEvents /\ events' = events + 1
    /\ scene \in canvas.scenes
    /\ canvas' = [canvas EXCEPT !.scenes = @ \ {scene}]
    /\ posts' = IF held /\ ~down THEN Append(posts, [kind |-> "repair"]) ELSE posts
    /\ diverted' = TRUE
    /\ UNCHANGED <<frontend, program, video, settings, own, queued, ui, due, down>>

\* A side of the wrapper shows a removed scene.
Gone(w) == {wrapper[w].a, wrapper[w].b} \ (canvas.scenes \cup {NoScene}) # {}

\* repair_removed_scene(): the one of the two that is left, else the first live scene.
Repair ==
    /\ Handler /\ posts # <<>> /\ Head(posts).kind = "repair"
    /\ LET w == wrapper[channel]
           target == IF w.b \in canvas.scenes THEN w.b ELSE IF w.a \in canvas.scenes THEN w.a
                     ELSE IF canvas.scenes = {} THEN NoScene ELSE CHOOSE x \in canvas.scenes : TRUE
       IN Become(IF Usable /\ channel # Nothing /\ Gone(channel) THEN SetStopped(Shown, channel, target) ELSE Shown,
                 Tail(posts))
    /\ UNCHANGED <<obs, settings, held, prepared, ui, due, down, diverted>>

-------------------------------------------------------------------------------
(* The transitions.                                                        *)

\* Mutant: nobody refreshes after a run.
TransitionOver_Silent ==
    /\ channel # Nothing /\ Running(Shown, channel)
    /\ wrapper' = [wrapper EXCEPT ![channel].a = wrapper[channel].b, ![channel].b = NoScene]
    /\ UNCHANGED <<obs, settings, held, channel, prepared, posts, queued, ui, due, down, events, diverted>>

\* The graphics thread ends the wrapper's run; its signal asks for a refresh.
TransitionOver ==
    /\ channel # Nothing /\ Running(Shown, channel)
    /\ Become([Shown EXCEPT !.wrapper[channel].a = Shown.wrapper[channel].b, !.wrapper[channel].b = NoScene,
                            !.stopped = TRUE], posts)
    /\ UNCHANGED <<obs, settings, held, prepared, ui, due, down, events, diverted>>

\* The user edits a transition; its "update" signal comes later, from the graphics thread.
EditTransition(t) ==
    /\ Event /\ t \in frontend.list
    /\ frontend' = [frontend EXCEPT !.settings[t] = @ + 1]
    /\ due' = due \cup {t}
    /\ UNCHANGED <<canvas, program, video, settings, own, posts, queued, ui, down, diverted>>

UpdateSignal(t) ==
    /\ t \in due /\ due' = due \ {t}
    /\ LET q == [posts |-> posts, queued |-> queued]
           after == IF prepared[t] = NotPrepared THEN q ELSE QueueRefresh(q)
       IN posts' = after.posts /\ queued' = after.queued
    /\ UNCHANGED <<obs, settings, own, ui, down, events, diverted>>

\* prepare_transition().
Prepare(q) ==
    IF UsableVideo
    THEN \E failed \in SUBSET Transitions : Become(Refreshed(Shown, failed), q) /\ prepared' = PreparedNow
    ELSE Become(Shown, q) /\ UNCHANGED prepared

\* The refresh that was posted: the flag is reset first.
RefreshBegins ==
    /\ Handler /\ posts # <<>> /\ Head(posts).kind = "refresh"
    /\ posts' = Tail(posts) /\ queued' = FALSE /\ ui' = "refresh"
    /\ UNCHANGED <<obs, settings, own, due, down, diverted>>

RefreshRuns ==
    /\ ui = "refresh" /\ ui' = "free" /\ Prepare(posts)
    /\ UNCHANGED <<obs, settings, held, due, down, events, diverted>>

\* A transition is added to or removed from the list, another becomes current: TRANSITION_(LIST_)CHANGED.
TransitionsEdited(t) ==
    /\ Event /\ frontend' = [frontend EXCEPT !.list = (@ \ {t}) \cup ({t} \ @)]
    /\ frontend.current # t
    /\ ui' = "refresh"
    /\ UNCHANGED <<canvas, program, video, settings, own, posts, queued, due, down, diverted>>

TransitionChosen(t) ==
    /\ Event /\ t \in frontend.list \ {frontend.current}
    /\ frontend' = [frontend EXCEPT !.current = t] /\ ui' = "refresh"
    /\ UNCHANGED <<canvas, program, video, settings, own, posts, queued, due, down, diverted>>

\* SCRIPTING_SHUTDOWN: release_transition(), and never another wrapper.
Shutdown ==
    /\ Event /\ ~down /\ down' = TRUE
    /\ channel' = Nothing /\ wrapper' = [w \in Wrappers |-> NoWrapper]
    /\ prepared' = [t \in Transitions |-> NotPrepared]
    /\ UNCHANGED <<obs, settings, held, queue, diverted>>

SetMode(m) ==
    /\ Event /\ m # mode /\ mode' = m
    /\ UNCHANGED <<obs, links, wanted, own, queue, down, diverted>>

SetLinks(l) ==
    /\ Event /\ l # links /\ links' = l /\ diverted' = TRUE
    /\ UNCHANGED <<obs, mode, wanted, own, queue, down>>

Next ==
    \/ Loaded \/ ProfileChanged \/ CanvasRemoved \/ CollectionChanged \/ Save \/ VideoReset
    \/ \E o \in {"main", "own"} : OutputStarts(o) \/ OutputStops(o)
    \/ \E t \in Transitions, m \in MainScenes : MainSwitch(t, m)
    \/ MainOver \/ Start \/ SceneChanged \/ Repair
    \/ \E v \in Verticals : SetActive(v) \/ SceneRemoved(v)
    \/ TransitionOver \/ RefreshBegins \/ RefreshRuns \/ Shutdown
    \/ \E t \in Transitions : EditTransition(t) \/ UpdateSignal(t) \/ TransitionsEdited(t) \/ TransitionChosen(t)
    \/ \E m \in {"follow", "cut", "custom"} : SetMode(m)
    \/ \E on \in BOOLEAN : SetLinks([enabled |-> on, map |-> <<>>])

Spec == Init /\ [][Next]_vars

-------------------------------------------------------------------------------
\* "Channel 0 always holds one of ours once the canvas has video", and only the wrapper there holds
\* scenes: none is kept alive by a prepared wrapper, and none at all once the canvas is released or
\* OBS shuts down (the frontend clears its scenes then).
SceneRefs ==
    /\ \A w \in Wrappers : w # channel => {wrapper[w].a, wrapper[w].b} = {NoScene}
    /\ channel # Nothing => held /\ ~down /\ wrapper[channel].type # "none"
    /\ held /\ ~down /\ prepared # [t \in Transitions |-> NotPrepared] => channel # Nothing

\* A removed scene is let go of: once its post has run, neither side of the channel shows it.
RemovedLetGo ==
    (\A i \in DOMAIN posts : posts[i].kind # "repair") /\ channel # Nothing =>
        {wrapper[channel].a, wrapper[channel].b} \subseteq canvas.scenes \cup {NoScene}

\* No wrapper keeps a scene alive that it should not, in the channel or out of it.
NothingDangles == SceneRefs /\ RemovedLetGo

\* The vertical canvas ends up on the scene linked to the program scene, whatever order starts,
\* ends, loads and refreshes came in, unless something else was chosen since.
Settled ==
    LET target == resolve_linked_scene(program.scene, links, canvas.scenes)
        w == wrapper[channel]
    IN posts = <<>> /\ ~program.moving /\ ~diverted /\ UsableVideo /\ target # NoScene =>
          target = IF w.b # NoScene THEN w.b ELSE w.a

\* What is prepared is made from the settings the frontend's transitions have: no edit is lost,
\* also one that comes while a refresh is under way or while the wrapper runs.
PreparedFresh ==
    (posts = <<>> /\ ui = "free" /\ due = {} /\ UsableVideo) =>
        \A t \in frontend.list :
            /\ prepared[t].from = frontend.settings[t]
            /\ wrapper[t].type # "none" => wrapper[t].applied = frontend.settings[t] \/ wrapper[t].b # NoScene
================================================================================
