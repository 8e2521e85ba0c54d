----------------------------- MODULE PreviewDisplay -----------------------------
(***************************************************************************)
(* Who holds the owned vertical canvas, and who lets go of it last: the    *)
(* graphics thread in CanvasPreview::draw(), the recording and the replay  *)
(* buffer that encode it (released on the reaper), the frontend that owns  *)
(* it, and OwnedCanvas, which holds a weak reference only.  Composes       *)
(* ui/CanvasPreview.cpp, pipeline/OwnedCanvas.cpp, the canvas handling of  *)
(* plugin-main.cpp and the queue of ControllerReaper.  The endpoints,      *)
(* which pin a canvas the same way, are those of OutputController.         *)
(*                                                                         *)
(* An event of the UI thread is the list of the calls it still has to      *)
(* make; between two of them the other threads run.                        *)
(***************************************************************************)
EXTENDS Naturals, Sequences, SequencesExt, FiniteSets

CONSTANTS
    Canvases,   \* the canvases the frontend creates, one after the other
    Sessions    \* what may encode a canvas: the recording, the replay buffer

None == "none"
Frontend == "frontend"
Graphics == "graphics thread"

ASSUME HolderNames ==
    /\ None \notin Canvases \cup Sessions
    /\ {Frontend, Graphics} \cap Sessions = {} /\ IsFiniteSet(Sessions)

VARIABLES
    holders,    \* libobs: per canvas, who has a strong reference
    created,    \* libobs: the canvases there have been
    removed,    \* libobs: obs_canvas_removed()
    weak,       \* m_weak of OwnedCanvas
    mutex,      \* m_mutex of OwnedCanvas, when a thread stays in it: "free", or Graphics
    owned,      \* g_owned_canvas is there
    display,    \* m_display: "none", "disabled", "enabled"; a display has the draw callback
    visible,    \* the widget is shown
    shutdown,   \* m_shutdown of the preview
    draw,       \* the graphics thread in the draw callback: where, with which canvas
    todo,       \* the calls the UI thread has still to make in its event
    encoding,   \* the canvas a session encodes, or None
    reaper,     \* jobs: the session whose canvas is released
    phase       \* "up", "exit", "unloaded"

libobs == <<holders, created, removed>>
widget == <<display, visible, shutdown>>
displayVars == <<libobs, weak, mutex, owned, widget, draw, todo, encoding, reaper, phase>>

NotDrawing == [at |-> "idle", canvas |-> None]

DisplayInit ==
    /\ holders = [c \in Canvases |-> {}] /\ created = {} /\ removed = {}
    /\ weak = None /\ mutex = "free" /\ owned = TRUE
    /\ display = "none" /\ visible = FALSE /\ shutdown = FALSE
    /\ draw = NotDrawing /\ todo = <<>>
    /\ encoding = [x \in Sessions |-> None] /\ reaper = <<>> /\ phase = "up"

Take(c, who) == holders' = [holders EXCEPT ![c] = @ \cup {who}]
LetGo(c, who) == holders' = [holders EXCEPT ![c] = @ \ {who}]

\* The canvas of the frontend, if it has one.
Owner == {c \in Canvases : Frontend \in holders[c]}

-------------------------------------------------------------------------------
(* The graphics thread.  It holds draw_callbacks_mutex while draw # idle.  *)

DrawBegins ==
    /\ draw = NotDrawing /\ display = "enabled"
    /\ draw' = [at |-> "called", canvas |-> None]
    /\ UNCHANGED <<libobs, weak, mutex, owned, widget, todo, encoding, reaper, phase>>

\* get_ref(): a strong reference, if the canvas still lives; m_mutex is kept to look at it.
GetRef ==
    /\ draw.at = "called" /\ mutex = "free"
    /\ IF weak = None \/ holders[weak] = {}
       THEN draw' = NotDrawing /\ UNCHANGED <<holders, mutex>>
       ELSE /\ Take(weak, Graphics) /\ mutex' = Graphics
            /\ draw' = [at |-> "looks", canvas |-> weak]
    /\ UNCHANGED <<created, removed, weak, owned, widget, todo, encoding, reaper, phase>>

\* Mutant: the reference to a removed canvas is not given back.
LookedAt_Kept ==
    /\ draw.at = "looks" /\ mutex' = "free"
    /\ draw' = IF draw.canvas \in removed THEN NotDrawing ELSE [draw EXCEPT !.at = "renders"]
    /\ UNCHANGED <<libobs, weak, owned, widget, todo, encoding, reaper, phase>>

\* A removed canvas, which a session may keep alive, is let go again.
LookedAt ==
    /\ draw.at = "looks" /\ mutex' = "free"
    /\ IF draw.canvas \in removed
       THEN LetGo(draw.canvas, Graphics) /\ draw' = NotDrawing
       ELSE draw' = [draw EXCEPT !.at = "renders"] /\ UNCHANGED holders
    /\ UNCHANGED <<created, removed, weak, owned, widget, todo, encoding, reaper, phase>>

Rendered ==
    /\ draw.at = "renders"
    /\ LetGo(draw.canvas, Graphics) /\ draw' = NotDrawing
    /\ UNCHANGED <<created, removed, weak, mutex, owned, widget, todo, encoding, reaper, phase>>

GraphicsThread == DrawBegins \/ GetRef \/ LookedAt \/ Rendered

-------------------------------------------------------------------------------
(* The calls of the UI thread.                                             *)

\* stop_now() of the recorder and of the replay buffer: their sessions are queued.
StopSessions ==
    LET running == {x \in Sessions : encoding[x] # None /\ x \notin Range(reaper)}
    IN /\ reaper' \in {reaper \o order : order \in SetToSeqs(running)}
       /\ UNCHANGED <<libobs, weak, mutex, owned, widget, draw, encoding, phase>>

\* release() of OwnedCanvas.  What release_transition() holds meanwhile, it lets go before.
DropWeak ==
    /\ mutex = "free" /\ weak' = None
    /\ UNCHANGED <<libobs, mutex, owned, widget, draw, encoding, reaper, phase>>

\* flush(): the callback is removed, which waits for a draw in progress, and added again.
Flush ==
    /\ display # "none" => draw = NotDrawing
    /\ UNCHANGED <<libobs, weak, mutex, owned, widget, draw, encoding, reaper, phase>>

\* Mutant: a display that is painted after the shutdown is created again.
ShutdownPreview_Forgets ==
    /\ display # "none" => draw = NotDrawing
    /\ display' = "none" /\ UNCHANGED shutdown
    /\ UNCHANGED <<libobs, weak, mutex, owned, visible, draw, encoding, reaper, phase>>

\* shutdown() of the preview, with destroy_display().
ShutdownPreview ==
    /\ display # "none" => draw = NotDrawing
    /\ display' = "none" /\ shutdown' = TRUE
    /\ UNCHANGED <<libobs, weak, mutex, owned, visible, draw, encoding, reaper, phase>>

\* The frontend removes its canvas: the signal first, its own reference last.
FrontendReleases ==
    /\ IF Owner = {} THEN UNCHANGED holders
       ELSE \E c \in Owner : LetGo(c, Frontend)
    /\ UNCHANGED <<created, removed, weak, mutex, owned, widget, draw, encoding, reaper, phase>>

OwnedCanvasGone ==
    /\ owned' = FALSE /\ weak' = None
    /\ UNCHANGED <<libobs, mutex, widget, draw, encoding, reaper, phase>>

\* The dock is removed; its preview is destroyed with it.
DockGone ==
    /\ display # "none" => draw = NotDrawing
    /\ display' = "none" /\ visible' = FALSE
    /\ UNCHANGED <<libobs, weak, mutex, owned, shutdown, draw, encoding, reaper, phase>>

\* The reaper is drained and joined.
JoinReaper ==
    /\ reaper = <<>> /\ phase' = "unloaded"
    /\ UNCHANGED <<libobs, weak, mutex, owned, widget, draw, encoding, reaper>>

\* Mutant: the draws in progress are not waited for.
Removed_NoFlush(c) == IF weak = c THEN <<"stop", "drop">> ELSE <<>>

\* on_canvas_remove(), for the canvas OwnedCanvas knows.
Removed(c) == IF weak = c THEN <<"stop", "drop", "flush">> ELSE <<>>

\* obs_canvas_remove() and its signal.
RemoveCanvas ==
    /\ todo # <<>> /\ Head(todo) = "remove"
    /\ IF Owner = {} THEN todo' = Tail(todo) /\ UNCHANGED removed
       ELSE \E c \in Owner : /\ removed' = removed \cup {c}
                             /\ todo' = Removed(c) \o Tail(todo)
    /\ UNCHANGED <<holders, created, weak, mutex, owned, widget, draw, encoding, reaper, phase>>

Call ==
    /\ todo # <<>> /\ todo' = Tail(todo)
    /\ CASE Head(todo) = "stop" -> StopSessions
         [] Head(todo) = "drop" -> DropWeak
         [] Head(todo) = "flush" -> Flush
         [] Head(todo) = "shutdown" -> ShutdownPreview
         [] Head(todo) = "free" -> FrontendReleases
         [] Head(todo) = "owned gone" -> OwnedCanvasGone
         [] Head(todo) = "dock gone" -> DockGone
         [] Head(todo) = "join reaper" -> JoinReaper
         [] OTHER -> FALSE

-------------------------------------------------------------------------------
(* The events of the UI thread.                                            *)

Begins(calls) ==
    /\ todo = <<>> /\ phase = "up" /\ todo' = calls
    /\ UNCHANGED <<libobs, weak, mutex, owned, widget, draw, encoding, reaper>>

\* The user, or another plugin, removes the canvas.
RemovedByUser == Owner # {} /\ Begins(<<"remove", "free">>) /\ UNCHANGED phase

\* SCENE_COLLECTION_CHANGING; the frontend clears its canvases after it.
CollectionChanging ==
    Begins(<<"stop", "drop", "flush", "remove", "free">>) /\ UNCHANGED phase

\* SCRIPTING_SHUTDOWN, the canvases cleared, EXIT, obs_module_unload().
Exit ==
    /\ Begins(<<"stop", "shutdown", "remove", "free", "stop", "shutdown", "drop",
                "stop", "drop", "shutdown", "owned gone", "dock gone", "join reaper">>)
    /\ phase' = "exit"

\* ensure() and remember(): a canvas that was loaded with the collection, or is created.
EnsureCanvas(c) ==
    /\ todo = <<>> /\ phase = "up" /\ Owner = {} /\ c \notin created /\ mutex = "free"
    /\ created' = created \cup {c} /\ Take(c, Frontend) /\ weak' = c
    /\ UNCHANGED <<removed, mutex, owned, widget, draw, todo, encoding, reaper, phase>>

\* acquire_vertical_canvas_video(): a canvas without video is handed to the reaper at once.
StartSession(x) ==
    /\ todo = <<>> /\ phase = "up" /\ mutex = "free"
    /\ encoding[x] = None /\ weak # None /\ holders[weak] # {} /\ weak \notin removed
    /\ Take(weak, x) /\ encoding' = [encoding EXCEPT ![x] = weak]
    /\ reaper' \in {reaper, Append(reaper, x)}
    /\ UNCHANGED <<created, removed, weak, mutex, owned, widget, draw, todo, phase>>

EndSession(x) ==
    /\ todo = <<>> /\ encoding[x] # None /\ x \notin Range(reaper)
    /\ reaper' = Append(reaper, x)
    /\ UNCHANGED <<libobs, weak, mutex, owned, widget, draw, todo, encoding, phase>>

\* Events are handled when the UI thread is idle, and while the frontend clears its canvases or
\* removes the dock.
EventsRun ==
    IF todo = <<>> THEN phase = "up" ELSE Head(todo) \in {"remove", "free", "dock gone"}

\* create_display(), on the show, resize and paint events.
Created == IF shutdown \/ display # "none" THEN display
           ELSE IF visible' THEN "enabled" ELSE "disabled"

ShowEvent ==
    /\ EventsRun /\ visible' = TRUE
    /\ display' = IF Created = "none" THEN "none" ELSE "enabled"
    /\ UNCHANGED <<libobs, weak, mutex, owned, shutdown, draw, todo, encoding, reaper, phase>>

HideEvent ==
    /\ EventsRun /\ visible' = FALSE
    /\ display' = IF display = "none" THEN "none" ELSE "disabled"
    /\ UNCHANGED <<libobs, weak, mutex, owned, shutdown, draw, todo, encoding, reaper, phase>>

PaintEvent ==
    /\ EventsRun /\ visible /\ display = "none" /\ UNCHANGED visible
    /\ display' = Created
    /\ UNCHANGED <<libobs, weak, mutex, owned, shutdown, draw, todo, encoding, reaper, phase>>

\* A job of the reaper: outputs and encoders, then the canvas.
ReaperJob ==
    /\ reaper # <<>> /\ reaper' = Tail(reaper)
    /\ LET x == Head(reaper)
       IN LetGo(encoding[x], x) /\ encoding' = [encoding EXCEPT ![x] = None]
    /\ UNCHANGED <<created, removed, weak, mutex, owned, widget, draw, todo, phase>>

Unloaded == phase = "unloaded" /\ UNCHANGED displayVars

DisplayNext ==
    \/ GraphicsThread \/ RemoveCanvas \/ Call \/ ReaperJob
    \/ RemovedByUser \/ CollectionChanging \/ Exit
    \/ \E c \in Canvases : EnsureCanvas(c)
    \/ \E x \in Sessions : StartSession(x) \/ EndSession(x)
    \/ ShowEvent \/ HideEvent \/ PaintEvent
    \/ Unloaded

\* The operating system runs every thread.  Draws come and go for ever, once a frame, and free the
\* lock in between: the UI thread gets it, which is the strong fairness of its calls.
Fairness ==
    /\ WF_displayVars(RemoveCanvas) /\ SF_displayVars(Call)
    /\ WF_displayVars(GetRef) /\ WF_displayVars(LookedAt) /\ WF_displayVars(Rendered)
    /\ WF_displayVars(ReaperJob)

DisplaySpec == DisplayInit /\ [][DisplayNext]_displayVars /\ Fairness

-------------------------------------------------------------------------------
(* Properties.                                                             *)

\* "the final canvas release never happens on the graphics thread" (CanvasPreview.hpp, and
\* plugin-main.cpp at on_canvas_remove()), whoever else holds the canvas and whenever it goes.
LastReleaseNotInDraw ==
    [][\A c \in Canvases : Graphics \in holders[c] => holders'[c] # {}]_displayVars

\* A draw is never in progress without the OwnedCanvas it asks and the display it draws on.
DrawHasOwner == draw # NotDrawing => owned /\ display # "none"

\* A removed canvas is freed in the end: no reference leaks, nobody waits for a lock for ever.
RemovedIsFreed == \A c \in Canvases : c \in removed ~> holders[c] = {}
=================================================================================
