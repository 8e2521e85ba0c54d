# StreamMulticast in TLA+

StreamMulticast is an OBS plugin that streams one scene collection to several
endpoints at once, each with a connection, encoders and (optionally) a vertical
canvas of its own.  This directory models the parts of it in which several
threads, several owners or several runs of the program meet, checks them with
TLC on small instances, and proves the central invariants with TLAPS.

Paths below are relative to the repository (`src/pipeline/...`).

## 1. The system

| Component | State | Operations | Meets |
|---|---|---|---|
| `OutputController` (`src/pipeline/OutputController.cpp`) | shown state, output, encoder pair, canvas, reconnect thread, stop flag, encoder recovery | `start`, `stop`, `shutdown_blocking`, the output's start/stop signals, `handle_stop`, `reconnect_thread_func`, canvas remove/destroy signals | UI thread, libobs' output thread, its reconnect threads, the reaper |
| `EncoderRecovery` (`src/core`) | failure count, fallback flag | on encoder failure, stop code, restart failure, stable live | record inside a controller |
| `ControllerReaper` (`src/pipeline`) | FIFO of jobs, worker thread | `enqueue`, `shutdown` (drain and join) | jobs of `stop()` and of the registry |
| `EndpointRegistry` (`src/core`) | ordered endpoints, one controller each | `add`, `update`, `remove`, `reorder`, `persist`, destructor | Endpoints tab, frontend events, reaper, config store |
| Linked start (`src/core/LinkedStart.cpp`) | none | `plan_linked_start` | frontend events |
| `ConfigStore` (`src/core`) | pending list, two generation counters, writer thread, `config.json` | `load`, `schedule_save`, `save_if_dirty`, destructor | registry, shutdown events |
| Plugin lifecycle (`src/plugin-main.cpp`) | which globals exist | frontend events, load, unload | everything |
| Vertical recording (`VerticalRecorder`, `VerticalReplayBuffer`, `VerticalEncodeSession`) | session, pending name, remux thread | start, stop, save, stop signal posted to the UI thread | owned canvas, UI thread, output thread |
| Health and alerts (`HealthSampler`, `AlertMonitor`, `AlertPolicy`) | last snapshots, byte counters, raised alerts and their clocks | poll thread, timer tick, edges told to clients | controllers, registry, websocket clients |
| Streamlabs sessions (`StreamlabsClient`, `StreamlabsSessionBook`, `StreamlabsTokenVault`) | session book, job queue, token, session file | request a target, end a session, shut down | controllers, a remote service |
| Streamlabs login (`StreamlabsLoginFlow`, `EndpointDialog`) | listener thread and its flags, verifier, the dialog's buttons | start, cancel, callback, exchange | a browser, the client's worker, the vault |
| Owned vertical canvas (`OwnedCanvas`, `VerticalTransition`, `SceneLink`) | canvas reference, channel 0, one prepared transition per transition of the frontend | ensure, release, follow, refresh, repair | OBS's scene collection, program scene, video; posted refreshes |
| Vertical editor (`VerticalItemList`, `TransformEditor`, `CanvasPreview`, `VerticalCanvasDock`) | rows, selection, panel, drag, undo, open dialog | clicks, drags, nudges, menus, posted refreshes | items and scenes of libobs, which other threads change |
| Vertical preview (`CanvasPreview`, with canvas handling of `plugin-main.cpp`) | display, draw callback | draw, show, hide, shutdown | graphics thread, owned canvas, reaper |
| Scene autosave (`Autosave`, `AutosavePolicy`) | request clock | request, due, blocked | OBS's own saving |
| Pure rules (`CanvasResolve`, `LayoutMath`, `SafeZone`, `CanvasScaleRef`, `EndpointValidation`, `CanvasMigration`) | none | functions | UI |
| Other widgets, endpoint serialisation, service import | Qt and `obs_data_t` objects | drawing, field-by-field copies | |

How they interact.  The Qt UI thread owns the registry and calls controllers.
libobs calls a controller back on the output's thread with signals; a signal
handler cannot be disconnected while it runs, so a disconnect waits for it.  A
controller's `handle_stop` joins the previous reconnect thread and spawns the
next one.  `stop()` detaches the session under `m_mutex` and gives output,
encoders, canvas and thread handle to the reaper in one job, because stopping an
output can block for as long as a server likes and the UI thread must not.  Every
change of the endpoint list is handed to the config store, whose thread writes it
after a pause, while OBS's shutdown events write it at once.

The vertical parts share one canvas.  OwnedCanvas has a weak reference to it;
recordings, endpoints and each draw of the preview hold a strong one for as long
as they use it.  Signals of libobs and of the graphics thread only post to the UI
thread, so that every handler meets a state that may have moved on since.  The
Streamlabs client has one worker thread with a queue of jobs, whose results are
posted as well.

What makes it hard: four kinds of threads share the members of a controller and
several of them hold a session's resources across unlocked gaps; a stop signal
can be on its way while the session it belongs to is stopped, reclaimed or
replaced; the output's active flag clears after the stop signal; canvases can be
removed at any moment; teardown is asynchronous and a server can hang; two
writers write one file and OBS may crash between them; a reply of a remote service
may be lost, late, or meant for a session that is over; posts are coalesced by flags
and run after menus, dialogs and drags have let the event loop in.  `PROJECT.json` lists each
hazard at the line where it bites.

What correctness means, per component:

- a controller: one owner for each thread handle, encoder pair and output;
  nothing used after release; the shown state agrees with the output; every
  transient state ends; no call of the UI thread blocks for ever; nothing encodes
  a canvas that is gone;
- the recovery rule: the fallback switches on for encoder failures only;
- the registry: each endpoint has its own controller with its current settings,
  everything it lets go of is torn down once and before the unload ends, no
  change goes unsaved, the main stream starts no two endpoints on one key;
- the config store: clean means written; an unload keeps the last list;
- a vertical recording or replay buffer: its canvas reference is released once and
  last, only its own stop signal ends a session, nothing restarts that nobody wants
  any more, a clip does not get the name of an earlier press, stops and the unload
  end;
- alerts: a client knows exactly what is active, no alert flaps, no rate is made of
  two sessions;
- Streamlabs sessions: none is forgotten, ended twice or taken from the endpoint that
  got it; no endpoint waits for its key for ever;
- the login: one result per start, its own, and none after a cancel;
- the owned canvas: no wrapper keeps a scene, the canvas ends up on the linked scene,
  no edit of a transition is lost;
- the editor: rows and selection follow the active scene, every write hits the item
  it was meant for, a locked item stays, undo goes back one step;
- the preview: the graphics thread never releases a canvas last, and none leaks.

## 2. Modules

| Module | Models | Used by |
|---|---|---|
| `EncoderRecovery` | the recovery rule, one operator per function | `OutputController` |
| `EndpointSession` | *abstract*: the states an endpoint shows and what its output does, no threads | `OutputController` (`INSTANCE ... WITH`) |
| `OutputController` | one controller with all of its threads and the part of libobs they share | |
| `MCOutputController` | symmetry sets for TLC | |
| `OutputController_proofs` | `TypeCorrect`, `HandleInvCorrect`, `HandlesCorrect`, `OwnInvCorrect`, `PairsOwnedCorrect`, `OwnedCorrect`, `SessionRefined`, `StateCorrect`, `CanvasAliveCorrect` | |
| `ControllerReaper` | the FIFO and its worker's life cycle | `EndpointRegistry` |
| `EndpointRegistry` | registry, tab, frontend events, unload and reaper together | |
| `MCEndpointRegistry` | the lists a run may load | |
| `ConfigStore` | file, writer thread, flushes, crashes | |
| `EndpointRegistry_proofs` | the endpoint list in memory and on disk: `RegistryInvCorrect`, `ControllersOwnedCorrect`, `LinkedStartsDistinctCorrect`, `UnloadLeavesNothingCorrect`; `CleanCorrect`, `UnloadCorrect` of ConfigStore | |
| `VerticalOutput` | vertical recorder and replay buffer, with `ControllerReaper` | |
| `VerticalOutput_proofs` | `SessionsHeldCorrect`, `ClipNotStaleCorrect` | |
| `AlertPolicy` | the alert rules, one operator per rule | `HealthMonitor` |
| `HealthMonitor` | sampler thread, monitor timer, registry and outputs | |
| `HealthMonitor_proofs` | `ToldCorrect`, `WindowCorrect`, `NoFlapCorrect` | |
| `SessionBook` | the session book, one operator per function | `StreamlabsSessions` |
| `StreamlabsApi` | what a request can come back with and how it is read | `StreamlabsSessions`, `StreamlabsLogin` |
| `StreamlabsSessions` | client, server, session file and the key provider path of the controller, over crashes | |
| `MCStreamlabsSessions` | two endpoints and their starts for TLC | |
| `StreamlabsSessions_proofs` | `EndedOnceCorrect`, `AirOwnsCorrect`, `NoSessionForgottenCorrect` | |
| `StreamlabsLogin` | what a request on the callback port means | `LoginFlow` |
| `LoginFlow` | the login with its threads and the dialog | |
| `LoginFlow_proofs` | `DoneCorrect`, `SavedCorrect`, `ListenerCorrect` | |
| `SceneLink`, `VerticalTransition` | the two pure rules of the canvas | `OwnedCanvas` |
| `OwnedCanvas` | canvas, channel, wrappers, posted refreshes | |
| `OwnedCanvas_proofs` | what the canvas shows and who holds it: `NothingDanglesCorrect`, `SettledCorrect`, `PreparedFreshCorrect`; `DrawOwnerCorrect`, `LastReleaseCorrect` of PreviewDisplay | |
| `MCOwnedCanvas` | names of scenes and transitions for TLC | |
| `SceneItems` | hit test, locks, moves and copies of items | `VerticalEditor` |
| `VerticalEditor` | list, panel, preview gestures, dialogs | |
| `MCVerticalEditor` | two scenes for TLC | |
| `VerticalEditor_proofs` | `BurstCorrect`, `WritesCorrect`, `RowsCorrect`, `SelectionCorrect`, `LocksCorrect` | |
| `PreviewDisplay` | draw callback and canvas references at every exit | |

### OutputController

Each thread has a program counter and the locals it carries across an unlocked
gap.  One step is one critical section of `m_mutex`, one atomic store, one join,
one signal (dis)connect, or one libobs call others can observe.  What a thread
does between two such points is private to it and is folded into the step.

| Thread | Counter | `OutputController.cpp` |
|---|---|---|
| UI | `uiPc`: `so_*` in `start_output()`, `st_*` in `stop()` | 393-756 |
| output thread | `sigPc`: `hs_*` in `handle_stop()` | 933-1045 |
| reconnect threads | `rcPc[t]`: `rc_*` in `reconnect_thread_func()` | 1047-1270 |
| reaper | `rpPc`: `join`, `force_stop`, `release` of a session job, `sd_*` in `shutdown_blocking()` | 707-877 |

libobs is the state `phase`, `connected`, `attached`, `owned`, `encCanvas`,
`removed`, `watched`.  An output whose connection ended is `closing` until its
active flag clears; encoders set on an output that is not idle are ignored, as in
libobs.  A time-out, a backoff or a poll may end at any moment.  The video and
the audio encoder of a session share one element: the code creates, publishes
and releases them together.

The source says two things about `obs_output_active()` while an output is
connecting (`OutputController.cpp:528` and `:731`).  The model counts a
connecting output as not idle for the re-attach guard.  The difference is visible
only through the calls set apart below.

Kinds of `start()`.  `UICalls` chooses which of them a run makes.  Besides the
ordinary one there are
  - `reclaim`: a start while the session is Reconnecting;
  - `early_start`: a start that comes before a reconnect thread of an earlier
    session has run its first critical section;
  - `hasty_start`: a start that finds the output of a failed session still active;
  - `contested_start`: a start while a reconnect thread of an earlier session has a
    canvas in hand, between its `resolve_video()` and the release of what it discards
    or replaces.

They break the ownership or the canvas invariant, or end in a refused start.
`reclaim` is shown by the run FindReclaim; the others are recorded as hazards and in
section 6.  MCSession and MCCanvas leave them out and show what holds otherwise.  Of
the theorems of section 5, `TypeCorrect` and `HandlesCorrect` hold with all of them.

### EndpointRegistry

A handler of the UI thread is a list of calls (`todo`) that are made one after
the other; outputs and the reaper act in between, so that a state read early in a
handler may be stale later in it.  `ConfigTab::on_edit_endpoint` becomes the call
`update`, which unrolls into what `EndpointRegistry::update` does: hand the old
controller over, new controller, persist, and start when the old one ran.  To hand one
over (`hand_over`) is to stop it and then to enqueue it: `StopController` makes the stop,
whatever the controller's state, and leaves the call `enqueue`.  `Unload` unrolls into
the destructor, the shutdown of the reaper and the final join.  `PlanLinkedStart` goes
through the list as the loop of `plan_linked_start` does, one `Accept` per endpoint; the
end of the main stream has a call for every endpoint, and the one of an endpoint that is
not linked does nothing.  A controller is
reduced to the state it shows and the output it holds; what it does inside
`start()` and `stop()` is OutputController's business, and the states it moves
through by itself (`Connected`, `Stops`, `Reconnects`, `GivesUp`) are the ones
EndpointSession allows.

### ConfigStore

A list is the number of changes that led to it.  The file is a list with a
schema number, 0 for one that is missing or cannot be read.  A write is atomic and may
fail.  The writer thread
takes the pending list in one critical section and writes it in another; the
flushes of the UI thread happen in between.  A crash is possible in every state
and loses what is in memory; the next run loads the file.

### VerticalOutput

`VerticalRecorder` and `VerticalReplayBuffer` are two classes with the same session
rules, so that one machine stands for both; `product` says which one a behaviour is
about.  Remuxing is the recorder's, clips are the replay buffer's.

Everything public runs on the UI thread.  Output threads only post to it
(`posted`, in the order of Qt's queue) or rename a clip, and a disconnect waits for a
handler, so one event of the UI thread is one step.  A start is the exception: it
tries at most two encoders, and outputs and reaper act between the attempts.
`wish` is not in the code: it says who wants a session to run, by hand or with OBS's
own recording, and is reset by whatever the documentation says ends that wish.
A press of the clip hotkey is a number; `pending` is `m_pending`, the press that
names the next clip; `want` and `writing` are what the output was last asked for and
what it writes.  A job of the reaper is what `reap_vertical_session` queues, with the
canvas released last.  libobs may let a buffer be asked for a clip by its own hotkey,
write one clip at a time, fail to write one, and end an output at any moment.

Left out: texts, the settings file, the rules for folders and file names, and
`m_encoder_id`, `m_runtime_restarted` and `m_remux_on_stop` between two sessions
(the next session sets them before they are read).  OBS's own output is off from
the moment it is announced to stop.

### HealthMonitor, AlertPolicy

The sampler's thread copies the list (`PollBegin`), then reads the state of one
controller (`PollState`) and its counters (`PollSample`) in two critical sections;
`OnTick` is the timer of `AlertMonitor`.  Registry and outputs change in between.  An
output is the controller's state and whether libobs counts it as active; what a
counter reads is chosen when it is read, not below what the same connection has
shown before (`fresh` marks a connection that starts from zero).  Frames and bytes
are one counter modulo `Modulus`, so that the unsigned difference of two polls wraps
when a connection was replaced.  Time stamps are ages, which stop at the largest
threshold.  `told` is not in the code: what a client that has received every edge
believes, where the last edge of an alert in a tick counts (`Says`), and for how long.

### StreamlabsSessions

The server has at most one live session.  A request may not arrive, arrive and be
answered with each status, or arrive and lose its answer; a cut off one is
`cancelled`.  The thread's steps are those between two accesses to `m_book`, the
server and the session file.  `Deliver` is `on_provider_target()`: adopted, adopted but
refused by libobs, or too late.  An exit stops endpoints, waits for the worker for a
while, cuts it off and ends what `take_for_shutdown()` returns.  A crash keeps the
vault, the file and the server.  `owed` and `filed` are not in the code: they say which
session a run answers for and whether the live one has been in the file.

A controller is its state, the provider members and what its output does:

| `output` | In the code |
|---|---|
| `none` | no `m_output` |
| `off` | one that was made; nothing comes from it |
| `trying` | it connects, or a reconnect thread tries it again |
| `on` | it runs |

`start()` refuses Live and Starting only (397), so it may find an output of an earlier
start: one that failed, or one that is tried again (`plugin-main.cpp:377` asks
`is_running()`, which is false while Reconnecting).  `StartEndpoint` leaves the session,
the output and its reconnect thread as they are, as `request_provider_target()` does.
Until the answer is adopted and `start_output()` joins the thread (422-430), the earlier
output goes on: it may put the endpoint back on the air, or into Reconnecting or
FailedHard, and the answer is then not adopted (1318).  An output that was made keeps its
service, and with it the key it was made with (`WithOutput`, 452).  `reused` and `adopted`
are not in the code: whether the last start found an output, and whether its answer was
adopted.

`OutputReports` is `on_start_signal()`, `handle_stop()` and the end of a reconnect loop,
whose threads are in OutputController; `Deliver` takes a `start_output()` that joins a
reconnect thread as one step, with what that thread reports meanwhile, and `stop()`, from
the end of the session to the detached output, is one step too.

### LoginFlow

A start has a number; the flags it shares with its listener thread
(`m_alive`, `m_cancel`), its code and its verifier are known by that number.
`cancel()` and `start()` join the listener before they go on (`ui` says which call
waits), and posts stay queued meanwhile.  The listener accepts connections of
anybody: incomplete ones, requests that are no callback, callbacks that fail, and the
code of this login or of an earlier one.  The dialog is its Streamlabs page: which
button it offers, closed and opened again while a login runs.

### OwnedCanvas, VerticalTransition, SceneLink

Channel 0 holds a wrapper: the base fade or the copy of a frontend transition made
for it.  A wrapper shows scene `a`, and `b` too while it runs.  Operators on a record
of channel and wrappers (`install`, `SetStopped`, `StartWrapper`, `Refreshed`) stand for
the functions of the same purpose and are composed into the handlers, each of which
is one step except the posted refresh: its flag is reset (`RefreshBegins`) before it
does its work (`RefreshRuns`), and signals come in between.  `diverted` is not in the
code: since the canvas last followed the program scene, something else has chosen.

Assumed of OBS: a fade or a cut can always be created, another type may not;
`obs_transition_force_stop` emits `transition_stop`; SCENE_CHANGED comes through the
UI queue after the post of the transition's start.  Renamed scenes are left out.  A
collection that comes with other links or transition settings (`on_save_load`) is
`CollectionChanged` with `SetLinks` or `SetMode` next to it.

### VerticalEditor

One event of the UI thread is a step.  A refresh is two, since clearing the rows runs
slots while the new rows are not there (`refresh`).  A drag, an open menu and a dialog
let other events in: the dialog keeps what it captured (scene, item id, lock, the plan
of a copy), and every write is checked against the scene that is active then.  Items
belong to libobs; `OthersLock`, `OthersMove`, `OthersAdd`, `OthersRemove` are what any
other thread does to them, and post what the connected signals post.  `strays` is not
in the code: it collects writes that hit another item than the one pointed at.  A
transform is an opaque value, a point of the preview the set of items under it.

### PreviewDisplay

Every strong reference of a canvas has a holder: the frontend, a draw, a recording, the
replay buffer.  An event of the UI thread is a list of calls (`todo`); the ones that
take the draw callback's lock wait for a draw to end.  It composes the display, the weak
reference of OwnedCanvas, the removal and exit code of `plugin-main.cpp` and the queue
of the reaper.

## 3. Runs

TLC's deadlock check is on in MCAlerts, MCStreamlabs and MCPreview.  The other runs
disable it: there the plugin may be idle for ever once the bounded calls run out.
"States" counts distinct ones.

| Run | Instance | Checks | States |
|---|---|---|---|
| MCSession | 2 outputs, 2 reconnect threads, 4 encoder pairs, hardware encoder, fallback after 2 failures, 1 attempt, all stop codes, 4 UI calls, symmetry | `OneHandlePerThread`, `SessionOwned`; `StateMeans`, refinement of `EndpointSession!Spec` | 422,149 |
| MCCanvas | 1 output, 1 thread, 2 encoder pairs, 2 canvases, 2 UI calls, fairness | `CanvasAlive`; refinement of `EndpointSession!FairSpec`, `CallsEnd` | 83,456 |
| MCRegistry | 2 endpoints, 5 controllers, 4 outputs, 1 key and a keyless target, 3 UI events, fairness | `ControllersOwned`, `LinkedStartsDistinct`, `UnloadLeavesNothing`; `EventsEnd` | 401,286 |
| MCConfigStore | pause of 2 polls, 4 changes, 2 failed writes, 3 runs of OBS, fairness | `CleanMeansWritten`, `UnloadSaves`; `AutosaveWrites` | 18,148 |
| MCVertical | both products, 2 outputs, NVENC with fallback, 2 starts, 2 presses, fairness | `SessionsHeld`, `ClipNotStale`; `EndsCome` | 550,678 |
| MCAlerts | 1 endpoint, thresholds of 1 tick, a clear hold of 2, at most 2 units sent and 1 dropped per connection, counters modulo 3 | `ToldIsActive`, `WindowIsMonotone`; `NoFlap` | 2,540,241 |
| MCStreamlabs | 2 starts of one endpoint and 1 of another, 2 runs of the plugin, fairness | `EndedOnce`, `AirOwnsSession`, `NoSessionForgotten`; `FetchEnds` | 778,374 |
| MCLogin | 3 logins, 2 connections per listener, fairness | `OneListener`; `OwnResultOnce`, `SavedWhileRunning`, `LoginEnds` | 810,008 |
| MCOwnedCanvas | a stinger and a cut, 2 main and 3 vertical scenes, 3 events, queue of 2 | `NothingDangles`, `Settled`, `PreparedFresh` | 971,556 |
| MCEditor | 2 scenes whose first items share an id, 2 transforms, 4 events | `RowsCurrent`, `OneSelection`, `WritesHit`, `OneUndoPerBurst`; `LockedStays` | 2,021,673 |
| MCPreview | 3 canvases, a recording and a replay buffer, fairness | `DrawHasOwner`; `LastReleaseNotInDraw`, `RemovedIsFreed` | 23,932 |
| FindReclaim | a small instance of OutputController with `reclaim` | `NoUseAfterRelease`, violated | |

Why the bounds are enough.  In MCSession four calls make start, stop, start, stop
or start, stop, start, drop: a session's stale reconnect thread, the teardown job
of one session and the start of the next overlap.  Two outputs are what can be
alive then, since the reaper works through its jobs in order, and a third would
only queue behind them.  Two threads are one stale and one current one.  One
attempt reaches the exhausted branch as well as the successful one.  Two failures
before the fallback make its switch distinct from the first failure.  In MCCanvas
two canvases let the reconnect thread adopt another canvas than the one it lost,
which needs a single session.  MCRegistry needs five controllers because each of
the three events can replace one while both endpoints keep theirs, and four
outputs because two endpoints can be torn down while two stream.  MCConfigStore
lets a second change arrive while the first is being written, twice, and each of
two crashes be followed by another load.  MCVertical needs two starts for a late
signal to meet another session than its own, and for a session and its automatic
restart; each may try both encoders, so that four jobs can be queued.  Two presses
are an earlier and a later one.  With two outputs a third start attempt waits for
the reaper or fails without an output.

In MCAlerts endpoints share nothing but the two threads, so one is enough; each
threshold lies strictly between values that are reached, and the clear hold of two
ticks differs from the other holds.  A counter of two units wraps modulo three.  In
MCStreamlabs two endpoints compete for one session, three starts are two of one
endpoint and one of the other, and two runs are a crash or an exit and what the next
run finds.  Endpoints are alike, so it does not matter which of them is started twice.
In MCLogin three logins are a cancelled one, its replacement and one after
that; two connections are a stranger's and the browser's.  In MCOwnedCanvas three
events suffice for a change, a second one before the post of the first has run, and a
removal or another collection on top; two main scenes are linked by different rules.
In MCEditor four events make a selection, a dialog, a switch or a change under it, and
its answer; the shared id is what a stale write would hit.  MCPreview has one canvas
for each way to lose it: removed, replaced with the collection, gone at exit.

What the properties are about (the names in brackets are the parts of a group, each a
definition with a comment of its own):

- MCSession.  `OneHandlePerThread` and `SessionOwned` (`OneOwnerPerEncoder`,
  `NoUseAfterRelease`, `StreamsPublishedEncoders`, `ReaperOwnsOutput`): who owns
  threads, encoders and outputs, and that nothing is used by anybody else.
  `StateMeans` (`LiveIsOnAir`, `ReconnectingHasDriver`, `FallbackIsShown`,
  `OnlyStartRevives`, `OnlyEncoderFailuresFallBack`): the shown state agrees with the
  output and with the thread that must change it, no late signal or stale thread wakes
  a stopped or failed endpoint, and only failures of an encoder switch to the fallback.
  `ImplementsSession`: seen from the dock, the whole is the small state machine
  EndpointSession.
- MCCanvas.  `CanvasAlive` (`RunningEncoderPinned`, `NoDeadCanvas`,
  `SessionCanvasWatched`) is about a canvas that goes away at any moment.  `CallsEnd`
  (`UIReturns`, `DetachedOutputReleased`, `CanvasRemovalStops`): the chain UI thread
  waits for a handler, handler joins a thread, thread waits for a canvas signal never
  closes; teardown happens; a removal ends the session.
- MCRegistry.  `ControllersOwned` (`TypeOK`, `ReaperGetsDetached`,
  `ControllersFollowEndpoints`, `OneOwnerPerOutput`, `ChangesAreScheduled`),
  `LinkedStartsDistinct`, `UnloadLeavesNothing`, `EventsEnd` (`UINeverWaits`,
  `TeardownEnds`).
- MCConfigStore.  `CleanMeansWritten`, `UnloadSaves`, `AutosaveWrites`.
- MCVertical.  `SessionsHeld` (`TypeOK`, `CanvasRefsHeld`, `GracefulEndsStopped`,
  `RunsOnlyWanted`, `UnloadReleases`): references to the canvas through session,
  attempts and jobs; a late stop signal does not end the session after its own; no way
  of stopping is undone by the automatic restart.  `ClipNotStale`: no clip has the name
  of an earlier press.  `EndsCome`: stops, joins and drains end, with a signal lost to
  an output that ended by itself and with a remux that takes for ever.
- MCAlerts.  `ToldIsActive`: clients know exactly the active alerts, also of endpoints
  that left the list.  `NoFlap`: no alert ends before the clear hold.
  `WindowIsMonotone`: the drop window never spans counters that went backwards.
- MCStreamlabs.  `EndedOnce`, `AirOwnsSession`, `NoSessionForgotten` (`OpenIsFiled`,
  `ShutdownEndsAll`).  `AirOwnsSession`: no late result, refused start or other endpoint
  takes away the session an endpoint got for its last start, whatever its output does;
  on the air with an output of its own start, the endpoint streams to that session.  It
  says nothing of a start whose answer is still to come or was dropped: there the earlier
  output may be Live with a session that was ended (section 6).  `FetchEnds`: an endpoint
  that is Starting and waits for its key does not do so for ever.  When the output of an
  earlier start reports first, the endpoint is no longer Starting; the wait counts as over
  then, though `m_key_fetch_pending` stays set.
- MCLogin.  `OneListener` (no thread or socket outlives its login, and the dialog's
  buttons tell the truth), `OwnResultOnce`, `SavedWhileRunning`, `LoginEnds`.
- MCOwnedCanvas.  `NothingDangles` (`SceneRefs`, `RemovedLetGo`), `Settled`,
  `PreparedFresh`.
- MCEditor.  `RowsCurrent`, `OneSelection`, `WritesHit`, `OneUndoPerBurst`,
  `LockedStays`.
- MCPreview.  `DrawHasOwner`, `LastReleaseNotInDraw`, `RemovedIsFreed`.

Every property of a passing run has a mutant in `PROJECT.json`: a change of the
modelled code (a dropped guard, a missing disconnect, a wrong comparison) under
which TLC finds the property violated.

## 4. Fairness

- OutputController: weak fairness of each thread's own steps, since the operating
  system runs them.  A call of the UI thread that was begun continues; nobody is
  forced to call.  libobs finishes a connection attempt one way or the other and
  clears the active flag of an output it is stopping (both bounded there by
  connect and shutdown time-outs); no connection has to break.
- EndpointRegistry: weak fairness of the calls of a begun UI event and of the
  reaper's worker.  Nothing is assumed of outputs: a server may hang for ever.
  `TeardownEnds` states the opposite as its premise (`OutputsEnd`).
- ConfigStore: weak fairness of the writer thread.  The UI thread may never flush.
- VerticalOutput: weak fairness of what is queued for the UI thread, of the reaper and
  of the remux thread: it takes a file or, when it was cancelled, gives one up; a remux
  as such may take for ever.  An output that was told to stop stops or ends by itself,
  and one that stopped clears its active flag and completes or drops the clip it writes.
- StreamlabsSessions: weak fairness of the worker (requests have time-outs), of what is
  posted to the UI thread, and of a shutdown that has begun.  Nobody must start, stop
  or exit, and the server may refuse for ever.
- LoginFlow: weak fairness of the UI thread's posts and joins, of the exchange and of
  each listener, whose wait ends after 300 s.  No browser has to come.
- PreviewDisplay: weak fairness of the reaper, of a draw that has begun and of a
  removal that was announced; strong fairness of the calls of the UI thread, since the
  lock they need is taken and freed by a draw in every frame.
- HealthMonitor, OwnedCanvas and VerticalEditor state safety only.

## 5. Proofs

For every value of the constants that satisfies their assumptions:

- `OutputController_proofs!TypeCorrect`: `Spec => []TypeOK`, the type invariant the other
  proofs start from; no run spends its time on it.  `TypeOK` is inductive
  as it stands; the lemmas give the types of what the recovery rule returns and
  of what joins the reaper's queue, then there is one step per action.
- `OutputController_proofs!HandlesCorrect`: `Spec => []OneHandlePerThread`.  The
  property is not inductive: a step that moves a handle into a place must know
  that the place is empty, since overwriting one would lose a thread.  `HandleInv`
  adds that the three locals hold a handle only between the step that takes it
  and its join, and that a shutdown job carries none (`HandleInvCorrect`).
  Lemmas name the ways a handle travels (taken from the member, queued, dequeued,
  spawned, joined) and every action cites the one it uses.
- `OutputController_proofs!PairsOwnedCorrect` and `OwnedCorrect`: the parts of `SessionOwned`
  that speak of encoders, for the ordinary calls, and `Spec => []SessionOwned` for those
  unless a canvas removal and a drop can come together (`StopsMeet`, section 6).
  `OrdinaryCalls` are all that MCSession and MCCanvas make, and `contested_start`; the other
  kinds of `start()` are excluded because with each of them `SessionOwned` is false, as TLC
  finds on the instance of MCSession or MCCanvas with that call added (section 6).
  `OwnInv` is built on the notion of a session: a thread, an output and an encoder pair,
  which the controller has or a teardown job.  A running thread belongs to one of them
  (`ThreadsHeld`), and their outputs and pairs differ (`OutputsApart`, `PairsApart`,
  `PairsHeld`), so that the identity guards of a thread succeed exactly as long as its
  session is the controller's.  Then `Turns` says who acts on that one: its thread, a start,
  the output on air or the stop handler, never two of them.  `Publishing` and `Attached`
  follow the pair from its creation to the output; `CallsFit` and `Listening` keep what a
  call has read equal to the member it read.  There is a lemma per action.  When `stop()`
  meets the shutdown, the one that comes second goes on with an output the other has taken:
  `CallsFit` allows that, and `ReaperOwnsOutput` does not.
- `OutputController_proofs!SessionRefined`: `Spec => ImplementsSession`, for the ordinary
  calls.  `Shown` is EndpointSession's next-state relation over `state` and `Air`, what the
  mapping makes of the output.  `OwnInv` gives each step its guard in the abstract: what
  fails a start, a stop handler or a reconnect attempt finds the output off the air, and
  the thread that reconnects the session's output does so while Reconnecting (`Mine`).
- `OutputController_proofs!StateCorrect`: `Spec => StateMeans`, for the ordinary calls.
  That a Reconnecting endpoint has a driver needs to know why its thread may end: `Told`
  says that a stop flag which is up while Reconnecting was raised by a stop under way or
  will be reset before the next thread starts, `Doomed` that a thread on its way out of
  a discarded attempt saw that flag, and `Heard` that an output is listened to until a
  teardown lets go of it (`MemberEnds` puts them together).  That no late signal revives
  an endpoint follows from `SessionRefined`'s steps, and `FallsBack` from what the
  operators of EncoderRecovery return (`Counted`).
- `OutputController_proofs!CanvasAliveCorrect`: `Spec => []CanvasAlive`, for the ordinary
  calls but `contested_start` (`Uncontested`), with which it is false.  The property is not
  inductive, because it speaks only of what is on the air, and a session is put together (a
  canvas, a pair created on it, signals connected to it) long before it streams.
  `CanvasInv` says which canvas a pair encodes, in the hands of the controller, a start, a
  thread or a job (`Encoded`), and that an output streams from the canvas its session holds,
  every output being some session's (`Streamed`, `Accounted`).  Only the session's own
  thread, or one whose session is over, has a candidate in hand (`Candidates`).  What a
  session is going to stream from is watched until a teardown has read which canvas it is
  (`Watching`), and not removed unless that has begun to stop the session (`Alive`).
- `EndpointRegistry_proofs!ControllersOwnedCorrect`, `LinkedStartsDistinctCorrect` and
  `UnloadLeavesNothingCorrect`, from `RegistryInv`.  `ControllersOwned` counts what the
  registry and the reaper have; between the two a controller is in a call still to be made,
  which it does not count.  So `ControllersHeld` says that a controller that is not free is
  registered, or named by exactly one such call, queued job or running job, and
  `OutputsHeld` the same of an output with its controller or job.  `Script` says
  what the calls left of an event can be, at every position: an `update` comes last, an
  `enqueue` is first and finds its controller stopped, a `stop` has its `hand_over` behind
  it.  `Closing` orders the unload: the shutdown of the reaper comes before the last call
  and after every hand-over, so that an `exited` worker leaves an empty queue for good.
  `Matched` and `Served` tie a controller to the settings of its endpoint and an output to
  those of its controller; `Scheduling` is why a change is not forgotten.  Lemmas say what
  a call does that is shared (`DetachEffect`, `StopReturns`, `CallReturns`) and what a
  changed list keeps (`Rearranged`); then there is one lemma per action.
  `LinkedStartsDistinct` needs an induction over the list: `PlanExists` and `PlanOK` take
  the least position at which the plan would go wrong, which `WFMin` with
  `NatLessThanWellFounded` provides, and refute it with one step of `Accept`.
- `EndpointRegistry_proofs!CleanCorrect` and `UnloadCorrect`: `CleanMeansWritten` and
  `UnloadSaves` of ConfigStore, the same list on disk.  `ConfigInv` adds that the pending
  list is the last one and its generation the current one, that a list the thread has
  taken is the last one or a newer one is pending, that the written generation never runs
  ahead, and that, as long as no write failed, the file is up to date or a write that
  makes it so is still to come.
- `VerticalOutput_proofs!SessionsHeldCorrect` and `ClipNotStaleCorrect`.  `OutputInv`
  says who holds what: an output that exists is held by the session, by the running job
  or by exactly one queued job (`Held`, over queue, job, output and phases, so that a
  step is shown for all four at once); a job without a canvas is the dead session of an
  attempt, whose output never ran, and one without force has an output that stopped
  (`JobFits`); `References` counts the canvas once per session, attempt and job.
  `Posts` is what makes the restarts right: a finish that still fits the session
  comes after its output's stop and is followed by no restart, and a posted restart
  agrees with `restart`.  `Wished` extends the wish to what is to be started again,
  and `Unloading` says that nothing starts once the module goes down.
- `HealthMonitor_proofs!ToldCorrect`, `WindowCorrect` and `NoFlapCorrect`: `ToldIsActive`,
  `WindowIsMonotone` and `NoFlap`, from `MonitorInv`.  What a tick does to one alert of one
  endpoint is its `Fate`: it `Stays` and no edge speaks of it, `Starts`, or `Ends` for one of
  the reasons a client may expect, with exactly one edge that says so.  `Same` and `Frame`
  carry this through the operators `Update` is composed of, since each of them touches one
  alert.  `NoFlap` does not follow from a step alone: the policy times the condition (`false`)
  and the live state (`live`), the client the alert, and these are different clocks.  `Clocks` ties them: while an alert is known for less than `ClearHold`, the clocks
  that could end it show less (`Younger`), which is why raising one resets its `false` and
  why an alert of the state cannot start while Live.  `TrimmedDoes` shows that the `CHOOSE`
  for the front of a window has a witness (a least element, by `WFMin`), and
  `SampledDoes` that a restart or an appended sample keeps the order.
- `StreamlabsSessions_proofs!EndedOnceCorrect`, `AirOwnsCorrect` and
  `NoSessionForgottenCorrect`, from `SessionInv`.  An id is claimed once: what is queued
  to be ended or being ended is in `ending`, in one place only, and never the open one
  (`Claimed`, `HandedOut`).  A start in progress has no open session and creates a new
  id (`StartJob`, `Known`).  Starts of an endpoint are numbered, and their results come
  in that order (`Numbered`), so that a wanted result is the open session
  (`Adoptable`) and an endpoint that adopted one has no start of its own left that could
  end it (`Holding`).  What an output reports changes none of this, since it never makes a
  controller want another result or hold another session (`Quieter`).  `Owing` follows the
  session a run answers for from the server's answer through book, file, queue and
  shutdown.  What the output streams to is an invariant of its own, `Outputs`: an output
  that connects or runs was there before the last start, or was made with the target that
  start fetched.
- `VerticalEditor_proofs!BurstCorrect`: `Spec => []OneUndoPerBurst`, inductive as it
  stands.  `NewSelection` says what a changed selection does to drag, undo and burst,
  and `BurstStep` goes through the actions.
- `VerticalEditor_proofs!WritesCorrect`: `Spec => []WritesHit`.  `NoStray` and
  `ToggleHits` are the two ways an operation writes, each after it has compared the
  scene of the item pointed at with the active one; `WriteStep` cites them per action.
- `VerticalEditor_proofs!RowsCorrect`, `SelectionCorrect` and `LocksCorrect`, from
  `EditorInv`.  `RowsCurrent` is not inductive, since it says nothing while a refresh is
  posted or in progress: `NothingMissed` adds that without a post on its way the signals
  of the active scene are connected, and that a refresh in progress is of that scene.
  `Library` (ids of a scene are distinct and below the next one) is what lets a row find
  its item; `LocksCorrect` needs it to know that a write hits one item.
- `OwnedCanvas_proofs!DrawOwnerCorrect` and `LastReleaseCorrect`: `DrawHasOwner` and
  `LastReleaseNotInDraw` of PreviewDisplay, from `DrawInv`.  What is drawn is
  also the frontend's (`DrawsOwned`), and the calls the UI thread has yet to make are in
  the order that keeps it so (`InOrder`): before a `free` comes the drop of the weak
  reference, and after the drop the wait for the draw in progress.
- `OwnedCanvas_proofs!NothingDanglesCorrect`, `SettledCorrect` and `PreparedFreshCorrect`, from
  `CanvasInv`.  Lemmas say what each function does to what is on the canvas: `Fit` (only
  the wrapper on the channel has scenes, and it was created), `Keeps` (no run ends without
  a refresh asked for), and what the canvas then shows.  None of the three properties is
  inductive, since each speaks of a moment when nothing is posted: the invariant ties what
  is still to be done to the post that does it.  A shown scene that is gone has its repair
  queued (`LettingGo`), stale settings have their signal due or a refresh to come
  (`Preparing`, `Queueing`), and a canvas that is not on the linked scene has a
  SCENE_CHANGED to come (`Settling`).
- `LoginFlow_proofs!DoneCorrect` and `SavedCorrect`: `OwnResultOnce` and
  `SavedWhileRunning`.  Neither follows from a step alone: that a result runs once
  needs that the flag of a start is false once it is over, and that a new start has a
  number nobody has used.  `FlowInv` collects this: `Typed`; `InOrder`, starts are
  numbered in order and the one under way has a number left; `Fresh`, what has not
  started has had no result and no cancel; `OnlyCurrent`, only the start the flow is
  running is alive, and it has had neither.  Lemmas cover the handlers that change it (a
  result, a start, the end of a join); all else is a frame.
- `LoginFlow_proofs!ListenerCorrect`: `Spec => []OneListener`.  `FlowInv` gives its
  first part; the second is shown as `DialogShows`, which holds while a call of the UI
  thread waits in a join as well, and adds that no login runs while a start waits.

What the proofs rest on: the named assumptions on the constants, which TLC evaluates in
the runs, and the modelling choices of section 2.  The assumptions say that the bounds
in the guards are numbers, that a "none" or a name of the plugin's own is not a member of
the set it is added to, and a few things more: the sessions that can hold a canvas are
finitely many (`HolderNames`), the ids of the scenes an editor starts with are distinct
(`EditorConstants`; libobs numbers the items of a scene), and so are those of the
endpoints a registry loads (`LoadedAssumption`; each gets a UUID when it is added), and
`NoJob` is no job (`NoJobAssumption`).  No symmetry and no size is assumed.

Only model-checked: liveness and the fair refinement, since they need ENABLED.  Every
invariant and every other action property that a passing run checks is also proved, on the
conditions named above.  What is averaged is not reasoned about: `Sum` is a fold, and the
proofs of HealthMonitor hold whatever rate it returns.

## 6. What the models show against the source

FindReclaim is a run, and `PROJECT.json` quotes the comment it disagrees with:
`start()` while Reconnecting flags and joins the reconnect thread it finds, but a stop
handler between its critical sections starts one afterwards; that thread passes the
identity guard and releases encoders `start()` attaches.

What follows was met while modelling.  No run is spent on it: each is a state the
models reach and no passing property excludes.

- A canvas callback can outlive `stop()`.  A reconnect attempt that connects the canvas
  signals (`OutputController.cpp:1186`) after `stop()` disconnected them (633) leaves the
  connection behind, since the comparison at 705 finds both canvases equal.
  Removing that canvas later runs `stop()` on the UI thread (309) even while the reaper
  shuts the controller down (757): `stop()` then goes on with the output it read (627),
  which the reaper releases.  MCCanvas does not get there: TLC finds `ReaperOwnsOutput`
  violated with four calls (start, stop, start on another canvas, drop) and a removal
  after them, and holding with three.  So `OwnedCorrect` assumes `~StopsMeet`; the other
  theorems do without.
- The calls of `start()` that `OrdinaryCalls` excludes: over a reconnect thread
  that has yet to run its first critical section (`early_start`), over an output that is
  not idle (`hasty_start`), and while Reconnecting (`reclaim`, FindReclaim).  With each
  TLC finds `SessionOwned` violated.
- A stale reconnect thread can make a new session deaf.  `discard_canvas_candidate`
  (275-288) reads `m_canvas` under the lock and disconnects the candidate's signals after
  it.  A `stop()` and a `start()` in between connect the signals of the same canvas (482)
  and adopt it; the thread then takes them away.  That the same canvas keeps its connection
  (285; `OutputController.hpp:298-302` says so of the swap) is decided too early.  With
  `contested_start` allowed TLC finds `CanvasAlive` violated with two outputs, one thread
  and one canvas, by start, stop, start.  Without it the property holds on two outputs with
  two canvases and one thread (three calls, drop and removals included: 749,452 states).
- `stop()` may run between the second guard of the reconnect thread (1227) and its
  `obs_output_start()` (1239), which the comment at `OutputController.hpp:337` rules out.
  The reaper joins the thread first and repairs it: `ReaperOwnsOutput` and
  `DetachedOutputReleased` hold.
- After an edit (`EndpointRegistry.cpp:163-171`) the new output may be on the air before
  the old one is stopped, as stopping is the reaper's job; the comment above says that
  this window is closed.
- The end of the main stream leaves a linked endpoint alone that is Reconnecting
  (`plugin-main.cpp:386`); it comes back by itself.
- The writer thread may write an older list over a flushed file (`ConfigStore.cpp:189`,
  `206`).  `UnloadSaves` shows that the destructor repairs it; a crash before it does
  not.
- `VerticalReplayBuffer::m_pending` holds one press.  A press while an earlier clip is
  being written names that clip, and the clip it asked for is left without a name.
- An endpoint with a fetched key may stream to another session than its own.  A start
  over an output of an earlier start, one that failed or one that is tried again, makes
  no new output and no new service (`OutputController.cpp:452`): the endpoint goes on the
  air with the key of the earlier session, which the fetch of the new one has ended.  The
  comment at 324 says that it streams to the target fetched for this session only.  With
  `ctl[e].state = "Live" /\ ctl[e].session => ctl[e].key = ctl[e].id` as an invariant of
  StreamlabsSessions, TLC finds it violated with one endpoint and two starts.
- The same start while Reconnecting: the earlier output may also be Live while the fetch ends the
  session it streams to, since `m_stop_reconnect` is set only when the answer is adopted
  (422).  The answer is then dropped (1318), the new session ended, and
  `m_key_fetch_pending` stays set; when the fetch gets no session, `m_provider_session` of
  the earlier one does.  `has_provider_work()` then says that a key provider is involved
  (`OutputController.hpp:176`) with no fetch pending and no session open, until a `stop()`
  clears both.  TLC finds this with one endpoint and two starts, too.
- A start request of Streamlabs may be sent while the session before is still live and
  its end is only queued: when nobody adopted that session, its end is enqueued by the
  posted result, behind a start that was queued meanwhile, and `MayEnd` keeps that start
  from ending the claimed id itself.  `StreamlabsClient.hpp` says the old one is ended
  first.  The end is sent all the same (`ShutdownEndsAll`).
- When an added source becomes the current row within a refresh, the transform panel
  may keep the item before (`VerticalItemList.cpp:801` returns early).  What it writes
  still hits the item it shows (`WritesHit`).
- In the dialog, a late answer of `info()` writes an account name after a disconnect
  (`EndpointDialog.cpp:666`).

## 7. Not modelled

- `m_config` and other plain members without a second thread.
- Disabling an endpoint that is Reconnecting while its reconnect succeeds
  (`ConfigTab.cpp:214`): `is_running()` is read twice.
- The count of reconnect attempts is not reset when a session goes Live
  (`OutputController.cpp:1095`); the model has it as a load and a store.
- Canvas resolution, EncoderFactory, the URL rules of endpoint validation and the steps
  of the migration: pure functions, whose results are choices in the modules that call
  them.
- Geometry: layout presets, safe zone, handles and snapping.  A transform is opaque.
- Scene autosave: a clock next to OBS's own saving.
- The jobs `info` and `search` of the Streamlabs client, which only take the worker's
  time; HTTP, JSON, PKCE and encryption.
- Widgets other than those of the vertical editor and of the login, endpoint
  serialisation and service import: drawing or copying, with no state of their own.
- The contents of encoder settings, of a URL, of a file: the model has what the
  properties tell apart.
- `enqueue()` on a reaper that was shut down: no caller is left by then.

## 8. Plan

Done: `EncoderRecovery`; `EndpointSession` and `OutputController` with proofs;
`ControllerReaper`; `EndpointRegistry` and `ConfigStore` with proofs; `VerticalOutput` with
proofs; `AlertPolicy` and `HealthMonitor` with proofs; `SessionBook`, `StreamlabsApi` and
`StreamlabsSessions` with proofs; `StreamlabsLogin` and `LoginFlow` with proofs;
`SceneLink`, `VerticalTransition` and `OwnedCanvas` with proofs; `SceneItems` and
`VerticalEditor` with proofs; `PreviewDisplay` with proofs.

Next, in this order:

1. Lemmas about SessionBook (a call never loses an id, `ending` and `ended` stay
   disjoint) and about AlertPolicy (a raise needs its hold time).
2. The pure rules in one module, each against a reference definition over bounded
   inputs: canvas resolution, URL normalisation, migration, layouts, autosave.
3. The order of the whole unload in one model of `plugin-main.cpp`, over the components
   that each have their part of it now.
