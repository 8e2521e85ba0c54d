--------------------------- MODULE OutputController ---------------------------
(***************************************************************************)
(* One OutputController of pipeline/OutputController.cpp and every thread  *)
(* that touches it:                                                        *)
(*                                                                         *)
(*   ui       the Qt UI thread: start(), stop(), the canvas "remove"       *)
(*            signal, and handing the controller to the reaper             *)
(*   sig      libobs' output thread, inside a "stop" signal                *)
(*   Threads  the reconnect threads (a stale one may outlive its session)  *)
(*   reaper   the ControllerReaper worker, running teardown jobs in order  *)
(*                                                                         *)
(* A critical section of m_mutex, an atomic store, a join, and a libobs    *)
(* call that another thread can observe are one step each.  What a thread  *)
(* does between two such points is private to it.  Times are abstracted:   *)
(* a backoff, a poll or a timeout may end at any moment.                   *)
(*                                                                         *)
(* The video and the audio encoder of a session are created, published and *)
(* released together, so an element of Encoders stands for the pair.       *)
(***************************************************************************)
EXTENDS EncoderRecovery, Sequences

CONSTANTS
    Outputs,         \* obs_output_t objects
    Threads,         \* reconnect threads
    Encoders,        \* encoder pairs
    Canvases,        \* canvases the endpoint can resolve to; {} for the main canvas
    None,            \* null pointer, empty thread handle, main canvas
    MaxAttempts,     \* default of reconnect_delay_seconds(attempt, max_attempts)
    Configured,      \* the endpoint's encoder backend
    X264Registered,  \* EncoderFactory lists obs_x264
    Codes,           \* stop codes the output reports
    UICalls,         \* entry points the UI thread calls
    MaxCalls         \* bound: calls of the UI thread

(* A start() in state Reconnecting is "reclaim", one that comes before an
   earlier session's reconnect thread has run its first critical section is
   "early_start", one that finds the output of a failed session still active is
   "hasty_start", one that comes while an earlier session's reconnect thread holds
   a canvas is "contested_start"; any other is "start".  "drop" hands the controller
   to the reaper (EndpointRegistry update/remove, plugin exit). *)
ASSUME ConstantsAssumption ==
    /\ None \notin Outputs \cup Threads \cup Encoders \cup Canvases
    /\ MaxAttempts \in Nat
    /\ MaxCalls \in Nat
    /\ Configured \in Backend
    /\ X264Registered \in BOOLEAN
    /\ Codes \subseteq Code
    /\ UICalls \subseteq {"start", "early_start", "hasty_start", "contested_start", "reclaim", "stop",
                     "remove_canvas", "drop"}

VARIABLES
    \* members guarded by m_mutex, and the two atomics
    state, hasError, reconnectAttempt, recovery, output, enc, canvas, reconnectThread,
    stopReconnect, shutdownDone,
    \* libobs
    phase,           \* [Outputs -> Phase]
    connected,       \* outputs whose "start"/"stop" handlers are connected
    attached,        \* [Outputs -> encoder pair the output itself holds]
    owned,           \* encoder pairs the plugin holds a reference of its own to
    encCanvas,       \* [Encoders -> canvas whose video_t the pair encodes]
    removed,         \* canvases obs_canvas_remove() was called for
    watched,         \* canvases whose "remove"/"destroy" handler is connected
    \* UI thread
    uiPc, uiThread, uiEnc, uiCanvas, uiOutput, uiEmitting, uiCalls, dropped,
    \* output thread inside a stop signal
    sigPc, sigOutput, sigCode, sigThread,
    \* reconnect threads
    rcPc, rcOutput, rcEnc, rcCanvas, rcAttempt, rcThen,
    \* reaper
    jobs, rpPc, rpJob

statusVars  == <<state, hasError, reconnectAttempt, recovery>>
sessionVars == <<output, enc, canvas, reconnectThread>>
flagVars    == <<stopReconnect, shutdownDone>>
outputVars  == <<phase, connected, attached>>
encoderVars == <<owned, encCanvas>>
canvasVars  == <<removed, watched>>
uiVars      == <<uiPc, uiThread, uiEnc, uiCanvas, uiOutput, uiEmitting, uiCalls, dropped>>
uiLocals    == <<uiThread, uiEnc, uiCanvas, uiOutput, uiEmitting, uiCalls, dropped>>
sigVars     == <<sigPc, sigOutput, sigCode, sigThread>>
rcVars      == <<rcPc, rcOutput, rcEnc, rcCanvas, rcAttempt, rcThen>>
rcLocals    == <<rcOutput, rcEnc, rcCanvas, rcAttempt, rcThen>>
reaperVars  == <<jobs, rpPc, rpJob>>
memberVars  == <<statusVars, sessionVars, flagVars>>
obsVars     == <<outputVars, encoderVars, canvasVars>>
vars        == <<memberVars, obsVars, uiVars, sigVars, rcVars, reaperVars>>

OutputState == {"Idle", "Starting", "Live", "Reconnecting", "FailedHard"}

(* absent: not created, or released.  closing: stopped, but the output's active
   flag has not cleared yet.  obs_output_active() is phase # "idle". *)
Phase == {"absent", "idle", "connecting", "active", "closing"}

Job == [kind : {"session", "shutdown"}, thread : Threads \cup {None}, output : Outputs \cup {None},
        enc : Encoders \cup {None}, canvas : Canvases \cup {None}]

NoJob == [kind |-> "session", thread |-> None, output |-> None, enc |-> None, canvas |-> None]

ShutdownJob == [NoJob EXCEPT !.kind = "shutdown"]

Init ==
    /\ state = "Idle" /\ hasError = FALSE /\ reconnectAttempt = 0 /\ recovery = FreshRecovery
    /\ output = None /\ enc = None /\ canvas = None /\ reconnectThread = None
    /\ stopReconnect = FALSE /\ shutdownDone = FALSE
    /\ phase = [o \in Outputs |-> "absent"]
    /\ connected = {}
    /\ attached = [o \in Outputs |-> None]
    /\ owned = {}
    /\ encCanvas = [e \in Encoders |-> None]
    /\ removed = {} /\ watched = {}
    /\ uiPc = "idle" /\ uiThread = None /\ uiEnc = None /\ uiCanvas = None
    /\ uiOutput = None /\ uiEmitting = None /\ uiCalls = 0 /\ dropped = FALSE
    /\ sigPc = "idle" /\ sigOutput = None /\ sigCode = "success" /\ sigThread = None
    /\ rcPc = [t \in Threads |-> "free"]
    /\ rcOutput = [t \in Threads |-> None]
    /\ rcEnc = [t \in Threads |-> None]
    /\ rcCanvas = [t \in Threads |-> None]
    /\ rcAttempt = [t \in Threads |-> 0]
    /\ rcThen = [t \in Threads |-> "done"]
    /\ jobs = <<>> /\ rpPc = "idle" /\ rpJob = NoJob

-----------------------------------------------------------------------------
(* Helpers *)

(* What resolve_video() may return: a refusal leaves no candidate.  None is
   the main canvas, the only choice of an endpoint without one of its own. *)
Resolvable == IF Canvases = {} THEN {None} ELSE Canvases \ removed

FreeEncoders == {e \in Encoders : e \notin owned /\ \A o \in Outputs : attached[o] # e}

(* The handler of a canvas signal cannot be connected or disconnected while
   the UI thread is inside an emission of it. *)
CanvasSignalFree(c) == c = None \/ uiEmitting # c

(* signal_handler_connect/disconnect for a canvas. *)
Watch(c) == watched' = watched \cup ({c} \ {None})
Unwatch(cs) == watched' = watched \ cs

(* signal_handler_disconnect for an output waits for a handler that is running. *)
Disconnect_None(o) == UNCHANGED connected
Disconnect(o) ==
    /\ o # None => sigPc = "idle" \/ sigOutput # o
    /\ connected' = connected \ {o}

(* std::thread::join on a handle; an empty one is not joinable. *)
Join(t) ==
    /\ t # None => rcPc[t] = "done"
    /\ rcPc' = [u \in Threads |-> IF u = t THEN "free" ELSE rcPc[u]]
    /\ rcOutput' = [u \in Threads |-> IF u = t THEN None ELSE rcOutput[u]]
    /\ UNCHANGED <<rcEnc, rcCanvas, rcAttempt, rcThen>>

(* do_release_encoders_locked() *)
ReleaseEncoders == enc' = None /\ owned' = owned \ {enc}

FailHard(err) == state' = "FailedHard" /\ hasError' = (err \/ hasError)

-----------------------------------------------------------------------------
(* UI thread: start() and start_output() *)

(* A reconnect thread with a canvas of its own in hand, from resolve_video() to the
   release of the candidate or of the canvas it replaced. *)
HoldsCanvas(t) == rcCanvas[t] # None \/ (Canvases # {} /\ rcPc[t] = "rc_create")

StartCall ==
    CASE state = "Reconnecting" -> "reclaim"
      [] state # "Reconnecting" /\ \E t \in Threads : rcPc[t] = "rc_enter" -> "early_start"
      [] OTHER -> IF output # None /\ phase[output] # "idle" THEN "hasty_start"
                  ELSE IF \E t \in Threads : HoldsCanvas(t) THEN "contested_start" ELSE "start"

UICall(call) ==
    /\ call \in UICalls
    /\ uiPc = "idle" /\ ~dropped /\ uiCalls < MaxCalls
    /\ uiCalls' = uiCalls + 1

Start ==
    /\ UICall(StartCall)
    /\ state \notin {"Live", "Starting"}
    /\ state' = "Starting" /\ hasError' = FALSE
    /\ reconnectAttempt' = 0 /\ recovery' = FreshRecovery
    /\ uiPc' = "so_flag"
    /\ UNCHANGED <<sessionVars, flagVars, obsVars, uiThread, uiEnc, uiCanvas, uiOutput,
                   uiEmitting, dropped, sigVars, rcVars, reaperVars>>

StartFlag ==
    /\ uiPc = "so_flag" /\ uiPc' = "so_steal"
    /\ stopReconnect' = TRUE
    /\ UNCHANGED <<statusVars, sessionVars, shutdownDone, obsVars, uiLocals, sigVars, rcVars,
                   reaperVars>>

StartSteal ==
    /\ uiPc = "so_steal" /\ uiPc' = "so_join"
    /\ uiThread' = reconnectThread /\ reconnectThread' = None
    /\ UNCHANGED <<statusVars, output, enc, canvas, flagVars, obsVars, uiEnc, uiCanvas, uiOutput,
                   uiEmitting, uiCalls, dropped, sigVars, rcVars, reaperVars>>

StartJoin ==
    /\ uiPc = "so_join" /\ uiPc' = "so_resolve"
    /\ Join(uiThread) /\ uiThread' = None
    /\ stopReconnect' = FALSE
    /\ UNCHANGED <<statusVars, sessionVars, shutdownDone, obsVars, uiEnc, uiCanvas, uiOutput,
                   uiEmitting, uiCalls, dropped, sigVars, reaperVars>>

StartResolve ==
    /\ uiPc = "so_resolve"
    /\ \/ /\ uiPc' = "idle" /\ FailHard(TRUE)
          /\ UNCHANGED uiCanvas
       \/ /\ \E c \in Resolvable : uiCanvas' = c
          /\ uiPc' = "so_output"
          /\ UNCHANGED <<state, hasError>>
    /\ UNCHANGED <<reconnectAttempt, recovery, sessionVars, flagVars, obsVars, uiThread, uiEnc,
                   uiOutput, uiEmitting, uiCalls, dropped, sigVars, rcVars, reaperVars>>

(* discard_canvas_candidate() on the UI thread: the candidate is dropped, and
   its signals with it unless the session already runs on that canvas. *)
UIDiscard ==
    /\ Unwatch({uiCanvas} \ {canvas})
    /\ uiCanvas' = None

(* do_create_output(), unless the controller still has an output. *)
StartOutput ==
    /\ uiPc = "so_output"
    /\ \/ /\ output # None
          /\ uiOutput' = output /\ uiPc' = "so_encoders"
          /\ UNCHANGED <<state, hasError, output, phase, connected, watched, uiCanvas>>
       \/ /\ output = None
          /\ \E o \in Outputs :
                /\ phase[o] = "absent"
                /\ phase' = [phase EXCEPT ![o] = "idle"]
                /\ connected' = connected \cup {o}
                /\ output' = o /\ uiOutput' = o
          /\ uiPc' = "so_encoders"
          /\ UNCHANGED <<state, hasError, watched, uiCanvas>>
       \/ /\ output = None
          /\ uiPc' = "idle" /\ FailHard(FALSE) /\ UIDiscard
          /\ UNCHANGED <<output, phase, connected, uiOutput>>
    /\ UNCHANGED <<reconnectAttempt, recovery, enc, canvas, reconnectThread, flagVars, attached,
                   encoderVars, removed, uiThread, uiEnc, uiEmitting, uiCalls, dropped, sigVars,
                   rcVars, reaperVars>>

CreateEncoders(e, c) ==
    /\ e \in FreeEncoders
    /\ owned' = owned \cup {e}
    /\ encCanvas' = [encCanvas EXCEPT ![e] = c]

SwitchesAtFirstStart(f) == FirstStartSwitches(recovery, f, Configured, X264Registered)

VideoEncoderFailed ==
    [kind |-> "EncoderCreate", videoEncoderError |-> FALSE, serviceReady |-> FALSE,
     serviceAttached |-> FALSE, code |-> "success"]

(* create_start_encoders(), then connect_canvas_signals().  The removed check
   after the connect cannot fire: obs_canvas_remove() runs on this thread.
   A failed video encoder is retried once with x264. *)
StartEncoders ==
    /\ uiPc = "so_encoders"
    /\ \/ /\ \E e \in Encoders : CreateEncoders(e, uiCanvas) /\ uiEnc' = e
          /\ Watch(uiCanvas)
          /\ uiPc' = "so_publish"
          /\ UNCHANGED <<state, hasError, recovery, uiCanvas, uiOutput>>
       \/ /\ SwitchesAtFirstStart(VideoEncoderFailed)
          /\ recovery' = SwitchOn(recovery) /\ hasError' = TRUE
          /\ UNCHANGED <<state, watched, owned, encCanvas, uiPc, uiEnc, uiCanvas, uiOutput>>
       \/ /\ uiPc' = "idle" /\ FailHard(TRUE) /\ UIDiscard /\ uiOutput' = None
          /\ UNCHANGED <<recovery, owned, encCanvas, uiEnc>>
    /\ UNCHANGED <<reconnectAttempt, sessionVars, flagVars, outputVars, removed, uiThread,
                   uiEmitting, uiCalls, dropped, sigVars, rcVars, reaperVars>>

(* Encoders of a session that failed hard are released here; a replaced canvas
   loses its signals unless it is the adopted one. *)
StartPublish ==
    /\ uiPc = "so_publish" /\ uiPc' = "so_attach"
    /\ owned' = owned \ {enc}
    /\ enc' = uiEnc /\ canvas' = uiCanvas
    /\ Unwatch({canvas} \ {uiCanvas})
    /\ uiCanvas' = None
    /\ UNCHANGED <<statusVars, output, reconnectThread, flagVars, outputVars, encCanvas, removed,
                   uiThread, uiEnc, uiOutput, uiEmitting, uiCalls, dropped, sigVars, rcVars,
                   reaperVars>>

(* obs_output_set_video/audio_encoder: silently nothing while active. *)
Attach(o, e) == attached' = IF phase[o] = "idle" THEN [attached EXCEPT ![o] = e] ELSE attached

StartAttach ==
    /\ uiPc = "so_attach" /\ uiPc' = "so_start"
    /\ Attach(uiOutput, uiEnc)
    /\ UNCHANGED <<memberVars, phase, connected, encoderVars, canvasVars, uiLocals, sigVars,
                   rcVars, reaperVars>>

(* obs_output_start: an output that is still active is refused. *)
StartOBS ==
    /\ uiPc = "so_start"
    /\ \/ /\ phase[uiOutput] = "idle"
          /\ phase' = [phase EXCEPT ![uiOutput] = "connecting"]
          /\ uiPc' = "idle" /\ uiEnc' = None /\ uiOutput' = None
       \/ uiPc' = "so_failed" /\ UNCHANGED <<phase, uiEnc, uiOutput>>
    /\ UNCHANGED <<memberVars, connected, attached, encoderVars, canvasVars, uiThread, uiCanvas,
                   uiEmitting, uiCalls, dropped, sigVars, rcVars, reaperVars>>

StartRefused ==
    {f \in StartFailure : /\ f.kind = "StartRefused" /\ f.serviceAttached /\ f.code = "success"
                          /\ f.serviceReady => phase[uiOutput] = "idle"}

StartFailed ==
    /\ uiPc = "so_failed"
    /\ ReleaseEncoders /\ uiEnc' = None
    /\ hasError' = TRUE
    /\ \E f \in StartRefused :
          \/ /\ SwitchesAtFirstStart(f)
             /\ recovery' = SwitchOn(recovery)
             /\ uiPc' = "so_retry" /\ UNCHANGED <<state, uiOutput>>
          \/ /\ ~SwitchesAtFirstStart(f)
             /\ state' = "FailedHard"
             /\ uiPc' = "idle" /\ uiOutput' = None /\ UNCHANGED recovery
    /\ UNCHANGED <<reconnectAttempt, output, canvas, reconnectThread, flagVars, outputVars,
                   encCanvas, canvasVars, uiThread, uiCanvas, uiEmitting, uiCalls, dropped,
                   sigVars, rcVars, reaperVars>>

(* The x264 pair of the retry, published at once. *)
StartRetry ==
    /\ uiPc = "so_retry"
    /\ \/ /\ \E e \in Encoders : CreateEncoders(e, canvas) /\ enc' = e /\ uiEnc' = e
          /\ uiPc' = "so_attach"
          /\ UNCHANGED <<state, hasError, uiOutput>>
       \/ /\ uiPc' = "idle" /\ FailHard(TRUE) /\ uiOutput' = None
          /\ UNCHANGED <<enc, uiEnc, owned, encCanvas>>
    /\ UNCHANGED <<reconnectAttempt, recovery, output, canvas, reconnectThread, flagVars,
                   outputVars, canvasVars, uiThread, uiCanvas, uiEmitting, uiCalls, dropped,
                   sigVars, rcVars, reaperVars>>

-----------------------------------------------------------------------------
(* UI thread: stop(), the canvas "remove" signal, hand-over to the reaper *)

NothingToStop == state = "Idle" /\ output = None /\ canvas = None

Stop ==
    /\ UICall("stop")
    /\ stopReconnect' = TRUE /\ uiPc' = "st_check"
    /\ UNCHANGED <<statusVars, sessionVars, shutdownDone, obsVars, uiThread, uiEnc, uiCanvas,
                   uiOutput, uiEmitting, dropped, sigVars, rcVars, reaperVars>>

(* obs_canvas_remove() and on_canvas_gone(), which runs stop() inside the
   emission.  It may still reach a controller the registry dropped. *)
RemoveCanvas ==
    /\ "remove_canvas" \in UICalls /\ uiPc = "idle"
    /\ \E c \in Canvases \ removed :
          /\ removed' = removed \cup {c}
          /\ \/ /\ c \in watched
                /\ hasError' = TRUE /\ stopReconnect' = TRUE
                /\ uiEmitting' = c /\ uiPc' = "st_check"
             \/ /\ c \notin watched
                /\ UNCHANGED <<hasError, stopReconnect, uiEmitting, uiPc>>
    /\ UNCHANGED <<state, reconnectAttempt, recovery, sessionVars, shutdownDone, outputVars,
                   encoderVars, watched, uiThread, uiEnc, uiCanvas, uiOutput, uiCalls, dropped,
                   sigVars, rcVars, reaperVars>>

(* Snapshot of output and canvas, then disconnect_canvas_signals(). *)
StopCheck ==
    /\ uiPc = "st_check"
    /\ \/ /\ NothingToStop
          /\ uiPc' = "idle" /\ uiEmitting' = None
          /\ UNCHANGED <<watched, uiOutput, uiCanvas>>
       \/ /\ ~NothingToStop
          /\ uiPc' = "st_disconnect"
          /\ uiOutput' = output /\ uiCanvas' = canvas
          /\ Unwatch({canvas})
          /\ UNCHANGED uiEmitting
    /\ UNCHANGED <<memberVars, outputVars, encoderVars, removed, uiThread, uiEnc, uiCalls, dropped,
                   sigVars, rcVars, reaperVars>>

StopDisconnect ==
    /\ uiPc = "st_disconnect" /\ uiPc' = "st_detach"
    /\ Disconnect(uiOutput)
    /\ UNCHANGED <<memberVars, phase, attached, encoderVars, canvasVars, uiLocals, sigVars, rcVars,
                   reaperVars>>

Detached(kind) == [kind |-> kind, thread |-> reconnectThread, output |-> output, enc |-> enc,
                  canvas |-> canvas]

DetachSession_KeepsThread ==
    /\ output' = None /\ enc' = None /\ canvas' = None /\ UNCHANGED reconnectThread
    /\ state' = "Idle"

DetachSession ==
    /\ output' = None /\ enc' = None /\ canvas' = None /\ reconnectThread' = None
    /\ state' = "Idle"

StopDetach ==
    /\ uiPc = "st_detach" /\ uiPc' = "idle"
    /\ uiEmitting' = None /\ uiOutput' = None /\ uiCanvas' = None
    /\ \/ /\ NothingToStop
          /\ UNCHANGED <<state, sessionVars, watched, jobs>>
       \/ /\ ~NothingToStop
          /\ DetachSession
          /\ Unwatch({canvas} \ {uiCanvas})
          /\ jobs' = Append(jobs, Detached("session"))
    /\ UNCHANGED <<hasError, reconnectAttempt, recovery, flagVars, outputVars, encoderVars, removed,
                   uiThread, uiEnc, uiCalls, dropped, sigVars, rcVars, rpPc, rpJob>>

(* m_reaper.enqueue(controller): the last thing its owner does with it. *)
Drop ==
    /\ UICall("drop")
    /\ dropped' = TRUE
    /\ jobs' = Append(jobs, ShutdownJob)
    /\ UNCHANGED <<memberVars, obsVars, uiPc, uiThread, uiEnc, uiCanvas, uiOutput, uiEmitting,
                   sigVars, rcVars, rpPc, rpJob>>

-----------------------------------------------------------------------------
(* The rtmp_output (external) and the signals it emits *)

(* on_start_signal() runs inside the emission. *)
OutputConnected(o) ==
    /\ phase[o] = "connecting"
    /\ phase' = [phase EXCEPT ![o] = "active"]
    /\ state' = IF o \in connected THEN "Live" ELSE state
    /\ UNCHANGED <<hasError, reconnectAttempt, recovery, sessionVars, flagVars, connected, attached,
                   encoderVars, canvasVars, uiVars, sigVars, rcVars, reaperVars>>

OutputStops(o, from, to) ==
    /\ phase[o] = from
    /\ phase' = [phase EXCEPT ![o] = to]
    /\ \/ /\ o \in connected /\ sigPc = "idle"
          /\ sigPc' = "hs_enter" /\ sigOutput' = o
          /\ \E code \in Codes : sigCode' = code
       \/ o \notin connected /\ UNCHANGED <<sigPc, sigOutput, sigCode>>
    /\ UNCHANGED <<memberVars, connected, attached, encoderVars, canvasVars, uiVars, sigThread,
                   rcVars, reaperVars>>

ConnectFailed(o) == OutputStops(o, "connecting", "idle")
ConnectionLost(o) == OutputStops(o, "active", "closing")

ActiveClears(o) ==
    /\ phase[o] = "closing"
    /\ phase' = [phase EXCEPT ![o] = "idle"]
    /\ UNCHANGED <<memberVars, connected, attached, encoderVars, canvasVars, uiVars, sigVars, rcVars,
                   reaperVars>>

-----------------------------------------------------------------------------
(* Output thread: handle_stop() *)

SigReturn == sigPc' = "idle" /\ sigOutput' = None /\ sigCode' = "success"

StopSignal ==
    /\ sigPc = "hs_enter"
    /\ CASE sigCode = "success" -> state' = "Idle" /\ SigReturn /\ UNCHANGED hasError
         [] sigCode = "hard"    -> FailHard(TRUE) /\ SigReturn
         [] OTHER ->
               \/ shutdownDone /\ state' = "Idle" /\ SigReturn /\ UNCHANGED hasError
               \/ ~shutdownDone /\ sigPc' = "hs_lock"
                  /\ UNCHANGED <<state, hasError, sigOutput, sigCode>>
    /\ UNCHANGED <<reconnectAttempt, recovery, sessionVars, flagVars, obsVars, uiVars, sigThread,
                   rcVars, reaperVars>>

StoppedBeforeLive ==
    [kind |-> "StopBeforeLive", videoEncoderError |-> FALSE, serviceReady |-> FALSE,
     serviceAttached |-> FALSE, code |-> sigCode]

(* An encode error while Starting falls back at once; a minute of Live (which
   may or may not have passed) forgets the failures; then the code counts. *)
StopLock ==
    LET first == state = "Starting" /\ SwitchesAtFirstStart(StoppedBeforeLive)
        begun == IF first THEN SwitchOn(recovery) ELSE recovery
    IN
    /\ sigPc = "hs_lock" /\ sigPc' = "hs_join"
    /\ \E r \in {begun} \cup (IF state = "Live" THEN {OnLiveStable(begun)} ELSE {}) :
          LET counted == OnStopCode(r, sigCode, Configured)
              switched == /\ counted.fallback /\ ~r.fallback
                          /\ EffectiveBackend(Configured, counted, X264Registered) # Configured
          IN  recovery' = counted /\ hasError' = (hasError \/ first \/ switched)
    /\ state' = "Reconnecting"
    /\ sigThread' = reconnectThread /\ reconnectThread' = None
    /\ UNCHANGED <<reconnectAttempt, output, enc, canvas, flagVars, obsVars, uiVars, sigOutput,
                   sigCode, rcVars, reaperVars>>

StopJoin ==
    /\ sigPc = "hs_join" /\ sigPc' = "hs_spawn"
    /\ Join(sigThread) /\ sigThread' = None
    /\ stopReconnect' = FALSE
    /\ UNCHANGED <<statusVars, sessionVars, shutdownDone, obsVars, uiVars, sigOutput, sigCode,
                   reaperVars>>

StopSpawn ==
    /\ sigPc = "hs_spawn" /\ SigReturn
    /\ \/ /\ shutdownDone
          /\ state' = "Idle" /\ UNCHANGED <<reconnectThread, rcPc>>
       \/ /\ ~shutdownDone
          /\ \E t \in Threads :
                /\ rcPc[t] = "free"
                /\ reconnectThread' = t
                /\ rcPc' = [rcPc EXCEPT ![t] = "rc_enter"]
          /\ UNCHANGED state
    /\ UNCHANGED <<hasError, reconnectAttempt, recovery, output, enc, canvas, flagVars, obsVars,
                   uiVars, sigThread, rcOutput, rcEnc, rcCanvas, rcAttempt, rcThen, reaperVars>>

-----------------------------------------------------------------------------
(* Reconnect thread: reconnect_thread_func() *)

Changed_Never(t) == FALSE
Changed(t) == output # rcOutput[t]
Aborted(t) == stopReconnect \/ Changed(t)

Goto(t, pc) == rcPc' = [rcPc EXCEPT ![t] = pc]
At(t, pc) == rcPc[t] = pc

(* A step of a reconnect thread that only looks, and goes somewhere. *)
Looks(t, pc) == Goto(t, pc) /\ UNCHANGED <<memberVars, obsVars, uiVars, sigVars, rcLocals,
                                           reaperVars>>

RcEnter(t) ==
    /\ At(t, "rc_enter")
    /\ rcOutput' = [rcOutput EXCEPT ![t] = output]
    /\ Goto(t, IF output = None THEN "done" ELSE "rc_loop")
    /\ UNCHANGED <<memberVars, obsVars, uiVars, sigVars, rcEnc, rcCanvas, rcAttempt, rcThen,
                   reaperVars>>

RcLoop(t) ==
    /\ At(t, "rc_loop")
    /\ Looks(t, IF stopReconnect THEN "done"
                ELSE IF reconnectAttempt >= MaxAttempts THEN "rc_exhausted" ELSE "rc_wait")

(* The critical section that ends the loop for good: out of attempts, canvas
   refused or canvas removed. *)
GiveUp(t) ==
    /\ Goto(t, "done")
    /\ IF Changed(t) THEN UNCHANGED <<state, hasError>> ELSE FailHard(TRUE)
    /\ UNCHANGED <<reconnectAttempt, recovery, sessionVars, flagVars, obsVars, uiVars, sigVars,
                   rcLocals, reaperVars>>

RcExhausted(t) == At(t, "rc_exhausted") /\ GiveUp(t)
RcRefused(t) == At(t, "rc_refused") /\ GiveUp(t)
RcGone(t) == At(t, "rc_gone") /\ GiveUp(t)

(* The backoff ends; ++m_reconnect_attempt is a load and a store outside the
   lock, start() may reset it in between. *)
RcWait(t) ==
    /\ At(t, "rc_wait")
    /\ Goto(t, IF Aborted(t) THEN "done" ELSE "rc_count")
    /\ rcAttempt' = [rcAttempt EXCEPT ![t] = IF Aborted(t) THEN @ ELSE reconnectAttempt]
    /\ UNCHANGED <<memberVars, obsVars, uiVars, sigVars, rcOutput, rcEnc, rcCanvas, rcThen,
                   reaperVars>>

RcCount(t) ==
    /\ At(t, "rc_count") /\ Goto(t, "rc_release")
    /\ reconnectAttempt' = rcAttempt[t] + 1
    /\ rcAttempt' = [rcAttempt EXCEPT ![t] = 0]
    /\ UNCHANGED <<state, hasError, recovery, sessionVars, flagVars, obsVars, uiVars, sigVars,
                   rcOutput, rcEnc, rcCanvas, rcThen, reaperVars>>

RcRelease(t) ==
    /\ At(t, "rc_release")
    /\ \/ Aborted(t) /\ Goto(t, "done") /\ UNCHANGED <<enc, owned>>
       \/ ~Aborted(t) /\ Goto(t, "rc_inactive") /\ ReleaseEncoders
    /\ UNCHANGED <<statusVars, output, canvas, reconnectThread, flagVars, outputVars, encCanvas,
                   canvasVars, uiVars, sigVars, rcLocals, reaperVars>>

ReadyToAttach(o) == phase[o] = "idle"

(* The re-attach guard: the poll ends with the output inactive or, at any
   moment it is not, with the timeout, which skips the attempt. *)
RcInactive(t) ==
    /\ At(t, "rc_inactive")
    /\ Looks(t, IF Aborted(t) THEN "done"
                ELSE IF ReadyToAttach(rcOutput[t]) THEN "rc_guard1" ELSE "rc_loop")

RcGuard1(t) == At(t, "rc_guard1") /\ Looks(t, IF Aborted(t) THEN "done" ELSE "rc_create")

(* resolve_video(), then the encoders; the configured backend may fail. *)
RcCreate(t) ==
    /\ At(t, "rc_create")
    /\ \/ Goto(t, "rc_refused") /\ UNCHANGED <<rcEnc, rcCanvas, rcThen, owned, encCanvas>>
       \/ \E c \in Resolvable :
             /\ rcCanvas' = [rcCanvas EXCEPT ![t] = c]
             /\ \/ /\ \E e \in Encoders :
                         CreateEncoders(e, c) /\ rcEnc' = [rcEnc EXCEPT ![t] = e]
                   /\ Goto(t, "rc_connect") /\ UNCHANGED rcThen
                \/ /\ Goto(t, "rc_discard") /\ rcThen' = [rcThen EXCEPT ![t] = "rc_encfail"]
                   /\ UNCHANGED <<rcEnc, owned, encCanvas>>
    /\ UNCHANGED <<memberVars, outputVars, canvasVars, uiVars, sigVars, rcOutput, rcAttempt,
                   reaperVars>>

(* discard_canvas_candidate(): m_canvas is read under the lock, the signals
   are disconnected after it. *)
RcDiscard(t) ==
    /\ At(t, "rc_discard")
    /\ \/ /\ rcCanvas[t] \in {None, canvas}
          /\ Goto(t, rcThen[t]) /\ rcThen' = [rcThen EXCEPT ![t] = "done"]
          /\ rcCanvas' = [rcCanvas EXCEPT ![t] = None]
       \/ /\ rcCanvas[t] \notin {None, canvas}
          /\ Goto(t, "rc_unwatch") /\ UNCHANGED <<rcThen, rcCanvas>>
    /\ UNCHANGED <<memberVars, obsVars, uiVars, sigVars, rcOutput, rcEnc, rcAttempt,
                   reaperVars>>

RcUnwatch(t) ==
    /\ At(t, "rc_unwatch")
    /\ CanvasSignalFree(rcCanvas[t])
    /\ Unwatch({rcCanvas[t]})
    /\ Goto(t, rcThen[t]) /\ rcThen' = [rcThen EXCEPT ![t] = "done"]
    /\ rcCanvas' = [rcCanvas EXCEPT ![t] = None]
    /\ UNCHANGED <<memberVars, outputVars, encoderVars, removed, uiVars, sigVars, rcOutput,
                   rcEnc, rcAttempt, reaperVars>>

(* A restart failure counts only after an encode error, and only while the
   session is still this thread's. *)
RestartFailure ==
    LET counted == OnRestartFailure(recovery, Configured)
        switched == /\ counted.fallback /\ ~recovery.fallback
                    /\ EffectiveBackend(Configured, counted, X264Registered) # Configured
    IN  recovery' = counted /\ hasError' = (hasError \/ switched)

RcEncFail_Exits(t) == At(t, "rc_encfail") /\ Looks(t, "done")

RcEncFail(t) ==
    /\ At(t, "rc_encfail") /\ Goto(t, "rc_loop")
    /\ IF Changed(t) THEN UNCHANGED <<recovery, hasError>> ELSE RestartFailure
    /\ UNCHANGED <<state, reconnectAttempt, sessionVars, flagVars, obsVars, uiVars, sigVars, rcLocals,
                   reaperVars>>

RcConnect(t) ==
    /\ At(t, "rc_connect") /\ Goto(t, "rc_removed")
    /\ CanvasSignalFree(rcCanvas[t])
    /\ Watch(rcCanvas[t])
    /\ UNCHANGED <<memberVars, outputVars, encoderVars, removed, uiVars, sigVars, rcLocals,
                   reaperVars>>

(* The pair was never attached: releasing it, then discarding the canvas. *)
Withdraw(t, then) ==
    /\ owned' = owned \ {rcEnc[t]}
    /\ rcEnc' = [rcEnc EXCEPT ![t] = None]
    /\ Goto(t, "rc_discard") /\ rcThen' = [rcThen EXCEPT ![t] = then]

RcRemoved_Unchecked(t) == At(t, "rc_removed") /\ Looks(t, "rc_guard2")

RcRemoved(t) ==
    /\ At(t, "rc_removed")
    /\ \/ rcCanvas[t] \in removed /\ Withdraw(t, "rc_gone")
       \/ rcCanvas[t] \notin removed /\ Goto(t, "rc_guard2") /\ UNCHANGED <<owned, rcEnc, rcThen>>
    /\ UNCHANGED <<memberVars, outputVars, encCanvas, canvasVars, uiVars, sigVars, rcOutput,
                   rcCanvas, rcAttempt, reaperVars>>

(* Guard #2 publishes pair and canvas in the section that checks the session;
   rcCanvas then holds the replaced canvas. *)
RcGuard2(t) ==
    /\ At(t, "rc_guard2")
    /\ \/ /\ Aborted(t) /\ Withdraw(t, "done")
          /\ UNCHANGED <<enc, canvas, rcCanvas>>
       \/ /\ ~Aborted(t) /\ Goto(t, "rc_attach")
          /\ enc' = rcEnc[t] /\ canvas' = rcCanvas[t]
          /\ rcCanvas' = [rcCanvas EXCEPT ![t] = canvas]
          /\ UNCHANGED <<owned, rcEnc, rcThen>>
    /\ UNCHANGED <<statusVars, output, reconnectThread, flagVars, outputVars, encCanvas, canvasVars,
                   uiVars, sigVars, rcOutput, rcAttempt, reaperVars>>

(* release_replaced_canvas(), then the encoders go to the output. *)
Replaced(t) == {rcCanvas[t]} \ {encCanvas[rcEnc[t]]}

RcAttach(t) ==
    /\ At(t, "rc_attach") /\ Goto(t, "rc_start")
    /\ \A c \in Replaced(t) : CanvasSignalFree(c)
    /\ Unwatch(Replaced(t))
    /\ rcCanvas' = [rcCanvas EXCEPT ![t] = None]
    /\ Attach(rcOutput[t], rcEnc[t])
    /\ UNCHANGED <<memberVars, phase, connected, encoderVars, removed, uiVars, sigVars, rcOutput,
                   rcEnc, rcAttempt, rcThen, reaperVars>>

RcStart(t) ==
    /\ At(t, "rc_start")
    /\ rcEnc' = [rcEnc EXCEPT ![t] = None]
    /\ \/ /\ phase[rcOutput[t]] = "idle"
          /\ phase' = [phase EXCEPT ![rcOutput[t]] = "connecting"]
          /\ Goto(t, "done")
       \/ Goto(t, "rc_failed") /\ UNCHANGED phase
    /\ UNCHANGED <<memberVars, connected, attached, encoderVars, canvasVars, uiVars, sigVars,
                   rcOutput, rcCanvas, rcAttempt, rcThen, reaperVars>>

RcFailed(t) ==
    /\ At(t, "rc_failed")
    /\ \/ Changed(t) /\ Goto(t, "done") /\ UNCHANGED <<recovery, hasError>>
       \/ ~Changed(t) /\ Goto(t, "rc_loop") /\ RestartFailure
    /\ UNCHANGED <<state, reconnectAttempt, sessionVars, flagVars, obsVars, uiVars, sigVars, rcLocals,
                   reaperVars>>

-----------------------------------------------------------------------------
(* ControllerReaper worker: the job of stop(), and shutdown_blocking() *)

RpTake ==
    /\ rpPc = "idle" /\ jobs # <<>>
    /\ rpJob' = Head(jobs) /\ jobs' = Tail(jobs)
    /\ rpPc' = IF Head(jobs).kind = "session" THEN "join" ELSE "sd_flag"
    /\ UNCHANGED <<memberVars, obsVars, uiVars, sigVars, rcVars>>

RpShutdown ==
    /\ rpPc = "sd_flag"
    /\ \/ shutdownDone /\ rpPc' = "idle" /\ rpJob' = NoJob /\ UNCHANGED flagVars
       \/ /\ ~shutdownDone
          /\ shutdownDone' = TRUE /\ stopReconnect' = TRUE
          /\ rpPc' = "sd_canvas" /\ UNCHANGED rpJob
    /\ UNCHANGED <<statusVars, sessionVars, obsVars, uiVars, sigVars, rcVars, jobs>>

(* Snapshot of output and canvas, then disconnect_canvas_signals(). *)
RpCanvas ==
    /\ rpPc = "sd_canvas" /\ rpPc' = "sd_disconnect"
    /\ CanvasSignalFree(canvas)
    /\ rpJob' = [rpJob EXCEPT !.output = output, !.canvas = canvas]
    /\ Unwatch({canvas})
    /\ UNCHANGED <<memberVars, outputVars, encoderVars, removed, uiVars, sigVars, rcVars, jobs>>

RpDisconnect ==
    /\ rpPc = "sd_disconnect" /\ rpPc' = "sd_detach"
    /\ Disconnect(rpJob.output)
    /\ UNCHANGED <<memberVars, phase, attached, encoderVars, canvasVars, uiVars, sigVars, rcVars,
                   jobs, rpJob>>

RpDetach ==
    /\ rpPc = "sd_detach" /\ rpPc' = "join"
    /\ CanvasSignalFree(canvas)
    /\ Unwatch({canvas} \ {rpJob.canvas})
    /\ rpJob' = Detached("shutdown") /\ DetachSession
    /\ UNCHANGED <<hasError, reconnectAttempt, recovery, flagVars, outputVars, encoderVars, removed,
                   uiVars, sigVars, rcVars, jobs>>

RpJoin_Skipped ==
    /\ rpPc = "join" /\ rpPc' = "force_stop"
    /\ UNCHANGED <<memberVars, obsVars, uiVars, sigVars, rcVars, jobs, rpJob>>

RpJoin ==
    /\ rpPc = "join" /\ rpPc' = "force_stop"
    /\ Join(rpJob.thread) /\ rpJob' = [rpJob EXCEPT !.thread = None]
    /\ UNCHANGED <<memberVars, obsVars, uiVars, sigVars, jobs>>

(* obs_output_force_stop() whatever the phase, then our encoder refs. *)
ForceStop_GatedOnActive(o) ==
    phase' = [p \in Outputs |-> IF p = o /\ phase[p] = "active" THEN "closing" ELSE phase[p]]
ForceStop(o) ==
    phase' = [p \in Outputs |-> IF p = o /\ phase[p] \in {"connecting", "active"} THEN "closing"
                               ELSE phase[p]]

ReleaseJobEncoders == owned' = owned \ {rpJob.enc} /\ rpJob' = [rpJob EXCEPT !.enc = None]

RpForceStop ==
    /\ rpPc = "force_stop" /\ rpPc' = "release"
    /\ ForceStop(rpJob.output) /\ ReleaseJobEncoders
    /\ UNCHANGED <<memberVars, connected, attached, encCanvas, canvasVars, uiVars, sigVars, rcVars,
                   jobs>>

(* obs_output_release() blocks until the output has stopped; then the canvas. *)
RpRelease ==
    /\ rpPc = "release" /\ rpPc' = "idle"
    /\ rpJob.output # None => phase[rpJob.output] = "idle"
    /\ phase' = [o \in Outputs |-> IF o = rpJob.output THEN "absent" ELSE phase[o]]
    /\ attached' = [o \in Outputs |-> IF o = rpJob.output THEN None ELSE attached[o]]
    /\ rpJob' = NoJob
    /\ UNCHANGED <<memberVars, connected, encoderVars, canvasVars, uiVars, sigVars, rcVars, jobs>>

-----------------------------------------------------------------------------
UIBegins == Start \/ Stop \/ RemoveCanvas \/ Drop

UIContinues ==
    \/ StartFlag \/ StartSteal \/ StartJoin \/ StartResolve \/ StartOutput \/ StartEncoders
    \/ StartPublish \/ StartAttach \/ StartOBS \/ StartFailed \/ StartRetry
    \/ StopCheck \/ StopDisconnect \/ StopDetach

SigStep == StopSignal \/ StopLock \/ StopJoin \/ StopSpawn

RcStep(t) ==
    \/ RcEnter(t) \/ RcLoop(t) \/ RcExhausted(t) \/ RcRefused(t) \/ RcGone(t) \/ RcWait(t)
    \/ RcCount(t) \/ RcRelease(t) \/ RcInactive(t) \/ RcGuard1(t) \/ RcCreate(t) \/ RcDiscard(t)
    \/ RcUnwatch(t) \/ RcEncFail(t) \/ RcConnect(t) \/ RcRemoved(t) \/ RcGuard2(t) \/ RcAttach(t)
    \/ RcStart(t) \/ RcFailed(t)

ReaperStep ==
    \/ RpTake \/ RpShutdown \/ RpCanvas \/ RpDisconnect \/ RpDetach \/ RpJoin \/ RpForceStop
    \/ RpRelease

(* What the output does on its own within a bounded time: a connection attempt
   ends, the active flag clears.  Losing a connection is not in it. *)
OutputProgress == \E o \in Outputs : OutputConnected(o) \/ ConnectFailed(o) \/ ActiveClears(o)

Next ==
    \/ UIBegins \/ UIContinues \/ SigStep \/ ReaperStep \/ OutputProgress
    \/ \E t \in Threads : RcStep(t)
    \/ \E o \in Outputs : ConnectionLost(o)

Spec == Init /\ [][Next]_vars

(* Every started thread keeps running; nobody is forced to call, and no
   connection has to break. *)
Fairness ==
    /\ WF_vars(UIContinues)
    /\ WF_vars(SigStep)
    /\ WF_vars(ReaperStep)
    /\ WF_vars(OutputProgress)
    /\ \A t \in Threads : WF_vars(RcStep(t))

FairSpec == Spec /\ Fairness

-----------------------------------------------------------------------------
(* Types *)

UIPc == {"idle", "so_flag", "so_steal", "so_join", "so_resolve", "so_output", "so_encoders",
         "so_publish", "so_attach", "so_start", "so_failed", "so_retry",
         "st_check", "st_disconnect", "st_detach"}

SigPc == {"idle", "hs_enter", "hs_lock", "hs_join", "hs_spawn"}

RcPc == {"free", "rc_enter", "rc_loop", "rc_exhausted", "rc_wait", "rc_count", "rc_release",
         "rc_inactive", "rc_guard1", "rc_create", "rc_refused", "rc_encfail", "rc_connect",
         "rc_removed", "rc_gone", "rc_guard2", "rc_discard", "rc_unwatch", "rc_attach",
         "rc_start", "rc_failed", "done"}

ReaperPc == {"idle", "join", "force_stop", "release", "sd_flag", "sd_canvas", "sd_disconnect",
             "sd_detach"}

(* The type invariant. *)
TypeOK ==
    /\ state \in OutputState /\ hasError \in BOOLEAN
    /\ reconnectAttempt \in Nat /\ recovery \in RecoveryState
    /\ output \in Outputs \cup {None} /\ enc \in Encoders \cup {None}
    /\ canvas \in Canvases \cup {None} /\ reconnectThread \in Threads \cup {None}
    /\ stopReconnect \in BOOLEAN /\ shutdownDone \in BOOLEAN
    /\ phase \in [Outputs -> Phase]
    /\ connected \subseteq Outputs
    /\ attached \in [Outputs -> Encoders \cup {None}]
    /\ owned \subseteq Encoders /\ encCanvas \in [Encoders -> Canvases \cup {None}]
    /\ removed \subseteq Canvases /\ watched \subseteq Canvases
    /\ uiPc \in UIPc /\ uiThread \in Threads \cup {None} /\ uiEnc \in Encoders \cup {None}
    /\ uiCanvas \in Canvases \cup {None} /\ uiOutput \in Outputs \cup {None}
    /\ uiEmitting \in Canvases \cup {None} /\ uiCalls \in Nat /\ dropped \in BOOLEAN
    /\ sigPc \in SigPc /\ sigOutput \in Outputs \cup {None} /\ sigCode \in Code
    /\ sigThread \in Threads \cup {None}
    /\ rcPc \in [Threads -> RcPc]
    /\ rcOutput \in [Threads -> Outputs \cup {None}]
    /\ rcEnc \in [Threads -> Encoders \cup {None}]
    /\ rcCanvas \in [Threads -> Canvases \cup {None}]
    /\ rcAttempt \in [Threads -> Nat]
    /\ rcThen \in [Threads -> {"done", "rc_gone", "rc_encfail"}]
    /\ jobs \in Seq(Job) /\ rpPc \in ReaperPc /\ rpJob \in Job

-----------------------------------------------------------------------------
(* Safety *)

(* The places a std::thread handle can be in, numbered: m_reconnect_thread, the
   locals of start_output(), handle_stop() and the running teardown job, and the
   queued jobs. *)
Places == 1 .. 4 + Len(jobs)

HandleAt(p) ==
    CASE p = 1 -> reconnectThread
      [] p = 2 -> uiThread
      [] p = 3 -> sigThread
      [] p = 4 -> rpJob.thread
      [] OTHER -> jobs[p - 4].thread

(* Every reconnect thread that was started will be joined, and by one owner
   only: a handle moved out of m_reconnect_thread is in one place at a time, and
   a thread is only ever started into an empty m_reconnect_thread (assigning to
   a joinable std::thread would terminate OBS). *)
OneHandlePerThread ==
    /\ \A p, q \in Places : HandleAt(p) # None /\ HandleAt(p) = HandleAt(q) => p = q
    /\ \A p \in Places : HandleAt(p) # None => rcPc[HandleAt(p)] # "free"
    /\ \A t \in Threads : rcPc[t] # "free" => \E p \in Places : HandleAt(p) = t
    /\ sigPc \in {"hs_join", "hs_spawn"} => reconnectThread = None

(* The detach-and-reaper rule: from force_stop on, the output of a teardown job
   is the reaper's alone.  No reconnect thread that captured it is still
   running, start() does not hold it, no handler of it runs or can run. *)
ReaperOwnsOutput ==
    rpPc \in {"force_stop", "release"} /\ rpJob.output # None =>
        /\ output # rpJob.output /\ uiOutput # rpJob.output
        /\ rpJob.output \notin connected /\ sigOutput # rpJob.output
        /\ \A t \in Threads : rcOutput[t] = rpJob.output => rcPc[t] \in {"free", "done"}

(* Every encoder pair the plugin holds a reference to has exactly one owner who
   will release it: m_video_enc/m_audio_enc, start(), a reconnect thread that
   has not published it, or a teardown job. *)
EncoderOwners(e) ==
    (IF enc = e THEN {<<"member">>} ELSE {})
    \cup (IF uiPc = "so_publish" /\ uiEnc = e THEN {<<"ui">>} ELSE {})
    \cup {<<"rc", t>> : t \in {u \in Threads : /\ rcPc[u] \in {"rc_connect", "rc_removed", "rc_guard2"}
                                                  /\ rcEnc[u] = e}}
    \cup (IF rpJob.enc = e THEN {<<"reaper">>} ELSE {})
    \cup {<<"job", i>> : i \in {j \in DOMAIN jobs : jobs[j].enc = e}}

OneOwnerPerEncoder ==
    \A e \in Encoders :
        IF e \in owned THEN \E p \in EncoderOwners(e) : EncoderOwners(e) = {p}
                       ELSE EncoderOwners(e) = {}

(* An encoder pair about to be attached, or asked for its error, is alive. *)
NoUseAfterRelease ==
    /\ uiPc \in {"so_attach", "so_start", "so_failed"} => uiEnc \in owned
    /\ \A t \in Threads : rcPc[t] \in {"rc_attach", "rc_start"} => rcEnc[t] \in owned

(* The re-attach guard works: whenever the session's output is connecting or on
   air, the pair it holds is the one the controller published, so that no start
   "succeeds" with the encoders of an earlier attempt, or with none. *)
StreamsPublishedEncoders ==
    output # None /\ phase[output] \in {"connecting", "active"} =>
        enc # None /\ attached[output] = enc

(* What the state says is what the output does, as long as the controller
   listens to it: Live exactly while on air, up to a stop signal in progress. *)
LiveIsOnAir ==
    /\ state = "Live" => output # None
    /\ output \in connected =>
          /\ state = "Live" => phase[output] = "active" \/ sigPc # "idle"
          /\ phase[output] = "active" => state = "Live"

(* A Reconnecting endpoint has someone who will take it out of that state: the
   stop handler that will start a thread, a running reconnect thread that still
   belongs to the session, a connection attempt, or a call that is stopping it. *)
ReconnectingHasDriver ==
    state = "Reconnecting" =>
        \/ sigPc \in {"hs_enter", "hs_lock", "hs_join", "hs_spawn"}
        \/ uiPc \in {"st_check", "st_disconnect", "st_detach"}
        \/ rpPc \in {"sd_canvas", "sd_disconnect", "sd_detach"}
        \/ reconnectThread # None /\ rcPc[reconnectThread] # "done"
        \/ output # None /\ phase[output] = "connecting"

(* An encoder that runs encodes from a canvas somebody holds a reference to:
   the session, the start or attempt that resolved it, or a teardown job. *)
Pinned(c) ==
    \/ canvas = c \/ uiCanvas = c \/ rpJob.canvas = c
    \/ \E t \in Threads : rcCanvas[t] = c
    \/ \E i \in DOMAIN jobs : jobs[i].canvas = c

RunningEncoderPinned ==
    \A o \in Outputs : phase[o] \in {"connecting", "active", "closing"} /\ attached[o] # None =>
        encCanvas[attached[o]] = None \/ Pinned(encCanvas[attached[o]])

(* An endpoint never connects or streams from a removed canvas, except while
   the stop its removal triggered is under way. *)
NoDeadCanvas ==
    output # None /\ phase[output] \in {"connecting", "active"} /\ canvas \in removed =>
        \/ uiPc \in {"st_check", "st_disconnect", "st_detach"}
        \/ rpPc \in {"sd_canvas", "sd_disconnect", "sd_detach"}

(* A session on a canvas is told when that canvas goes away. *)
SessionCanvasWatched ==
    state \in {"Live", "Reconnecting"} /\ canvas # None =>
        canvas \in watched \/ uiPc # "idle" \/ rpPc # "idle"

(* When a session has left its configured encoder for x264, the endpoint shows
   it. *)
FallbackIsShown ==
    EffectiveBackend(Configured, recovery, X264Registered) # Configured => hasError

-----------------------------------------------------------------------------
(* Who owns what of a session, over the threads, calls and jobs that may hold it:
   the encoders, the pair about to be used, the pair on air, the output a teardown
   job has taken. *)
SessionOwned ==
    OneOwnerPerEncoder /\ NoUseAfterRelease /\ StreamsPublishedEncoders /\ ReaperOwnsOutput

(* A session on a canvas encodes only from one that is held, alive and watched. *)
CanvasAlive == RunningEncoderPinned /\ NoDeadCanvas /\ SessionCanvasWatched

-----------------------------------------------------------------------------
(* Action properties *)

(* No late signal and no stale thread revives a stopped or a failed endpoint:
   only start() leads out of Idle, only start() and stop() out of FailedHard. *)
OnlyStartRevives ==
    [][/\ state = "Idle" => state' \in {"Idle", "Starting"}
       /\ state = "FailedHard" => state' \in {"FailedHard", "Starting", "Idle"}]_state

(* The fallback switches on at a first start the encoder refused, or after an
   encode error, never after a network drop; and only start() takes it back. *)
OnlyEncoderFailuresFallBack ==
    [][/\ ~recovery.fallback /\ recovery'.fallback =>
            state = "Starting" \/ recovery'.afterEncodeError
       /\ recovery.fallback /\ ~recovery'.fallback => state' = "Starting" /\ state # "Starting"]_recovery

(* The state the dock shows means what it says, and it changes only for the
   reasons it may: a late signal, a stale thread or a drop changes neither. *)
StateMeans ==
    /\ []LiveIsOnAir /\ []ReconnectingHasDriver /\ []FallbackIsShown
    /\ OnlyStartRevives /\ OnlyEncoderFailuresFallBack

-----------------------------------------------------------------------------
(* Liveness *)

(* start(), stop() and a canvas removal return: the UI thread is never caught
   between a join, a running handler and a canvas signal. *)
UIReturns == uiPc # "idle" ~> uiPc = "idle"

(* An output the controller let go of is released, one way or another. *)
DetachedOutputReleased ==
    \A o \in Outputs : phase[o] # "absent" /\ output # o ~> phase[o] = "absent" \/ output = o

(* A removed canvas ends the session on it. *)
CanvasRemovalStops ==
    \A c \in Canvases : c \in removed /\ canvas = c ~> canvas # c

(* What was begun ends: a call, the teardown of a detached output, the session on
   a removed canvas. *)
CallsEnd == UIReturns /\ DetachedOutputReleased /\ CanvasRemovalStops

-----------------------------------------------------------------------------
(* Refinement *)

Session == INSTANCE EndpointSession WITH
    air <- IF output \notin connected THEN "off"
           ELSE CASE phase[output] = "connecting" -> "trying"
                  [] phase[output] = "active" -> "on"
                  [] OTHER -> "off"

(* The controller implements the endpoint the dock sees: no thread, job or late
   signal changes what the state promises. *)
ImplementsSession == Session!Spec

ImplementsFairSession == Session!FairSpec
=============================================================================
