---------------------------- MODULE VerticalOutput ----------------------------
(***************************************************************************)
(* pipeline/VerticalRecorder.cpp and pipeline/VerticalReplayBuffer.cpp,    *)
(* the two file outputs on the vertical canvas, which share their session  *)
(* rules (VerticalEncodeSession.cpp): start with an encoder fallback, a    *)
(* "stop" signal posted to the UI thread, one restart after an encode      *)
(* error, forced stops, teardown by the ControllerReaper.  A behaviour is  *)
(* about one of them (product); remuxing is the recorder's, clips are the  *)
(* replay buffer's.                                                        *)
(*                                                                         *)
(* Everything public runs on the UI thread.  Other threads only post to it *)
(* (the "stop" signal) or rename a clip (the "saved" signal), and a        *)
(* disconnect waits for a signal handler, so that what the UI thread does  *)
(* in one event is one step, except for the attempts of a start.           *)
(* Texts (m_error, m_file, m_stopped_on_error) are left out.               *)
(***************************************************************************)
EXTENDS ControllerReaper, FiniteSets, Naturals

CONSTANTS
    Outputs,          \* obs_output_t objects
    None,
    NvencRegistered,  \* the encoder factory lists an NVENC HEVC encoder
    MaxStarts,        \* bound: starts, automatic ones included
    MaxPresses        \* bound: presses of a "save clip" hotkey

ASSUME VerticalConstants ==
    /\ None \notin Outputs
    /\ NvencRegistered \in BOOLEAN
    /\ MaxStarts \in Nat /\ MaxPresses \in Nat

VARIABLES
    product,          \* "recording" or "replay"
    module,           \* "up", "joining" (shutdown()), "draining" (the reaper), "unloaded"
    main,             \* OBS's own recording or replay buffer: "off" or "on", until it is
                      \* announced to stop or ends without an announcement
    state,            \* "Idle", "Running" (Recording, Buffering), "Stopping"
    output,           \* m_session.output
    sessionId, startedWithMain,
    remuxOnStop, encoder, runtimeRestarted,  \* of the session; reset when it ends, as the
                                             \* next one sets them before they are read
    restart,          \* m_restart_pending with m_restart_with_main: "no", "hand" or "main"
    attempt,          \* the start under way on the UI thread, or NoAttempt
    posted,           \* calls posted to the UI thread
    canvasRefs,       \* references to the canvas this product holds
    phase,            \* [Outputs -> "absent", "idle", "active" or "closing"]
    asked,            \* outputs somebody told to stop
    connected,        \* outputs whose "stop" and "saved" handlers are connected
    pending,          \* m_pending: the press that names the next clip, or 0
    want, writing,    \* [Outputs -> clip the buffer will write, is writing, or None]
    presses,
    remuxQueue,       \* files waiting in m_remux_queue
    remux,            \* remux thread: "none", "waiting", "working" or "done"
    starts,
    wish              \* who wants a session to run: "nobody", "hand" or "main"

settingVars == <<remuxOnStop, encoder, runtimeRestarted>>
sessionVars == <<state, output, sessionId, startedWithMain, settingVars>>
memberVars == <<sessionVars, restart>>
outputVars == <<phase, asked, connected>>
clipVars == <<pending, want, writing, presses>>
remuxVars == <<remuxQueue, remux>>
worldVars == <<product, module, main>>
vars == <<worldVars, memberVars, attempt, posted, canvasRefs, outputVars, clipVars, remuxVars,
          starts, wish, reaperVars>>

Encoder == {"nvenc", "x264"}
Code == {"success", "encode", "other"}

(* An error other than of the encoder ends a replay buffer like a success. *)
Codes == IF product = "recording" THEN Code ELSE Code \ {"other"}

NoAttempt == [encoder |-> "x264", withMain |-> FALSE, restart |-> FALSE, going |-> FALSE]
Job(o, canvas, force) == [output |-> o, canvas |-> canvas, force |-> force]

Init ==
    /\ product \in {"recording", "replay"} /\ module = "up" /\ main = "off"
    /\ state = "Idle" /\ output = None /\ sessionId = 0
    /\ startedWithMain = FALSE /\ remuxOnStop = FALSE /\ encoder = "x264"
    /\ runtimeRestarted = FALSE /\ restart = "no"
    /\ attempt = NoAttempt /\ posted = <<>> /\ canvasRefs = 0
    /\ phase = [o \in Outputs |-> "absent"] /\ asked = {} /\ connected = {}
    /\ pending = 0 /\ presses = 0
    /\ want = [o \in Outputs |-> None] /\ writing = [o \in Outputs |-> None]
    /\ remuxQueue = 0 /\ remux = "none"
    /\ starts = 0 /\ wish = "nobody"
    /\ ReaperInit

-----------------------------------------------------------------------------
(* core/VerticalRecord.cpp *)

(* choose_vertical_record_encoder() *)
Chosen == IF NvencRegistered THEN "nvenc" ELSE "x264"

(* vertical_record_fallback_encoder() finds one. *)
HasFallback(e) == e = "nvenc"

(* vertical_record_runtime_fallback() finds one. *)
Restarts(code) == code = "encode" /\ ~runtimeRestarted /\ HasFallback(encoder)

-----------------------------------------------------------------------------
(* Starting *)

UIReady == module = "up" /\ ~attempt.going

Enqueued(job) == queue' = Append(queue, job) /\ UNCHANGED <<running, shuttingDown, exited>>

(* start_session() up to the first attempt: refused for its folder, for want of
   a canvas, or for a canvas without video, whose reference the reaper gets. *)
BeginStart(withMain, e, again) ==
    /\ state = "Idle"
    /\ \/ /\ wish' = IF again THEN "nobody" ELSE wish
          /\ UNCHANGED <<attempt, canvasRefs, starts, reaperVars>>
       \/ /\ starts < MaxStarts /\ starts' = starts + 1
          /\ canvasRefs' = canvasRefs + 1
          /\ \/ /\ wish' = IF again THEN "nobody" ELSE wish
                /\ Enqueued(Job(None, TRUE, FALSE)) /\ UNCHANGED attempt
             \/ /\ attempt' = [encoder |-> e, withMain |-> withMain, restart |-> again,
                                going |-> TRUE]
                /\ UNCHANGED <<wish, reaperVars>>

(* The dead session of a failed attempt leaves the canvas with start_session(),
   which retries once with x264 and then gives it up. *)
DeadSession(o) == IF o = None THEN <<>> ELSE <<Job(o, FALSE, FALSE)>>

AttemptFails(o) ==
    LET last == ~HasFallback(attempt.encoder) IN
    /\ queue' = queue \o DeadSession(o) \o (IF last THEN <<Job(None, TRUE, FALSE)>> ELSE <<>>)
    /\ attempt' = IF last THEN NoAttempt ELSE [attempt EXCEPT !.encoder = "x264"]
    /\ wish' = IF last /\ attempt.restart THEN "nobody" ELSE wish
    /\ UNCHANGED <<running, shuttingDown, exited>>

(* Which free object becomes the output does not matter. *)
Absent == {o \in Outputs : phase[o] = "absent"}
NewOutput == CHOOSE o \in Absent : TRUE

(* try_start() fails: encoders or output cannot be created, or the session is
   published but obs_output_start() refuses and it is detached again.  That
   moves m_session_id on by two; no post has either number. *)
TryStartFails ==
    /\ attempt.going
    /\ \/ AttemptFails(None) /\ UNCHANGED phase
       \/ /\ Absent # {} /\ phase' = [phase EXCEPT ![NewOutput] = "idle"]
          /\ AttemptFails(NewOutput)
    /\ UNCHANGED <<worldVars, memberVars, posted, canvasRefs, asked, connected, clipVars, remuxVars,
                   starts>>

(* try_start() succeeds, and with it start_session(). *)
TryStartSucceeds ==
    /\ attempt.going /\ attempt' = NoAttempt
    /\ Absent # {}
    /\ phase' = [phase EXCEPT ![NewOutput] = "active"]
    /\ connected' = connected \cup {NewOutput} /\ output' = NewOutput
    /\ state' = "Running" /\ startedWithMain' = attempt.withMain
    /\ encoder' = attempt.encoder /\ runtimeRestarted' = attempt.restart
    /\ sessionId' = sessionId + 1
    /\ pending' = 0
    /\ \E profile \in BOOLEAN : remuxOnStop' = (profile /\ product = "recording")
    /\ wish' = IF attempt.restart THEN wish ELSE IF attempt.withMain THEN "main" ELSE "hand"
    /\ UNCHANGED <<worldVars, restart, posted, canvasRefs, asked, want, writing, presses,
                   remuxVars, starts, reaperVars>>

-----------------------------------------------------------------------------
(* Ending a session *)

Active(o) == o # None /\ phase[o] \in {"active", "closing"}

(* disconnect_signals(), detach_locked() and reap(). *)
Detach(force) ==
    /\ state' = "Idle" /\ output' = None /\ startedWithMain' = FALSE /\ pending' = 0
    /\ sessionId' = sessionId + 1
    /\ remuxOnStop' = FALSE /\ encoder' = "x264" /\ runtimeRestarted' = FALSE
    /\ connected' = connected \ {output}
    /\ Enqueued(Job(output, TRUE, force))

QueueRemux(wanted) ==
    IF wanted THEN /\ remuxQueue' = remuxQueue + 1
                   /\ remux' = IF remux = "none" THEN "waiting" ELSE remux
    ELSE UNCHANGED remuxVars

(* finish() for the session that runs, in the state s; then is what else the
   event loop has left to run. *)
FinishSession(s, code, then) ==
    LET again == s = "Running" /\ Restarts(code) IN
    /\ Detach(FALSE)
    /\ restart' = IF again THEN (IF startedWithMain THEN "main" ELSE "hand") ELSE "no"
    /\ posted' = IF again THEN Append(then, [do |-> "restart", withMain |-> startedWithMain])
                 ELSE then
    /\ QueueRemux(remuxOnStop /\ (again \/ code = "success"))
    /\ wish' = IF again THEN wish ELSE "nobody"
    /\ UNCHANGED <<canvasRefs, phase, asked, want, writing, presses>>

(* The posted finish(): only for the session that posted it. *)
OwnSession_RunningOnly(id) == id = sessionId /\ state = "Running"
OwnSession_Unchecked(id) == state # "Idle"
OwnSession(id) == id = sessionId /\ state # "Idle"

FinishPosted ==
    /\ UIReady /\ posted # <<>> /\ Head(posted).do = "finish"
    /\ IF OwnSession(Head(posted).session)
       THEN FinishSession(state, Head(posted).code, Tail(posted))
       ELSE /\ posted' = Tail(posted)
            /\ UNCHANGED <<memberVars, canvasRefs, outputVars, clipVars, remuxVars, wish,
                           reaperVars>>
    /\ UNCHANGED <<worldVars, attempt, starts>>

(* restart_after_encode_error() *)
RestartPosted ==
    /\ UIReady /\ posted # <<>> /\ Head(posted).do = "restart"
    /\ posted' = Tail(posted) /\ restart' = "no"
    /\ LET withMain == Head(posted).withMain IN
       IF restart # "no" /\ state = "Idle" /\ (withMain => main = "on")
       THEN BeginStart(withMain, "x264", TRUE)
       ELSE /\ wish' = IF restart # "no" /\ state = "Idle" THEN "nobody" ELSE wish
            /\ UNCHANGED <<attempt, canvasRefs, starts, reaperVars>>
    /\ UNCHANGED <<worldVars, sessionVars, outputVars, clipVars, remuxVars>>

(* stop(): the output's "stop" signal will post finish(), unless the output has
   ended already. *)
Stop ==
    IF Active(output)
    THEN /\ state' = "Stopping" /\ restart' = "no"
         /\ asked' = asked \cup ({output} \cap {o \in Outputs : phase[o] = "active"})
         /\ wish' = "nobody"
         /\ UNCHANGED <<output, sessionId, startedWithMain, settingVars, posted, canvasRefs, phase,
                        connected, clipVars, remuxVars, reaperVars>>
    ELSE FinishSession("Stopping", "success", posted)

(* stop_now() *)
StopNow ==
    /\ wish' = "nobody" /\ restart' = "no"
    /\ IF state = "Idle"
       THEN UNCHANGED <<sessionVars, pending, connected, reaperVars>>
       ELSE Detach(TRUE)

-----------------------------------------------------------------------------
(* UI events *)

(* The dock's button and the hotkey: toggle(). *)
ToggleOn ==
    /\ UIReady
    /\ BeginStart(FALSE, Chosen, FALSE)
    /\ UNCHANGED <<worldVars, memberVars, posted, outputVars, clipVars, remuxVars>>

(* The same toggle(); while a stop is under way it changes nothing. *)
ToggleOff ==
    /\ UIReady /\ state = "Running"
    /\ Stop
    /\ UNCHANGED <<worldVars, attempt, starts>>

(* on_main_recording_started(), on_main_replay_started(): the setting may be off. *)
MainStarts ==
    /\ UIReady /\ main = "off" /\ main' = "on"
    /\ \/ BeginStart(TRUE, Chosen, FALSE)
       \/ UNCHANGED <<attempt, canvasRefs, starts, wish, reaperVars>>
    /\ UNCHANGED <<product, module, memberVars, posted, outputVars, clipVars, remuxVars>>

(* on_main_recording_stopping(), on_main_replay_stopping() *)
MainStopping ==
    /\ UIReady /\ main = "on" /\ main' = "off"
    /\ IF startedWithMain /\ state = "Running" THEN Stop
       ELSE /\ restart' = IF restart = "main" THEN "no" ELSE restart
            /\ wish' = IF wish = "main" THEN "nobody" ELSE wish
            /\ UNCHANGED <<sessionVars, posted, canvasRefs, outputVars, clipVars, remuxVars,
                           reaperVars>>
    /\ UNCHANGED <<product, module, attempt, starts>>

(* OBS's own output ended with an error, which is not announced as stopping. *)
MainEnds ==
    /\ main = "on" /\ main' = "off"
    /\ UNCHANGED <<product, module, memberVars, attempt, posted, canvasRefs, outputVars, clipVars,
                   remuxVars, starts, wish, reaperVars>>

(* Canvas removed, collection changing, OBS shutting down or exiting. *)
ForcedStop ==
    /\ UIReady
    /\ StopNow
    /\ UNCHANGED <<worldVars, attempt, posted, canvasRefs, phase, asked, want, writing, presses,
                   remuxVars, starts>>

(* save(): the press names the next clip; a buffer that is ending ignores it. *)
Named_FirstWins(press) == pending' = IF pending = 0 THEN press ELSE pending
Named(press) == pending' = press

Save ==
    /\ UIReady /\ product = "replay" /\ presses < MaxPresses
    /\ state = "Running" /\ Active(output)
    /\ presses' = presses + 1
    /\ Named(presses + 1)
    /\ want' = IF phase[output] = "active" THEN [want EXCEPT ![output] = presses + 1] ELSE want
    /\ UNCHANGED <<worldVars, memberVars, attempt, posted, canvasRefs, outputVars, writing,
                   remuxVars, starts, wish, reaperVars>>

(* shutdown() in obs_module_unload(): a forced stop, the remux thread told to
   quit and joined; the posts are dropped, then the reaper is drained. *)
Unload ==
    /\ UIReady /\ module' = "joining"
    /\ StopNow
    /\ UNCHANGED <<product, main, attempt, posted, canvasRefs, phase, asked, want, writing, presses,
                   remuxVars, starts>>

JoinRemux ==
    /\ module = "joining" /\ remux \in {"none", "done"}
    /\ module' = "draining" /\ remux' = "none" /\ posted' = <<>>
    /\ RequestShutdown
    /\ UNCHANGED <<product, main, memberVars, attempt, canvasRefs, outputVars, clipVars, remuxQueue,
                   starts, wish>>

JoinReaper ==
    /\ module = "draining" /\ exited /\ module' = "unloaded"
    /\ UNCHANGED <<product, main, memberVars, attempt, posted, canvasRefs, outputVars, clipVars,
                   remuxVars, starts, wish, reaperVars>>

-----------------------------------------------------------------------------
(* The output's threads (external), and the handlers on them *)

OnlyOutput == UNCHANGED <<worldVars, memberVars, attempt, canvasRefs, remuxVars, presses, starts,
                          wish, reaperVars>>

(* on_output_stop() posts finish() with the number of the session; the active
   flag clears later. *)
OutputStops(o) ==
    /\ phase[o] = "active" /\ phase' = [phase EXCEPT ![o] = "closing"]
    /\ asked' = asked \ {o}
    /\ want' = [want EXCEPT ![o] = None]
    /\ \/ /\ o \in connected
          /\ \E code \in Codes :
                posted' = Append(posted, [do |-> "finish", session |-> sessionId, code |-> code])
       \/ o \notin connected /\ UNCHANGED posted
    /\ UNCHANGED <<connected, pending, writing>>
    /\ OnlyOutput

OutputEnds(o) ==
    /\ phase[o] = "closing" /\ phase' = [phase EXCEPT ![o] = "idle"]
    /\ UNCHANGED <<posted, asked, connected, pending, want, writing>>
    /\ OnlyOutput

(* What was asked for until now becomes one clip; one clip at a time.  The hotkey
   of the output itself asks without save(): no press. *)
ClipBegins(o) ==
    /\ product = "replay" /\ phase[o] = "active" /\ writing[o] = None
    /\ want[o] = None => o \in connected
    /\ writing' = [writing EXCEPT ![o] = IF want[o] = None THEN 0 ELSE want[o]]
    /\ want' = [want EXCEPT ![o] = None]
    /\ UNCHANGED <<posted, outputVars, pending>>
    /\ OnlyOutput

(* The file is complete: on_output_saved() renames it.  Or it could not be
   written, and there is no signal. *)
ClipEnds(o) ==
    /\ writing[o] # None /\ writing' = [writing EXCEPT ![o] = None]
    /\ \/ /\ o \in connected
          /\ pending' = 0
       \/ UNCHANGED pending
    /\ UNCHANGED <<posted, outputVars, want>>
    /\ OnlyOutput

-----------------------------------------------------------------------------
(* Reaper and remux thread *)

OnlyReaper == UNCHANGED <<worldVars, memberVars, attempt, posted, connected, clipVars, remuxVars,
                          starts, wish>>

Working == running # NoJob

TakeJob == Take /\ OnlyReaper /\ UNCHANGED <<canvasRefs, phase, asked>>

(* obs_output_force_stop(), or the stop every release of a running output does. *)
StopOutput ==
    /\ Working /\ running.output # None
    /\ phase[running.output] = "active" /\ running.output \notin asked
    /\ asked' = asked \cup {running.output}
    /\ OnlyReaper /\ UNCHANGED <<canvasRefs, phase, reaperVars>>

(* The output goes when its threads are through with it, the canvas last. *)
Release ==
    /\ Working
    /\ IF running.output = None THEN UNCHANGED phase
       ELSE /\ phase[running.output] = "idle" /\ writing[running.output] = None
            /\ phase' = [phase EXCEPT ![running.output] = "absent"]
    /\ canvasRefs' = IF running.canvas THEN canvasRefs - 1 ELSE canvasRefs
    /\ Finish /\ OnlyReaper /\ UNCHANGED asked

ExitWorker == Exit /\ OnlyReaper /\ UNCHANGED <<canvasRefs, phase, asked>>

OnlyRemux == UNCHANGED <<worldVars, memberVars, attempt, posted, canvasRefs, outputVars, clipVars,
                         starts, wish, reaperVars>>

RemuxQuit == module = "joining"

RemuxTake ==
    /\ remux = "waiting"
    /\ IF RemuxQuit THEN remux' = "done" /\ UNCHANGED remuxQueue
       ELSE remuxQueue > 0 /\ remuxQueue' = remuxQueue - 1 /\ remux' = "working"
    /\ OnlyRemux

(* remux_progress() aborts the job once shutdown() has set m_remux_cancel. *)
RemuxCancel == RemuxQuit

RemuxAborts ==
    /\ remux = "working" /\ RemuxCancel /\ remux' = "waiting"
    /\ UNCHANGED remuxQueue /\ OnlyRemux

RemuxEnds ==
    /\ remux = "working" /\ remux' = "waiting"
    /\ UNCHANGED remuxQueue /\ OnlyRemux

-----------------------------------------------------------------------------
UIEvent == ToggleOn \/ ToggleOff \/ MainStarts \/ MainStopping
           \/ ForcedStop \/ Save \/ Unload

UIWork == TryStartFails \/ TryStartSucceeds \/ FinishPosted \/ RestartPosted
          \/ JoinRemux \/ JoinReaper

Worker == TakeJob \/ StopOutput \/ Release \/ ExitWorker

OutputThread(o) == OutputStops(o) \/ OutputEnds(o) \/ ClipBegins(o) \/ ClipEnds(o)

Next ==
    \/ UIEvent \/ UIWork \/ MainEnds \/ Worker
    \/ \E o \in Outputs : OutputThread(o)
    \/ RemuxTake \/ RemuxAborts \/ RemuxEnds

Spec == Init /\ [][Next]_vars

(* The UI thread's event loop, the reaper and the remux thread run; an output
   that was told to stop does; nobody has to press or stop anything, and a remux
   may take for ever. *)
Fairness ==
    /\ WF_vars(UIWork) /\ WF_vars(Worker) /\ WF_vars(RemuxTake \/ RemuxAborts)
    /\ \A o \in Outputs : /\ WF_vars((o \in asked /\ OutputStops(o)) \/ OutputEnds(o))
                          /\ WF_vars(ClipEnds(o))

FairSpec == Spec /\ Fairness

-----------------------------------------------------------------------------
(* Types *)

Post == [do : {"finish"}, session : Nat, code : Code] \cup [do : {"restart"}, withMain : BOOLEAN]

JobType == [output : Outputs \cup {None}, canvas : BOOLEAN, force : BOOLEAN]

ASSUME NoJobAssumption == NoJob \notin JobType

(* The type invariant. *)
TypeOK ==
    /\ product \in {"recording", "replay"}
    /\ module \in {"up", "joining", "draining", "unloaded"} /\ main \in {"off", "on"}
    /\ state \in {"Idle", "Running", "Stopping"} /\ output \in Outputs \cup {None}
    /\ sessionId \in Nat /\ startedWithMain \in BOOLEAN /\ remuxOnStop \in BOOLEAN
    /\ encoder \in Encoder /\ runtimeRestarted \in BOOLEAN
    /\ restart \in {"no", "hand", "main"}
    /\ attempt \in [encoder : Encoder, withMain : BOOLEAN, restart : BOOLEAN, going : BOOLEAN]
    /\ posted \in Seq(Post) /\ canvasRefs \in Nat
    /\ phase \in [Outputs -> {"absent", "idle", "active", "closing"}]
    /\ asked \subseteq Outputs /\ connected \subseteq Outputs
    /\ pending \in Nat /\ presses \in Nat
    /\ want \in [Outputs -> Nat \cup {None}] /\ writing \in [Outputs -> Nat \cup {None}]
    /\ remuxQueue \in Nat /\ remux \in {"none", "waiting", "working", "done"}
    /\ starts \in Nat /\ wish \in {"nobody", "hand", "main"}
    /\ queue \in Seq(JobType) /\ running \in JobType \cup {NoJob}
    /\ shuttingDown \in BOOLEAN /\ exited \in BOOLEAN

-----------------------------------------------------------------------------
(* Safety *)

OneIf(p) == IF p THEN 1 ELSE 0

(* Every reference to the canvas has one holder who will release it once: the
   session, the start under way, or a job; and an output that encodes has such a
   holder of its own. *)
QueuedRefs == {i \in DOMAIN queue : queue[i].canvas}

CanvasRefsHeld ==
    /\ canvasRefs = Cardinality(QueuedRefs) + OneIf(Working /\ running.canvas)
                    + OneIf(state # "Idle") + OneIf(attempt.going)
    /\ \A o \in Outputs : phase[o] \in {"active", "closing"} =>
          \/ state # "Idle" /\ output = o
          \/ Working /\ running.output = o /\ running.canvas
          \/ \E i \in QueuedRefs : queue[i].output = o

(* A session ends by finish() only when its own output has stopped: what is
   reaped without force does not run, so that no late signal of an earlier
   session ends the next one. *)
GracefulEndsStopped ==
    /\ \A i \in DOMAIN queue : queue[i].output # None /\ ~queue[i].force =>
          phase[queue[i].output] # "active"
    /\ Working /\ running.output # None /\ ~running.force => phase[running.output] # "active"

(* Nothing runs that nobody wants any more: a stop by hand, a forced stop, or
   the end of the main output it follows ends a session, and cancels the restart
   of one that has just failed. *)
RunsOnlyWanted == state = "Running" => wish # "nobody"

(* Once the plugin is unloaded, the reaper has released every output and the canvas. *)
UnloadReleases ==
    module = "unloaded" => canvasRefs = 0 /\ \A o \in Outputs : phase[o] = "absent"

(* A session holds what it encodes from, ends only by its own output's stop, and
   runs only while somebody wants it; none is left over at the unload. *)
SessionsHeld ==
    TypeOK /\ CanvasRefsHeld /\ GracefulEndsStopped /\ RunsOnlyWanted /\ UnloadReleases

(* A clip asked for with the plugin's hotkey is never named after an earlier
   press, of this or of an earlier session: the press that will name it was its
   own or a later one. *)
ClipNotStale ==
    \A o \in connected : pending # 0 /\ writing[o] # None => pending >= writing[o]

-----------------------------------------------------------------------------
(* Liveness *)

Ending == state = "Stopping" \/ module \in {"joining", "draining"}

(* A requested stop ends, whether the output ends now or ended before; and the
   unload does, which waits for no remux and for every output the reaper releases. *)
EndsCome == Ending ~> ~Ending
=============================================================================
