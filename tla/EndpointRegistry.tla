-------------------------- MODULE EndpointRegistry --------------------------
(***************************************************************************)
(* core/EndpointRegistry.cpp with everything that drives it on the UI      *)
(* thread (the Endpoints tab, the frontend events and the unload of        *)
(* plugin-main.cpp, core/LinkedStart.cpp) and with the ControllerReaper    *)
(* that tears down what it lets go of.                                     *)
(*                                                                         *)
(* A UI event is a list of calls, run one by one (todo); outputs and the   *)
(* reaper act in between.  A controller is reduced to what OutputController*)
(* shows of it: a state and an output; its start() and stop() are one step *)
(* here.  HealthSampler's short-lived controller references are left out.  *)
(***************************************************************************)
EXTENDS ControllerReaper, FiniteSets, Naturals, SequencesExt

CONSTANTS
    Ids,           \* endpoint UUIDs
    Controllers,   \* OutputController objects
    Outputs,       \* obs_output_t objects
    Targets,       \* server and key, the normalised pair find_duplicate() compares
    NoKey,         \* a target without a stream key: a duplicate of nothing
    None,
    Loaded,        \* lists of endpoints config.json may hold at load
    MaxEvents      \* bound: UI events

ASSUME RegistryConstants ==
    /\ None \notin Ids \cup Controllers \cup Outputs \cup Targets
    /\ NoKey \in Targets
    /\ MaxEvents \in Nat

VARIABLES
    endpoints,     \* m_endpoints, in order
    controllers,   \* m_controllers: [Ids -> controller or None]
    scheduled,     \* the list last given to ConfigStore::schedule_save()
    todo,          \* calls the UI thread still has to make for the current event
    events,        \* UI events so far
    streaming,     \* OBS's main output: the target it streams to, or None
    module,        \* "loaded", "exited" (EXIT seen), "unloading", "unloaded"
    status,        \* [Controllers -> "free" or OutputState]
    settings,      \* [Controllers -> the Endpoint it was created with]
    output,        \* [Controllers -> its output or None]
    service,       \* [Outputs -> the Endpoint its obs_service_t was made for, or None]
    phase          \* [Outputs -> "absent", "idle", "connecting", "active" or "closing"]

registryVars == <<endpoints, controllers, scheduled>>
controllerVars == <<status, settings, output>>
outputVars == <<service, phase>>
vars == <<registryVars, todo, events, streaming, module, controllerVars, outputVars, reaperVars>>

Endpoint == [id : Ids, target : Targets, enabled : BOOLEAN, linked : BOOLEAN]

Call(do, c, ep) == [do |-> do, ctrl |-> c, ep |-> ep]
Job(c, o) == [ctrl |-> c, output |-> o]

JobType == [ctrl : Controllers \cup {None}, output : Outputs \cup {None}]

ASSUME NoJobAssumption == NoJob \notin JobType

(* An endpoint has a UUID of its own. *)
ASSUME LoadedAssumption ==
    \A eps \in Loaded :
        /\ eps \in Seq(Endpoint)
        /\ \A i, j \in DOMAIN eps : eps[i].id = eps[j].id => i = j

Known == {endpoints[i].id : i \in DOMAIN endpoints}
EndpointOf(id) == CHOOSE ep \in {endpoints[i] : i \in DOMAIN endpoints} : ep.id = id

(* The object to allocate next: which one it is makes no difference. *)
Fresh(pool) == CHOOSE x \in pool : TRUE

(* EndpointRegistry::EndpointRegistry(): a controller for every loaded endpoint. *)
Init ==
    /\ endpoints \in Loaded /\ scheduled = endpoints
    /\ Injection(Known, Controllers) # {}
    /\ LET f == Fresh(Injection(Known, Controllers)) IN
          /\ controllers = [id \in Ids |-> IF id \in Known THEN f[id] ELSE None]
          /\ status = [c \in Controllers |-> IF c \in Range(f) THEN "Idle" ELSE "free"]
          /\ settings = [c \in Controllers |->
                IF c \in Range(f) THEN EndpointOf(CHOOSE id \in Known : f[id] = c) ELSE None]
    /\ todo = <<>> /\ events = 0 /\ streaming = None /\ module = "loaded"
    /\ output = [c \in Controllers |-> None]
    /\ service = [o \in Outputs |-> None] /\ phase = [o \in Outputs |-> "absent"]
    /\ ReaperInit

FreeControllers == {c \in Controllers : status[c] = "free"}

NewController(ep) ==
    /\ FreeControllers # {}
    /\ LET c == Fresh(FreeControllers) IN
       /\ controllers' = [controllers EXCEPT ![ep.id] = c]
       /\ status' = [status EXCEPT ![c] = "Idle"]
       /\ settings' = [settings EXCEPT ![c] = ep]

AbsentOutputs == {o \in Outputs : phase[o] = "absent"}

IsRunning(c) == status[c] \in {"Live", "Starting"}
Replace(ep) == [i \in DOMAIN endpoints |-> IF endpoints[i].id = ep.id THEN ep ELSE endpoints[i]]

-----------------------------------------------------------------------------
(* core/LinkedStart.cpp *)

IsDuplicateTarget(t, u) == t # NoKey /\ t = u

LinkedForStart(ep) == ep.enabled /\ ep.linked

(* plan_linked_start(): first one wins, and the main stream before them all. *)
PlanLinkedStart_AgainstMainOnly(main) ==
    SelectSeq(endpoints, LAMBDA ep : LinkedForStart(ep) /\ ~IsDuplicateTarget(ep.target, main))

Accept(plan, ep, main) ==
    IF /\ LinkedForStart(ep)
       /\ \A t \in {main} \cup {plan[i].target : i \in DOMAIN plan} :
              ~IsDuplicateTarget(ep.target, t)
    THEN Append(plan, ep) ELSE plan

PlanLinkedStart(main) ==
    LET plan[n \in 0..Len(endpoints)] ==
            IF n = 0 THEN <<>> ELSE Accept(plan[n - 1], endpoints[n], main)
    IN plan[Len(endpoints)]

-----------------------------------------------------------------------------
(* UI events *)

Event(calls) ==
    /\ module \in {"loaded", "exited"} /\ todo = <<>> /\ events < MaxEvents
    /\ events' = events + 1
    /\ todo' = calls

ForAll(do) == [i \in DOMAIN endpoints |-> Call(do, controllers[endpoints[i].id], None)]

(* EndpointRegistry::add(); the dialog does not edit the enabled flag. *)
Add(ep) ==
    /\ module = "loaded" /\ ep.id \notin Known /\ ep.enabled
    /\ Event(<<Call("persist", None, None)>>)
    /\ endpoints' = Append(endpoints, ep)
    /\ NewController(ep)
    /\ UNCHANGED <<scheduled, streaming, module, output, outputVars, reaperVars>>

(* ConfigTab::on_edit_endpoint() *)
Edit(ep) ==
    /\ module = "loaded" /\ ep.id \in Known
    /\ ep # EndpointOf(ep.id) /\ ep.enabled = EndpointOf(ep.id).enabled
    /\ Event(<<Call("update", None, ep)>>)
    /\ UNCHANGED <<registryVars, streaming, module, controllerVars, outputVars, reaperVars>>

(* ConfigTab::on_toggle_endpoint() *)
Toggle(id) ==
    /\ module = "loaded" /\ id \in Known
    /\ LET ep == EndpointOf(id) IN
       Event((IF ep.enabled THEN <<Call("stop_running", controllers[id], None)>> ELSE <<>>)
             \o <<Call("update", None, [ep EXCEPT !.enabled = ~ep.enabled])>>)
    /\ UNCHANGED <<registryVars, streaming, module, controllerVars, outputVars, reaperVars>>

(* EndpointRegistry::remove(), up to the end of its critical section. *)
Delete(id) ==
    /\ module = "loaded" /\ id \in Known
    /\ Event(<<Call("hand_over", controllers[id], None), Call("persist", None, None)>>)
    /\ \E i \in DOMAIN endpoints : endpoints[i].id = id /\ endpoints' = RemoveAt(endpoints, i)
    /\ controllers' = [controllers EXCEPT ![id] = None]
    /\ UNCHANGED <<scheduled, streaming, module, controllerVars, outputVars, reaperVars>>

(* ConfigTab::on_list_reorder() hands over a permutation of all endpoints. *)
Reorder ==
    /\ module = "loaded" /\ Len(endpoints) > 1
    /\ Event(<<Call("persist", None, None)>>)
    /\ endpoints' = Reverse(endpoints)
    /\ UNCHANGED <<controllers, scheduled, streaming, module, controllerVars, outputVars,
                   reaperVars>>

MainStarts(main) ==
    /\ module = "loaded" /\ streaming = None
    /\ streaming' = main
    /\ LET plan == PlanLinkedStart(main) IN
       Event([i \in DOMAIN plan |-> Call("start", None, plan[i])])
    /\ UNCHANGED <<registryVars, module, controllerVars, outputVars, reaperVars>>

MainStops ==
    /\ streaming # None /\ module = "loaded"
    /\ streaming' = None
    /\ Event([i \in DOMAIN endpoints |->
                IF endpoints[i].linked THEN ForAll("stop_running")[i]
                ELSE Call("stop_running", None, None)])
    /\ UNCHANGED <<registryVars, module, controllerVars, outputVars, reaperVars>>

(* OBS_FRONTEND_EVENT_EXIT *)
OBSExit ==
    /\ module = "loaded" /\ module' = "exited"
    /\ Event(ForAll("stop_running"))
    /\ UNCHANGED <<registryVars, streaming, controllerVars, outputVars, reaperVars>>

(* obs_module_unload(): stop all, destroy the registry, drain the reaper. *)
Unload ==
    /\ module = "exited" /\ todo = <<>> /\ module' = "unloading"
    /\ todo' = ForAll("stop") \o ForAll("hand_over")
               \o <<Call("shutdown", None, None), Call("join", None, None)>>
    /\ UNCHANGED <<registryVars, events, streaming, controllerVars, outputVars, reaperVars>>

-----------------------------------------------------------------------------
(* The calls *)

Calls(do) == todo # <<>> /\ Head(todo).do = do
Then(more) == todo' = more \o Tail(todo)
Return == Then(<<>>)

(* EndpointRegistry::update(): the critical section swaps the controller, the
   rest follows outside of it. *)
RestartCalls(old, ep) ==
    <<Call("hand_over", old, None)>>
    \o (IF IsRunning(old) THEN <<Call("start", None, ep)>> ELSE <<>>)
    \o <<Call("persist", None, None)>>

Update_RunningOnly ==
    /\ Calls("update")
    /\ LET ep == Head(todo).ep
           old == controllers[ep.id] IN
       /\ endpoints' = Replace(ep)
       /\ IF IsRunning(old) THEN NewController(ep) /\ Then(RestartCalls(old, ep))
          ELSE UNCHANGED <<controllers, status, settings>> /\ Then(<<Call("persist", None, None)>>)
    /\ UNCHANGED <<scheduled, events, streaming, module, output, outputVars, reaperVars>>

Update ==
    /\ Calls("update")
    /\ LET ep == Head(todo).ep IN
       /\ endpoints' = Replace(ep)
       /\ NewController(ep)
       /\ Then(RestartCalls(controllers[ep.id], ep))
    /\ UNCHANGED <<scheduled, events, streaming, module, output, outputVars, reaperVars>>

Persist ==
    /\ Calls("persist") /\ Return
    /\ scheduled' = endpoints
    /\ UNCHANGED <<endpoints, controllers, events, streaming, module, controllerVars, outputVars,
                   reaperVars>>

Detach(c) ==
    /\ status' = [status EXCEPT ![c] = "Idle"]
    /\ output' = [output EXCEPT ![c] = None]

(* OutputController::stop(), which the handlers of the main stream and of EXIT call
   behind is_running(), and which the enqueue() of a hand-over follows. *)
StopController ==
    /\ Calls("stop") \/ Calls("stop_running") \/ Calls("hand_over")
    /\ LET call == Head(todo)
           c == call.ctrl IN
       /\ Then(IF call.do = "hand_over" THEN <<Call("enqueue", c, None)>> ELSE <<>>)
       /\ IF call.do = "stop_running" /\ (c = None \/ ~IsRunning(c))
          THEN UNCHANGED <<status, output, reaperVars>>
          ELSE /\ Detach(c)
               /\ IF output[c] = None THEN UNCHANGED reaperVars
                  ELSE Enqueue(Job(None, output[c]))
    /\ UNCHANGED <<registryVars, events, streaming, module, settings, outputVars>>

EnqueueController_Blocking ==
    /\ Calls("enqueue") /\ Return
    /\ queue = <<>> /\ running = NoJob
    /\ Enqueue(Job(Head(todo).ctrl, None))
    /\ UNCHANGED <<registryVars, events, streaming, module, controllerVars, outputVars>>

EnqueueController ==
    /\ Calls("enqueue") /\ Return
    /\ Enqueue(Job(Head(todo).ctrl, None))
    /\ UNCHANGED <<registryVars, events, streaming, module, controllerVars, outputVars>>

(* OutputController::start(): refused, or the output of the session starts. *)
StartController ==
    /\ Calls("start") /\ Return
    /\ LET c == controllers[Head(todo).ep.id] IN
       \/ /\ IsRunning(c) /\ UNCHANGED <<status, output, outputVars>>
       \/ /\ ~IsRunning(c)
          /\ status' = [status EXCEPT ![c] = "FailedHard"]
          /\ UNCHANGED <<output, outputVars>>
       \/ /\ ~IsRunning(c)
          /\ \E o \in Outputs :
                /\ \/ /\ output[c] = None /\ AbsentOutputs # {} /\ o = Fresh(AbsentOutputs)
                      /\ service' = [service EXCEPT ![o] = settings[c]]
                   \/ output[c] = o /\ phase[o] = "idle" /\ UNCHANGED service
                /\ status' = [status EXCEPT ![c] = "Starting"]
                /\ output' = [output EXCEPT ![c] = o]
                /\ phase' = [phase EXCEPT ![o] = "connecting"]
    /\ UNCHANGED <<registryVars, events, streaming, module, settings, reaperVars>>

ShutdownReaper ==
    /\ Calls("shutdown") /\ Return
    /\ RequestShutdown
    /\ UNCHANGED <<registryVars, events, streaming, module, controllerVars, outputVars>>

JoinReaper ==
    /\ Calls("join") /\ exited
    /\ Return /\ module' = "unloaded"
    /\ UNCHANGED <<registryVars, events, streaming, controllerVars, outputVars, reaperVars>>

-----------------------------------------------------------------------------
(* Outputs (external) and the reconnect threads, as OutputController shows them *)

Owner(o) == {c \in Controllers : output[c] = o}
Shows(o, s) == status' = [c \in Controllers |-> IF c \in Owner(o) THEN s ELSE status[c]]

OutputMoves(o, from, to) == phase[o] = from /\ phase' = [phase EXCEPT ![o] = to]

OnlyOutputs == UNCHANGED <<registryVars, todo, events, streaming, module, settings, output,
                           service, reaperVars>>

Connected(o) == OutputMoves(o, "connecting", "active") /\ Shows(o, "Live") /\ OnlyOutputs

(* A network error reconnects, a hard code fails, a clean end goes idle. *)
Stops(o) ==
    /\ OutputMoves(o, "connecting", "idle") \/ OutputMoves(o, "active", "closing")
    /\ \E s \in {"Reconnecting", "FailedHard", "Idle"} : Shows(o, s)
    /\ OnlyOutputs

ActiveClears(o) == OutputMoves(o, "closing", "idle") /\ UNCHANGED status /\ OnlyOutputs

Reconnects(c) ==
    /\ status[c] = "Reconnecting"
    /\ \E o \in Outputs : output[c] = o /\ OutputMoves(o, "idle", "connecting")
    /\ UNCHANGED status /\ OnlyOutputs

GivesUp(c) ==
    /\ status[c] = "Reconnecting" /\ phase[output[c]] # "connecting"
    /\ status' = [status EXCEPT ![c] = "FailedHard"]
    /\ UNCHANGED phase /\ OnlyOutputs

-----------------------------------------------------------------------------
(* The jobs the reaper runs: the session stop() detached, or a controller's
   shutdown_blocking() and destructor *)

Working == running # NoJob

OnlyReaper == UNCHANGED <<registryVars, todo, events, streaming, module>>

TakeJob == Take /\ OnlyReaper /\ UNCHANGED <<controllerVars, outputVars>>

(* obs_output_force_stop() *)
ForceStop ==
    /\ Working /\ running.output # None
    /\ phase[running.output] \in {"connecting", "active"}
    /\ phase' = [phase EXCEPT ![running.output] = "closing"]
    /\ OnlyReaper /\ UNCHANGED <<controllerVars, service, reaperVars>>

(* obs_output_release() returns once the output has stopped. *)
ReleaseOutput ==
    /\ Working /\ running.output # None
    /\ phase[running.output] = "idle"
    /\ phase' = [phase EXCEPT ![running.output] = "absent"]
    /\ service' = [service EXCEPT ![running.output] = None]
    /\ IF running.ctrl = None THEN Finish
       ELSE running' = Job(running.ctrl, None) /\ UNCHANGED <<queue, shuttingDown, exited>>
    /\ OnlyReaper /\ UNCHANGED controllerVars

(* shutdown_blocking() detaches a session that is still there; then the last
   reference goes, and the controller with it. *)
ShutdownController ==
    /\ Working /\ running.ctrl # None /\ running.output = None
    /\ LET c == running.ctrl IN
       \/ /\ output[c] # None
          /\ running' = Job(c, output[c]) /\ Detach(c)
          /\ UNCHANGED <<settings, queue, shuttingDown, exited>>
       \/ /\ output[c] = None
          /\ status' = [status EXCEPT ![c] = "free"]
          /\ settings' = [settings EXCEPT ![c] = None]
          /\ Finish /\ UNCHANGED output
    /\ OnlyReaper /\ UNCHANGED outputVars

ExitWorker == Exit /\ OnlyReaper /\ UNCHANGED <<controllerVars, outputVars>>

-----------------------------------------------------------------------------
UIEvent ==
    \/ \E ep \in Endpoint : Add(ep) \/ Edit(ep)
    \/ \E id \in Ids : Toggle(id) \/ Delete(id)
    \/ Reorder \/ MainStops \/ OBSExit \/ Unload
    \/ \E main \in Targets : MainStarts(main)

UICall ==
    \/ Update \/ Persist \/ StopController \/ EnqueueController \/ StartController
    \/ ShutdownReaper \/ JoinReaper

Worker == TakeJob \/ ForceStop \/ ReleaseOutput \/ ShutdownController \/ ExitWorker

Next ==
    \/ UIEvent \/ UICall \/ Worker
    \/ \E o \in Outputs : Connected(o) \/ Stops(o) \/ ActiveClears(o)
    \/ \E c \in Controllers : Reconnects(c) \/ GivesUp(c)

Spec == Init /\ [][Next]_vars

(* The UI thread and the reaper run; a server may hang for ever, so nothing is
   assumed of the outputs. *)
FairSpec == Spec /\ WF_vars(UICall) /\ WF_vars(Worker)

-----------------------------------------------------------------------------
(* Types *)

CallType == [do : {"update", "persist", "stop", "stop_running", "hand_over", "enqueue", "start",
                   "shutdown", "join"},
             ctrl : Controllers \cup {None}, ep : Endpoint \cup {None}]

(* The type invariant. *)
TypeOK ==
    /\ endpoints \in Seq(Endpoint) /\ scheduled \in Seq(Endpoint)
    /\ controllers \in [Ids -> Controllers \cup {None}]
    /\ todo \in Seq(CallType) /\ events \in Nat
    /\ streaming \in Targets \cup {None}
    /\ module \in {"loaded", "exited", "unloading", "unloaded"}
    /\ status \in [Controllers -> {"free", "Idle", "Starting", "Live", "Reconnecting",
                                   "FailedHard"}]
    /\ settings \in [Controllers -> Endpoint \cup {None}]
    /\ output \in [Controllers -> Outputs \cup {None}]
    /\ service \in [Outputs -> Endpoint \cup {None}]
    /\ phase \in [Outputs -> {"absent", "idle", "connecting", "active", "closing"}]
    /\ queue \in Seq(JobType) /\ running \in JobType \cup {NoJob}
    /\ shuttingDown \in BOOLEAN /\ exited \in BOOLEAN

-----------------------------------------------------------------------------
(* Safety *)

HandedOver ==
    ({queue[i].ctrl : i \in DOMAIN queue} \cup (IF Working THEN {running.ctrl} ELSE {})) \ {None}

(* update(), remove() and ~EndpointRegistry() stop a controller before they hand
   it over, whatever its state: the reaper never gets one that still has a
   session, a Reconnecting one in particular. *)
ReaperGetsDetached ==
    \A c \in HandedOver : status[c] = "Idle" /\ output[c] = None

(* Each endpoint has a controller of its own that nobody tears down, and it
   streams to the target the endpoint has now. *)
ControllersFollowEndpoints ==
    module \in {"loaded", "exited"} =>
        /\ \A id \in Ids : controllers[id] # None <=> id \in Known
        /\ \A id \in Known :
              /\ settings[controllers[id]] = EndpointOf(id)
              /\ output[controllers[id]] # None =>
                    service[output[controllers[id]]] = EndpointOf(id)
              /\ status[controllers[id]] # "free" /\ controllers[id] \notin HandedOver
              /\ \A other \in Known \ {id} : controllers[other] # controllers[id]

(* An output has one owner: a controller, or the job that releases it. *)
OutputOwners(o) ==
    Cardinality(Owner(o)) + Cardinality({i \in DOMAIN queue : queue[i].output = o})
    + (IF Working /\ running.output = o THEN 1 ELSE 0)

OneOwnerPerOutput ==
    \A o \in Outputs : OutputOwners(o) = IF phase[o] = "absent" THEN 0 ELSE 1

(* The main stream starts no two endpoints on the same server and key. *)
LinkedStartsDistinct ==
    \A i, j \in DOMAIN todo :
        /\ todo[i].do = "start" /\ todo[j].do = "start"
        /\ IsDuplicateTarget(todo[i].ep.target, todo[j].ep.target)
        => i = j

(* Every change is given to the config store before the event is over. *)
ChangesAreScheduled == todo = <<>> => scheduled = endpoints

(* After obs_module_unload() nothing of the plugin runs: no output, no
   controller, no job, no worker. *)
UnloadLeavesNothing ==
    module = "unloaded" =>
        /\ exited /\ queue = <<>> /\ running = NoJob
        /\ \A c \in Controllers : status[c] = "free"
        /\ \A o \in Outputs : phase[o] = "absent"

(* The list, its controllers, their outputs and the reaper's queue agree, between
   any two calls of an event. *)
ControllersOwned ==
    /\ TypeOK
    /\ ReaperGetsDetached /\ ControllersFollowEndpoints /\ OneOwnerPerOutput /\ ChangesAreScheduled

-----------------------------------------------------------------------------
(* Liveness *)

(* No server that hangs blocks the UI thread, except in the final join. *)
UINeverWaits == todo # <<>> /\ module # "unloading" ~> todo = <<>>

OutputsEnd == \A o \in Outputs : []<>(phase[o] # "closing")

TearingDown == HandedOver # {} \/ module = "unloading"

(* If no server hangs for ever, every controller that was handed over is
   destroyed, and the plugin unloads. *)
TeardownEnds == OutputsEnd => (TearingDown ~> ~TearingDown)

(* The event under way ends whatever the servers do, and the teardowns it left
   behind end when they answer. *)
EventsEnd == UINeverWaits /\ TeardownEnds
=============================================================================
