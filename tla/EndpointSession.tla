--------------------------- MODULE EndpointSession ---------------------------
(***************************************************************************)
(* What an endpoint promises to the dock, without threads, encoders,       *)
(* canvases or teardown: the state it shows (core/OutputState.hpp) and     *)
(* what its output does, as far as the controller still listens to it.     *)
(* OutputController implements this module.                                *)
(***************************************************************************)
VARIABLES
    state,   \* what OutputController::state() returns
    air      \* "off", "trying" (connecting) or "on"

vars == <<state, air>>

Init == state = "Idle" /\ air = "off"

(* start(), when nothing runs. *)
Start == state \in {"Idle", "FailedHard"} /\ state' = "Starting" /\ UNCHANGED air

(* obs_output_start(): the first start of the session, or a reconnect. *)
Try == state \in {"Starting", "Reconnecting"} /\ air = "off" /\ air' = "trying" /\ UNCHANGED state

GoLive == air = "trying" /\ air' = "on" /\ state' = "Live"

(* The connection is refused or breaks; the state says so a moment later. *)
Lose == air # "off" /\ air' = "off" /\ UNCHANGED state

Reconnect == state \in {"Starting", "Live", "Reconnecting"} /\ air = "off"
             /\ state' = "Reconnecting" /\ UNCHANGED air

FailHard == state # "Idle" /\ air = "off" /\ state' = "FailedHard" /\ UNCHANGED air

(* stop(), a removed canvas, the teardown, or an output that ended by itself. *)
BecomeIdle == state' = "Idle" /\ air' = "off"

Next == Start \/ Try \/ GoLive \/ Lose \/ Reconnect \/ FailHard \/ BecomeIdle

Spec == Init /\ [][Next]_vars

(* Nobody waits for ever in a state that only announces progress, and a lost
   connection does not stay hidden behind Live. *)
Transient == state \in {"Starting", "Reconnecting"} \/ (state = "Live" /\ air = "off")

Progress == Transient ~> ~Transient

FairSpec == Spec /\ Progress
=============================================================================
