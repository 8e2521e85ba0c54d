----------------------------- MODULE HealthMonitor -----------------------------
(***************************************************************************)
(* pipeline/HealthSampler.cpp and pipeline/AlertMonitor.cpp.  The sampler's *)
(* thread reads the endpoint list, then the state of each controller, then *)
(* its counters, and publishes a snapshot; AlertMonitor, on a timer of the *)
(* UI thread, feeds the snapshots to AlertPolicy and reports the edges.    *)
(* The registry and the outputs change between any two of these steps.     *)
(* Bytes and frames of an output are one counter, and what it counts is    *)
(* chosen when it is read: anything not below what was read before in the  *)
(* same connection.  Left out: names, uptime, error texts, the reconnect   *)
(* count (always 0) and the alert sound (Windows only).                    *)
(***************************************************************************)
EXTENDS AlertPolicy, FiniteSets, SequencesExt

CONSTANTS
    Endpoints, None,
    Target,        \* target bitrate: units to send per poll
    Rolling,       \* ROLLING_SAMPLES
    Modulus,       \* 2^64, the range of a byte counter
    MaxSent,       \* bound: units sent in a connection
    MaxDropped     \* bound: units dropped in a connection

ASSUME MonitorConstants ==
    /\ None \notin Endpoints
    /\ {Target, Rolling, MaxSent, MaxDropped} \subseteq Nat /\ Rolling > 0
    /\ Modulus \in Nat /\ Modulus > MaxSent

VARIABLES
    registered,    \* per endpoint: "new", "on" (enabled), "off" (disabled), "removed"
    output,        \* per endpoint: the controller's state and its obs_output_t
    poll,          \* where HealthSampler's thread is
    bitrate,       \* m_bitrate_state: last_bytes and the rolling samples
    snapshots,     \* m_snapshots
    policy,        \* m_policy's m_endpoints
    told           \* history: the alerts a websocket client was told of and not told the end
                   \* of, with the ticks since

sampler == <<poll, bitrate, snapshots>>
monitor == <<policy, told>>
vars == <<registered, output, sampler, monitor>>

\* fresh: it has connected, and counts from zero, since its counters were read last.
Silent == [state |-> "Idle", active |-> FALSE, fresh |-> FALSE]
Registered == {e \in Endpoints : registered[e] \in {"on", "off"}}
Sum(s) == FoldSeq(LAMBDA x, y : x + y, 0, s)
NoRate == [sum |-> 0, n |-> 0]

Init ==
    /\ registered = [e \in Endpoints |-> "new"]
    /\ output = [e \in Endpoints |-> Silent]
    /\ poll = [todo |-> <<>>, state |-> None]
    /\ bitrate = [e \in {} |-> 0] /\ snapshots = [e \in {} |-> 0]
    /\ policy = [e \in {} |-> 0] /\ told = [a \in {} |-> 0]

-------------------------------------------------------------------------------
(* What the sampler watches: the registry and the outputs.                 *)

\* EndpointRegistry::add, and the toggle; a disabled or removed endpoint is stopped.
Register(e, to) ==
    /\ \/ registered[e] = "new" /\ to = "on"
       \/ registered[e] = "on" /\ to \in {"off", "removed"}
       \/ registered[e] = "off" /\ to \in {"on", "removed"}
    /\ registered' = [registered EXCEPT ![e] = to]
    /\ output' = [output EXCEPT ![e] = IF to = "on" THEN @ ELSE Silent]
    /\ UNCHANGED <<sampler, monitor>>

\* OutputController::start and stop.
StartOutput(e) ==
    /\ registered[e] = "on" /\ output[e].state \in {"Idle", "FailedHard"}
    /\ output' = [output EXCEPT ![e] = [Silent EXCEPT !.state = "Starting"]]
    /\ UNCHANGED <<registered, sampler, monitor>>

StopOutput(e) ==
    /\ output[e].state # "Idle"
    /\ output' = [output EXCEPT ![e] = Silent]
    /\ UNCHANGED <<registered, sampler, monitor>>

\* libobs: the output connects and counts from zero.
Connect(e) ==
    /\ output[e].state \in {"Starting", "Reconnecting"} /\ ~output[e].active
    /\ output' = [output EXCEPT ![e].active = TRUE, ![e].fresh = TRUE]
    /\ UNCHANGED <<registered, sampler, monitor>>

\* The "start" signal; the "stop" signal, which fires before the output goes inactive.
GoLive(e) ==
    /\ output[e].state \in {"Starting", "Reconnecting"} /\ output[e].active
    /\ output' = [output EXCEPT ![e].state = "Live"]
    /\ UNCHANGED <<registered, sampler, monitor>>

LoseOutput(e, state) ==
    /\ output[e].state \in {"Starting", "Live", "Reconnecting"} \ {state}
    /\ output' = [output EXCEPT ![e].state = state]
    /\ UNCHANGED <<registered, sampler, monitor>>

Deactivate(e) ==
    /\ output[e].active /\ output[e].state \in {"Reconnecting", "FailedHard"}
    /\ output' = [output EXCEPT ![e].active = FALSE, ![e].fresh = FALSE]
    /\ UNCHANGED <<registered, sampler, monitor>>

-------------------------------------------------------------------------------
(* HealthSampler::poll_loop on its thread.                                 *)

With(f, e, v) == [x \in {e} \cup DOMAIN f |-> IF x = e THEN v ELSE f[x]]
Without(f, e) == [x \in DOMAIN f \ {e} |-> f[x]]

WriteInactive(e, state) ==
    /\ snapshots' = With(snapshots, e, [state |-> state, rate |-> NoRate, dropped |-> 0, frames |-> 0])
    /\ bitrate' = Without(bitrate, e)

\* m_registry.all(): a copy of the list, each with its enabled flag.
PollBegin ==
    /\ poll.todo = <<>>
    /\ poll' = [poll EXCEPT !.todo =
           [i \in 1..Cardinality(Registered) |->
              LET e == SetToSeq(Registered)[i] IN [id |-> e, enabled |-> registered[e] = "on"]]]
    /\ UNCHANGED <<registered, output, bitrate, snapshots, monitor>>

PollDisabled ==
    /\ poll.todo # <<>> /\ ~Head(poll.todo).enabled
    /\ WriteInactive(Head(poll.todo).id, "Idle")
    /\ poll' = [poll EXCEPT !.todo = Tail(@)]
    /\ UNCHANGED <<registered, output, monitor>>

\* controller_for() and state(): the controller stays alive for this sample.
PollState ==
    /\ poll.todo # <<>> /\ Head(poll.todo).enabled /\ poll.state = None
    /\ LET e == Head(poll.todo).id
           state == output[e].state
       IN IF state \in {"Idle", "FailedHard"}
          THEN WriteInactive(e, state) /\ poll' = [poll EXCEPT !.todo = Tail(@)]
          ELSE poll' = [poll EXCEPT !.state = state] /\ UNCHANGED <<snapshots, bitrate>>
    /\ UNCHANGED <<registered, output, monitor>>

\* The rolling samples after one more poll; last_bytes = 0 is "no poll yet".
Rolled(e, total) ==
    LET b == IF e \in DOMAIN bitrate THEN bitrate[e] ELSE [last |-> 0, samples |-> <<>>]
        more == IF b.last = 0 THEN b.samples
                ELSE Append(b.samples, (total - b.last) % Modulus)
    IN [last |-> total,
        samples |-> IF Len(more) > Rolling THEN Tail(more) ELSE more]

\* What sample() may read of an active output.
Counters(e) ==
    LET read == IF output[e].fresh \/ e \notin DOMAIN snapshots
                THEN [dropped |-> 0, frames |-> 0] ELSE snapshots[e]
    IN {c \in [dropped : read.dropped..MaxDropped, frames : read.frames..MaxSent] :
            c.dropped <= c.frames}

\* State and counters are read in two critical sections.
PollSample ==
    /\ poll.state # None
    /\ LET e == Head(poll.todo).id
       IN IF ~output[e].active
          THEN WriteInactive(e, poll.state) /\ UNCHANGED output
          ELSE \E c \in Counters(e) :
                 LET rolled == Rolled(e, c.frames)
                     rate == [sum |-> Sum(rolled.samples), n |-> Len(rolled.samples)]
                 IN /\ bitrate' = With(bitrate, e, rolled)
                    /\ snapshots' = With(snapshots, e, [state |-> poll.state, rate |-> rate,
                                                        dropped |-> c.dropped, frames |-> c.frames])
                    /\ output' = [output EXCEPT ![e].fresh = FALSE]
    /\ poll' = [todo |-> Tail(poll.todo), state |-> None]
    /\ UNCHANGED <<registered, monitor>>

-------------------------------------------------------------------------------
(* AlertMonitor on the UI thread.                                          *)

\* What the policy returns for one endpoint of the list at a tick.
Fed(e) ==
    LET s == snapshots[e]
        ep == IF e \in DOMAIN policy THEN Aged(policy[e]) ELSE FreshEndpoint
    IN Update(ep, [state |-> s.state, target |-> Target, rate |-> s.rate,
                   dropped |-> s.dropped, frames |-> s.frames])

\* Mutant: a removed endpoint is dropped without an edge.
Dropped_Silent(e) == [ep |-> FreshEndpoint, out |-> <<>>]

\* retain_only(): an endpoint that left the list is dropped, its alerts are cleared edges.
Dropped(e) == ClearAll([ep |-> policy[e], out |-> <<>>])

\* The last edge of a reason is the one that counts.
Says(out, r, raised) ==
    \E i \in DOMAIN out : /\ out[i] = [raised |-> raised, reason |-> r]
                          /\ \A j \in i + 1..Len(out) : out[j].reason # r

\* handle(): what a client knows after the edges of a tick.
Tell(knows, edges) ==
    LET about(raised) == {a \in (DOMAIN edges) \X Reasons : Says(edges[a[1]], a[2], raised)}
    IN [a \in (DOMAIN knows \ about(FALSE)) \cup about(TRUE) |->
           IF a \in about(TRUE) THEN 0 ELSE knows[a]]

\* The client's clock, which need not run past ClearHold.
Longer(knows) == [a \in DOMAIN knows |-> IF knows[a] < ClearHold THEN knows[a] + 1 ELSE ClearHold]

OnTick ==
    /\ LET fed == [e \in Registered \cap DOMAIN snapshots |-> Fed(e)]
           kept == [e \in (Registered \ DOMAIN snapshots) \cap DOMAIN policy |-> policy[e]]
           gone == [e \in DOMAIN policy \ Registered |-> Dropped(e)]
           edges == [e \in DOMAIN fed \cup DOMAIN gone |->
                       IF e \in DOMAIN fed THEN fed[e].out ELSE gone[e].out]
       IN /\ policy' = [e \in DOMAIN fed \cup DOMAIN kept |->
                           IF e \in DOMAIN fed THEN fed[e].ep ELSE kept[e]]
          /\ told' = Tell(Longer(told), edges)
    /\ UNCHANGED <<registered, output, sampler>>

Poll == PollBegin \/ PollDisabled \/ PollState \/ PollSample

Next ==
    \/ Poll \/ OnTick
    \/ \E e \in Endpoints :
          \/ \E to \in {"on", "off", "removed"} : Register(e, to)
          \/ StartOutput(e) \/ StopOutput(e) \/ Connect(e) \/ GoLive(e) \/ Deactivate(e)
          \/ \E state \in {"Reconnecting", "FailedHard"} : LoseOutput(e, state)

Spec == Init /\ [][Next]_vars

-------------------------------------------------------------------------------

\* What AlertMonitor tells: a client that got every event knows exactly the alerts the policy
\* holds, also of endpoints that were disabled, failed or removed from the list meanwhile
\* (handle() and retain_only() return every edge once).
ToldIsActive ==
    DOMAIN told = {a \in Endpoints \X Reasons :
                      a[1] \in DOMAIN policy /\ a[2] \in policy[a[1]].active}

\* clear_hold_ms: no alert ends before it lasted ClearHold ticks, however the counters and the
\* state hover, unless the endpoint was stopped or removed, or a lost connection became a failure.
NoFlap ==
    [][\A a \in DOMAIN told \ DOMAIN told' :
          \/ told[a] >= ClearHold
          \/ registered[a[1]] = "removed" \/ snapshots[a[1]].state = "Idle"
          \/ a[2] = "reconnecting" /\ <<a[1], "failed">> \in DOMAIN told']_vars

\* "so a delta is never negative" (AlertPolicy.cpp:139): the window of the drop ratio never spans
\* two sessions whose counters went backwards, whatever a poll missed in between.
WindowIsMonotone ==
    \A e \in DOMAIN policy : \A i, j \in DOMAIN policy[e].window : i < j =>
        /\ policy[e].window[i].dropped <= policy[e].window[j].dropped
        /\ policy[e].window[i].frames <= policy[e].window[j].frames
================================================================================
