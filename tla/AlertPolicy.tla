------------------------------ MODULE AlertPolicy ------------------------------
(***************************************************************************)
(* core/AlertPolicy.cpp: the live-health alert rules, which have no clock  *)
(* of their own.  Times are counted in ticks of AlertMonitor's timer; a    *)
(* time stamp of the code (live_since, low_since, false_since, the t of a  *)
(* sample) is here the ticks that have passed since, Never for -1, and     *)
(* stops at MaxAge, beyond which no rule tells two ages apart.             *)
(***************************************************************************)
EXTENDS Integers, Sequences

CONSTANTS
    DropWindow, DropPercent, MinDrops,   \* drop_window_ms, drop_ratio, drop_min_frames
    LowHold, LowPercent,                 \* low_bitrate_hold_ms, low_bitrate_fraction
    Grace, ClearHold                     \* startup_grace_ms, clear_hold_ms

ASSUME AlertThresholds ==
    /\ {DropWindow, DropPercent, MinDrops, LowHold, LowPercent, Grace} \subseteq Nat
    /\ ClearHold \in Nat \ {0}

Reasons == {"reconnecting", "failed", "dropped", "low_bitrate"}
Never == -1
MaxAge == CHOOSE m \in {DropWindow, LowHold, Grace, ClearHold} :
             \A n \in {DropWindow, LowHold, Grace, ClearHold} : n <= m

\* What the policy keeps of an endpoint.
FreshEndpoint ==
    [live |-> Never, low |-> Never, window |-> <<>>, active |-> {},
     false |-> [r \in Reasons |-> Never]]

Older(age) == IF age = Never THEN Never ELSE IF age < MaxAge THEN age + 1 ELSE MaxAge

\* One tick passes.
Aged(ep) ==
    [ep EXCEPT !.live = Older(ep.live), !.low = Older(ep.low),
               !.window = [i \in DOMAIN ep.window |-> [ep.window[i] EXCEPT !.age = Older(@)]],
               !.false = [r \in Reasons |-> Older(ep.false[r])]]

(***************************************************************************)
(* A raise or a clear changes the endpoint and adds an edge to the list    *)
(* that is returned: c is [ep, out].                                       *)
(***************************************************************************)
Raise(c, r) ==
    IF r \in c.ep.active THEN c
    ELSE [ep |-> [c.ep EXCEPT !.active = @ \cup {r}, !.false[r] = Never],
          out |-> Append(c.out, [raised |-> TRUE, reason |-> r])]

Clear(c, r) ==
    IF r \notin c.ep.active THEN c
    ELSE [ep |-> [c.ep EXCEPT !.active = @ \ {r}, !.false[r] = Never],
          out |-> Append(c.out, [raised |-> FALSE, reason |-> r])]

ClearAll(c) == Clear(Clear(Clear(Clear(c, "reconnecting"), "failed"), "dropped"), "low_bitrate")

\* Mutant: the condition is not held.
HoldClear_AtOnce(c, r, condition) ==
    IF r \notin c.ep.active \/ condition THEN c ELSE Clear(c, r)

\* A raised alert clears only after its condition was false for ClearHold in a row.
HoldClear(c, r, condition) ==
    LET since == IF condition THEN Never
                 ELSE IF c.ep.false[r] = Never THEN 0 ELSE c.ep.false[r]
        held == [c EXCEPT !.ep.false[r] = since]
    IN IF r \notin c.ep.active THEN c
       ELSE IF since >= ClearHold THEN Clear(held, r) ELSE held

\* A condition with hysteresis: raised at once when `when`, cleared by HoldClear.
RaiseOrHold(c, r, when, condition) ==
    IF r \in c.ep.active THEN HoldClear(c, r, condition)
    ELSE IF when THEN Raise(c, r) ELSE c

StateAlerts(c, state) ==
    CASE state = "Reconnecting" -> Raise(c, "reconnecting")
      [] state = "FailedHard"   -> Raise(Clear(c, "reconnecting"), "failed")
      [] state = "Live" /\ c.ep.live >= ClearHold -> Clear(Clear(c, "reconnecting"), "failed")
      [] OTHER -> c

\* The newest sample that has left the window is kept as its start, older ones are erased.
Trimmed(w) ==
    LET front == CHOOSE i \in DOMAIN w : /\ i = 1 \/ w[i].age >= DropWindow
                                         /\ \A j \in i + 1..Len(w) : w[j].age < DropWindow
    IN SubSeq(w, front, Len(w))

\* Mutant: a new session does not restart the window.
Sampled_NoRestart(w, in) ==
    Trimmed(Append(w, [age |-> 0, dropped |-> in.dropped, frames |-> in.frames]))

\* A counter that went backwards is a new session: the window starts again.
Sampled(w, in) ==
    LET last == w[Len(w)]
        restarted == w # <<>> /\ (in.dropped < last.dropped \/ in.frames < last.frames)
    IN Trimmed(Append(IF restarted THEN <<>> ELSE w,
                      [age |-> 0, dropped |-> in.dropped, frames |-> in.frames]))

TooManyDrops(w) ==
    LET dd == w[Len(w)].dropped - w[1].dropped
        df == w[Len(w)].frames - w[1].frames
    IN Len(w) >= 2 /\ df > 0 /\ dd >= MinDrops /\ 100 * dd >= DropPercent * df

\* The rate of an input is the average of `n` samples that add up to `sum`.
TooSlow(in) ==
    in.target > 0 /\ (in.rate.n = 0 \/ 100 * in.rate.sum < LowPercent * in.target * in.rate.n)

(***************************************************************************)
(* AlertPolicy::update(): the endpoint after the tick, and the edges.      *)
(***************************************************************************)
UpdateIdle(ep) ==
    LET c == ClearAll([ep |-> ep, out |-> <<>>])
    IN [c EXCEPT !.ep = [c.ep EXCEPT !.live = Never, !.low = Never, !.window = <<>>]]

UpdateRunning(ep, in) ==
    LET live == in.state = "Live"
        tracked == IF live THEN [ep EXCEPT !.live = IF @ = Never THEN 0 ELSE @]
                   ELSE [ep EXCEPT !.live = Never, !.low = Never, !.window = <<>>]
        stated == StateAlerts([ep |-> tracked, out |-> <<>>], in.state)
        checked == live /\ tracked.live >= Grace
        window == IF checked /\ in.frames > 0 THEN Sampled(tracked.window, in) ELSE <<>>
        drops == window # <<>> /\ TooManyDrops(window)
        dropped == RaiseOrHold([stated EXCEPT !.ep.window = window], "dropped", drops, drops)
        slow == checked /\ TooSlow(in)
        low == IF ~slow THEN Never ELSE IF tracked.low = Never THEN 0 ELSE tracked.low
    IN RaiseOrHold([dropped EXCEPT !.ep.low = low], "low_bitrate", slow /\ low >= LowHold, slow)

Update(ep, in) == IF in.state = "Idle" THEN UpdateIdle(ep) ELSE UpdateRunning(ep, in)
================================================================================
