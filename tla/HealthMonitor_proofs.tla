-------------------------- MODULE HealthMonitor_proofs --------------------------
(***************************************************************************)
(* What AlertMonitor tells its clients, for any endpoints, thresholds and  *)
(* counters: they know exactly the active alerts, no alert flaps, and no   *)
(* drop ratio is made of counters of two sessions.                         *)
(*                                                                         *)
(* The first part says what a tick does to each alert of an endpoint (its  *)
(* Fate), the second what the steps between two ticks keep.                *)
(***************************************************************************)
EXTENDS HealthMonitor, SequenceTheorems, WellFoundedInduction, TLAPS

USE DEF Never

Ages == {n \in Int : n >= Never}
Sample == [age : Ages, dropped : Nat, frames : Nat]
EndpointType ==
    [live : Ages, low : Ages, window : Seq(Sample), active : SUBSET Reasons, false : [Reasons -> Ages]]
EdgeType == [raised : BOOLEAN, reason : Reasons]
Pair == [ep : EndpointType, out : Seq(EdgeType)]

(* Counters that never go backwards. *)
Monotone(w) ==
    \A i, j \in DOMAIN w : i < j => w[i].dropped <= w[j].dropped /\ w[i].frames <= w[j].frames

(* The alerts that depend on the state only, and end at once when an endpoint is steadily live. *)
OfState == {"reconnecting", "failed"}

(* What a tick does to alert r of ep: it stays as it is, starts, or ends for one of the reasons
   a client may expect. *)
Stays(ep, c, r) ==
    /\ r \in c.ep.active <=> r \in ep.active
    /\ c.ep.false[r] \in {Never, 0, ep.false[r]}
    /\ \A v \in BOOLEAN : ~Says(c.out, r, v)

Starts(ep, c, r, state) ==
    /\ r \notin ep.active /\ r \in c.ep.active /\ c.ep.false[r] = Never
    /\ Says(c.out, r, TRUE) /\ ~Says(c.out, r, FALSE)
    /\ r \in OfState => state # "Live"

Ends(ep, c, r, state) ==
    /\ r \in ep.active /\ r \notin c.ep.active
    /\ Says(c.out, r, FALSE) /\ ~Says(c.out, r, TRUE)
    /\ \/ ep.false[r] >= ClearHold
       \/ r \in OfState /\ ep.live >= ClearHold
       \/ r = "reconnecting" /\ "failed" \in c.ep.active
       \/ state = "Idle"

Fate(ep, c, r, state) == Stays(ep, c, r) \/ Starts(ep, c, r, state) \/ Ends(ep, c, r, state)

(* From c to d nothing of alert r changes, nor of the rest of the endpoint. *)
Same(c, d, r) ==
    /\ r \in c.ep.active <=> r \in d.ep.active
    /\ c.ep.false[r] = d.ep.false[r]
    /\ \A v \in BOOLEAN : Says(c.out, r, v) <=> Says(d.out, r, v)

Frame(c, d) ==
    /\ d \in Pair
    /\ d.ep.live = c.ep.live /\ d.ep.low = c.ep.low /\ d.ep.window = c.ep.window

-----------------------------------------------------------------------------
(* Raise and Clear.                                                        *)

LEMMA SaysAppend ==
    ASSUME NEW out \in Seq(EdgeType), NEW r \in Reasons, NEW b \in BOOLEAN
    PROVE  LET o == Append(out, [raised |-> b, reason |-> r]) IN
           /\ o \in Seq(EdgeType)
           /\ \A s \in Reasons, v \in BOOLEAN :
                 Says(o, s, v) <=> IF s = r THEN v = b ELSE Says(out, s, v)
<1> DEFINE edge == [raised |-> b, reason |-> r]
           o == Append(out, edge)
           n == Len(out)
<1>1. /\ edge \in EdgeType /\ o \in Seq(EdgeType) /\ n \in Nat
      /\ Len(o) = n + 1 /\ DOMAIN o = 1..(n + 1) /\ DOMAIN out = 1..n /\ o[n + 1] = edge
      /\ \A i \in 1..n : o[i] = out[i]
  BY DEF EdgeType
<1>2. edge.reason = r /\ edge.raised = b
  OBVIOUS
<1> HIDE DEF edge, o, n
<1>3. ASSUME NEW s \in Reasons, NEW v \in BOOLEAN, s # r
      PROVE  Says(o, s, v) <=> Says(out, s, v)
  <2>1. ASSUME Says(out, s, v) PROVE Says(o, s, v)
    <3>1. PICK i \in 1..n : /\ out[i] = [raised |-> v, reason |-> s]
                            /\ \A j \in i + 1..n : out[j].reason # s
      BY <1>1, <2>1 DEF Says, n
    <3>2. \A j \in i + 1..n + 1 : o[j].reason # s
      BY <1>1, <1>2, <1>3, <3>1
    <3> QED BY <1>1, <3>1, <3>2 DEF Says
  <2>2. ASSUME Says(o, s, v) PROVE Says(out, s, v)
    <3>1. PICK i \in 1..(n + 1) : /\ o[i] = [raised |-> v, reason |-> s]
                                  /\ \A j \in i + 1..n + 1 : o[j].reason # s
      BY <1>1, <2>2 DEF Says
    <3>2. i # n + 1
      BY <1>1, <1>2, <1>3, <3>1
    <3>3. i \in 1..n /\ \A j \in i + 1..n : out[j].reason # s
      BY <1>1, <3>1, <3>2
    <3> QED BY <1>1, <3>1, <3>3 DEF Says, n
  <2> QED BY <2>1, <2>2
<1>4. ASSUME NEW v \in BOOLEAN PROVE Says(o, r, v) <=> v = b
  <2>1. ASSUME v = b PROVE Says(o, r, v)
    <3>1. \A j \in (n + 1) + 1..n + 1 : FALSE
      BY <1>1
    <3> QED BY <1>1, <2>1, <3>1 DEF Says, edge
  <2>2. ASSUME Says(o, r, v) PROVE v = b
    <3>1. PICK i \in 1..(n + 1) : /\ o[i] = [raised |-> v, reason |-> r]
                                  /\ \A j \in i + 1..n + 1 : o[j].reason # r
      BY <1>1, <2>2 DEF Says
    <3>2. i = n + 1
      BY <1>1, <1>2, <3>1
    <3>3. o[n + 1].raised = v
      BY <3>1, <3>2
    <3> QED BY <1>1, <1>2, <3>3
  <2> QED BY <2>1, <2>2
<1> QED BY <1>1, <1>3, <1>4 DEF o, edge

LEMMA SaysNothing == \A r, v : ~Says(<<>>, r, v)
BY DEF Says

(* What both do to the endpoint. *)
Marked(ep, r, A) == [ep EXCEPT !.active = A, !.false[r] = Never]

LEMMA MarkedDoes ==
    ASSUME NEW ep \in EndpointType, NEW r \in Reasons, NEW A \in SUBSET Reasons
    PROVE  LET e == Marked(ep, r, A) IN
           /\ e \in EndpointType /\ e.live = ep.live /\ e.low = ep.low /\ e.window = ep.window
           /\ e.active = A /\ e.false[r] = Never
           /\ \A s \in Reasons \ {r} : e.false[s] = ep.false[s]
<1> DEFINE f == [ep.false EXCEPT ![r] = Never]
<1>1. Marked(ep, r, A) = [ep EXCEPT !.active = A, !.false = f]
  BY DEF Marked
<1>2. f \in [Reasons -> Ages] /\ f[r] = Never /\ \A s \in Reasons \ {r} : f[s] = ep.false[s]
  BY DEF EndpointType, Ages
<1> HIDE DEF f
<1> QED BY <1>1, <1>2 DEF EndpointType

LEMMA RaiseDoes ==
    ASSUME NEW c \in Pair, NEW r \in Reasons
    PROVE  LET d == Raise(c, r) IN
           /\ Frame(c, d) /\ \A s \in Reasons \ {r} : Same(c, d, s)
           /\ r \in c.ep.active => d = c
           /\ r \notin c.ep.active => /\ r \in d.ep.active /\ d.ep.false[r] = Never
                                      /\ Says(d.out, r, TRUE) /\ ~Says(d.out, r, FALSE)
<1>1. CASE r \in c.ep.active
  BY <1>1 DEF Raise, Frame, Same
<1>2. CASE r \notin c.ep.active
  <2> DEFINE o == Append(c.out, [raised |-> TRUE, reason |-> r])
             e == Marked(c.ep, r, c.ep.active \cup {r})
  <2>1. Raise(c, r) = [ep |-> e, out |-> o]
    BY <1>2 DEF Raise, Marked
  <2>2. c.ep \in EndpointType /\ c.out \in Seq(EdgeType)
    BY DEF Pair
  <2>3. /\ e \in EndpointType /\ e.live = c.ep.live /\ e.low = c.ep.low /\ e.window = c.ep.window
        /\ e.active = c.ep.active \cup {r}
        /\ e.false[r] = Never /\ \A s \in Reasons \ {r} : e.false[s] = c.ep.false[s]
    <3>1. c.ep.active \cup {r} \in SUBSET Reasons
      BY <2>2 DEF EndpointType
    <3> QED BY <2>2, <3>1, MarkedDoes
  <2>4. /\ o \in Seq(EdgeType)
        /\ \A s \in Reasons, v \in BOOLEAN :
              Says(o, s, v) <=> IF s = r THEN v = TRUE ELSE Says(c.out, s, v)
    BY <2>2, SaysAppend
  <2> HIDE DEF o, e
  <2>5. Says(o, r, TRUE) /\ ~Says(o, r, FALSE)
    BY <2>4
  <2>6. [ep |-> e, out |-> o] \in Pair
    BY <2>3, <2>4 DEF Pair
  <2>7. Frame(c, Raise(c, r))
    BY <2>1, <2>3, <2>6 DEF Frame
  <2>8. \A s \in Reasons \ {r} : Same(c, Raise(c, r), s)
    BY <2>1, <2>3, <2>4 DEF Same
  <2>9. Raise(c, r).ep = e /\ Raise(c, r).out = o
    BY <2>1
  <2>10. r \in e.active
    BY <2>3
  <2> QED BY <1>2, <2>3, <2>5, <2>7, <2>8, <2>9, <2>10
<1> QED BY <1>1, <1>2

LEMMA ClearDoes ==
    ASSUME NEW c \in Pair, NEW r \in Reasons
    PROVE  LET d == Clear(c, r) IN
           /\ Frame(c, d) /\ \A s \in Reasons \ {r} : Same(c, d, s)
           /\ r \notin d.ep.active
           /\ r \notin c.ep.active => d = c
           /\ r \in c.ep.active => Says(d.out, r, FALSE) /\ ~Says(d.out, r, TRUE)
<1>1. CASE r \notin c.ep.active
  BY <1>1 DEF Clear, Frame, Same
<1>2. CASE r \in c.ep.active
  <2> DEFINE o == Append(c.out, [raised |-> FALSE, reason |-> r])
             e == Marked(c.ep, r, c.ep.active \ {r})
  <2>1. Clear(c, r) = [ep |-> e, out |-> o]
    BY <1>2 DEF Clear, Marked
  <2>2. c.ep \in EndpointType /\ c.out \in Seq(EdgeType)
    BY DEF Pair
  <2>3. /\ e \in EndpointType /\ e.live = c.ep.live /\ e.low = c.ep.low /\ e.window = c.ep.window
        /\ e.active = c.ep.active \ {r}
        /\ \A s \in Reasons \ {r} : e.false[s] = c.ep.false[s]
    <3>1. c.ep.active \ {r} \in SUBSET Reasons
      BY <2>2 DEF EndpointType
    <3> QED BY <2>2, <3>1, MarkedDoes
  <2>4. /\ o \in Seq(EdgeType)
        /\ \A s \in Reasons, v \in BOOLEAN :
              Says(o, s, v) <=> IF s = r THEN v = FALSE ELSE Says(c.out, s, v)
    BY <2>2, SaysAppend
  <2> HIDE DEF o, e
  <2>5. Says(o, r, FALSE) /\ ~Says(o, r, TRUE)
    BY <2>4
  <2>6. [ep |-> e, out |-> o] \in Pair
    BY <2>3, <2>4 DEF Pair
  <2>7. Frame(c, Clear(c, r))
    BY <2>1, <2>3, <2>6 DEF Frame
  <2>8. \A s \in Reasons \ {r} : Same(c, Clear(c, r), s)
    BY <2>1, <2>3, <2>4 DEF Same
  <2>9. Clear(c, r).ep = e /\ Clear(c, r).out = o
    BY <2>1
  <2>10. r \notin e.active
    BY <2>3
  <2> QED BY <1>2, <2>3, <2>5, <2>7, <2>8, <2>9, <2>10
<1> QED BY <1>1, <1>2

-----------------------------------------------------------------------------
(* The rules.                                                              *)

Quiet(c, r) == \A v \in BOOLEAN : ~Says(c.out, r, v)

LEMMA Thresholds ==
    /\ ClearHold \in Nat /\ ClearHold >= 1
    /\ DropWindow \in Nat /\ LowHold \in Nat /\ Grace \in Nat
BY AlertThresholds

LEMMA SameHolds == ASSUME NEW c \in Pair PROVE Frame(c, c) /\ \A r \in Reasons : Same(c, c, r)
BY DEF Frame, Same

LEMMA SameTwice ==
    ASSUME NEW c, NEW d, NEW e, NEW r, Same(c, d, r), Same(d, e, r)
    PROVE  Same(c, e, r)
BY DEF Same

LEMMA FrameTwice == ASSUME NEW c, NEW d, NEW e, Frame(c, d), Frame(d, e) PROVE Frame(c, e)
BY DEF Frame

(* What happened to an alert is not changed by what leaves it alone. *)
LEMMA FateStays ==
    ASSUME NEW ep, NEW c, NEW d, NEW r, NEW state,
           Fate(ep, c, r, state), Same(c, d, r), Same(c, d, "failed")
    PROVE  Fate(ep, d, r, state)
<1>1. CASE Stays(ep, c, r)
  BY <1>1 DEF Stays, Same, Fate
<1>2. CASE Starts(ep, c, r, state)
  BY <1>2 DEF Starts, Same, Fate
<1>3. CASE Ends(ep, c, r, state)
  BY <1>3 DEF Ends, Same, Fate
<1> QED BY <1>1, <1>2, <1>3 DEF Fate

(* The condition of an alert is noted. *)
Timed(c, r, since) == [c EXCEPT !.ep.false[r] = since]

LEMMA TimedDoes ==
    ASSUME NEW c \in Pair, NEW r \in Reasons, NEW since \in Ages
    PROVE  LET d == Timed(c, r, since) IN
           /\ Frame(c, d) /\ \A s \in Reasons \ {r} : Same(c, d, s)
           /\ d.ep.active = c.ep.active /\ d.out = c.out /\ d.ep.false[r] = since
<1> DEFINE f == [c.ep.false EXCEPT ![r] = since]
           e == [c.ep EXCEPT !.false = f]
<1>1. c.ep \in EndpointType /\ c.out \in Seq(EdgeType) /\ c = [ep |-> c.ep, out |-> c.out]
  BY DEF Pair
<1>2. Timed(c, r, since) = [ep |-> e, out |-> c.out]
  BY <1>1 DEF Timed
<1>3. f \in [Reasons -> Ages] /\ f[r] = since /\ \A s \in Reasons \ {r} : f[s] = c.ep.false[s]
  BY <1>1 DEF EndpointType
<1> HIDE DEF f
<1>4. /\ e \in EndpointType /\ e.live = c.ep.live /\ e.low = c.ep.low /\ e.window = c.ep.window
      /\ e.active = c.ep.active /\ e.false = f
  BY <1>1, <1>3 DEF EndpointType
<1> HIDE DEF e
<1>5. Timed(c, r, since) \in Pair
  BY <1>1, <1>2, <1>4 DEF Pair
<1>6. Timed(c, r, since).ep = e /\ Timed(c, r, since).out = c.out
  BY <1>2
<1> QED BY <1>3, <1>4, <1>5, <1>6 DEF Frame, Same

LEMMA HoldClearDoes ==
    ASSUME NEW c \in Pair, NEW r \in Reasons, NEW condition, NEW state,
           r \in c.ep.active, Quiet(c, r)
    PROVE  LET d == HoldClear(c, r, condition) IN
           /\ Frame(c, d) /\ \A s \in Reasons \ {r} : Same(c, d, s)
           /\ Fate(c.ep, d, r, state)
<1> DEFINE since == IF condition THEN Never
                    ELSE IF c.ep.false[r] = Never THEN 0 ELSE c.ep.false[r]
           held == Timed(c, r, since)
           d == HoldClear(c, r, condition)
<1>1. since \in Ages /\ since \in {Never, 0, c.ep.false[r]}
  BY DEF Pair, EndpointType, Ages
<1>2. d = IF since >= ClearHold THEN Clear(held, r) ELSE held
  BY DEF HoldClear, Timed
<1> HIDE DEF since
<1>3. /\ Frame(c, held) /\ \A s \in Reasons \ {r} : Same(c, held, s)
      /\ held.ep.active = c.ep.active /\ held.out = c.out /\ held.ep.false[r] = since
  BY <1>1, TimedDoes
<1>4. held \in Pair
  BY <1>3 DEF Frame
<1> HIDE DEF held, d
<1>5. CASE since >= ClearHold
  <2>1. d = Clear(held, r)
    BY <1>2, <1>5
  <2>2. /\ Frame(held, d) /\ \A s \in Reasons \ {r} : Same(held, d, s)
        /\ r \notin d.ep.active /\ Says(d.out, r, FALSE) /\ ~Says(d.out, r, TRUE)
    BY <1>3, <1>4, <2>1, ClearDoes
  <2>3. Frame(c, d)
    BY <1>3, <2>2, FrameTwice
  <2>4. \A s \in Reasons \ {r} : Same(c, d, s)
    BY <1>3, <2>2, SameTwice
  <2>5. c.ep.false[r] >= ClearHold
    BY <1>1, <1>5, Thresholds
  <2> QED BY <2>2, <2>3, <2>4, <2>5 DEF Fate, Ends, d
<1>6. CASE ~(since >= ClearHold)
  <2>1. d = held
    BY <1>2, <1>6
  <2>2. Stays(c.ep, d, r)
    BY <1>1, <1>3, <2>1 DEF Stays, Quiet
  <2> QED BY <1>3, <2>1, <2>2 DEF Fate, d
<1> QED BY <1>5, <1>6

LEMMA RaiseOrHoldDoes ==
    ASSUME NEW c \in Pair, NEW r \in Reasons \ OfState, NEW when, NEW condition, NEW state,
           Quiet(c, r)
    PROVE  LET d == RaiseOrHold(c, r, when, condition) IN
           /\ Frame(c, d) /\ \A s \in Reasons \ {r} : Same(c, d, s)
           /\ Fate(c.ep, d, r, state)
<1>1. CASE r \in c.ep.active
  BY <1>1, HoldClearDoes DEF RaiseOrHold
<1>2. CASE r \notin c.ep.active /\ when
  <2>1. RaiseOrHold(c, r, when, condition) = Raise(c, r)
    BY <1>2 DEF RaiseOrHold
  <2>2. Starts(c.ep, Raise(c, r), r, state)
    BY <1>2, RaiseDoes DEF Starts
  <2>3. Frame(c, Raise(c, r)) /\ \A s \in Reasons \ {r} : Same(c, Raise(c, r), s)
    BY RaiseDoes
  <2>4. Fate(c.ep, Raise(c, r), r, state)
    BY <2>2 DEF Fate
  <2> QED BY <2>1, <2>3, <2>4
<1>3. CASE r \notin c.ep.active /\ ~when
  <2>1. RaiseOrHold(c, r, when, condition) = c
    BY <1>3 DEF RaiseOrHold
  <2>2. Stays(c.ep, c, r)
    BY DEF Stays, Quiet
  <2> QED BY <2>1, <2>2, SameHolds DEF Fate
<1> QED BY <1>1, <1>2, <1>3

(* One alert is cleared at once, for a reason a client may expect. *)
LEMMA ClearFate ==
    ASSUME NEW ep, NEW c \in Pair, NEW r \in Reasons, NEW state, Stays(ep, c, r),
           \/ r \in OfState /\ ep.live >= ClearHold
           \/ state = "Idle"
    PROVE  Fate(ep, Clear(c, r), r, state)
<1>1. CASE r \in c.ep.active
  BY <1>1, ClearDoes DEF Fate, Ends, Stays
<1>2. CASE r \notin c.ep.active
  <2>1. Clear(c, r) = c
    BY <1>2, ClearDoes
  <2> QED BY <2>1 DEF Fate
<1> QED BY <1>1, <1>2

LEMMA StateAlertsDoes ==
    ASSUME NEW c \in Pair, NEW state, \A r \in Reasons : Quiet(c, r)
    PROVE  LET d == StateAlerts(c, state) IN
           /\ Frame(c, d) /\ \A s \in Reasons \ OfState : Same(c, d, s)
           /\ \A r \in OfState : Fate(c.ep, d, r, state)
<1> DEFINE d == StateAlerts(c, state)
<1>1. \A r \in Reasons : Stays(c.ep, c, r)
  BY DEF Stays, Quiet
<1>2. OfState \subseteq Reasons /\ "reconnecting" \in OfState /\ "failed" \in OfState
      /\ \A r \in OfState : r \in {"reconnecting", "failed"}
  BY DEF OfState, Reasons
<1>3. CASE state = "Reconnecting"
  <2>1. d = Raise(c, "reconnecting")
    BY <1>3 DEF StateAlerts
  <2> HIDE DEF d
  <2>2. Frame(c, d) /\ \A s \in Reasons \ {"reconnecting"} : Same(c, d, s)
    BY <2>1, <1>2, RaiseDoes
  <2>3. Fate(c.ep, d, "reconnecting", state)
    <3>1. CASE "reconnecting" \in c.ep.active
      <4>1. d = c
        BY <1>2, <2>1, <3>1, RaiseDoes
      <4> QED BY <1>1, <1>2, <4>1 DEF Fate
    <3>2. CASE "reconnecting" \notin c.ep.active
      <4>1. /\ "reconnecting" \in d.ep.active /\ d.ep.false["reconnecting"] = Never
            /\ Says(d.out, "reconnecting", TRUE) /\ ~Says(d.out, "reconnecting", FALSE)
        BY <1>2, <2>1, <3>2, RaiseDoes
      <4> QED BY <1>3, <3>2, <4>1 DEF Fate, Starts
    <3> QED BY <3>1, <3>2
  <2>4. Same(c, d, "failed") /\ Fate(c.ep, c, "failed", state)
    BY <1>1, <1>2, <2>2 DEF Fate
  <2>5. Fate(c.ep, d, "failed", state)
    BY <2>4, FateStays
  <2> QED BY <1>2, <2>2, <2>3, <2>5 DEF d
<1>4. CASE state = "FailedHard"
  <2> DEFINE e == Clear(c, "reconnecting")
  <2>1. d = Raise(e, "failed")
    BY <1>4 DEF StateAlerts
  <2>2. /\ Frame(c, e) /\ \A s \in Reasons \ {"reconnecting"} : Same(c, e, s)
        /\ "reconnecting" \notin e.ep.active
        /\ "reconnecting" \notin c.ep.active => e = c
        /\ "reconnecting" \in c.ep.active =>
              Says(e.out, "reconnecting", FALSE) /\ ~Says(e.out, "reconnecting", TRUE)
    BY <1>2, ClearDoes
  <2>3. e \in Pair
    BY <2>2 DEF Frame
  <2> HIDE DEF d, e
  <2>4. /\ Frame(e, d) /\ \A s \in Reasons \ {"failed"} : Same(e, d, s)
        /\ "failed" \in e.ep.active => d = e
        /\ "failed" \notin e.ep.active =>
              /\ "failed" \in d.ep.active /\ d.ep.false["failed"] = Never
              /\ Says(d.out, "failed", TRUE) /\ ~Says(d.out, "failed", FALSE)
    BY <1>2, <2>1, <2>3, RaiseDoes
  <2>5. Frame(c, d)
    BY <2>2, <2>4, FrameTwice
  <2>6. \A s \in Reasons \ OfState : Same(c, d, s)
    BY <1>2, <2>2, <2>4, SameTwice
  <2>7. Same(c, e, "failed") /\ Stays(c.ep, c, "failed")
    BY <1>1, <1>2, <2>2
  <2>8. Fate(c.ep, d, "failed", state)
    <3>1. CASE "failed" \in e.ep.active
      BY <2>4, <2>7, <3>1 DEF Fate, Stays, Same
    <3>2. CASE "failed" \notin e.ep.active
      <4>1. "failed" \notin c.ep.active
        BY <2>7, <3>2 DEF Same
      <4> QED BY <1>4, <2>4, <3>2, <4>1 DEF Fate, Starts
    <3> QED BY <3>1, <3>2
  <2>9. Same(e, d, "reconnecting") /\ Stays(c.ep, c, "reconnecting") /\ "failed" \in d.ep.active
    BY <1>1, <1>2, <2>4
  <2>10. Fate(c.ep, d, "reconnecting", state)
    <3>1. CASE "reconnecting" \in c.ep.active
      BY <2>2, <2>9, <3>1 DEF Fate, Ends, Same
    <3>2. CASE "reconnecting" \notin c.ep.active
      BY <2>2, <2>9, <3>2 DEF Fate, Stays, Same
    <3> QED BY <3>1, <3>2
  <2> QED BY <1>2, <2>5, <2>6, <2>8, <2>10 DEF d
<1>5. CASE state = "Live" /\ c.ep.live >= ClearHold
  <2> DEFINE e == Clear(c, "reconnecting")
  <2>1. d = Clear(e, "failed")
    BY <1>5 DEF StateAlerts
  <2>2. Frame(c, e) /\ \A s \in Reasons \ {"reconnecting"} : Same(c, e, s)
    BY <1>2, ClearDoes
  <2>3. e \in Pair
    BY <2>2 DEF Frame
  <2>4. Fate(c.ep, e, "reconnecting", state)
    BY <1>1, <1>2, <1>5, ClearFate
  <2>5. Stays(c.ep, e, "failed")
    <3>1. Same(c, e, "failed") /\ Stays(c.ep, c, "failed")
      BY <1>1, <1>2, <2>2
    <3> QED BY <3>1 DEF Stays, Same
  <2> HIDE DEF d, e
  <2>6. Frame(e, d) /\ \A s \in Reasons \ {"failed"} : Same(e, d, s)
    BY <1>2, <2>1, <2>3, ClearDoes
  <2>7. Frame(c, d)
    BY <2>2, <2>6, FrameTwice
  <2>8. \A s \in Reasons \ OfState : Same(c, d, s)
    BY <1>2, <2>2, <2>6, SameTwice
  <2>9. Fate(c.ep, d, "failed", state)
    BY <1>2, <1>5, <2>1, <2>3, <2>5, ClearFate
  <2>10. Fate(c.ep, d, "reconnecting", state)
    <3>1. Same(e, d, "reconnecting")
      BY <1>2, <2>6
    <3> QED BY <1>2, <1>5, <2>4, <3>1 DEF Fate, Stays, Starts, Ends, Same
  <2> QED BY <1>2, <2>7, <2>8, <2>9, <2>10 DEF d
<1>6. CASE /\ state \notin {"Reconnecting", "FailedHard"}
           /\ ~(state = "Live" /\ c.ep.live >= ClearHold)
  <2>1. d = c
    BY <1>6 DEF StateAlerts
  <2> QED BY <1>1, <1>2, <2>1, SameHolds DEF Fate
<1> QED BY <1>3, <1>4, <1>5, <1>6

LEMMA ClearAllDoes ==
    ASSUME NEW c \in Pair, \A r \in Reasons : Quiet(c, r)
    PROVE  LET d == ClearAll(c) IN
           /\ Frame(c, d) /\ d.ep.active = {}
           /\ \A r \in Reasons : Fate(c.ep, d, r, "Idle")
<1> DEFINE c1 == Clear(c, "reconnecting")
           c2 == Clear(c1, "failed")
           c3 == Clear(c2, "dropped")
           d  == Clear(c3, "low_bitrate")
<1>1. /\ Reasons = {"reconnecting", "failed", "dropped", "low_bitrate"}
      /\ ClearAll(c) = d
      /\ \A r \in Reasons : Stays(c.ep, c, r)
  BY DEF Stays, Quiet, Reasons, ClearAll
<1>2. /\ Frame(c, c1) /\ \A s \in Reasons \ {"reconnecting"} : Same(c, c1, s)
      /\ "reconnecting" \notin c1.ep.active
  BY <1>1, ClearDoes
<1>3. c1 \in Pair
  BY <1>2 DEF Frame
<1>4. Fate(c.ep, c1, "reconnecting", "Idle")
  BY <1>1, ClearFate
<1>5. \A s \in Reasons \ {"reconnecting"} : Stays(c.ep, c1, s)
  BY <1>1, <1>2 DEF Same, Stays
<1> HIDE DEF c1
<1>6. /\ Frame(c1, c2) /\ \A s \in Reasons \ {"failed"} : Same(c1, c2, s)
      /\ "failed" \notin c2.ep.active
  BY <1>1, <1>3, ClearDoes
<1>7. c2 \in Pair
  BY <1>6 DEF Frame
<1>8. Fate(c.ep, c2, "failed", "Idle")
  BY <1>1, <1>3, <1>5, ClearFate
<1>9. \A s \in {"dropped", "low_bitrate"} : Stays(c.ep, c2, s)
  BY <1>1, <1>5, <1>6 DEF Same, Stays
<1> HIDE DEF c2
<1>10. /\ Frame(c2, c3) /\ \A s \in Reasons \ {"dropped"} : Same(c2, c3, s)
       /\ "dropped" \notin c3.ep.active
  BY <1>1, <1>7, ClearDoes
<1>11. c3 \in Pair
  BY <1>10 DEF Frame
<1>12. Fate(c.ep, c3, "dropped", "Idle")
  BY <1>1, <1>7, <1>9, ClearFate
<1>13. Stays(c.ep, c3, "low_bitrate")
  BY <1>1, <1>9, <1>10 DEF Same, Stays
<1> HIDE DEF c3
<1>14. /\ Frame(c3, d) /\ \A s \in Reasons \ {"low_bitrate"} : Same(c3, d, s)
       /\ "low_bitrate" \notin d.ep.active
  BY <1>1, <1>11, ClearDoes
<1>15. Fate(c.ep, d, "low_bitrate", "Idle")
  BY <1>1, <1>11, <1>13, ClearFate
<1> HIDE DEF d
<1>16. Frame(c, d)
  BY <1>2, <1>6, <1>10, <1>14, FrameTwice
<1>17. Same(c1, d, "reconnecting") /\ Same(c2, d, "failed") /\ Same(c3, d, "dropped")
  BY <1>1, <1>6, <1>10, <1>14, SameTwice
<1>18. d.ep.active = {}
  <2>1. d.ep.active \subseteq Reasons
    BY <1>16 DEF Frame, Pair, EndpointType
  <2>2. "reconnecting" \notin d.ep.active /\ "failed" \notin d.ep.active /\ "dropped" \notin d.ep.active
    BY <1>2, <1>6, <1>10, <1>17 DEF Same
  <2> QED BY <1>1, <1>14, <2>1, <2>2
<1>19. /\ Fate(c.ep, d, "reconnecting", "Idle") /\ Fate(c.ep, d, "failed", "Idle")
       /\ Fate(c.ep, d, "dropped", "Idle")
  BY <1>4, <1>8, <1>12, <1>17 DEF Fate, Stays, Starts, Ends, Same
<1> QED BY <1>1, <1>15, <1>16, <1>18, <1>19

-----------------------------------------------------------------------------
(* The window of the drop ratio.                                           *)

LEMMA Smallest == ASSUME NEW S \in SUBSET Nat, S # {} PROVE \E n \in S : \A m \in S : n <= m
<1> DEFINE R == {ss \in Nat \X Nat : ss[1] < ss[2]}
<1>1. IsWellFoundedOn(R, Nat)
  BY NatLessThanWellFounded, Zenon DEF OpToRel
<1>2. \A m, n \in Nat : m < n => <<m, n>> \in R
  OBVIOUS
<1> HIDE DEF R
<1>3. PICK x \in S : \A y \in S : ~(<<y, x>> \in R)
  BY <1>1, WFMin
<1>4. \A y \in S : ~(y < x)
  BY <1>2, <1>3
<1> QED BY <1>4

(* What is left after old samples are erased is the end of the window, and not empty. *)
LEMMA TrimmedDoes ==
    ASSUME NEW w \in Seq(Sample), w # <<>>
    PROVE  /\ Trimmed(w) \in Seq(Sample)
           /\ Monotone(w) => Monotone(Trimmed(w))
<1> DEFINE n == Len(w)
           IsFront(i) == /\ i = 1 \/ w[i].age >= DropWindow
                       /\ \A j \in i + 1..n : w[j].age < DropWindow
           S == {m \in Nat : \E i \in 1..n : m = n - i /\ (i = 1 \/ w[i].age >= DropWindow)}
<1>1. n \in Nat /\ n >= 1 /\ DOMAIN w = 1..n /\ \A i \in 1..n : w[i] \in Sample
  BY EmptySeq
<1>2. \E i \in 1..n : IsFront(i)
  <2>1. n - 1 \in S
    BY <1>1
  <2>2. PICK m \in S : \A k \in S : m <= k
    BY <2>1, Smallest
  <2>3. PICK i \in 1..n : m = n - i /\ (i = 1 \/ w[i].age >= DropWindow)
    BY <2>2
  <2>4. ASSUME NEW j \in i + 1..n PROVE w[j].age < DropWindow
    <3>1. j \in 1..n /\ n - j \in Nat /\ n - j < m
      BY <1>1, <2>3
    <3>2. n - j \notin S
      <4>1. m \in Nat
        BY <2>2
      <4> HIDE DEF S, n
      <4> QED BY <2>2, <3>1, <4>1
    <3>3. ~(w[j].age >= DropWindow)
      BY <3>1, <3>2
    <3>4. w[j].age \in Int
      BY <1>1, <3>1 DEF Sample, Ages
    <3> QED BY <3>3, <3>4, Thresholds
  <2> QED BY <2>3, <2>4
<1> DEFINE front == CHOOSE i \in 1..n : IsFront(i)
<1>3. front \in 1..n
  BY <1>2
<1>4. Trimmed(w) = SubSeq(w, front, n)
  BY <1>1 DEF Trimmed
<1> HIDE DEF front, n
<1>5. /\ SubSeq(w, front, n) \in Seq(Sample)
      /\ Len(SubSeq(w, front, n)) = n - front + 1
      /\ \A i \in 1..(n - front + 1) : SubSeq(w, front, n)[i] = w[front + i - 1]
  BY <1>1, <1>3, SubSeqProperties
<1>6. ASSUME Monotone(w) PROVE Monotone(SubSeq(w, front, n))
  <2>1. SUFFICES ASSUME NEW i \in 1..(n - front + 1), NEW j \in 1..(n - front + 1), i < j
                 PROVE  /\ SubSeq(w, front, n)[i].dropped <= SubSeq(w, front, n)[j].dropped
                        /\ SubSeq(w, front, n)[i].frames <= SubSeq(w, front, n)[j].frames
    BY <1>5 DEF Monotone
  <2>2. front + i - 1 \in 1..n /\ front + j - 1 \in 1..n /\ front + i - 1 < front + j - 1
    BY <1>1, <1>3, <2>1
  <2> QED BY <1>1, <1>5, <1>6, <2>2 DEF Monotone
<1> QED BY <1>4, <1>5, <1>6

LEMMA SampledDoes ==
    ASSUME NEW w \in Seq(Sample), NEW in, in.dropped \in Nat, in.frames \in Nat
    PROVE  /\ Sampled(w, in) \in Seq(Sample)
           /\ Monotone(w) => Monotone(Sampled(w, in))
<1> DEFINE new == [age |-> 0, dropped |-> in.dropped, frames |-> in.frames]
           restarted == w # <<>> /\ (\/ in.dropped < w[Len(w)].dropped
                                     \/ in.frames < w[Len(w)].frames)
           base == IF restarted THEN <<>> ELSE w
           v == Append(base, new)
<1>1. Sampled(w, in) = Trimmed(v)
  BY DEF Sampled
<1>2. new \in Sample
  BY DEF Sample, Ages
<1>3. base \in Seq(Sample) /\ Monotone(<<>>)
  BY DEF Monotone
<1>4. /\ v \in Seq(Sample) /\ Len(base) \in Nat /\ DOMAIN base = 1..Len(base)
      /\ DOMAIN v = 1..(Len(base) + 1) /\ v[Len(base) + 1] = new
      /\ \A i \in 1..Len(base) : v[i] = base[i] /\ base[i] \in Sample
  BY <1>2, <1>3
<1>5. v # <<>>
  BY <1>4
<1>6. base # <<>> => LET l == base[Len(base)] IN l.dropped <= in.dropped /\ l.frames <= in.frames
  <2>1. SUFFICES ASSUME base # <<>>
               PROVE  base[Len(base)].dropped <= in.dropped /\ base[Len(base)].frames <= in.frames
    OBVIOUS
  <2>2. base = w /\ ~(in.dropped < w[Len(w)].dropped) /\ ~(in.frames < w[Len(w)].frames)
    BY <2>1
  <2>3. w[Len(w)].dropped \in Nat /\ w[Len(w)].frames \in Nat
    BY <2>1, <2>2, <1>4 DEF Sample
  <2> QED BY <2>2, <2>3
<1>7. ASSUME Monotone(w) PROVE Monotone(v)
  <2>1. Monotone(base)
    BY <1>3, <1>7
  <2>2. SUFFICES ASSUME NEW i \in 1..(Len(base) + 1), NEW j \in 1..(Len(base) + 1), i < j
                 PROVE  v[i].dropped <= v[j].dropped /\ v[i].frames <= v[j].frames
    BY <1>4 DEF Monotone
  <2> HIDE DEF base, v
  <2>3. CASE j # Len(base) + 1
    <3>1. i \in DOMAIN base /\ j \in DOMAIN base
      BY <1>4, <2>2, <2>3
    <3>2. base[i].dropped <= base[j].dropped /\ base[i].frames <= base[j].frames
      BY <2>1, <2>2, <3>1 DEF Monotone
    <3> QED BY <1>4, <3>1, <3>2
  <2>4. CASE j = Len(base) + 1
    <3>1. i \in 1..Len(base) /\ base # <<>> /\ Len(base) \in 1..Len(base)
      BY <1>4, <2>2, <2>4
    <3>2. base[i] \in Sample /\ base[Len(base)] \in Sample
      BY <1>4, <3>1
    <3>3. base[i].dropped <= base[Len(base)].dropped /\ base[i].frames <= base[Len(base)].frames
      <4>1. CASE i = Len(base)
        BY <3>2, <4>1 DEF Sample
      <4>2. CASE i < Len(base)
        BY <1>4, <2>1, <3>1, <4>2 DEF Monotone
      <4>3. i = Len(base) \/ i < Len(base)
        BY <1>4, <3>1
      <4> QED BY <4>1, <4>2, <4>3
    <3> QED BY <1>4, <1>6, <2>4, <3>1, <3>2, <3>3 DEF Sample
  <2> QED BY <2>3, <2>4
<1> HIDE DEF v
<1> QED BY <1>1, <1>4, <1>5, <1>7, TrimmedDoes

-----------------------------------------------------------------------------
(* One tick of an endpoint.                                                *)

LEMMA MaxAgeIsNat == MaxAge \in Nat
<1>1. DropWindow \in Nat /\ LowHold \in Nat /\ Grace \in Nat /\ ClearHold \in Nat
  BY Thresholds
<1>2. \E m \in {DropWindow, LowHold, Grace, ClearHold} :
          \A n \in {DropWindow, LowHold, Grace, ClearHold} : n <= m
  BY <1>1
<1> QED BY <1>1, <1>2 DEF MaxAge

LEMMA OlderDoes == ASSUME NEW age \in Ages PROVE Older(age) \in Ages /\ Older(age) <= age + 1
BY MaxAgeIsNat DEF Older, Ages

LEMMA AgedDoes ==
    ASSUME NEW ep \in EndpointType
    PROVE  /\ Aged(ep) \in EndpointType /\ Aged(ep).active = ep.active
           /\ Aged(ep).live \in Ages /\ Aged(ep).live <= ep.live + 1
           /\ \A r \in Reasons : Aged(ep).false[r] \in Ages /\ Aged(ep).false[r] <= ep.false[r] + 1
           /\ Monotone(ep.window) => Monotone(Aged(ep).window)
<1> DEFINE w == [i \in DOMAIN ep.window |-> [ep.window[i] EXCEPT !.age = Older(@)]]
           f == [r \in Reasons |-> Older(ep.false[r])]
<1>1. /\ ep.live \in Ages /\ ep.low \in Ages /\ ep.window \in Seq(Sample) /\ ep.active \in SUBSET Reasons
      /\ ep.false \in [Reasons -> Ages]
  BY DEF EndpointType
<1>2. Aged(ep) = [ep EXCEPT !.live = Older(ep.live), !.low = Older(ep.low), !.window = w, !.false = f]
  BY DEF Aged
<1>3. Older(ep.live) \in Ages /\ Older(ep.live) <= ep.live + 1 /\ Older(ep.low) \in Ages
  BY <1>1, OlderDoes
<1>4. f \in [Reasons -> Ages] /\ \A r \in Reasons : f[r] <= ep.false[r] + 1
  BY <1>1, OlderDoes
<1>5. /\ Len(ep.window) \in Nat /\ DOMAIN ep.window = 1..Len(ep.window)
      /\ \A i \in 1..Len(ep.window) : ep.window[i] \in Sample
  BY <1>1
<1>6. ASSUME NEW i \in 1..Len(ep.window)
      PROVE  /\ w[i] \in Sample
             /\ w[i].dropped = ep.window[i].dropped /\ w[i].frames = ep.window[i].frames
  <2>1. ep.window[i] \in Sample /\ w[i] = [ep.window[i] EXCEPT !.age = Older(@)]
    BY <1>5
  <2>2. Older(ep.window[i].age) \in Ages
    BY <2>1, OlderDoes DEF Sample
  <2> HIDE DEF w
  <2> QED BY <2>1, <2>2 DEF Sample
<1>7. w \in Seq(Sample) /\ DOMAIN w = DOMAIN ep.window
  <2>1. DOMAIN w = 1..Len(ep.window)
    BY <1>5
  <2>2. w = [i \in 1..Len(ep.window) |-> w[i]]
    BY <1>5
  <2> HIDE DEF w
  <2>3. w \in [1..Len(ep.window) -> Sample]
    BY <1>6, <2>2
  <2> QED BY <1>5, <2>1, <2>3, SeqDef
<1>8. Monotone(ep.window) => Monotone(w)
  BY <1>5, <1>6, <1>7 DEF Monotone
<1> HIDE DEF w, f
<1>9. /\ Aged(ep) \in EndpointType /\ Aged(ep).active = ep.active /\ Aged(ep).live = Older(ep.live)
      /\ Aged(ep).false = f /\ Aged(ep).window = w
  BY <1>1, <1>2, <1>3, <1>4, <1>7 DEF EndpointType
<1> QED BY <1>3, <1>4, <1>8, <1>9

(* The endpoint of a pair gets another window, or other clocks. *)
LEMMA SetWindow ==
    ASSUME NEW c \in Pair, NEW w \in Seq(Sample)
    PROVE  LET d == [c EXCEPT !.ep.window = w] IN
           /\ d \in Pair /\ d.ep.live = c.ep.live /\ d.ep.window = w
           /\ \A r \in Reasons : Same(c, d, r)
<1> DEFINE e == [c.ep EXCEPT !.window = w]
           d == [c EXCEPT !.ep.window = w]
<1>1. c.ep \in EndpointType /\ c.out \in Seq(EdgeType)
  BY DEF Pair
<1>2. d = [ep |-> e, out |-> c.out]
  BY DEF Pair
<1>3. /\ e \in EndpointType /\ e.live = c.ep.live /\ e.window = w
      /\ e.active = c.ep.active /\ e.false = c.ep.false
  BY <1>1 DEF EndpointType
<1> HIDE DEF e, d
<1>4. d \in Pair /\ d.ep = e /\ d.out = c.out
  BY <1>1, <1>2, <1>3 DEF Pair
<1> QED BY <1>3, <1>4 DEF Same, d

LEMMA SetLow ==
    ASSUME NEW c \in Pair, NEW low \in Ages
    PROVE  LET d == [c EXCEPT !.ep.low = low] IN
           /\ d \in Pair /\ d.ep.live = c.ep.live /\ d.ep.window = c.ep.window
           /\ \A r \in Reasons : Same(c, d, r)
<1> DEFINE e == [c.ep EXCEPT !.low = low]
           d == [c EXCEPT !.ep.low = low]
<1>1. c.ep \in EndpointType /\ c.out \in Seq(EdgeType)
  BY DEF Pair
<1>2. d = [ep |-> e, out |-> c.out]
  BY DEF Pair
<1>3. /\ e \in EndpointType /\ e.live = c.ep.live /\ e.window = c.ep.window
      /\ e.active = c.ep.active /\ e.false = c.ep.false
  BY <1>1 DEF EndpointType
<1> HIDE DEF e, d
<1>4. d \in Pair /\ d.ep = e /\ d.out = c.out
  BY <1>1, <1>2, <1>3 DEF Pair
<1> QED BY <1>3, <1>4 DEF Same, d

LEMMA SetAll ==
    ASSUME NEW c \in Pair
    PROVE  LET d == [c EXCEPT !.ep = [c.ep EXCEPT !.live = Never, !.low = Never, !.window = <<>>]] IN
           /\ d \in Pair /\ d.ep.live = Never /\ d.ep.window = <<>>
           /\ \A r \in Reasons : Same(c, d, r)
<1> DEFINE e == [c.ep EXCEPT !.live = Never, !.low = Never, !.window = <<>>]
           d == [c EXCEPT !.ep = [c.ep EXCEPT !.live = Never, !.low = Never, !.window = <<>>]]
<1>1. c.ep \in EndpointType /\ c.out \in Seq(EdgeType)
  BY DEF Pair
<1>2. d = [ep |-> e, out |-> c.out]
  BY DEF Pair
<1>3. /\ e \in EndpointType /\ e.live = Never /\ e.window = <<>>
      /\ e.active = c.ep.active /\ e.false = c.ep.false
  <2>1. Never \in Ages
    BY DEF Ages
  <2>2. <<>> \in Seq(Sample)
    OBVIOUS
  <2> QED BY <1>1, <2>1, <2>2 DEF EndpointType
<1> HIDE DEF e, d
<1>4. d \in Pair /\ d.ep = e /\ d.out = c.out
  BY <1>1, <1>2, <1>3 DEF Pair
<1> QED BY <1>3, <1>4 DEF Same, d

(* An endpoint a tick starts from, with other clocks. *)
LEMMA FateFrom ==
    ASSUME NEW ep, NEW tracked, NEW c, NEW r, NEW state, Fate(tracked, c, r, state),
           tracked.active = ep.active, tracked.false = ep.false,
           tracked.live >= ClearHold => ep.live >= ClearHold
    PROVE  Fate(ep, c, r, state)
BY DEF Fate, Stays, Starts, Ends

(* What a tick does, all in all. *)
TickDoes(ep, c, state) ==
    /\ c \in Pair
    /\ \A r \in Reasons : Fate(ep, c, r, state)
    /\ c.ep.live \in {ep.live, 0, Never} /\ (state # "Live" => c.ep.live = Never)
    /\ Monotone(ep.window) => Monotone(c.ep.window)

LEMMA StartOfTick ==
    ASSUME NEW ep \in EndpointType
    PROVE  LET c == [ep |-> ep, out |-> <<>>] IN
           /\ c \in Pair /\ c.ep = ep /\ \A r \in Reasons : Quiet(c, r)
<1>1. <<>> \in Seq(EdgeType)
  OBVIOUS
<1> QED BY <1>1, SaysNothing DEF Pair, Quiet

LEMMA EmptyWindow == <<>> \in Seq(Sample) /\ Monotone(<<>>)
BY DEF Monotone

LEMMA IdleDoes == ASSUME NEW ep \in EndpointType PROVE TickDoes(ep, UpdateIdle(ep), "Idle")
<1> DEFINE c0 == [ep |-> ep, out |-> <<>>]
           c == ClearAll(c0)
           d == [c EXCEPT !.ep = [c.ep EXCEPT !.live = Never, !.low = Never, !.window = <<>>]]
<1>1. c0 \in Pair /\ c0.ep = ep /\ \A r \in Reasons : Quiet(c0, r)
  BY StartOfTick
<1> HIDE DEF c0
<1>2. Frame(c0, c) /\ \A r \in Reasons : Fate(ep, c, r, "Idle")
  BY <1>1, ClearAllDoes
<1>3. c \in Pair
  BY <1>2 DEF Frame
<1> HIDE DEF c
<1>4. d \in Pair /\ d.ep.live = Never /\ d.ep.window = <<>> /\ \A r \in Reasons : Same(c, d, r)
  BY <1>3, SetAll
<1> HIDE DEF d
<1>5. "failed" \in Reasons
  BY DEF Reasons
<1>6. \A r \in Reasons : Fate(ep, d, r, "Idle")
  BY <1>2, <1>4, <1>5, FateStays
<1>7. TickDoes(ep, d, "Idle")
  BY <1>4, <1>6, EmptyWindow DEF TickDoes
<1> QED BY <1>7 DEF UpdateIdle, d, c, c0

LEMMA RunningDoes ==
    ASSUME NEW ep \in EndpointType, NEW in, in.dropped \in Nat, in.frames \in Nat
    PROVE  TickDoes(ep, UpdateRunning(ep, in), in.state)
<1> DEFINE live == in.state = "Live"
           tracked == IF live THEN [ep EXCEPT !.live = IF @ = Never THEN 0 ELSE @]
                      ELSE [ep EXCEPT !.live = Never, !.low = Never, !.window = <<>>]
           c0 == [ep |-> tracked, out |-> <<>>]
           stated == StateAlerts(c0, in.state)
           checked == live /\ tracked.live >= Grace
           window == IF checked /\ in.frames > 0 THEN Sampled(tracked.window, in) ELSE <<>>
           drops == window # <<>> /\ TooManyDrops(window)
           c1 == [stated EXCEPT !.ep.window = window]
           dropped == RaiseOrHold(c1, "dropped", drops, drops)
           slow == checked /\ TooSlow(in)
           low == IF ~slow THEN Never ELSE IF tracked.low = Never THEN 0 ELSE tracked.low
           c2 == [dropped EXCEPT !.ep.low = low]
           d == RaiseOrHold(c2, "low_bitrate", slow /\ low >= LowHold, slow)
<1>1. UpdateRunning(ep, in) = d
  BY DEF UpdateRunning
<1>2. /\ OfState \subseteq Reasons /\ Reasons = OfState \cup {"dropped", "low_bitrate"}
      /\ "failed" \in OfState /\ "dropped" \in Reasons \ OfState /\ "low_bitrate" \in Reasons \ OfState
      /\ "dropped" # "low_bitrate"
  BY DEF OfState, Reasons
<1>3. /\ tracked \in EndpointType /\ tracked.active = ep.active /\ tracked.false = ep.false
      /\ tracked.live \in {ep.live, 0, Never} /\ (in.state # "Live" => tracked.live = Never)
      /\ tracked.live >= ClearHold => ep.live >= ClearHold
      /\ Monotone(ep.window) => Monotone(tracked.window)
  <2>1. ep.live \in Ages /\ ep.low \in Ages /\ 0 \in Ages /\ Never \in Ages
    BY DEF EndpointType, Ages
  <2>2. CASE live
    <3> DEFINE l == IF ep.live = Never THEN 0 ELSE ep.live
    <3>1. tracked = [ep EXCEPT !.live = l] /\ l \in Ages /\ l \in {ep.live, 0}
      BY <2>1, <2>2
    <3> HIDE DEF l
    <3>2. /\ tracked \in EndpointType /\ tracked.active = ep.active /\ tracked.false = ep.false
          /\ tracked.window = ep.window /\ tracked.live = l
      BY <3>1 DEF EndpointType
    <3> QED BY <2>2, <3>1, <3>2, Thresholds
  <2>3. CASE ~live
    <3>1. tracked = [ep EXCEPT !.live = Never, !.low = Never, !.window = <<>>]
      BY <2>3
    <3> HIDE DEF tracked
    <3>2. /\ tracked \in EndpointType /\ tracked.active = ep.active /\ tracked.false = ep.false
          /\ tracked.window = <<>> /\ tracked.live = Never
      BY <2>1, <3>1, EmptyWindow DEF EndpointType
    <3> QED BY <3>2, EmptyWindow, Thresholds
  <2> QED BY <2>2, <2>3
<1> HIDE DEF tracked
<1>4. c0 \in Pair /\ c0.ep = tracked /\ \A r \in Reasons : Quiet(c0, r)
  BY <1>3, StartOfTick
<1> HIDE DEF c0
<1>5. /\ Frame(c0, stated) /\ \A r \in Reasons \ OfState : Same(c0, stated, r)
      /\ \A r \in OfState : Fate(tracked, stated, r, in.state)
  BY <1>4, StateAlertsDoes
<1>6. stated \in Pair /\ stated.ep.live = tracked.live
  BY <1>4, <1>5 DEF Frame
<1> HIDE DEF stated
<1>7. window \in Seq(Sample) /\ (Monotone(ep.window) => Monotone(window))
  <2>1. tracked.window \in Seq(Sample)
    BY <1>3 DEF EndpointType
  <2>2. CASE checked /\ in.frames > 0
    BY <1>3, <2>1, <2>2, SampledDoes
  <2>3. CASE ~(checked /\ in.frames > 0)
    BY <2>3, EmptyWindow
  <2> QED BY <2>2, <2>3
<1> HIDE DEF window
<1>8. /\ c1 \in Pair /\ c1.ep.live = stated.ep.live /\ c1.ep.window = window
      /\ \A r \in Reasons : Same(stated, c1, r)
  BY <1>6, <1>7, SetWindow
<1> HIDE DEF c1
<1>9. \A r \in Reasons \ OfState : Same(c0, c1, r) /\ Quiet(c1, r) /\ Stays(tracked, c1, r)
  BY <1>2, <1>4, <1>5, <1>8 DEF Same, Quiet, Stays
<1>10. /\ Frame(c1, dropped) /\ \A r \in Reasons \ {"dropped"} : Same(c1, dropped, r)
       /\ Fate(c1.ep, dropped, "dropped", in.state)
  BY <1>2, <1>8, <1>9, RaiseOrHoldDoes
<1>11. dropped \in Pair /\ dropped.ep.live = c1.ep.live /\ dropped.ep.window = c1.ep.window
  BY <1>10 DEF Frame
<1> HIDE DEF dropped
<1>12. low \in Ages
  <2>1. tracked.low \in Ages /\ 0 \in Ages /\ Never \in Ages
    BY <1>3 DEF EndpointType, Ages
  <2> QED BY <2>1
<1> HIDE DEF low
<1>13. /\ c2 \in Pair /\ c2.ep.live = dropped.ep.live /\ c2.ep.window = dropped.ep.window
       /\ \A r \in Reasons : Same(dropped, c2, r)
  BY <1>11, <1>12, SetLow
<1> HIDE DEF c2
<1>14. Quiet(c2, "low_bitrate")
  <2>1. Same(c1, dropped, "low_bitrate") /\ Same(dropped, c2, "low_bitrate") /\ Quiet(c1, "low_bitrate")
    BY <1>2, <1>9, <1>10, <1>13
  <2> QED BY <2>1 DEF Same, Quiet
<1>15. /\ Frame(c2, d) /\ \A r \in Reasons \ {"low_bitrate"} : Same(c2, d, r)
       /\ Fate(c2.ep, d, "low_bitrate", in.state)
  BY <1>2, <1>13, <1>14, RaiseOrHoldDoes
<1>16. d \in Pair /\ d.ep.live = tracked.live /\ d.ep.window = window
  BY <1>6, <1>8, <1>11, <1>13, <1>15 DEF Frame
<1> HIDE DEF d
<1>17. \A r \in OfState : Same(stated, d, r)
  BY <1>2, <1>8, <1>10, <1>13, <1>15 DEF Same
<1>18. \A r \in OfState : Fate(tracked, d, r, in.state)
  BY <1>2, <1>5, <1>17, FateStays
<1>19. Same(dropped, d, "dropped") /\ Same(dropped, d, "failed")
  BY <1>2, <1>13, <1>15 DEF Same
<1>20. Fate(tracked, d, "dropped", in.state)
  <2>1. Fate(c1.ep, d, "dropped", in.state)
    BY <1>10, <1>19, FateStays
  <2>2. Stays(tracked, c1, "dropped") /\ Same(c0, c1, "dropped")
    BY <1>2, <1>9
  <2> QED BY <1>4, <1>6, <1>8, <2>1, <2>2 DEF Fate, Stays, Starts, Ends, Same
<1>21. Fate(tracked, d, "low_bitrate", in.state)
  <2>1. /\ "low_bitrate" \in c2.ep.active <=> "low_bitrate" \in tracked.active
        /\ c2.ep.false["low_bitrate"] = tracked.false["low_bitrate"]
    BY <1>2, <1>4, <1>9, <1>10, <1>13 DEF Same
  <2>2. c2.ep.live = tracked.live
    BY <1>6, <1>8, <1>11, <1>13
  <2> QED BY <1>15, <2>1, <2>2 DEF Fate, Stays, Starts, Ends
<1>22. \A r \in Reasons : Fate(tracked, d, r, in.state)
  BY <1>2, <1>18, <1>20, <1>21
<1>23. \A r \in Reasons : Fate(ep, d, r, in.state)
  BY <1>3, <1>22, FateFrom
<1> QED BY <1>1, <1>3, <1>7, <1>16, <1>23 DEF TickDoes

LEMMA UpdateDoes ==
    ASSUME NEW ep \in EndpointType, NEW in, in.dropped \in Nat, in.frames \in Nat
    PROVE  TickDoes(ep, Update(ep, in), in.state)
<1>1. CASE in.state = "Idle"
  BY <1>1, IdleDoes DEF Update
<1>2. CASE in.state # "Idle"
  BY <1>2, RunningDoes DEF Update
<1> QED BY <1>1, <1>2

-----------------------------------------------------------------------------
(* The monitor.                                                            *)

(* While an alert is known for less than ClearHold, the clocks that could end it show less. *)
Younger(ep, r, t) ==
    t < ClearHold => /\ ep.false[r] < t
                     /\ r \in OfState => ep.live < t

Clocks ==
    \A e \in DOMAIN policy : \A r \in policy[e].active : Younger(policy[e], r, told[<<e, r>>])

Typed ==
    /\ registered \in [Endpoints -> {"new", "on", "off", "removed"}]
    /\ \A e \in DOMAIN snapshots : snapshots[e].dropped \in Nat /\ snapshots[e].frames \in Nat
    /\ DOMAIN policy \subseteq {e \in Endpoints : registered[e] # "new"}
    /\ \A e \in DOMAIN policy : policy[e] \in EndpointType
    /\ \A a \in DOMAIN told : told[a] \in 0..ClearHold

MonitorInv == Typed /\ ToldIsActive /\ WindowIsMonotone /\ Clocks

(* Where a tick finds an endpoint. *)
Before(e) == IF e \in DOMAIN policy THEN Aged(policy[e]) ELSE FreshEndpoint
Watched == Registered \cap DOMAIN snapshots
Gone == DOMAIN policy \ Registered
Kept == (Registered \ DOMAIN snapshots) \cap DOMAIN policy

(* The edges of a tick. *)
EdgesOf(e) == IF e \in Watched THEN Fed(e).out ELSE Dropped(e).out
Edge(e, r, v) == e \in Watched \cup Gone /\ Says(EdgesOf(e), r, v)

Ticked(t) == IF t < ClearHold THEN t + 1 ELSE ClearHold

LEMMA TickIs ==
    ASSUME OnTick, Typed, DOMAIN told \subseteq Endpoints \X Reasons
    PROVE  /\ UNCHANGED <<registered, output, sampler>>
           /\ DOMAIN policy' = Watched \cup Kept
           /\ \A e \in Watched : policy'[e] = Fed(e).ep
           /\ \A e \in Kept : policy'[e] = policy[e]
           /\ DOMAIN told' \subseteq Endpoints \X Reasons
           /\ \A e \in Endpoints, r \in Reasons :
                 /\ <<e, r>> \in DOMAIN told' <=>
                       \/ Edge(e, r, TRUE)
                       \/ <<e, r>> \in DOMAIN told /\ ~Edge(e, r, FALSE)
                 /\ <<e, r>> \in DOMAIN told' =>
                       told'[<<e, r>>] = IF Edge(e, r, TRUE) THEN 0 ELSE Ticked(told[<<e, r>>])
<1> DEFINE fed == [e \in Watched |-> Fed(e)]
           kept == [e \in Kept |-> policy[e]]
           gone == [e \in Gone |-> Dropped(e)]
           edges == [e \in DOMAIN fed \cup DOMAIN gone |->
                       IF e \in DOMAIN fed THEN fed[e].out ELSE gone[e].out]
<1>1. /\ UNCHANGED <<registered, output, sampler>>
      /\ policy' = [e \in DOMAIN fed \cup DOMAIN kept |->
                       IF e \in DOMAIN fed THEN fed[e].ep ELSE kept[e]]
      /\ told' = Tell(Longer(told), edges)
  BY DEF OnTick, Watched, Kept, Gone
<1>2. /\ DOMAIN fed = Watched /\ DOMAIN kept = Kept /\ DOMAIN gone = Gone
      /\ DOMAIN edges = Watched \cup Gone
      /\ \A e \in Watched \cup Gone : edges[e] = EdgesOf(e)
  BY DEF EdgesOf
<1>3. Watched \cap Kept = {} /\ Watched \subseteq Endpoints /\ Gone \subseteq Endpoints
  BY DEF Watched, Kept, Gone, Registered, Typed
<1>4. /\ DOMAIN policy' = Watched \cup Kept
      /\ \A e \in Watched : policy'[e] = Fed(e).ep
      /\ \A e \in Kept : policy'[e] = policy[e]
  BY <1>1, <1>3
<1> HIDE DEF edges, fed, gone, kept
<1> DEFINE About(v) == {a \in (DOMAIN edges) \X Reasons : Says(edges[a[1]], a[2], v)}
           T == (DOMAIN Longer(told) \ About(FALSE)) \cup About(TRUE)
<1>5. told' = [a \in T |-> IF a \in About(TRUE) THEN 0 ELSE Longer(told)[a]]
  BY <1>1 DEF Tell
<1>6. \A e \in Endpoints, r \in Reasons, v \in BOOLEAN : <<e, r>> \in About(v) <=> Edge(e, r, v)
  BY <1>2 DEF Edge
<1>7. About(TRUE) \subseteq Endpoints \X Reasons
  BY <1>2, <1>3
<1>8. /\ DOMAIN Longer(told) = DOMAIN told
      /\ \A a \in DOMAIN told : Longer(told)[a] = Ticked(told[a])
  BY DEF Longer, Ticked
<1> HIDE DEF About
<1>9. DOMAIN told' = T /\ \A a \in T : told'[a] = IF a \in About(TRUE) THEN 0 ELSE Longer(told)[a]
  BY <1>5
<1>10. T \subseteq Endpoints \X Reasons
  BY <1>7, <1>8
<1>11. ASSUME NEW e \in Endpoints, NEW r \in Reasons
       PROVE  /\ <<e, r>> \in DOMAIN told' <=>
                    \/ Edge(e, r, TRUE)
                    \/ <<e, r>> \in DOMAIN told /\ ~Edge(e, r, FALSE)
              /\ <<e, r>> \in DOMAIN told' =>
                    told'[<<e, r>>] = IF Edge(e, r, TRUE) THEN 0 ELSE Ticked(told[<<e, r>>])
  <2>1. /\ <<e, r>> \in About(TRUE) <=> Edge(e, r, TRUE)
        /\ <<e, r>> \in About(FALSE) <=> Edge(e, r, FALSE)
    BY <1>6
  <2> QED BY <1>8, <1>9, <2>1
<1> QED BY <1>1, <1>4, <1>9, <1>10, <1>11

(* What becomes of each endpoint the policy has, or sees for the first time. *)
LEMMA BeforeTyped ==
    ASSUME MonitorInv, NEW e \in Endpoints
    PROVE  /\ Before(e) \in EndpointType /\ Monotone(Before(e).window)
           /\ Before(e).active = IF e \in DOMAIN policy THEN policy[e].active ELSE {}
           /\ e \in DOMAIN policy =>
                 /\ Before(e).live \in Ages /\ Before(e).live <= policy[e].live + 1
                 /\ \A r \in Reasons : Before(e).false[r] \in Ages
                                       /\ Before(e).false[r] <= policy[e].false[r] + 1
<1>1. CASE e \in DOMAIN policy
  <2>1. policy[e] \in EndpointType /\ Monotone(policy[e].window)
    BY <1>1 DEF MonitorInv, Typed, WindowIsMonotone, Monotone
  <2> QED BY <1>1, <2>1, AgedDoes DEF Before
<1>2. CASE e \notin DOMAIN policy
  <2>1. FreshEndpoint \in EndpointType
    <3>1. Never \in Ages /\ [r \in Reasons |-> Never] \in [Reasons -> Ages]
      BY DEF Ages
    <3> QED BY <3>1, EmptyWindow DEF FreshEndpoint, EndpointType
  <2>2. FreshEndpoint.window = <<>> /\ FreshEndpoint.active = {}
    BY DEF FreshEndpoint
  <2> QED BY <1>2, <2>1, <2>2, EmptyWindow DEF Before
<1> QED BY <1>1, <1>2

LEMMA FedDoes ==
    ASSUME MonitorInv, NEW e \in Watched
    PROVE  e \in Endpoints /\ TickDoes(Before(e), Fed(e), snapshots[e].state)
<1> DEFINE s == snapshots[e]
           in == [state |-> s.state, target |-> Target, rate |-> s.rate,
                  dropped |-> s.dropped, frames |-> s.frames]
<1>1. e \in Endpoints
  BY DEF Watched, Registered
<1>2. Fed(e) = Update(Before(e), in)
  BY DEF Fed, Before
<1>3. in.dropped \in Nat /\ in.frames \in Nat /\ in.state = snapshots[e].state
  BY DEF MonitorInv, Typed, Watched
<1>4. Before(e) \in EndpointType
  BY <1>1, BeforeTyped
<1> HIDE DEF in
<1> QED BY <1>1, <1>2, <1>3, <1>4, UpdateDoes

LEMMA DroppedDoes ==
    ASSUME MonitorInv, NEW e \in Gone
    PROVE  /\ e \in Endpoints /\ Dropped(e).ep.active = {}
           /\ \A r \in Reasons : Fate(policy[e], Dropped(e), r, "Idle")
<1>1. e \in Endpoints /\ policy[e] \in EndpointType
  BY DEF MonitorInv, Typed, Gone
<1> QED BY <1>1, StartOfTick, ClearAllDoes DEF Dropped

(* The edges of an endpoint tell its clients what is active now. *)
LEMMA EdgesTell ==
    ASSUME NEW ep, NEW c, NEW r \in Reasons, NEW state, Fate(ep, c, r, state)
    PROVE  r \in c.ep.active <=> Says(c.out, r, TRUE) \/ (r \in ep.active /\ ~Says(c.out, r, FALSE))
BY DEF Fate, Stays, Starts, Ends

LEMMA ToldAt ==
    ASSUME MonitorInv, NEW e \in Endpoints, NEW r \in Reasons
    PROVE  <<e, r>> \in DOMAIN told <=> e \in DOMAIN policy /\ r \in policy[e].active
BY DEF MonitorInv, ToldIsActive

LEMMA TickTellsActive == MonitorInv /\ OnTick => ToldIsActive'
<1> SUFFICES ASSUME MonitorInv, OnTick PROVE ToldIsActive'
  OBVIOUS
<1>1. DOMAIN told \subseteq Endpoints \X Reasons /\ Typed
  BY DEF MonitorInv, ToldIsActive
<1>2. /\ DOMAIN policy' = Watched \cup Kept
      /\ \A e \in Watched : policy'[e] = Fed(e).ep
      /\ \A e \in Kept : policy'[e] = policy[e]
      /\ DOMAIN told' \subseteq Endpoints \X Reasons
      /\ \A e \in Endpoints, r \in Reasons :
            <<e, r>> \in DOMAIN told' <=> \/ Edge(e, r, TRUE)
                                          \/ <<e, r>> \in DOMAIN told /\ ~Edge(e, r, FALSE)
  BY <1>1, TickIs
<1>3. ASSUME NEW e \in Endpoints, NEW r \in Reasons
      PROVE  <<e, r>> \in DOMAIN told' <=> e \in DOMAIN policy' /\ r \in policy'[e].active
  <2>1. CASE e \in Watched
    <3>1. Fate(Before(e), Fed(e), r, snapshots[e].state)
      BY <2>1, FedDoes DEF TickDoes
    <3>2. r \in Fed(e).ep.active <=>
             Says(Fed(e).out, r, TRUE) \/ (r \in Before(e).active /\ ~Says(Fed(e).out, r, FALSE))
      BY <3>1, EdgesTell
    <3>3. r \in Before(e).active <=> <<e, r>> \in DOMAIN told
      BY BeforeTyped, ToldAt
    <3>4. \A v \in BOOLEAN : Edge(e, r, v) <=> Says(Fed(e).out, r, v)
      BY <2>1 DEF Edge, EdgesOf
    <3> QED BY <1>2, <2>1, <3>2, <3>3, <3>4
  <2>2. CASE e \in Gone
    <3>1. Fate(policy[e], Dropped(e), r, "Idle") /\ Dropped(e).ep.active = {}
      BY <2>2, DroppedDoes
    <3>2. ~Says(Dropped(e).out, r, TRUE) /\ (r \in policy[e].active => Says(Dropped(e).out, r, FALSE))
      BY <3>1, EdgesTell
    <3>3. e \notin Watched /\ e \notin Kept
      BY <2>2 DEF Gone, Watched, Kept
    <3>4. \A v \in BOOLEAN : Edge(e, r, v) <=> Says(Dropped(e).out, r, v)
      BY <2>2, <3>3 DEF Edge, EdgesOf
    <3> QED BY <1>2, <3>2, <3>3, <3>4, ToldAt
  <2>3. CASE e \in Kept
    <3>1. e \in DOMAIN policy /\ e \notin Watched \cup Gone
      BY <2>3 DEF Gone, Watched, Kept
    <3> QED BY <1>2, <2>3, <3>1, ToldAt DEF Edge
  <2>4. CASE e \notin Watched \cup Gone \cup Kept
    <3>1. e \notin DOMAIN policy
      BY <2>4 DEF Gone, Watched, Kept
    <3> QED BY <1>2, <2>4, <3>1, ToldAt DEF Edge
  <2> QED BY <2>1, <2>2, <2>3, <2>4
<1>4. \A a \in Endpoints \X Reasons :
          a \in DOMAIN told' <=> a[1] \in DOMAIN policy' /\ a[2] \in policy'[a[1]].active
  <2> SUFFICES ASSUME NEW a \in Endpoints \X Reasons
               PROVE  a \in DOMAIN told' <=> a[1] \in DOMAIN policy' /\ a[2] \in policy'[a[1]].active
    OBVIOUS
  <2>1. PICK e \in Endpoints, r \in Reasons : a = <<e, r>>
    OBVIOUS
  <2> QED BY <1>3, <2>1
<1> QED BY <1>2, <1>4 DEF ToldIsActive

(* An alert that is still there stays younger than it is known. *)
LEMMA TickKeepsYounger ==
    ASSUME NEW ep \in EndpointType, NEW old, NEW c \in Pair, NEW r \in Reasons, NEW state,
           NEW t \in 0..ClearHold,
           Fate(ep, c, r, state), c.ep.live \in {ep.live, 0, Never},
           state # "Live" => c.ep.live = Never,
           old \in EndpointType, ep.live <= old.live + 1, ep.false[r] <= old.false[r] + 1,
           Younger(old, r, t), r \in ep.active, r \in c.ep.active
    PROVE  Younger(c.ep, r, Ticked(t))
<1>1. /\ ep.false[r] \in Int /\ old.false[r] \in Int /\ ep.live \in Int /\ old.live \in Int
      /\ ClearHold \in Nat /\ t \in Nat
  BY Thresholds DEF EndpointType, Ages
<1>2. SUFFICES ASSUME t + 1 < ClearHold
               PROVE  c.ep.false[r] < t + 1 /\ (r \in OfState => c.ep.live < t + 1)
  BY <1>1, Thresholds DEF Younger, Ticked
<1>3. Stays(ep, c, r)
  BY DEF Fate, Starts, Ends
<1>4. old.false[r] < t /\ (r \in OfState => old.live < t)
  BY <1>1, <1>2 DEF Younger
<1>5. c.ep.false[r] < t + 1
  BY <1>1, <1>3, <1>4 DEF Stays
<1>6. r \in OfState => c.ep.live < t + 1
  BY <1>1, <1>4
<1> QED BY <1>5, <1>6

LEMMA TickKeepsClocks == MonitorInv /\ OnTick => Clocks'
<1> SUFFICES ASSUME MonitorInv, OnTick, NEW e \in DOMAIN policy', NEW r \in policy'[e].active
             PROVE  Younger(policy'[e], r, told'[<<e, r>>])
  BY DEF Clocks
<1>1. DOMAIN told \subseteq Endpoints \X Reasons /\ Typed
  BY DEF MonitorInv, ToldIsActive
<1>2. /\ DOMAIN policy' = Watched \cup Kept
      /\ \A x \in Watched : policy'[x] = Fed(x).ep
      /\ \A x \in Kept : policy'[x] = policy[x]
      /\ \A x \in Endpoints, s \in Reasons :
            <<x, s>> \in DOMAIN told' =>
               told'[<<x, s>>] = IF Edge(x, s, TRUE) THEN 0 ELSE Ticked(told[<<x, s>>])
  BY <1>1, TickIs
<1>3. CASE e \in Watched
  <2>1. e \in Endpoints /\ TickDoes(Before(e), Fed(e), snapshots[e].state)
    BY <1>3, FedDoes
  <2>2. Fed(e) \in Pair /\ Fed(e).ep \in EndpointType /\ r \in Reasons /\ policy'[e] = Fed(e).ep
    BY <1>2, <1>3, <2>1 DEF TickDoes, Pair, EndpointType
  <2>3. Fate(Before(e), Fed(e), r, snapshots[e].state)
    BY <2>1, <2>2 DEF TickDoes
  <2>4. <<e, r>> \in DOMAIN told'
    BY <2>1, <2>2, TickTellsActive DEF ToldIsActive
  <2>5. Edge(e, r, TRUE) <=> Says(Fed(e).out, r, TRUE)
    BY <1>3 DEF Edge, EdgesOf
  <2>6. CASE Starts(Before(e), Fed(e), r, snapshots[e].state)
    <3>1. told'[<<e, r>>] = 0
      BY <1>2, <2>1, <2>2, <2>4, <2>5, <2>6 DEF Starts
    <3>2. Fed(e).ep.false[r] = Never /\ (r \in OfState => Fed(e).ep.live = Never)
      BY <2>1, <2>6 DEF Starts, TickDoes
    <3> QED BY <2>2, <3>1, <3>2 DEF Younger
  <2>7. CASE Stays(Before(e), Fed(e), r)
    <3>1. r \in Before(e).active /\ ~Says(Fed(e).out, r, TRUE)
      BY <2>2, <2>7 DEF Stays
    <3>2. /\ e \in DOMAIN policy /\ r \in policy[e].active /\ Before(e) \in EndpointType
          /\ Before(e).live <= policy[e].live + 1 /\ Before(e).false[r] <= policy[e].false[r] + 1
      BY <2>1, <2>2, <3>1, BeforeTyped
    <3>3. policy[e] \in EndpointType /\ Younger(policy[e], r, told[<<e, r>>])
      BY <3>2 DEF MonitorInv, Typed, Clocks
    <3>4. told[<<e, r>>] \in 0..ClearHold
      BY <2>1, <2>2, <3>2, ToldAt DEF MonitorInv, Typed
    <3>5. told'[<<e, r>>] = Ticked(told[<<e, r>>])
      BY <1>2, <2>1, <2>2, <2>4, <2>5, <3>1
    <3>6. Younger(Fed(e).ep, r, Ticked(told[<<e, r>>]))
      BY <2>1, <2>2, <2>3, <3>1, <3>2, <3>3, <3>4, TickKeepsYounger DEF TickDoes
    <3> QED BY <2>2, <3>5, <3>6
  <2> QED BY <2>2, <2>3, <2>6, <2>7 DEF Fate, Ends
<1>4. CASE e \in Kept
  <2>1. e \in DOMAIN policy /\ e \in Endpoints /\ e \notin Watched \cup Gone /\ policy'[e] = policy[e]
    BY <1>2, <1>4 DEF Kept, Gone, Watched, Registered
  <2>2. policy[e] \in EndpointType /\ r \in Reasons /\ r \in policy[e].active
    BY <2>1 DEF MonitorInv, Typed, EndpointType
  <2>3. <<e, r>> \in DOMAIN told /\ <<e, r>> \in DOMAIN told'
    BY <1>2, <1>4, <2>1, <2>2, ToldAt, TickTellsActive DEF ToldIsActive
  <2>4. told'[<<e, r>>] = Ticked(told[<<e, r>>]) /\ told[<<e, r>>] \in 0..ClearHold
    BY <1>2, <2>1, <2>2, <2>3 DEF Edge, MonitorInv, Typed
  <2>5. Younger(policy[e], r, told[<<e, r>>])
    BY <2>1, <2>2 DEF MonitorInv, Clocks
  <2>6. policy[e].false[r] \in Int /\ policy[e].live \in Int
    BY <2>2 DEF EndpointType, Ages
  <2> QED BY <2>1, <2>4, <2>5, <2>6, Thresholds DEF Younger, Ticked
<1> QED BY <1>2, <1>3, <1>4

LEMMA TickKeepsWindows == MonitorInv /\ OnTick => WindowIsMonotone'
<1> SUFFICES ASSUME MonitorInv, OnTick, NEW e \in DOMAIN policy' PROVE Monotone(policy'[e].window)
  BY DEF WindowIsMonotone, Monotone
<1>1. /\ DOMAIN policy' = Watched \cup Kept
      /\ \A x \in Watched : policy'[x] = Fed(x).ep
      /\ \A x \in Kept : policy'[x] = policy[x]
  BY TickIs DEF MonitorInv, ToldIsActive
<1>2. CASE e \in Watched
  BY <1>1, <1>2, FedDoes, BeforeTyped DEF TickDoes
<1>3. CASE e \in Kept
  BY <1>1, <1>3 DEF MonitorInv, WindowIsMonotone, Monotone, Kept
<1> QED BY <1>1, <1>2, <1>3

LEMMA TickKeepsTypes == MonitorInv /\ OnTick => Typed'
<1> SUFFICES ASSUME MonitorInv, OnTick PROVE Typed'
  OBVIOUS
<1>1. /\ UNCHANGED <<registered, output, sampler>>
      /\ DOMAIN policy' = Watched \cup Kept
      /\ \A e \in Watched : policy'[e] = Fed(e).ep
      /\ \A e \in Kept : policy'[e] = policy[e]
      /\ DOMAIN told' \subseteq Endpoints \X Reasons
      /\ \A e \in Endpoints, r \in Reasons :
            /\ <<e, r>> \in DOMAIN told' <=> \/ Edge(e, r, TRUE)
                                             \/ <<e, r>> \in DOMAIN told /\ ~Edge(e, r, FALSE)
            /\ <<e, r>> \in DOMAIN told' =>
                  told'[<<e, r>>] = IF Edge(e, r, TRUE) THEN 0 ELSE Ticked(told[<<e, r>>])
  BY TickIs DEF MonitorInv, ToldIsActive
<1>2. UNCHANGED <<registered, snapshots>>
  BY <1>1 DEF sampler
<1>3. DOMAIN policy' \subseteq {e \in Endpoints : registered'[e] # "new"}
  BY <1>1, <1>2 DEF Watched, Kept, Registered
<1>4. ASSUME NEW e \in DOMAIN policy' PROVE policy'[e] \in EndpointType
  <2>1. CASE e \in Watched
    BY <1>1, <2>1, FedDoes DEF TickDoes, Pair
  <2>2. CASE e \in Kept
    BY <1>1, <2>2 DEF MonitorInv, Typed, Kept
  <2> QED BY <1>1, <2>1, <2>2
<1>5. ASSUME NEW a \in DOMAIN told' PROVE told'[a] \in 0..ClearHold
  <2>1. PICK e \in Endpoints, r \in Reasons : a = <<e, r>>
    BY <1>1
  <2>2. CASE Edge(e, r, TRUE)
    <3>1. told'[a] = 0
      BY <1>1, <2>1, <2>2
    <3> QED BY <3>1, Thresholds
  <2>3. CASE ~Edge(e, r, TRUE)
    <3>1. a \in DOMAIN told /\ told'[a] = Ticked(told[a])
      BY <1>1, <2>1, <2>3
    <3>2. told[a] \in 0..ClearHold
      BY <3>1 DEF MonitorInv, Typed
    <3> QED BY <3>1, <3>2, Thresholds DEF Ticked
  <2> QED BY <2>2, <2>3
<1> QED BY <1>2, <1>3, <1>4, <1>5 DEF MonitorInv, Typed

(* An alert ends after ClearHold ticks, or because of what became of its endpoint. *)
LEMMA TickEnds ==
    ASSUME MonitorInv, OnTick, NEW a \in DOMAIN told \ DOMAIN told'
    PROVE  \/ told[a] >= ClearHold
           \/ registered[a[1]] = "removed" \/ snapshots[a[1]].state = "Idle"
           \/ a[2] = "reconnecting" /\ <<a[1], "failed">> \in DOMAIN told'
<1>1. PICK e \in Endpoints, r \in Reasons : a = <<e, r>>
  BY DEF MonitorInv, ToldIsActive
<1>2. e \in DOMAIN policy /\ r \in policy[e].active /\ policy[e] \in EndpointType
  BY <1>1, ToldAt DEF MonitorInv, Typed
<1>3. /\ DOMAIN policy' = Watched \cup Kept
      /\ \A x \in Watched : policy'[x] = Fed(x).ep
      /\ \A x \in Kept : policy'[x] = policy[x]
  BY TickIs DEF MonitorInv, ToldIsActive
<1>4. \A s \in Reasons : <<e, s>> \in DOMAIN told' <=> e \in DOMAIN policy' /\ s \in policy'[e].active
  BY TickTellsActive DEF ToldIsActive
<1>5. CASE e \in Watched
  <2>1. TickDoes(Before(e), Fed(e), snapshots[e].state)
    BY <1>5, FedDoes
  <2>2. r \notin Fed(e).ep.active
    BY <1>1, <1>3, <1>4, <1>5
  <2>3. /\ r \in Before(e).active /\ Before(e).live \in Ages /\ Before(e).live <= policy[e].live + 1
        /\ Before(e).false[r] \in Ages /\ Before(e).false[r] <= policy[e].false[r] + 1
    BY <1>2, BeforeTyped
  <2>4. Ends(Before(e), Fed(e), r, snapshots[e].state)
    BY <2>1, <2>2, <2>3 DEF TickDoes, Fate, Stays, Starts
  <2>5. Younger(policy[e], r, told[a]) /\ told[a] \in 0..ClearHold
    BY <1>1, <1>2 DEF MonitorInv, Clocks, Typed
  <2>6. policy[e].live \in Int /\ policy[e].false[r] \in Int
    BY <1>2 DEF EndpointType, Ages
  <2>7. CASE Before(e).false[r] >= ClearHold \/ (r \in OfState /\ Before(e).live >= ClearHold)
    BY <2>3, <2>5, <2>6, <2>7, Thresholds DEF Younger, Ages
  <2>8. CASE r = "reconnecting" /\ "failed" \in Fed(e).ep.active
    BY <1>1, <1>3, <1>4, <1>5, <2>8 DEF Reasons
  <2>9. CASE snapshots[e].state = "Idle"
    BY <1>1, <2>9
  <2> QED BY <2>4, <2>7, <2>8, <2>9 DEF Ends
<1>6. CASE e \in Gone
  BY <1>1, <1>2, <1>6 DEF Gone, Registered, MonitorInv, Typed
<1>7. CASE e \in Kept
  BY <1>1, <1>2, <1>3, <1>4, <1>7
<1> QED BY <1>2, <1>5, <1>6, <1>7 DEF Watched, Gone, Kept

-----------------------------------------------------------------------------
(* The steps between two ticks.                                            *)

(* They leave the policy and the clients alone; a new endpoint stays one that has been. *)
LEMMA QuietStep ==
    ASSUME MonitorInv, UNCHANGED monitor,
           registered' \in [Endpoints -> {"new", "on", "off", "removed"}],
           \A e \in Endpoints : registered[e] # "new" => registered'[e] # "new",
           \A e \in DOMAIN snapshots' : snapshots'[e].dropped \in Nat /\ snapshots'[e].frames \in Nat
    PROVE  MonitorInv'
<1>1. policy' = policy /\ told' = told
  BY DEF monitor
<1>2. Typed'
  BY <1>1 DEF MonitorInv, Typed
<1>3. ToldIsActive' /\ WindowIsMonotone' /\ Clocks'
  BY <1>1 DEF MonitorInv, ToldIsActive, WindowIsMonotone, Clocks
<1> QED BY <1>2, <1>3 DEF MonitorInv

LEMMA SnapshotsKept ==
    ASSUME MonitorInv, UNCHANGED <<registered, snapshots, monitor>>
    PROVE  MonitorInv'
BY QuietStep DEF MonitorInv, Typed

LEMMA OutputStep ==
    ASSUME MonitorInv, UNCHANGED <<registered, sampler, monitor>>
    PROVE  MonitorInv'
<1>1. UNCHANGED <<registered, snapshots, monitor>>
  BY DEF sampler
<1> QED BY <1>1, SnapshotsKept

LEMMA RegisterStep ==
    ASSUME MonitorInv, NEW e \in Endpoints, NEW to \in {"on", "off", "removed"}, Register(e, to)
    PROVE  MonitorInv'
<1>1. UNCHANGED <<snapshots, monitor>> /\ registered' = [registered EXCEPT ![e] = to]
  BY DEF Register, sampler
<1>2. registered \in [Endpoints -> {"new", "on", "off", "removed"}]
  BY DEF MonitorInv, Typed
<1>3. /\ registered' \in [Endpoints -> {"new", "on", "off", "removed"}]
      /\ \A x \in Endpoints : registered[x] # "new" => registered'[x] # "new"
  BY <1>1, <1>2
<1> QED BY <1>1, <1>3, QuietStep DEF MonitorInv, Typed

(* What a poll publishes has numbers for counters. *)
LEMMA SnapshotStep ==
    ASSUME MonitorInv, UNCHANGED <<registered, monitor>>, NEW e, NEW s,
           s.dropped \in Nat, s.frames \in Nat, snapshots' = With(snapshots, e, s)
    PROVE  MonitorInv'
<1>1. \A x \in DOMAIN snapshots' : snapshots'[x].dropped \in Nat /\ snapshots'[x].frames \in Nat
  <2>1. /\ DOMAIN snapshots' = {e} \cup DOMAIN snapshots /\ snapshots'[e] = s
        /\ \A x \in DOMAIN snapshots \ {e} : snapshots'[x] = snapshots[x]
    BY DEF With
  <2> QED BY <2>1 DEF MonitorInv, Typed
<1> QED BY <1>1, QuietStep DEF MonitorInv, Typed

LEMMA InactiveStep ==
    ASSUME MonitorInv, UNCHANGED <<registered, monitor>>, NEW e, NEW state, WriteInactive(e, state)
    PROVE  MonitorInv'
<1> DEFINE s == [state |-> state, rate |-> NoRate, dropped |-> 0, frames |-> 0]
<1>1. snapshots' = With(snapshots, e, s)
  BY DEF WriteInactive
<1>2. s.dropped \in Nat /\ s.frames \in Nat
  OBVIOUS
<1> HIDE DEF s
<1> QED BY <1>1, <1>2, SnapshotStep

LEMMA CountersTyped ==
    ASSUME MonitorInv, NEW e, NEW c \in Counters(e)
    PROVE  c.dropped \in Nat /\ c.frames \in Nat
<1> DEFINE read == IF output[e].fresh \/ e \notin DOMAIN snapshots
                   THEN [dropped |-> 0, frames |-> 0] ELSE snapshots[e]
<1>1. read.dropped \in Nat /\ read.frames \in Nat
  BY DEF MonitorInv, Typed
<1> HIDE DEF read
<1>2. c \in [dropped : read.dropped..MaxDropped, frames : read.frames..MaxSent]
  BY DEF Counters, read
<1>3. MaxDropped \in Nat /\ MaxSent \in Nat
  BY MonitorConstants
<1> QED BY <1>1, <1>2, <1>3

LEMMA SampleStep == MonitorInv /\ PollSample => MonitorInv'
<1> SUFFICES ASSUME MonitorInv, PollSample PROVE MonitorInv'
  OBVIOUS
<1> DEFINE e == Head(poll.todo).id
<1>1. UNCHANGED <<registered, monitor>>
  BY DEF PollSample
<1>2. CASE ~output[e].active
  <2>1. WriteInactive(e, poll.state)
    BY <1>2 DEF PollSample
  <2> QED BY <1>1, <2>1, InactiveStep
<1>3. CASE output[e].active
  <2> DEFINE s(c) == [state |-> poll.state,
                      rate |-> [sum |-> Sum(Rolled(e, c.frames).samples),
                                n |-> Len(Rolled(e, c.frames).samples)],
                      dropped |-> c.dropped, frames |-> c.frames]
  <2>1. PICK c \in Counters(e) : snapshots' = With(snapshots, e, s(c))
    BY <1>3 DEF PollSample
  <2>2. s(c).dropped = c.dropped /\ s(c).frames = c.frames
    OBVIOUS
  <2> HIDE DEF s
  <2>3. s(c).dropped \in Nat /\ s(c).frames \in Nat
    BY <2>2, CountersTyped
  <2> QED BY <1>1, <2>1, <2>3, SnapshotStep
<1> QED BY <1>2, <1>3

LEMMA InitMonitorInv == Init => MonitorInv
<1> SUFFICES ASSUME Init PROVE MonitorInv
  OBVIOUS
<1>1. DOMAIN snapshots = {} /\ DOMAIN policy = {} /\ DOMAIN told = {}
  BY DEF Init
<1>2. registered \in [Endpoints -> {"new", "on", "off", "removed"}]
  BY DEF Init
<1> QED BY <1>1, <1>2 DEF MonitorInv, Typed, ToldIsActive, WindowIsMonotone, Clocks

LEMMA PollStep == MonitorInv /\ Poll => MonitorInv'
<1> SUFFICES ASSUME MonitorInv, Poll PROVE MonitorInv'
  OBVIOUS
<1>1. CASE PollBegin
  <2>1. UNCHANGED <<registered, snapshots, monitor>>
    BY <1>1 DEF PollBegin
  <2> QED BY <2>1, SnapshotsKept
<1>2. CASE PollDisabled
  <2>1. UNCHANGED <<registered, monitor>> /\ WriteInactive(Head(poll.todo).id, "Idle")
    BY <1>2 DEF PollDisabled
  <2> QED BY <2>1, InactiveStep
<1>3. CASE PollState
  <2> DEFINE e == Head(poll.todo).id
  <2>1. /\ UNCHANGED <<registered, monitor>>
        /\ WriteInactive(e, output[e].state) \/ UNCHANGED snapshots
    BY <1>3 DEF PollState
  <2> QED BY <2>1, InactiveStep, SnapshotsKept
<1>4. CASE PollSample
  BY <1>4, SampleStep
<1> QED BY <1>1, <1>2, <1>3, <1>4 DEF Poll

LEMMA NextMonitorInv == MonitorInv /\ [Next]_vars => MonitorInv'
<1> SUFFICES ASSUME MonitorInv, [Next]_vars PROVE MonitorInv'
  OBVIOUS
<1>1. CASE Poll
  BY <1>1, PollStep
<1>2. CASE OnTick
  BY <1>2, TickTellsActive, TickKeepsClocks, TickKeepsWindows, TickKeepsTypes DEF MonitorInv
<1>3. ASSUME NEW e \in Endpoints, NEW to \in {"on", "off", "removed"}, Register(e, to)
      PROVE  MonitorInv'
  BY <1>3, RegisterStep
<1>4. ASSUME NEW e \in Endpoints,
             \/ StartOutput(e) \/ StopOutput(e) \/ Connect(e) \/ GoLive(e) \/ Deactivate(e)
             \/ \E state \in {"Reconnecting", "FailedHard"} : LoseOutput(e, state)
      PROVE  MonitorInv'
  <2>1. UNCHANGED <<registered, sampler, monitor>>
    BY <1>4 DEF StartOutput, StopOutput, Connect, GoLive, Deactivate, LoseOutput
  <2> QED BY <2>1, OutputStep
<1>5. CASE UNCHANGED vars
  BY <1>5, OutputStep DEF vars
<1> QED BY <1>1, <1>2, <1>3, <1>4, <1>5 DEF Next

(* Only a tick tells anything. *)
LEMMA OnlyTicksTell == [Next]_vars => OnTick \/ UNCHANGED told
<1> SUFFICES ASSUME [Next]_vars PROVE OnTick \/ UNCHANGED told
  OBVIOUS
<1>1. CASE Poll
  BY <1>1 DEF Poll, PollBegin, PollDisabled, PollState, PollSample, monitor
<1>2. CASE OnTick
  BY <1>2
<1>3. ASSUME NEW e \in Endpoints, NEW to \in {"on", "off", "removed"}, Register(e, to)
      PROVE  UNCHANGED told
  BY <1>3 DEF Register, monitor
<1>4. ASSUME NEW e \in Endpoints,
             \/ StartOutput(e) \/ StopOutput(e) \/ Connect(e) \/ GoLive(e) \/ Deactivate(e)
             \/ \E state \in {"Reconnecting", "FailedHard"} : LoseOutput(e, state)
      PROVE  UNCHANGED told
  BY <1>4 DEF StartOutput, StopOutput, Connect, GoLive, Deactivate, LoseOutput, monitor
<1>5. CASE UNCHANGED vars
  BY <1>5 DEF vars, monitor
<1> QED BY <1>1, <1>2, <1>3, <1>4, <1>5 DEF Next

-----------------------------------------------------------------------------
(* The theorems.                                                           *)

(* The inductive invariant: what clients know, the windows, and the clocks of known alerts. *)
THEOREM MonitorInvCorrect == Spec => []MonitorInv
BY InitMonitorInv, NextMonitorInv, PTL DEF Spec

(* handle() and retain_only() return every edge once: a client that got every event knows exactly
   the alerts the policy holds, of however many endpoints, also removed ones. *)
THEOREM ToldCorrect == Spec => []ToldIsActive
<1>1. MonitorInv => ToldIsActive
  BY DEF MonitorInv
<1> QED BY <1>1, MonitorInvCorrect, PTL

(* "so a delta is never negative": update() starts the drop window again when a counter went
   backwards, and erasing old samples keeps it in order, whatever the thresholds. *)
THEOREM WindowCorrect == Spec => []WindowIsMonotone
<1>1. MonitorInv => WindowIsMonotone
  BY DEF MonitorInv
<1> QED BY <1>1, MonitorInvCorrect, PTL

(* clear_hold_ms: no alert ends before it lasted ClearHold ticks, for every grace period, window
   and hold, unless its endpoint was stopped, removed, or failed instead of reconnecting. *)
THEOREM NoFlapCorrect == Spec => NoFlap
<1> DEFINE Kept0 == \A a \in DOMAIN told \ DOMAIN told' :
                       \/ told[a] >= ClearHold
                       \/ registered[a[1]] = "removed" \/ snapshots[a[1]].state = "Idle"
                       \/ a[2] = "reconnecting" /\ <<a[1], "failed">> \in DOMAIN told'
<1>1. MonitorInv /\ [Next]_vars => [Kept0]_vars
  <2> SUFFICES ASSUME MonitorInv, [Next]_vars PROVE Kept0
    OBVIOUS
  <2>1. CASE OnTick
    BY <2>1, TickEnds
  <2>2. CASE UNCHANGED told
    BY <2>2
  <2> QED BY <2>1, <2>2, OnlyTicksTell
<1> QED BY <1>1, MonitorInvCorrect, PTL DEF Spec, NoFlap
=================================================================================
