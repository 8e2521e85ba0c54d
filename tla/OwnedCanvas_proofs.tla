---------------------------- MODULE OwnedCanvas_proofs ----------------------------
(***************************************************************************)
(* The vertical canvas, what it shows and who holds it.                    *)
(*                                                                         *)
(* OwnedCanvas for any scenes, transitions, lengths of the queue and       *)
(* numbers of events: no wrapper keeps a scene alive that it should        *)
(* not, the canvas ends up on the scene linked to the program scene, and   *)
(* no edit of a transition is lost.                                        *)
(*                                                                         *)
(* The first part says what every function of OwnedCanvas.cpp does to what *)
(* is on the canvas (Fit: the channel's wrapper is the only one with       *)
(* scenes), the second has the invariant and one lemma per step.           *)
(*                                                                         *)
(* PreviewDisplay for any number of canvases and sessions: the graphics    *)
(* thread never lets go of a canvas last.  It is the third part.           *)
(***************************************************************************)
EXTENDS OwnedCanvas, PreviewDisplay, FiniteSetTheorems, SequenceTheorems, TLAPS

Scenes == Verticals \cup {NoScene}
Kinds == {"cut", "fade", "stinger", "none"}
Wrapping == [type : Kinds, applied : Nat, a : Scenes, b : Scenes]
Showing == [channel : Wrappers \cup {Nothing}, wrapper : [Wrappers -> Wrapping], stopped : BOOLEAN]

\* The scene the canvas shows, or goes to.
OnScreen(s) ==
    IF s.channel = Nothing THEN NoScene
    ELSE IF s.wrapper[s.channel].b # NoScene THEN s.wrapper[s.channel].b ELSE s.wrapper[s.channel].a

\* Only the wrapper on channel 0 has scenes, and it is one that was created.
SoleHolder(s) == \A w \in Wrappers : w # s.channel => s.wrapper[w].a = NoScene /\ s.wrapper[w].b = NoScene
Held(s) == s.channel # Nothing => s.wrapper[s.channel].type # "none"
Fit(s) == s \in Showing /\ SoleHolder(s) /\ Held(s)

\* The channel shows scenes of S only.
Within(s, S) ==
    s.channel # Nothing => s.wrapper[s.channel].a \in S \cup {NoScene} /\ s.wrapper[s.channel].b \in S \cup {NoScene}

\* From s to r no wrapper of a transition is created or gets settings, and none ends its run
\* without a refresh asked for.
Keeps(s, r) ==
    /\ s.stopped => r.stopped
    /\ \A t \in Transitions :
          /\ r.wrapper[t].type = s.wrapper[t].type
          /\ r.wrapper[t].applied = s.wrapper[t].applied
          /\ s.wrapper[t].b # NoScene => r.wrapper[t].b # NoScene \/ r.stopped

\* What the canvas has are names of vertical scenes.
Live == canvas.scenes \subseteq Verticals

\* The base wrapper and the empty channel are no transitions.
LEMMA WrapperNames == Base \in Wrappers /\ Nothing \notin Wrappers /\ Base \notin Transitions
                      /\ Transitions \subseteq Wrappers /\ Nothing # Base
  BY NamesDiffer DEF Wrappers, Base, Nothing

\* active_scene(): what is shown, while it is on the canvas.
LEMMA ActiveIsOnScreen ==
  ASSUME NEW s, Fit(s), Live
  PROVE  /\ Active(s) = IF OnScreen(s) \in canvas.scenes THEN OnScreen(s) ELSE NoScene
         /\ Active(s) \in Scenes
         /\ s.channel = Nothing => Active(s) = NoScene
  BY CanvasConstants DEF Active, OnScreen, Live, Scenes

\* set_transition_stopped() in every field.
LEMMA SetStoppedIs ==
  ASSUME NEW s, s \in Showing, NEW w \in Wrappers, NEW x \in Scenes
  PROVE  /\ SetStopped(s, w, x) \in Showing
         /\ SetStopped(s, w, x).channel = s.channel
         /\ SetStopped(s, w, x).stopped = (s.stopped \/ s.wrapper[w].b # NoScene)
         /\ SetStopped(s, w, x).wrapper[w].a = x
         /\ SetStopped(s, w, x).wrapper[w].b = NoScene
         /\ SetStopped(s, w, x).wrapper[w].type = s.wrapper[w].type
         /\ SetStopped(s, w, x).wrapper[w].applied = s.wrapper[w].applied
         /\ \A v \in Wrappers : v # w => SetStopped(s, w, x).wrapper[v] = s.wrapper[v]
<1>1. NoScene \in Scenes
  BY DEF Scenes
<1>2. /\ s \in [channel : Wrappers \cup {Nothing}, wrapper : [Wrappers -> Wrapping], stopped : BOOLEAN]
      /\ s.wrapper[w] \in Wrapping
  BY DEF Showing
<1> DEFINE e == [s.wrapper[w] EXCEPT !.a = x, !.b = NoScene]
           f == [s.wrapper EXCEPT ![w] = e]
<1>3. /\ e \in Wrapping /\ e.a = x /\ e.b = NoScene
      /\ e.type = s.wrapper[w].type /\ e.applied = s.wrapper[w].applied
  BY <1>1, <1>2 DEF Wrapping
<1>4. SetStopped(s, w, x) = [s EXCEPT !.wrapper = f, !.stopped = (s.stopped \/ Running(s, w))]
  BY <1>2 DEF SetStopped, Wrapping
<1> HIDE DEF e
<1>5. f \in [Wrappers -> Wrapping] /\ f[w] = e /\ \A v \in Wrappers : v # w => f[v] = s.wrapper[v]
  BY <1>2, <1>3
<1> HIDE DEF f
<1> QED
  BY <1>2, <1>3, <1>4, <1>5 DEF Running, Showing

\* set_transition_stopped() on the channel: the canvas shows that scene.
LEMMA SetStoppedFits ==
  ASSUME NEW s, Fit(s), s.channel # Nothing, NEW S, NEW x \in Scenes, x \in S \cup {NoScene}
  PROVE  LET r == SetStopped(s, s.channel, x)
         IN Fit(r) /\ r.channel = s.channel /\ Within(r, S) /\ Keeps(s, r) /\ OnScreen(r) = x
<1> DEFINE r == SetStopped(s, s.channel, x)
<1>1. s.channel \in Wrappers /\ s \in Showing
  BY DEF Fit, Showing
<1>2. /\ r \in Showing /\ r.channel = s.channel
      /\ r.stopped = (s.stopped \/ s.wrapper[s.channel].b # NoScene)
      /\ r.wrapper[s.channel].a = x /\ r.wrapper[s.channel].b = NoScene
      /\ r.wrapper[s.channel].type = s.wrapper[s.channel].type
      /\ r.wrapper[s.channel].applied = s.wrapper[s.channel].applied
      /\ \A v \in Wrappers : v # s.channel => r.wrapper[v] = s.wrapper[v]
  BY <1>1, SetStoppedIs
<1> HIDE DEF r
<1>3. Fit(r)
  BY <1>1, <1>2 DEF Fit, SoleHolder, Held
<1>4. Within(r, S) /\ OnScreen(r) = x
  BY <1>1, <1>2, WrapperNames DEF Within, OnScreen
<1>5. Keeps(s, r)
  BY <1>1, <1>2, WrapperNames DEF Keeps
<1> QED
  BY <1>2, <1>3, <1>4, <1>5 DEF r

\* What two functions in a row keep, both keep.
LEMMA KeepsTransitive ==
  ASSUME NEW s, NEW r, NEW q, Keeps(s, r), Keeps(r, q)
  PROVE  Keeps(s, q)
  BY DEF Keeps

\* ensure_base(): the base wrapper is there and nothing else changes.
LEMMA EnsureBaseFits ==
  ASSUME NEW s, Fit(s), Live, NEW S
  PROVE  LET r == EnsureBase(s)
         IN /\ Fit(r) /\ r.channel = s.channel /\ Keeps(s, r)
            /\ r.wrapper[Base].type # "none"
            /\ Within(s, S) => Within(r, S)
            /\ Active(r) = Active(s)
<1> DEFINE r == EnsureBase(s)
<1>1. s \in Showing
  BY DEF Fit
<1>2. /\ r \in Showing /\ r.channel = s.channel /\ r.stopped = s.stopped
      /\ r.wrapper[Base].type # "none"
      /\ r.wrapper[Base].a = s.wrapper[Base].a /\ r.wrapper[Base].b = s.wrapper[Base].b
      /\ \A v \in Wrappers : v # Base => r.wrapper[v] = s.wrapper[v]
  BY <1>1, WrapperNames DEF EnsureBase, Showing, Wrapping, Kinds
<1> HIDE DEF r
<1>3. \A v \in Wrappers : /\ r.wrapper[v].a = s.wrapper[v].a /\ r.wrapper[v].b = s.wrapper[v].b
                          /\ s.wrapper[v].type # "none" => r.wrapper[v].type # "none"
  BY <1>2
<1>4. s.channel # Nothing => s.channel \in Wrappers
  BY <1>1 DEF Showing
<1>5. Fit(r)
  BY <1>2, <1>3, <1>4 DEF Fit, SoleHolder, Held
<1>6. (Within(s, S) => Within(r, S)) /\ OnScreen(r) = OnScreen(s)
  BY <1>2, <1>3, <1>4 DEF Within, OnScreen
<1>7. Keeps(s, r)
  BY <1>2, <1>3, WrapperNames DEF Keeps
<1>8. Active(r) = Active(s)
  BY <1>5, <1>6, ActiveIsOnScreen
<1> QED
  BY <1>2, <1>5, <1>6, <1>7, <1>8 DEF r

\* install(): the wrapper is on the channel, shows what was shown, and the old one has let go.
LEMMA InstallFits ==
  ASSUME NEW s, Fit(s), Live, NEW w \in Wrappers, s.wrapper[w].type # "none",
         NEW S, canvas.scenes \subseteq S
  PROVE  LET r == install(s, w)
         IN /\ Fit(r) /\ r.channel = w /\ Keeps(s, r)
            /\ Within(s, S) => Within(r, S)
            /\ Active(r) = Active(s)
<1> DEFINE r == install(s, w)
           x == Active(s)
           shown == IF x = NoScene THEN s ELSE SetStopped(s, w, x)
           put == [shown EXCEPT !.channel = w]
<1>1. CASE s.channel = w
  <2>1. r = s
    BY <1>1 DEF install
  <2> QED
    BY <2>1, <1>1 DEF Keeps
<1>2. CASE s.channel # w
  <2>1. /\ s \in Showing /\ x \in Scenes /\ x \in canvas.scenes \cup {NoScene}
        /\ s.wrapper[w].a = NoScene /\ s.wrapper[w].b = NoScene
        /\ s.channel = Nothing => x = NoScene
        /\ OnScreen(s) \in canvas.scenes => x = OnScreen(s)
    BY <1>2, ActiveIsOnScreen DEF Fit, SoleHolder
  <2>2. /\ SetStopped(s, w, x) \in Showing
        /\ SetStopped(s, w, x).channel = s.channel
        /\ SetStopped(s, w, x).stopped = (s.stopped \/ s.wrapper[w].b # NoScene)
        /\ SetStopped(s, w, x).wrapper[w].a = x
        /\ SetStopped(s, w, x).wrapper[w].b = NoScene
        /\ SetStopped(s, w, x).wrapper[w].type = s.wrapper[w].type
        /\ SetStopped(s, w, x).wrapper[w].applied = s.wrapper[w].applied
        /\ \A v \in Wrappers : v # w => SetStopped(s, w, x).wrapper[v] = s.wrapper[v]
    BY <2>1, SetStoppedIs
  <2> HIDE DEF x
  <2>3. /\ shown \in Showing /\ shown.channel = s.channel /\ shown.stopped = s.stopped
        /\ shown.wrapper[w].a = x /\ shown.wrapper[w].b = NoScene
        /\ shown.wrapper[w].type = s.wrapper[w].type /\ shown.wrapper[w].applied = s.wrapper[w].applied
        /\ \A v \in Wrappers : v # w => shown.wrapper[v] = s.wrapper[v]
    BY <2>1, <2>2 DEF Showing
  <2> HIDE DEF shown
  <2>4. put \in Showing /\ put.channel = w /\ put.stopped = shown.stopped /\ put.wrapper = shown.wrapper
    BY <2>3 DEF Showing
  <2>5. r = IF s.channel = Nothing THEN put ELSE SetStopped(put, s.channel, NoScene)
    BY <1>2 DEF install, shown, x
  <2> HIDE DEF put, r
  <2>6. s.channel # Nothing => s.channel \in Wrappers
    BY <2>1 DEF Showing
  <2>7. /\ r \in Showing /\ r.channel = w
        /\ r.wrapper[w].a = x /\ r.wrapper[w].b = NoScene
        /\ r.wrapper[w].type = s.wrapper[w].type /\ r.wrapper[w].applied = s.wrapper[w].applied
        /\ s.stopped => r.stopped
        /\ \A v \in Wrappers : v # w =>
              /\ r.wrapper[v].a = NoScene /\ r.wrapper[v].b = NoScene
              /\ r.wrapper[v].type = s.wrapper[v].type /\ r.wrapper[v].applied = s.wrapper[v].applied
              /\ s.wrapper[v].b # NoScene => r.stopped
    <3>1. CASE s.channel = Nothing
      <4>1. \A v \in Wrappers : s.wrapper[v].a = NoScene /\ s.wrapper[v].b = NoScene
        BY <3>1, WrapperNames DEF Fit, SoleHolder
      <4> QED
        BY <3>1, <4>1, <2>3, <2>4, <2>5
    <3>2. CASE s.channel # Nothing
      <4>1. NoScene \in Scenes
        BY DEF Scenes
      <4>2. /\ r \in Showing /\ r.channel = w
            /\ r.stopped = (put.stopped \/ put.wrapper[s.channel].b # NoScene)
            /\ r.wrapper[s.channel].a = NoScene
            /\ r.wrapper[s.channel].b = NoScene
            /\ r.wrapper[s.channel].type = put.wrapper[s.channel].type
            /\ r.wrapper[s.channel].applied = put.wrapper[s.channel].applied
            /\ \A v \in Wrappers : v # s.channel => r.wrapper[v] = put.wrapper[v]
        BY <3>2, <4>1, <2>4, <2>5, <2>6, SetStoppedIs
      <4>3. \A v \in Wrappers : v # s.channel => s.wrapper[v].a = NoScene /\ s.wrapper[v].b = NoScene
        BY DEF Fit, SoleHolder
      <4>4. r.wrapper[w] = put.wrapper[w]
        BY <1>2, <4>2
      <4>5. s.wrapper[s.channel].b # NoScene => r.stopped
        BY <1>2, <3>2, <4>2, <2>3, <2>4, <2>6
      <4>6. s.stopped => r.stopped
        BY <4>2, <2>3, <2>4
      <4>7. ASSUME NEW v \in Wrappers, v # w
            PROVE  /\ r.wrapper[v].a = NoScene /\ r.wrapper[v].b = NoScene
                   /\ r.wrapper[v].type = s.wrapper[v].type /\ r.wrapper[v].applied = s.wrapper[v].applied
                   /\ s.wrapper[v].b # NoScene => r.stopped
        <5>1. put.wrapper[v] = s.wrapper[v]
          BY <4>7, <2>3, <2>4
        <5>2. CASE v = s.channel
          BY <5>1, <5>2, <4>2, <4>5
        <5>3. CASE v # s.channel
          BY <5>1, <5>3, <4>2, <4>3
        <5> QED
          BY <5>2, <5>3
      <4> QED
        BY <4>2, <4>4, <4>6, <4>7, <2>3, <2>4
    <3> QED
      BY <3>1, <3>2
  <2>8. Fit(r)
    BY <2>7 DEF Fit, SoleHolder, Held
  <2>9. Keeps(s, r)
    BY <2>7, <2>1, WrapperNames DEF Keeps
  <2>10. Within(r, S)
    BY <2>7, <2>1 DEF Within
  <2>11. Active(r) = x
    <3>1. OnScreen(r) = x
      BY <2>7, WrapperNames DEF OnScreen
    <3> QED
      BY <3>1, <2>1, <2>8, ActiveIsOnScreen
  <2> QED
    BY <2>7, <2>8, <2>9, <2>10, <2>11 DEF r, x
<1> QED
  BY <1>1, <1>2

\* channel_wrapper(): the channel has a wrapper, and shows what it showed.
LEMMA ChannelWrapperFits ==
  ASSUME NEW s, Fit(s), Live, NEW S, canvas.scenes \subseteq S
  PROVE  LET r == channel_wrapper(s)
         IN /\ Fit(r) /\ r.channel # Nothing /\ Keeps(s, r)
            /\ Within(s, S) => Within(r, S)
            /\ Active(r) = Active(s)
<1> DEFINE r == channel_wrapper(s)
           e == EnsureBase(s)
<1>1. CASE s.channel # Nothing
  BY <1>1 DEF channel_wrapper, Keeps
<1>2. CASE s.channel = Nothing
  <2>1. r = install(e, Base)
    BY <1>2 DEF channel_wrapper
  <2>2. /\ Fit(e) /\ Keeps(s, e) /\ e.wrapper[Base].type # "none"
        /\ Within(s, S) => Within(e, S)
        /\ Active(e) = Active(s)
    BY EnsureBaseFits
  <2> HIDE DEF r, e
  <2>3. /\ Fit(r) /\ r.channel = Base /\ Keeps(e, r)
        /\ Within(e, S) => Within(r, S)
        /\ Active(r) = Active(e)
    BY <2>1, <2>2, InstallFits, WrapperNames
  <2> QED
    BY <2>2, <2>3, KeepsTransitive, WrapperNames DEF r
<1> QED
  BY <1>1, <1>2

\* obs_transition_start() on the channel: the canvas goes to that scene.
LEMMA StartWrapperFits ==
  ASSUME NEW s, Fit(s), s.channel # Nothing, NEW S, NEW x \in Scenes, x \in S, x # NoScene
  PROVE  LET r == StartWrapper(s, s.channel, x)
         IN /\ Fit(r) /\ r.channel = s.channel /\ Keeps(s, r)
            /\ Within(s, S) => Within(r, S)
            /\ OnScreen(r) = x
<1> DEFINE r == StartWrapper(s, s.channel, x)
           w == s.channel
<1>1. s \in Showing /\ w \in Wrappers
  BY DEF Fit, Showing
<1>2. CASE s.wrapper[w].b = NoScene /\ s.wrapper[w].a = x
  <2>1. r = s
    BY <1>2 DEF StartWrapper, Running
  <2> QED
    BY <2>1, <1>2, <1>1 DEF Keeps, OnScreen
<1>3. CASE ~(s.wrapper[w].b = NoScene /\ s.wrapper[w].a = x)
  <2> DEFINE left == IF s.wrapper[w].b # NoScene THEN s.wrapper[w].b ELSE s.wrapper[w].a
  <2>0. left \in Scenes
    BY <1>1 DEF Showing, Wrapping
  <2>1. r = [s EXCEPT !.wrapper[w].a = left, !.wrapper[w].b = x]
    BY <1>3 DEF StartWrapper, Running
  <2>2. /\ r \in Showing /\ r.channel = w /\ r.stopped = s.stopped
        /\ r.wrapper[w].a = left
        /\ r.wrapper[w].b = x
        /\ r.wrapper[w].type = s.wrapper[w].type /\ r.wrapper[w].applied = s.wrapper[w].applied
        /\ \A v \in Wrappers : v # w => r.wrapper[v] = s.wrapper[v]
    <3> HIDE DEF left, r
    <3> QED
      BY <2>0, <2>1, <1>1 DEF Showing, Wrapping
  <2> HIDE DEF r
  <2>3. Fit(r)
    BY <1>1, <2>2 DEF Fit, SoleHolder, Held
  <2>4. OnScreen(r) = x /\ (Within(s, S) => Within(r, S))
    BY <1>1, <2>2 DEF OnScreen, Within
  <2>5. Keeps(s, r)
    BY <1>1, <2>2, WrapperNames DEF Keeps
  <2> QED
    BY <2>2, <2>3, <2>4, <2>5 DEF r
<1> QED
  BY <1>2, <1>3

\* start_switch(): whatever way is taken, the canvas goes to the scene.
LEMMA SwitchFits ==
  ASSUME NEW s, Fit(s), Live, NEW S, canvas.scenes \subseteq S, NEW prep,
         NEW x \in Scenes, x \in S, x # NoScene, NEW t \in Transitions \cup {Nothing}, NEW instant \in BOOLEAN
  PROVE  LET r == start_switch(s, prep, x, t, instant)
         IN /\ Fit(r) /\ r.channel # Nothing /\ Keeps(s, r)
            /\ Within(s, S) => Within(r, S)
            /\ OnScreen(r) = x
<1> DEFINE r == start_switch(s, prep, x, t, instant)
           c == channel_wrapper(s)
           e == EnsureBase(s)
           w == IF Ready(s, prep, t) THEN t ELSE Base
           i == install(e, w)
           put == StartWrapper(i, w, x)
<1>1. CASE instant \/ (t # Nothing /\ prep[t].plan.kind = "instant")
  <2>1. r = SetStopped(c, c.channel, x)
    BY <1>1 DEF start_switch
  <2>2. Fit(c) /\ c.channel # Nothing /\ Keeps(s, c) /\ (Within(s, S) => Within(c, S))
    BY ChannelWrapperFits
  <2> HIDE DEF r, c
  <2>3. Fit(r) /\ r.channel = c.channel /\ Within(r, S) /\ Keeps(c, r) /\ OnScreen(r) = x
    BY <2>1, <2>2, SetStoppedFits
  <2> QED
    BY <2>2, <2>3, KeepsTransitive DEF r
<1>2. CASE ~(instant \/ (t # Nothing /\ prep[t].plan.kind = "instant"))
  <2>1. r = [put EXCEPT !.stopped = @ \/ (w = Base /\ (t = Nothing \/ prep[t].plan.id # "fade"))]
    BY <1>2 DEF start_switch
  <2>2. /\ Fit(e) /\ Keeps(s, e) /\ e.wrapper[Base].type # "none"
        /\ Within(s, S) => Within(e, S)
    BY EnsureBaseFits
  <2>3. w \in Wrappers /\ e.wrapper[w].type # "none"
    BY <2>2, WrapperNames DEF Ready, Keeps
  <2> HIDE DEF e, w
  <2>4. Fit(i) /\ i.channel = w /\ Keeps(e, i) /\ (Within(e, S) => Within(i, S))
    BY <2>2, <2>3, InstallFits
  <2> HIDE DEF i
  <2>5. /\ Fit(put) /\ put.channel = w /\ Keeps(i, put)
        /\ Within(i, S) => Within(put, S)
        /\ OnScreen(put) = x
    BY <2>3, <2>4, StartWrapperFits, WrapperNames
  <2> HIDE DEF put, r
  <2>6. /\ r \in Showing /\ r.channel = put.channel /\ r.wrapper = put.wrapper
        /\ put.stopped => r.stopped
    BY <2>1, <2>5 DEF Fit, Showing
  <2>7. Fit(r) /\ OnScreen(r) = x /\ (Within(put, S) => Within(r, S)) /\ Keeps(put, r)
    BY <2>5, <2>6 DEF Fit, SoleHolder, Held, OnScreen, Within, Keeps
  <2> QED
    BY <2>2, <2>3, <2>4, <2>5, <2>6, <2>7, KeepsTransitive, WrapperNames DEF r
<1> QED
  BY <1>1, <1>2

\* The same for a scene that is there.
LEMMA SwitchHere ==
  ASSUME NEW s, Fit(s), Live, NEW prep, NEW x \in canvas.scenes,
         NEW t \in Transitions \cup {Nothing}, NEW instant \in BOOLEAN
  PROVE  LET r == start_switch(s, prep, x, t, instant)
         IN /\ Fit(r) /\ r.channel # Nothing /\ Keeps(s, r)
            /\ Within(s, canvas.scenes) => Within(r, canvas.scenes)
            /\ OnScreen(r) = x
<1> DEFINE S == canvas.scenes
<1>1. canvas.scenes \subseteq S /\ x \in S /\ x \in Scenes /\ x # NoScene
  BY CanvasConstants DEF Live, Scenes
<1> HIDE DEF S
<1>2. LET r == start_switch(s, prep, x, t, instant)
      IN /\ Fit(r) /\ r.channel # Nothing /\ Keeps(s, r)
         /\ Within(s, S) => Within(r, S)
         /\ OnScreen(r) = x
  BY <1>1, SwitchFits
<1> QED
  BY <1>2 DEF S

\* The type of the frontend's list.
TransitionList ==
    frontend \in [list : SUBSET Transitions, current : Transitions, settings : [Transitions -> Nat]]

\* Every wrapper has its transition's settings, but one that runs or whose end asks for a refresh.
Applied(r) ==
    \A t \in frontend.list : r.wrapper[t].type # "none" =>
        r.wrapper[t].applied = frontend.settings[t] \/ r.wrapper[t].b # NoScene \/ r.stopped

\* decide_vertical_transition() answers with one of three kinds.
LEMMA PlanShape ==
  ASSUME NEW t \in Transitions
  PROVE  /\ Plan(t).id \in {"cut", "fade", "stinger"}
         /\ Plan(t).kind \in {"instant", "fallback", "play"}
<1> DEFINE main == [id |-> Type[t], path |-> "video", matte |-> FALSE, point |-> 0, duration |-> 1]
           st == [mode |-> "follow", stinger_source |-> ""]
           custom == [id |-> "none"]
           ex == IF frontend.settings[t] % 2 = 0 THEN {"suffixed"} ELSE {}
           source == IF st.mode = "custom" /\ custom.id # "none" THEN custom ELSE main
           file == VerticalVideo(source, st, ex)
<1>1. Plan(t) = decide_vertical_transition(st, main, custom, ex)
  BY DEF Plan
<1>2. main.id \in {"cut", "fade", "stinger"} /\ st.mode = "follow" /\ custom.id = "none" /\ source = main
  BY CanvasConstants
<1> HIDE DEF main, st, custom
<1>3. decide_vertical_transition(st, main, custom, ex) =
         CASE st.mode = "cut" \/ source.id \in {"", "cut"} -> Instant
           [] source.id = "stinger" /\ file = "none" ->
                 [kind |-> "fallback", id |-> "fade", file |-> "none",
                  ms |-> IF source.point > 0 THEN source.point ELSE source.duration]
           [] OTHER -> [kind |-> "play", id |-> source.id, ms |-> source.duration,
                        file |-> IF source.id = "stinger" THEN file ELSE "none"]
  BY Zenon DEF decide_vertical_transition
<1> HIDE DEF file, source, ex
<1>4. CASE source.id = "cut"
  BY <1>1, <1>3, <1>4 DEF Instant
<1>5. CASE source.id # "cut" /\ source.id = "stinger" /\ file = "none"
  BY <1>1, <1>2, <1>3, <1>5
<1>6. CASE source.id # "cut" /\ ~(source.id = "stinger" /\ file = "none")
  <2>1. ~(st.mode = "cut" \/ source.id \in {"", "cut"})
    BY <1>2, <1>6
  <2>2. Plan(t) = [kind |-> "play", id |-> source.id, ms |-> source.duration,
                   file |-> IF source.id = "stinger" THEN file ELSE "none"]
    BY <1>1, <1>3, <1>6, <2>1
  <2> QED
    BY <1>2, <2>2
<1> QED
  BY <1>4, <1>5, <1>6

\* What keeps the wrappers keeps their settings.
LEMMA KeepsApplied ==
  ASSUME NEW s, NEW r, TransitionList, Keeps(s, r), Applied(s)
  PROVE  Applied(r)
  BY DEF TransitionList, Keeps, Applied

\* refresh_prepared_on(): the channel has a wrapper and shows what it showed; settings are applied.
LEMMA RefreshedFits ==
  ASSUME NEW s, Fit(s), Live, TransitionList, NEW S, canvas.scenes \subseteq S, NEW failed
  PROVE  LET r == Refreshed(s, failed)
         IN /\ Fit(r) /\ r.channel # Nothing /\ Applied(r)
            /\ Within(s, S) => Within(r, S)
            /\ Active(r) = Active(s)
<1> DEFINE e == EnsureBase(s)
           moved == IF s.channel \in Retired(s) THEN install(e, Base) ELSE e
           creates(t) == t \in frontend.list /\ OwnWrapper(Plan(t)) /\ t \notin failed
           kept(t) == IF t \in Retired(s) THEN NoWrapper ELSE moved.wrapper[t]
           made(t) == IF kept(t).type = "none" /\ creates(t)
                      THEN [NoWrapper EXCEPT !.type = Plan(t).id, !.applied = frontend.settings[t]]
                      ELSE IF kept(t).type # "none" /\ kept(t).b = NoScene
                      THEN [kept(t) EXCEPT !.applied = frontend.settings[t]] ELSE kept(t)
           built == [w \in Wrappers |-> IF w = Base THEN moved.wrapper[Base] ELSE made(w)]
           m == [moved EXCEPT !.wrapper = built]
           r == Refreshed(s, failed)
<1>1. r = channel_wrapper(m)
  BY DEF Refreshed
<1>2. /\ Fit(e) /\ e.channel = s.channel /\ e.wrapper[Base].type # "none"
      /\ Within(s, S) => Within(e, S)
      /\ Active(e) = Active(s)
  BY EnsureBaseFits
<1>3. Retired(s) \subseteq Transitions
  BY DEF Retired
<1> HIDE DEF e
<1>4. /\ Fit(moved) /\ moved.channel \notin Retired(s) /\ moved.wrapper[Base].type # "none"
      /\ Within(s, S) => Within(moved, S)
      /\ Active(moved) = Active(s)
  <2>1. CASE s.channel \in Retired(s)
    <3>1. moved = install(e, Base)
      BY <2>1
    <3> HIDE DEF moved
    <3>2. /\ Fit(moved) /\ moved.channel = Base
          /\ Within(e, S) => Within(moved, S)
          /\ Active(moved) = Active(e)
      BY <3>1, <1>2, InstallFits, WrapperNames
    <3> QED
      BY <3>2, <1>2, <1>3, WrapperNames DEF Fit, Held
  <2>2. CASE s.channel \notin Retired(s)
    BY <2>2, <1>2
  <2> QED
    BY <2>1, <2>2
<1> HIDE DEF moved
<1>5. moved \in Showing /\ SoleHolder(moved) /\ Held(moved)
  BY <1>4 DEF Fit
<1>6. NoWrapper \in Wrapping /\ NoWrapper.a = NoScene /\ NoWrapper.b = NoScene /\ NoWrapper.type = "none"
  BY DEF NoWrapper, Wrapping, Kinds, Scenes
<1>7. ASSUME NEW t \in Transitions
      PROVE  /\ made(t) \in Wrapping
             /\ t # moved.channel => made(t).a = NoScene /\ made(t).b = NoScene
             /\ t = moved.channel => /\ made(t).a = moved.wrapper[t].a /\ made(t).b = moved.wrapper[t].b
                                     /\ made(t).type = moved.wrapper[t].type
             /\ t \in frontend.list /\ made(t).type # "none" =>
                   made(t).applied = frontend.settings[t] \/ made(t).b # NoScene
  <2>1. /\ kept(t) \in Wrapping
        /\ t # moved.channel => kept(t).a = NoScene /\ kept(t).b = NoScene
        /\ t = moved.channel => kept(t) = moved.wrapper[t] /\ kept(t).type # "none"
    BY <1>4, <1>5, <1>6, WrapperNames DEF Showing, SoleHolder, Held
  <2>2. Plan(t).id \in Kinds /\ frontend.settings[t] \in Nat
    BY PlanShape DEF Kinds, TransitionList
  <2> HIDE DEF kept
  <2>3. CASE kept(t).type = "none" /\ creates(t)
    <3>1. made(t) = [type |-> Plan(t).id, applied |-> frontend.settings[t], a |-> NoScene, b |-> NoScene]
      BY <2>3 DEF NoWrapper
    <3> QED
      BY <3>1, <2>1, <2>2, <2>3 DEF Wrapping, Scenes
  <2>4. CASE kept(t).type # "none" /\ kept(t).b = NoScene
    <3>1. made(t) = [kept(t) EXCEPT !.applied = frontend.settings[t]]
      BY <2>4
    <3> HIDE DEF made
    <3> QED
      BY <3>1, <2>1, <2>2 DEF Wrapping
  <2>5. CASE ~(kept(t).type = "none" /\ creates(t)) /\ ~(kept(t).type # "none" /\ kept(t).b = NoScene)
    <3>1. made(t) = kept(t)
      BY <2>5
    <3>2. t \in frontend.list /\ kept(t).type # "none" => kept(t).b # NoScene
      BY <2>5
    <3> HIDE DEF made
    <3> QED
      BY <3>1, <3>2, <2>1
  <2> QED
    BY <2>3, <2>4, <2>5
<1> HIDE DEF made
<1>8. /\ built \in [Wrappers -> Wrapping] /\ built[Base] = moved.wrapper[Base]
      /\ \A t \in Transitions : built[t] = made(t)
  BY <1>5, <1>7, WrapperNames DEF Showing, Wrappers
<1> HIDE DEF built
<1>9. m \in Showing /\ m.channel = moved.channel /\ m.wrapper = built
  BY <1>5, <1>8 DEF Showing
<1> HIDE DEF m, r
<1>10. /\ \A w \in Wrappers : w # m.channel => m.wrapper[w].a = NoScene /\ m.wrapper[w].b = NoScene
       /\ m.channel # Nothing => /\ m.wrapper[m.channel].a = moved.wrapper[m.channel].a
                                 /\ m.wrapper[m.channel].b = moved.wrapper[m.channel].b
                                 /\ m.wrapper[m.channel].type = moved.wrapper[m.channel].type
  BY <1>5, <1>7, <1>8, <1>9 DEF Showing, SoleHolder, Wrappers
<1>11. Fit(m) /\ (Within(moved, S) => Within(m, S)) /\ OnScreen(m) = OnScreen(moved)
  BY <1>5, <1>9, <1>10 DEF Fit, SoleHolder, Held, Within, OnScreen
<1>12. Active(m) = Active(s)
  BY <1>4, <1>11, ActiveIsOnScreen
<1>13. Applied(m)
  BY <1>7, <1>8, <1>9 DEF Applied, TransitionList
<1>14. /\ Fit(r) /\ r.channel # Nothing /\ Keeps(m, r)
       /\ Within(m, S) => Within(r, S)
       /\ Active(r) = Active(m)
  BY <1>1, <1>11, ChannelWrapperFits
<1> QED
  BY <1>4, <1>11, <1>12, <1>13, <1>14, KeepsApplied DEF r

\* resolve_linked_scene() never names a scene that is not there.
LEMMA ResolvedLives ==
  ASSUME NEW main, NEW l, NEW V
  PROVE  resolve_linked_scene(main, l, V) \in V \cup {NoScene}
  BY DEF resolve_linked_scene, EntryCounts, ByName

\* follow_scene(): the canvas goes to the scene linked to the program scene.
LEMMA FollowedFits ==
  ASSUME NEW s, Fit(s), Live, NEW S, canvas.scenes \subseteq S, S \subseteq Verticals, NEW prep,
         NEW c, c.scenes \subseteq S
  PROVE  LET r == Followed(s, prep, c)
             target == resolve_linked_scene(program.scene, links, c.scenes)
         IN /\ Fit(r) /\ Keeps(s, r)
            /\ s.channel # Nothing \/ (c.video # "none" /\ target # NoScene) => r.channel # Nothing
            /\ c.video = "none" => r = s
            /\ Within(s, S) => Within(r, S)
            /\ c.video # "none" /\ target # NoScene => OnScreen(r) = target
<1> DEFINE r == Followed(s, prep, c)
           target == resolve_linked_scene(program.scene, links, c.scenes)
<1>1. target \in c.scenes \cup {NoScene}
  BY ResolvedLives
<1>2. Active(s) = (IF OnScreen(s) \in canvas.scenes THEN OnScreen(s) ELSE NoScene)
      /\ (s.channel = Nothing => Active(s) = NoScene)
  BY ActiveIsOnScreen
<1>3. CASE c.video # "none" /\ target # NoScene /\ target # Active(s)
  <2> DEFINE yes == TRUE
  <2>1. r = start_switch(s, prep, target, Nothing, yes) /\ yes \in BOOLEAN
    BY <1>3 DEF Followed, scene_changed_needs_catch_up
  <2>2. target \in Scenes /\ target \in S /\ target # NoScene /\ Nothing \in Transitions \cup {Nothing}
    BY <1>1, <1>3 DEF Scenes
  <2> HIDE DEF r, target, yes
  <2>3. /\ Fit(r) /\ r.channel # Nothing /\ Keeps(s, r)
        /\ Within(s, S) => Within(r, S)
        /\ OnScreen(r) = target
    BY <2>1, <2>2, SwitchFits
  <2> QED
    BY <1>3, <2>3 DEF r, target
<1>4. CASE ~(c.video # "none" /\ target # NoScene /\ target # Active(s))
  <2>1. r = s
    BY <1>4 DEF Followed, scene_changed_needs_catch_up
  <2> HIDE DEF r, target
  <2> QED
    BY <1>2, <1>4, <2>1 DEF Keeps, r, target
<1> QED
  BY <1>3, <1>4

\* The same on the canvas as it is.
LEMMA FollowedHere ==
  ASSUME NEW s, Fit(s), Live, NEW prep
  PROVE  LET r == Followed(s, prep, canvas)
             target == resolve_linked_scene(program.scene, links, canvas.scenes)
         IN /\ Fit(r) /\ Keeps(s, r)
            /\ s.channel # Nothing => r.channel # Nothing
            /\ canvas.video = "none" => r = s
            /\ Within(s, canvas.scenes) => Within(r, canvas.scenes)
            /\ canvas.video # "none" /\ target # NoScene => OnScreen(r) = target
<1> DEFINE S == canvas.scenes
           c == canvas
           r == Followed(s, prep, c)
           target == resolve_linked_scene(program.scene, links, c.scenes)
<1>1. canvas.scenes \subseteq S /\ S \subseteq Verticals /\ c.scenes \subseteq S
  BY DEF Live
<1> HIDE DEF S, c
<1>2. /\ Fit(r) /\ Keeps(s, r)
      /\ s.channel # Nothing => r.channel # Nothing
      /\ c.video = "none" => r = s
      /\ Within(s, S) => Within(r, S)
      /\ c.video # "none" /\ target # NoScene => OnScreen(r) = target
  BY <1>1, FollowedFits
<1> QED
  BY <1>2 DEF S, c

-------------------------------------------------------------------------------
\* What is posted to the UI thread.
Post == [kind : {"load", "reset", "changed", "repair", "refresh"}]
        \cup [kind : {"start"}, transition : Transitions, dest : MainScenes]

\* A post of kind k is among p.
Has(p, k) == \E i \in DOMAIN p : p[i].kind = k

\* Posting adds one kind.
LEMMA HasAppended ==
  ASSUME NEW p \in Seq(Post), NEW x \in Post, NEW k
  PROVE  Append(p, x) \in Seq(Post) /\ (Has(Append(p, x), k) <=> Has(p, k) \/ x.kind = k)
<1>1. /\ Append(p, x) \in Seq(Post) /\ Len(Append(p, x)) = Len(p) + 1
      /\ \A i \in 1..Len(p) : Append(p, x)[i] = p[i]
      /\ Append(p, x)[Len(p) + 1] = x
      /\ DOMAIN Append(p, x) = 1..Len(p) + 1 /\ DOMAIN p = 1..Len(p) /\ Len(p) \in Nat
  OBVIOUS
<1> QED
  BY <1>1 DEF Has

\* Running the first post takes one away.
LEMMA HasTail ==
  ASSUME NEW p \in Seq(Post), p # <<>>, NEW k
  PROVE  /\ Tail(p) \in Seq(Post) /\ Head(p) \in Post
         /\ Has(p, k) <=> Head(p).kind = k \/ Has(Tail(p), k)
<1>1. /\ Tail(p) \in Seq(Post) /\ Len(Tail(p)) = Len(p) - 1 /\ Head(p) = p[1] /\ Head(p) \in Post
      /\ \A i \in 1..Len(p) - 1 : Tail(p)[i] = p[i + 1]
      /\ DOMAIN Tail(p) = 1..Len(p) - 1 /\ DOMAIN p = 1..Len(p) /\ Len(p) \in Nat /\ Len(p) > 0
  OBVIOUS
<1>2. ASSUME NEW i \in 1..Len(p), i # 1
      PROVE  i - 1 \in 1..Len(p) - 1 /\ Tail(p)[i - 1] = p[i]
  BY <1>1, <1>2
<1>3. \A i \in 1..Len(p) - 1 : i + 1 \in 1..Len(p)
  BY <1>1
<1>4. Has(p, k) => Head(p).kind = k \/ Has(Tail(p), k)
  BY <1>1, <1>2 DEF Has
<1>5. Head(p).kind = k \/ Has(Tail(p), k) => Has(p, k)
  BY <1>1, <1>3 DEF Has
<1> QED
  BY <1>1, <1>4, <1>5

\* A post in front adds one kind.
LEMMA HasPrepended ==
  ASSUME NEW p \in Seq(Post), NEW x \in Post, NEW k
  PROVE  <<x>> \o p \in Seq(Post) /\ (Has(<<x>> \o p, k) <=> Has(p, k) \/ x.kind = k)
<1>1. /\ <<x>> \o p \in Seq(Post) /\ Len(<<x>> \o p) = Len(p) + 1
      /\ \A i \in 1..Len(p) : (<<x>> \o p)[i + 1] = p[i]
      /\ (<<x>> \o p)[1] = x
      /\ DOMAIN (<<x>> \o p) = 1..Len(p) + 1 /\ DOMAIN p = 1..Len(p) /\ Len(p) \in Nat
  OBVIOUS
<1> DEFINE r == <<x>> \o p
<1> HIDE DEF r
<1>2. ASSUME NEW i \in 1..Len(p) + 1, i # 1
      PROVE  i - 1 \in 1..Len(p) /\ r[i] = p[i - 1]
  <2>1. i - 1 \in 1..Len(p) /\ (i - 1) + 1 = i
    BY <1>1, <1>2
  <2> QED
    BY <1>1, <2>1 DEF r
<1>3. Has(r, k) => Has(p, k) \/ x.kind = k
  BY <1>1, <1>2 DEF Has, r
<1>4. Has(p, k) \/ x.kind = k => Has(r, k)
  <2>1. 1 \in 1..Len(p) + 1 /\ \A i \in 1..Len(p) : i + 1 \in 1..Len(p) + 1
    BY <1>1
  <2> QED
    BY <1>1, <2>1 DEF Has, r
<1> QED
  BY <1>1, <1>3, <1>4 DEF r

NothingPrepared == [t \in Transitions |-> NotPrepared]

\* The types of the variables the proof needs; those of channel and wrapper are in Fit.
Types ==
    /\ canvas \in [there : BOOLEAN, video : {"none", "old", "ok"}, scenes : SUBSET Verticals]
    /\ program \in [scene : MainScenes, moving : BOOLEAN]
    /\ held \in BOOLEAN /\ queued \in BOOLEAN /\ down \in BOOLEAN /\ diverted \in BOOLEAN
    /\ ui \in {"free", "refresh"}
    /\ TransitionList
    /\ posts \in Seq(Post)

\* A wrapper is on the channel only while the canvas is held, has video, and OBS does not shut down.
Holding ==
    /\ Fit(Shown)
    /\ channel # Nothing => held /\ ~down /\ canvas.video # "none"
    /\ held => canvas.there
    /\ prepared # NothingPrepared => channel # Nothing

\* While no repair is posted, nothing that is shown was removed.
LettingGo == ~Has(posts, "repair") => Within(Shown, canvas.scenes)

\* m_refresh_queued: the refresh is among the posts.
Queueing == queued => Has(posts, "refresh")

\* A refresh will come, or is under way.
Asked == ui = "refresh" \/ Has(posts, "refresh")

\* With no refresh to come, only transitions whose signal is due have stale plans or settings.
Preparing ==
    UsableVideo /\ ~Asked =>
        \A t \in frontend.list :
            /\ prepared[t] # NotPrepared
            /\ t \notin due =>
                  /\ prepared[t].from = frontend.settings[t]
                  /\ wrapper[t].type # "none" =>
                        wrapper[t].applied = frontend.settings[t] \/ wrapper[t].b # NoScene

\* The scene linked to the program scene.
Goal == resolve_linked_scene(program.scene, links, canvas.scenes)

\* With no SCENE_CHANGED to come, the canvas is on it, or goes there.
Settling ==
    UsableVideo /\ ~diverted /\ ~program.moving /\ ~Has(posts, "changed") /\ Goal # NoScene =>
        OnScreen(Shown) = Goal

CanvasInv == Types /\ Holding /\ LettingGo /\ Queueing /\ Preparing /\ Settling

\* What Become leaves of the queue: a refresh more when a run was stopped.
LEMMA BecomeIs ==
  ASSUME NEW r, r \in Showing, NEW q \in Seq(Post), queued \in BOOLEAN, down \in BOOLEAN,
         queued => Has(q, "refresh"), Become(r, q)
  PROVE  /\ channel' = r.channel /\ wrapper' = r.wrapper
         /\ posts' \in Seq(Post) /\ queued' \in BOOLEAN
         /\ \A k : k # "refresh" => (Has(posts', k) <=> Has(q, k))
         /\ Has(q, "refresh") => Has(posts', "refresh")
         /\ queued' => Has(posts', "refresh")
         /\ r.stopped /\ ~down => Has(posts', "refresh")
<1> DEFINE ask == [kind |-> "refresh"]
<1>1. ask \in Post
  BY DEF Post
<1>2. /\ Append(q, ask) \in Seq(Post)
      /\ \A k : Has(Append(q, ask), k) <=> Has(q, k) \/ ask.kind = k
  BY <1>1, HasAppended
<1>3. CASE ~r.stopped
  BY <1>3 DEF Become
<1>4. CASE r.stopped
  <2>1. /\ posts' = IF queued \/ down THEN q ELSE Append(q, ask)
        /\ queued' = (queued \/ ~down)
    BY <1>4 DEF Become, QueueRefresh
  <2>2. channel' = r.channel /\ wrapper' = r.wrapper
    BY DEF Become
  <2> QED
    BY <1>2, <1>4, <2>1, <2>2
<1> QED
  BY <1>3, <1>4

\* After the step the canvas is what was put on it.
LEMMA ShownNext ==
  ASSUME NEW r, Fit(r), channel' = r.channel, wrapper' = r.wrapper
  PROVE  /\ Fit(Shown)' /\ OnScreen(Shown)' = OnScreen(r)
         /\ \A S : Within(r, S) => Within(Shown', S)
<1>1. Shown' \in Showing /\ Shown'.channel = r.channel /\ Shown'.wrapper = r.wrapper
  BY DEF Shown, Fit, Showing
<1> HIDE DEF Shown
<1> QED
  BY <1>1 DEF Fit, SoleHolder, Held, OnScreen, Within

\* The fields of Shown.
LEMMA ShownNow == Shown.channel = channel /\ Shown.wrapper = wrapper /\ Shown.stopped = FALSE
  BY DEF Shown

\* A refresh prepares every transition from its present settings.
LEMMA PreparedNowIs ==
  ASSUME TransitionList, NEW t \in frontend.list
  PROVE  PreparedNow[t] # NotPrepared /\ PreparedNow[t].from = frontend.settings[t]
<1>1. t \in Transitions
  BY DEF TransitionList
<1>2. PreparedNow[t] = [plan |-> Plan(t), from |-> frontend.settings[t]]
  BY <1>1 DEF PreparedNow
<1>3. Plan(t).kind # "none"
  BY <1>1, PlanShape
<1>4. PreparedNow[t].plan = Plan(t)
  BY <1>2
<1>5. NotPrepared.plan.kind = "none"
  BY DEF NotPrepared, Instant
<1> QED
  BY <1>2, <1>3, <1>4, <1>5

\* What the lemmas above need of the invariant.
LEMMA InvFacts ==
  ASSUME CanvasInv
  PROVE  /\ Fit(Shown) /\ Live /\ TransitionList /\ Shown \in Showing
         /\ posts \in Seq(Post) /\ queued \in BOOLEAN /\ down \in BOOLEAN
         /\ queued => Has(posts, "refresh")
         /\ channel # Nothing => UsableVideo
  BY DEF CanvasInv, Types, Holding, Queueing, Fit, Live, UsableVideo, Usable

\* ensure(), with or without the catch-up, after any of its callers.
LEMMA EnsureStep ==
  ASSUME CanvasInv, NEW follow \in BOOLEAN, NEW active, NEW q \in Seq(Post),
         \A k \in {"repair", "changed", "refresh"} : Has(q, k) <=> Has(posts, k),
         Ensure(follow, active, q), UNCHANGED program
  PROVE  CanvasInv'
<1> DEFINE v == IF ~canvas.there \/ active = {} THEN "ok" ELSE canvas.video
           S == IF canvas.scenes = {} /\ v # "none" THEN {VMain} ELSE canvas.scenes
           scene == IF canvas.scenes = {} THEN VMain ELSE IF wanted \in canvas.scenes THEN wanted
                    ELSE CHOOSE x \in canvas.scenes : TRUE
<1>1. /\ canvas' = [there |-> TRUE, video |-> v, scenes |-> S] /\ held' = TRUE
      /\ IF v = "none" \/ down THEN Become(Shown, q) /\ UNCHANGED <<prepared, diverted>>
         ELSE \E failed \in SUBSET Transitions :
                LET ready == Refreshed(Shown, failed)
                    filled == IF Active(ready) = NoScene THEN start_switch(ready, PreparedNow, scene, Nothing, TRUE)
                              ELSE ready
                IN /\ Become(IF follow THEN Followed(filled, PreparedNow, canvas') ELSE filled, q)
                   /\ prepared' = PreparedNow
                   /\ diverted' = (~follow /\ (diverted \/ Active(ready) = NoScene))
      /\ UNCHANGED <<frontend, settings, ui, due, down>>
  BY Zenon DEF Ensure
<1>2. /\ Fit(Shown) /\ Live /\ TransitionList /\ Shown \in Showing
      /\ posts \in Seq(Post) /\ queued \in BOOLEAN /\ down \in BOOLEAN
      /\ queued => Has(q, "refresh")
      /\ channel # Nothing => UsableVideo
  BY InvFacts
<1>3. /\ v \in {"none", "old", "ok"} /\ S \subseteq Verticals /\ canvas.scenes \subseteq S
      /\ v # "none" => scene \in S
  BY CanvasConstants DEF CanvasInv, Types
<1>4. canvas.scenes # {} => S = canvas.scenes
  OBVIOUS
<1>5. /\ canvas'.there = TRUE /\ canvas'.video = v /\ canvas'.scenes = S
      /\ canvas' \in [there : BOOLEAN, video : {"none", "old", "ok"}, scenes : SUBSET Verticals]
  BY <1>1, <1>3
<1>6. v = "none" => canvas.video = "none"
  OBVIOUS
<1> HIDE DEF v, S, scene
<1>7. TransitionList'
  BY <1>1, <1>2 DEF TransitionList
<1>8. UNCHANGED <<links, wanted, mode, ui, due, down, frontend, program>>
  BY <1>1 DEF settings
<1>9. CASE v = "none" \/ down
  <2>1. Become(Shown, q) /\ UNCHANGED <<prepared, diverted>>
    BY <1>1, <1>9
  <2>2. channel = Nothing
    BY <1>2, <1>6, <1>9 DEF UsableVideo, Usable
  <2>3. channel' = Shown.channel /\ wrapper' = Shown.wrapper /\ posts' \in Seq(Post) /\ queued' \in BOOLEAN
        /\ (queued' => Has(posts', "refresh"))
    BY <1>2, <2>1, BecomeIs
  <2>4. Fit(Shown)' /\ channel' = Nothing
    BY <1>2, <2>2, <2>3, ShownNow, ShownNext
  <2>5. Types'
    BY <1>5, <1>7, <1>8, <1>1, <2>1, <2>3 DEF CanvasInv, Types
  <2>6. Holding'
    BY <1>1, <1>5, <2>1, <2>2, <2>4 DEF CanvasInv, Holding, NothingPrepared
  <2>7. ~UsableVideo'
    BY <1>5, <1>8, <1>9 DEF UsableVideo, Usable
  <2>8. LettingGo'
    BY <2>4 DEF LettingGo, Within, Shown
  <2> QED
    BY <2>3, <2>5, <2>6, <2>7, <2>8 DEF CanvasInv, Queueing, Preparing, Settling
<1>10. CASE ~(v = "none" \/ down)
  <2> DEFINE ready(failed) == Refreshed(Shown, failed)
             filled(failed) == IF Active(ready(failed)) = NoScene
                               THEN start_switch(ready(failed), PreparedNow, scene, Nothing, TRUE) ELSE ready(failed)
             final(failed) == IF follow THEN Followed(filled(failed), PreparedNow, canvas') ELSE filled(failed)
  <2>1. PICK failed \in SUBSET Transitions :
          /\ Become(final(failed), q)
          /\ prepared' = PreparedNow
          /\ diverted' = (~follow /\ (diverted \/ Active(ready(failed)) = NoScene))
    BY <1>1, <1>10
  <2> DEFINE r == ready(failed)
             f == filled(failed)
             z == final(failed)
             yes == TRUE
  <2>2. r = Refreshed(Shown, failed)
    OBVIOUS
  <2>3. f = IF Active(r) = NoScene THEN start_switch(r, PreparedNow, scene, Nothing, yes) ELSE r
    OBVIOUS
  <2>4. z = IF follow THEN Followed(f, PreparedNow, canvas') ELSE f
    OBVIOUS
  <2>5. Become(z, q) /\ prepared' = PreparedNow /\ diverted' = (~follow /\ (diverted \/ Active(r) = NoScene))
    BY <2>1
  <2>6. yes \in BOOLEAN
    OBVIOUS
  <2> HIDE DEF r, f, z, yes, ready, filled, final
  <2>7. /\ Fit(r) /\ r.channel # Nothing /\ Applied(r) /\ Active(r) = Active(Shown)
        /\ Within(Shown, S) => Within(r, S)
    BY <1>2, <1>3, <2>2, RefreshedFits
  <2>8. scene \in S /\ scene \in Scenes /\ scene # NoScene /\ Nothing \in Transitions \cup {Nothing}
    BY <1>3, <1>10, CanvasConstants DEF Scenes
  <2>9. /\ Fit(f) /\ f.channel # Nothing /\ Keeps(r, f)
        /\ Within(r, S) => Within(f, S)
        /\ Active(r) # NoScene => f = r
    <3>1. CASE Active(r) = NoScene
      <4>1. f = start_switch(r, PreparedNow, scene, Nothing, yes)
        BY <2>3, <3>1
      <4>2. /\ Fit(f) /\ f.channel # Nothing /\ Keeps(r, f)
            /\ Within(r, S) => Within(f, S)
        BY <1>2, <1>3, <2>6, <2>7, <2>8, <4>1, SwitchFits
      <4> QED
        BY <3>1, <4>2
    <3>2. CASE Active(r) # NoScene
      BY <2>3, <2>7, <3>2 DEF Keeps
    <3> QED
      BY <3>1, <3>2
  <2>10. /\ Fit(z) /\ z.channel # Nothing /\ Keeps(f, z)
         /\ Within(f, S) => Within(z, S)
         /\ follow /\ Goal' # NoScene => OnScreen(z) = Goal'
         /\ ~follow => z = f
    <3>1. CASE follow
      <4>1. z = Followed(f, PreparedNow, canvas')
        BY <2>4, <3>1
      <4>2. Goal' = resolve_linked_scene(program.scene, links, canvas'.scenes)
        BY <1>8 DEF Goal
      <4>3. /\ Fit(z) /\ z.channel # Nothing /\ Keeps(f, z)
            /\ Within(f, S) => Within(z, S)
            /\ resolve_linked_scene(program.scene, links, canvas'.scenes) # NoScene =>
                  OnScreen(z) = resolve_linked_scene(program.scene, links, canvas'.scenes)
        BY <1>2, <1>3, <1>5, <1>10, <2>9, <4>1, FollowedFits
      <4> QED
        BY <3>1, <4>2, <4>3
    <3>2. CASE ~follow
      BY <2>4, <2>9, <3>2 DEF Keeps
    <3> QED
      BY <3>1, <3>2
  <2>11. /\ channel' = z.channel /\ wrapper' = z.wrapper
         /\ posts' \in Seq(Post) /\ queued' \in BOOLEAN
         /\ \A k : k # "refresh" => (Has(posts', k) <=> Has(q, k))
         /\ queued' => Has(posts', "refresh")
         /\ z.stopped => Has(posts', "refresh")
    BY <1>2, <1>10, <2>5, <2>10, BecomeIs DEF Fit
  <2>12. Fit(Shown)' /\ OnScreen(Shown)' = OnScreen(z) /\ (Within(z, S) => Within(Shown', S))
    BY <2>10, <2>11, ShownNext
  <2>13. Types'
    BY <1>2, <1>5, <1>7, <1>8, <1>1, <2>5, <2>11 DEF CanvasInv, Types
  <2>14. Holding'
    BY <1>1, <1>5, <1>8, <1>10, <2>10, <2>11, <2>12 DEF Holding
  <2>15. LettingGo'
    <3>1. ASSUME ~Has(posts', "repair") PROVE Within(Shown', S)
      <4>1. ~Has(posts, "repair")
        BY <2>11, <3>1
      <4>2. Within(Shown, canvas.scenes)
        BY <4>1 DEF CanvasInv, LettingGo
      <4>3. Within(Shown, S)
        BY <4>2, <1>3 DEF Within
      <4> QED
        BY <4>3, <2>7, <2>9, <2>10, <2>12
    <3> QED
      BY <3>1, <1>5 DEF LettingGo
  <2>16. Preparing'
    <3>1. Applied(z)
      BY <1>2, <2>7, <2>9, <2>10, KeepsApplied
    <3>2. SUFFICES ASSUME ~Asked', NEW t \in frontend.list
                   PROVE  /\ prepared'[t] # NotPrepared
                          /\ prepared'[t].from = frontend.settings[t]
                          /\ wrapper'[t].type # "none" =>
                                wrapper'[t].applied = frontend.settings[t] \/ wrapper'[t].b # NoScene
      BY <1>8 DEF Preparing
    <3>3. ~z.stopped
      BY <2>11, <3>2 DEF Asked
    <3> QED
      BY <1>2, <2>5, <2>11, <3>1, <3>3, PreparedNowIs DEF Applied
  <2>17. Settling'
    <3>1. SUFFICES ASSUME ~diverted', ~program.moving, ~Has(posts', "changed"), Goal' # NoScene
                   PROVE  OnScreen(z) = Goal'
      BY <1>8, <2>12 DEF Settling
    <3>2. CASE follow
      BY <2>10, <3>1, <3>2
    <3>3. CASE ~follow
      <4>1. ~diverted /\ Active(r) # NoScene
        BY <2>5, <3>1, <3>3
      <4>2. z = r /\ Active(Shown) # NoScene
        BY <2>7, <2>9, <2>10, <3>3, <4>1
      <4>3. /\ Active(Shown) = IF OnScreen(Shown) \in canvas.scenes THEN OnScreen(Shown) ELSE NoScene
            /\ Shown.channel = Nothing => Active(Shown) = NoScene
            /\ Active(r) = IF OnScreen(r) \in canvas.scenes THEN OnScreen(r) ELSE NoScene
        BY <1>2, <2>7, ActiveIsOnScreen
      <4>4. UsableVideo /\ S = canvas.scenes
        BY <1>2, <1>4, <4>2, <4>3, ShownNow
      <4>5. Goal' = Goal
        BY <1>5, <1>8, <4>4 DEF Goal
      <4>6. ~Has(posts, "changed")
        BY <2>11, <3>1
      <4>7. OnScreen(Shown) = Goal
        BY <3>1, <4>1, <4>4, <4>5, <4>6 DEF CanvasInv, Settling
      <4> QED
        BY <2>7, <4>2, <4>3, <4>5, <4>7
    <3> QED
      BY <3>2, <3>3
  <2> QED
    BY <2>11, <2>13, <2>14, <2>15, <2>16, <2>17 DEF CanvasInv, Queueing
<1> QED
  BY <1>9, <1>10

-------------------------------------------------------------------------------
\* The step puts r on the canvas and leaves q of the queue, and OBS as it was.
Switches(r, q) ==
    /\ Fit(r) /\ Keeps(Shown, r)
    /\ r.channel # Nothing => UsableVideo
    /\ channel # Nothing => r.channel # Nothing
    /\ q \in Seq(Post) /\ (Has(posts, "refresh") => Has(q, "refresh"))
    /\ Become(r, q)
    /\ UNCHANGED <<canvas, frontend, held, prepared, ui, due, down>>

\* A step that only switches the canvas keeps all parts of the invariant but the last.
LEMMA SwitchStep ==
  ASSUME CanvasInv, NEW r, NEW q, Switches(r, q),
         program' \in [scene : MainScenes, moving : BOOLEAN], diverted' \in BOOLEAN,
         ~Has(q, "repair") => Within(r, canvas.scenes)
  PROVE  /\ Types' /\ Holding' /\ LettingGo' /\ Queueing' /\ Preparing'
         /\ OnScreen(Shown)' = OnScreen(r)
         /\ \A k : k # "refresh" => (Has(posts', k) <=> Has(q, k))
         /\ UsableVideo' <=> UsableVideo
<1>1. /\ Fit(Shown) /\ Live /\ TransitionList /\ Shown \in Showing
      /\ posts \in Seq(Post) /\ queued \in BOOLEAN /\ down \in BOOLEAN
      /\ queued => Has(posts, "refresh")
      /\ channel # Nothing => UsableVideo
  BY InvFacts
<1>2. /\ Fit(r) /\ r \in Showing /\ Keeps(Shown, r) /\ q \in Seq(Post)
      /\ queued => Has(q, "refresh")
      /\ Become(r, q)
      /\ UNCHANGED <<canvas, frontend, held, prepared, ui, due, down>>
  BY <1>1 DEF Switches, Fit
<1>3. /\ channel' = r.channel /\ wrapper' = r.wrapper
      /\ posts' \in Seq(Post) /\ queued' \in BOOLEAN
      /\ \A k : k # "refresh" => (Has(posts', k) <=> Has(q, k))
      /\ Has(q, "refresh") => Has(posts', "refresh")
      /\ queued' => Has(posts', "refresh")
      /\ r.stopped /\ ~down => Has(posts', "refresh")
  BY <1>1, <1>2, BecomeIs
<1>4. /\ Fit(Shown)' /\ OnScreen(Shown)' = OnScreen(r)
      /\ \A S : Within(r, S) => Within(Shown', S)
  BY <1>2, <1>3, ShownNext
<1>5. UsableVideo' <=> UsableVideo
  BY <1>2 DEF UsableVideo, Usable
<1>6. Types'
  BY <1>2, <1>3 DEF CanvasInv, Types, TransitionList
<1>7. Holding'
  BY <1>2, <1>3, <1>4 DEF CanvasInv, Holding, Switches, UsableVideo, Usable, NothingPrepared
<1>8. LettingGo'
  BY <1>2, <1>3, <1>4 DEF LettingGo
<1>9. Queueing'
  BY <1>3 DEF Queueing
<1>10. Preparing'
  <2>1. SUFFICES ASSUME UsableVideo, ~Asked', NEW t \in frontend.list
                 PROVE  /\ prepared[t] # NotPrepared
                        /\ t \notin due =>
                             /\ prepared[t].from = frontend.settings[t]
                             /\ wrapper'[t].type # "none" =>
                                  wrapper'[t].applied = frontend.settings[t] \/ wrapper'[t].b # NoScene
    BY <1>2, <1>5 DEF Preparing
  <2>2. ~Asked /\ ~r.stopped /\ t \in Transitions
    BY <1>1, <1>2, <1>3, <2>1 DEF Asked, Switches, UsableVideo, Usable, TransitionList
  <2>3. /\ prepared[t] # NotPrepared
        /\ t \notin due =>
              /\ prepared[t].from = frontend.settings[t]
              /\ wrapper[t].type # "none" =>
                    wrapper[t].applied = frontend.settings[t] \/ wrapper[t].b # NoScene
    BY <2>1, <2>2 DEF CanvasInv, Preparing
  <2> QED
    BY <1>2, <1>3, <2>2, <2>3, ShownNow, WrapperNames DEF Keeps
<1> QED
  BY <1>3, <1>4, <1>5, <1>6, <1>7, <1>8, <1>9, <1>10

\* The canvas as it is: nothing is switched.
LEMMA KeepsItself ==
  ASSUME NEW s
  PROVE  Keeps(s, s)
  BY DEF Keeps

\* The run of wrapper w is over: it shows x.
RunOver(s, w, x) == [s EXCEPT !.wrapper[w].a = x, !.wrapper[w].b = NoScene, !.stopped = TRUE]

\* The end of a run in every field.
LEMMA RunOverIs ==
  ASSUME NEW s, s \in Showing, NEW w \in Wrappers, NEW x \in Scenes
  PROVE  LET r == RunOver(s, w, x)
         IN /\ r \in Showing /\ r.channel = s.channel /\ r.stopped
            /\ r.wrapper[w].a = x /\ r.wrapper[w].b = NoScene
            /\ r.wrapper[w].type = s.wrapper[w].type /\ r.wrapper[w].applied = s.wrapper[w].applied
            /\ \A v \in Wrappers : v # w => r.wrapper[v] = s.wrapper[v]
<1>1. NoScene \in Scenes
  BY DEF Scenes
<1>2. /\ s \in [channel : Wrappers \cup {Nothing}, wrapper : [Wrappers -> Wrapping], stopped : BOOLEAN]
      /\ s.wrapper[w] \in Wrapping
  BY DEF Showing
<1> DEFINE e == [s.wrapper[w] EXCEPT !.a = x, !.b = NoScene]
           f == [s.wrapper EXCEPT ![w] = e]
<1>3. /\ e \in Wrapping /\ e.a = x /\ e.b = NoScene
      /\ e.type = s.wrapper[w].type /\ e.applied = s.wrapper[w].applied
  BY <1>1, <1>2 DEF Wrapping
<1>4. RunOver(s, w, x) = [s EXCEPT !.wrapper = f, !.stopped = TRUE]
  BY <1>2 DEF RunOver, Wrapping
<1> HIDE DEF e
<1>5. f \in [Wrappers -> Wrapping] /\ f[w] = e /\ \A v \in Wrappers : v # w => f[v] = s.wrapper[v]
  BY <1>2, <1>3
<1> HIDE DEF f
<1> QED
  BY <1>2, <1>3, <1>4, <1>5 DEF Showing

\* The graphics thread ends a run: the scene stays, and a refresh is asked for.
LEMMA TransitionOverStep ==
  ASSUME CanvasInv, TransitionOver
  PROVE  CanvasInv'
<1> DEFINE r == [Shown EXCEPT !.wrapper[channel].a = Shown.wrapper[channel].b, !.wrapper[channel].b = NoScene,
                              !.stopped = TRUE]
<1>1. /\ Fit(Shown) /\ Live /\ TransitionList /\ Shown \in Showing
      /\ posts \in Seq(Post) /\ queued \in BOOLEAN /\ down \in BOOLEAN
      /\ queued => Has(posts, "refresh")
      /\ channel # Nothing => UsableVideo
  BY InvFacts
<1>2. /\ channel # Nothing /\ wrapper[channel].b # NoScene /\ Become(r, posts)
      /\ UNCHANGED <<obs, settings, held, prepared, ui, due, down, events, diverted>>
  BY ShownNow DEF TransitionOver, Running
<1>3. /\ r \in Showing /\ r.channel = channel /\ r.stopped
      /\ r.wrapper[channel].a = wrapper[channel].b /\ r.wrapper[channel].b = NoScene
      /\ r.wrapper[channel].type = wrapper[channel].type /\ r.wrapper[channel].applied = wrapper[channel].applied
      /\ \A w \in Wrappers : w # channel => r.wrapper[w] = wrapper[w]
  <2>1. channel \in Wrappers /\ wrapper[channel].b \in Scenes /\ NoScene \in Scenes
    BY <1>1, <1>2, ShownNow DEF Showing, Wrapping, Scenes
  <2> DEFINE x == wrapper[channel].b
  <2>2. r = RunOver(Shown, channel, x)
    BY ShownNow DEF RunOver
  <2> HIDE DEF r, x
  <2>3. x \in Scenes
    BY <2>1 DEF x
  <2>4. /\ r \in Showing /\ r.channel = channel /\ r.stopped
        /\ r.wrapper[channel].a = x /\ r.wrapper[channel].b = NoScene
        /\ r.wrapper[channel].type = Shown.wrapper[channel].type
        /\ r.wrapper[channel].applied = Shown.wrapper[channel].applied
        /\ \A w \in Wrappers : w # channel => r.wrapper[w] = Shown.wrapper[w]
    <3> DEFINE s == Shown
               w == channel
    <3>1. s \in Showing /\ w \in Wrappers /\ x \in Scenes /\ s.channel = w /\ r = RunOver(s, w, x)
      BY <1>1, <2>1, <2>2, <2>3, ShownNow
    <3> HIDE DEF s, w
    <3>2. /\ r \in Showing /\ r.channel = w /\ r.stopped
          /\ r.wrapper[w].a = x /\ r.wrapper[w].b = NoScene
          /\ r.wrapper[w].type = s.wrapper[w].type
          /\ r.wrapper[w].applied = s.wrapper[w].applied
          /\ \A v \in Wrappers : v # w => r.wrapper[v] = s.wrapper[v]
      BY <3>1, RunOverIs
    <3> QED
      BY <3>2 DEF s, w
  <2> QED
    BY <2>4, ShownNow DEF x
<1> HIDE DEF r
<1>4. Fit(r) /\ OnScreen(r) = OnScreen(Shown)
  BY <1>1, <1>2, <1>3, ShownNow DEF Fit, SoleHolder, Held, OnScreen
<1>5. Keeps(Shown, r)
  BY <1>3, ShownNow, WrapperNames DEF Keeps
<1>6. ~Has(posts, "repair") => Within(r, canvas.scenes)
  BY <1>2, <1>3, ShownNow DEF CanvasInv, LettingGo, Within
<1>7. Switches(r, posts)
  BY <1>1, <1>2, <1>3, <1>4, <1>5 DEF Switches, obs
<1>8. program' = program /\ diverted' = diverted /\ Goal' = Goal
  BY <1>2 DEF obs, settings, Goal
<1>9. program' \in [scene : MainScenes, moving : BOOLEAN] /\ diverted' \in BOOLEAN
  BY <1>8 DEF CanvasInv, Types
<1>10. /\ Types' /\ Holding' /\ LettingGo' /\ Queueing' /\ Preparing'
       /\ OnScreen(Shown)' = OnScreen(r)
       /\ \A k : k # "refresh" => (Has(posts', k) <=> Has(posts, k))
       /\ UsableVideo' <=> UsableVideo
  BY <1>6, <1>7, <1>9, SwitchStep
<1>11. Settling'
  BY <1>4, <1>8, <1>10 DEF CanvasInv, Settling
<1> QED
  BY <1>10, <1>11 DEF CanvasInv

\* on_main_transition_start(): the canvas goes to the link of the destination, or has diverted.
LEMMA StartStep ==
  ASSUME CanvasInv, Start
  PROVE  CanvasInv'
<1> DEFINE p == Head(posts)
           q == Tail(posts)
           target == resolve_linked_scene(p.dest, links, canvas.scenes)
           named == mode = "custom" /\ prepared[Custom] # NotPrepared
           t == IF named THEN Custom ELSE IF prepared[p.transition] # NotPrepared THEN p.transition ELSE Nothing
           cut == mode = "cut" \/ (mode = "follow" /\ Type[p.transition] = "cut")
           goes == UsableVideo /\ scene_changed_needs_catch_up(target, Active(Shown))
           r == IF goes THEN start_switch(Shown, prepared, target, t, cut) ELSE Shown
<1>1. /\ Fit(Shown) /\ Live /\ TransitionList /\ Shown \in Showing
      /\ posts \in Seq(Post) /\ queued \in BOOLEAN /\ down \in BOOLEAN
      /\ queued => Has(posts, "refresh")
      /\ channel # Nothing => UsableVideo
  BY InvFacts
<1>2. /\ posts # <<>> /\ p.kind = "start" /\ Become(r, q)
      /\ diverted' = IF UsableVideo /\ links.enabled THEN p.dest # program.scene ELSE diverted
      /\ UNCHANGED <<obs, settings, held, prepared, ui, due, down>>
  BY DEF Start
<1>3. /\ q \in Seq(Post) /\ p \in Post
      /\ \A k : Has(posts, k) <=> p.kind = k \/ Has(q, k)
  BY <1>1, <1>2, HasTail
<1>4. p.transition \in Transitions
  BY <1>2, <1>3 DEF Post
<1>5. t \in Transitions \cup {Nothing} /\ cut \in BOOLEAN
  BY <1>4, CanvasConstants
<1>6. target \in canvas.scenes \cup {NoScene} /\ canvas.scenes \subseteq Verticals
  BY <1>1, ResolvedLives DEF Live
<1>7. Active(Shown) = (IF OnScreen(Shown) \in canvas.scenes THEN OnScreen(Shown) ELSE NoScene)
  BY <1>1, ActiveIsOnScreen
<1> HIDE DEF t, cut, target
<1>8. /\ Fit(r) /\ Keeps(Shown, r)
      /\ r.channel # Nothing => UsableVideo
      /\ channel # Nothing => r.channel # Nothing
      /\ Within(Shown, canvas.scenes) => Within(r, canvas.scenes)
      /\ UsableVideo /\ target # NoScene => OnScreen(r) = target
  <2>1. CASE goes
    <3>1. r = start_switch(Shown, prepared, target, t, cut) /\ UsableVideo /\ target # NoScene
      BY <2>1 DEF scene_changed_needs_catch_up
    <3>2. target \in canvas.scenes
      BY <1>6, <3>1
    <3> HIDE DEF r
    <3>3. /\ Fit(r) /\ r.channel # Nothing /\ Keeps(Shown, r)
          /\ Within(Shown, canvas.scenes) => Within(r, canvas.scenes)
          /\ OnScreen(r) = target
      BY <1>1, <1>5, <3>1, <3>2, SwitchHere
    <3> QED
      BY <3>1, <3>3
  <2>2. CASE ~goes
    <3>1. r = Shown
      BY <2>2
    <3>2. UsableVideo /\ target # NoScene => target = Active(Shown)
      BY <2>2 DEF scene_changed_needs_catch_up
    <3> HIDE DEF r
    <3> QED
      BY <1>1, <1>7, <3>1, <3>2, ShownNow, KeepsItself
  <2> QED
    BY <2>1, <2>2
<1> HIDE DEF r
<1>9. Switches(r, q)
  BY <1>2, <1>3, <1>8 DEF Switches, obs
<1>10. ~Has(q, "repair") => Within(r, canvas.scenes)
  BY <1>2, <1>3, <1>8 DEF CanvasInv, LettingGo
<1>11. program' = program /\ Goal' = Goal
  BY <1>2 DEF obs, settings, Goal
<1>12. program' \in [scene : MainScenes, moving : BOOLEAN] /\ diverted' \in BOOLEAN
  BY <1>2, <1>11 DEF CanvasInv, Types
<1>13. /\ Types' /\ Holding' /\ LettingGo' /\ Queueing' /\ Preparing'
       /\ OnScreen(Shown)' = OnScreen(r)
       /\ \A k : k # "refresh" => (Has(posts', k) <=> Has(q, k))
       /\ UsableVideo' <=> UsableVideo
  BY <1>9, <1>10, <1>12, SwitchStep
<1>14. Settling'
  <2>1. SUFFICES ASSUME UsableVideo, ~diverted', Goal # NoScene
                 PROVE  OnScreen(r) = Goal
    BY <1>11, <1>13 DEF Settling
  <2>2. links.enabled
    BY <2>1 DEF Goal, resolve_linked_scene
  <2>3. p.dest = program.scene
    BY <1>2, <2>1, <2>2
  <2>4. target = Goal
    BY <2>3 DEF target, Goal
  <2> QED
    BY <1>8, <2>1, <2>4
<1> QED
  BY <1>13, <1>14 DEF CanvasInv

\* SCENE_CHANGED: the canvas goes to the link of the program scene.
LEMMA SceneChangedStep ==
  ASSUME CanvasInv, SceneChanged
  PROVE  CanvasInv'
<1> DEFINE q == Tail(posts)
           r == IF Usable THEN Followed(Shown, prepared, canvas) ELSE Shown
<1>1. /\ Fit(Shown) /\ Live /\ TransitionList /\ Shown \in Showing
      /\ posts \in Seq(Post) /\ queued \in BOOLEAN /\ down \in BOOLEAN
      /\ queued => Has(posts, "refresh")
      /\ channel # Nothing => UsableVideo
  BY InvFacts
<1>2. /\ posts # <<>> /\ Head(posts).kind = "changed" /\ Become(r, q)
      /\ diverted' = (diverted /\ ~(UsableVideo /\ links.enabled))
      /\ UNCHANGED <<obs, settings, held, prepared, ui, due, down>>
  BY DEF SceneChanged
<1>3. /\ q \in Seq(Post)
      /\ \A k : Has(posts, k) <=> Head(posts).kind = k \/ Has(q, k)
  BY <1>1, <1>2, HasTail
<1>4. /\ Fit(r) /\ Keeps(Shown, r)
      /\ r.channel # Nothing => UsableVideo
      /\ channel # Nothing => r.channel # Nothing
      /\ Within(Shown, canvas.scenes) => Within(r, canvas.scenes)
      /\ UsableVideo /\ Goal # NoScene => OnScreen(r) = Goal
  <2>1. CASE Usable
    <3>1. r = Followed(Shown, prepared, canvas)
      BY <2>1
    <3> HIDE DEF r
    <3>3. /\ Fit(r) /\ Keeps(Shown, r)
          /\ Shown.channel # Nothing => r.channel # Nothing
          /\ canvas.video = "none" => r = Shown
          /\ Within(Shown, canvas.scenes) => Within(r, canvas.scenes)
          /\ canvas.video # "none" /\ Goal # NoScene => OnScreen(r) = Goal
      BY <1>1, <3>1, FollowedHere DEF Goal
    <3> QED
      BY <1>1, <2>1, <3>3, ShownNow DEF UsableVideo
  <2>2. CASE ~Usable
    BY <1>1, <2>2, ShownNow, KeepsItself DEF UsableVideo
  <2> QED
    BY <2>1, <2>2
<1> HIDE DEF r
<1>5. Switches(r, q)
  BY <1>2, <1>3, <1>4 DEF Switches, obs
<1>6. ~Has(q, "repair") => Within(r, canvas.scenes)
  BY <1>2, <1>3, <1>4 DEF CanvasInv, LettingGo
<1>7. program' = program /\ Goal' = Goal
  BY <1>2 DEF obs, settings, Goal
<1>8. program' \in [scene : MainScenes, moving : BOOLEAN] /\ diverted' \in BOOLEAN
  BY <1>2, <1>7 DEF CanvasInv, Types
<1>9. /\ Types' /\ Holding' /\ LettingGo' /\ Queueing' /\ Preparing'
      /\ OnScreen(Shown)' = OnScreen(r)
      /\ UsableVideo' <=> UsableVideo
  BY <1>5, <1>6, <1>8, SwitchStep
<1>10. Settling'
  BY <1>4, <1>7, <1>9 DEF Settling
<1> QED
  BY <1>9, <1>10 DEF CanvasInv

\* "Set active" shows a scene that is there.
LEMMA SetActiveStep ==
  ASSUME CanvasInv, NEW scene \in Verticals, SetActive(scene)
  PROVE  CanvasInv'
<1> DEFINE t == IF mode = "custom" /\ prepared[Custom] # NotPrepared THEN Custom
                ELSE IF prepared[frontend.current] # NotPrepared THEN frontend.current ELSE Nothing
           cut == mode = "cut"
           r == start_switch(Shown, prepared, scene, t, cut)
<1>1. /\ Fit(Shown) /\ Live /\ TransitionList /\ Shown \in Showing
      /\ posts \in Seq(Post) /\ queued \in BOOLEAN /\ down \in BOOLEAN
      /\ queued => Has(posts, "refresh")
      /\ channel # Nothing => UsableVideo
  BY InvFacts
<1>2. /\ UsableVideo /\ scene \in canvas.scenes /\ Become(r, posts) /\ diverted' = TRUE
      /\ UNCHANGED <<obs, settings, held, prepared, ui, due, down>>
  BY DEF SetActive
<1>3. t \in Transitions \cup {Nothing} /\ cut \in BOOLEAN
  BY <1>1, CanvasConstants DEF TransitionList
<1> HIDE DEF t, cut
<1>4. r = start_switch(Shown, prepared, scene, t, cut)
  OBVIOUS
<1> HIDE DEF r
<1>5. /\ Fit(r) /\ r.channel # Nothing /\ Keeps(Shown, r)
      /\ Within(Shown, canvas.scenes) => Within(r, canvas.scenes)
  BY <1>1, <1>2, <1>3, <1>4, SwitchHere
<1>6. Switches(r, posts)
  BY <1>1, <1>2, <1>5 DEF Switches, obs
<1>7. ~Has(posts, "repair") => Within(r, canvas.scenes)
  BY <1>5 DEF CanvasInv, LettingGo
<1>8. program' \in [scene : MainScenes, moving : BOOLEAN] /\ diverted' \in BOOLEAN
  BY <1>2 DEF CanvasInv, Types, obs
<1>9. Types' /\ Holding' /\ LettingGo' /\ Queueing' /\ Preparing'
  BY <1>6, <1>7, <1>8, SwitchStep
<1> QED
  BY <1>2, <1>9 DEF CanvasInv, Settling

\* repair_removed_scene(): only scenes that are there are left, and where the canvas goes stays.
LEMMA RepairStep ==
  ASSUME CanvasInv, Repair
  PROVE  CanvasInv'
<1> DEFINE q == Tail(posts)
           w == wrapper[channel]
           target == IF w.b \in canvas.scenes THEN w.b ELSE IF w.a \in canvas.scenes THEN w.a
                     ELSE IF canvas.scenes = {} THEN NoScene ELSE CHOOSE x \in canvas.scenes : TRUE
           mends == Usable /\ channel # Nothing /\ Gone(channel)
           r == IF mends THEN SetStopped(Shown, channel, target) ELSE Shown
<1>1. /\ Fit(Shown) /\ Live /\ TransitionList /\ Shown \in Showing
      /\ posts \in Seq(Post) /\ queued \in BOOLEAN /\ down \in BOOLEAN
      /\ queued => Has(posts, "refresh")
      /\ channel # Nothing => UsableVideo
  BY InvFacts
<1>2. /\ posts # <<>> /\ Head(posts).kind = "repair" /\ Become(r, q)
      /\ UNCHANGED <<obs, settings, held, prepared, ui, due, down, diverted>>
  BY DEF Repair
<1>3. /\ q \in Seq(Post)
      /\ \A k : Has(posts, k) <=> Head(posts).kind = k \/ Has(q, k)
  BY <1>1, <1>2, HasTail
<1>4. target \in canvas.scenes \cup {NoScene} /\ canvas.scenes \subseteq Verticals
  BY <1>1 DEF Live
<1>5. NoScene \notin canvas.scenes
  BY <1>4, CanvasConstants
<1>6. /\ Fit(r) /\ Keeps(Shown, r) /\ r.channel = channel
      /\ Within(r, canvas.scenes)
      /\ OnScreen(Shown) \in canvas.scenes => OnScreen(r) = OnScreen(Shown)
  <2>1. CASE mends
    <3>1. r = SetStopped(Shown, Shown.channel, target) /\ Shown.channel # Nothing
      BY <2>1, ShownNow
    <3>2. OnScreen(Shown) \in canvas.scenes => target = OnScreen(Shown)
      BY <1>5, <2>1, ShownNow DEF OnScreen
    <3>3. target \in Scenes
      BY <1>4 DEF Scenes
    <3> HIDE DEF r, target
    <3>4. Fit(r) /\ r.channel = Shown.channel /\ Within(r, canvas.scenes) /\ Keeps(Shown, r) /\ OnScreen(r) = target
      BY <1>1, <1>4, <3>1, <3>3, SetStoppedFits
    <3> QED
      BY <3>2, <3>4, ShownNow
  <2>2. CASE ~mends
    <3>1. r = Shown
      BY <2>2
    <3>2. Within(Shown, canvas.scenes)
      BY <1>1, <2>2, ShownNow DEF Within, Gone, UsableVideo
    <3> HIDE DEF r
    <3> QED
      BY <1>1, <3>1, <3>2, ShownNow, KeepsItself
  <2> QED
    BY <2>1, <2>2
<1> HIDE DEF r
<1>7. Switches(r, q)
  BY <1>1, <1>2, <1>3, <1>6 DEF Switches, obs
<1>8. program' = program /\ diverted' = diverted /\ Goal' = Goal
  BY <1>2 DEF obs, settings, Goal
<1>9. program' \in [scene : MainScenes, moving : BOOLEAN] /\ diverted' \in BOOLEAN
  BY <1>8 DEF CanvasInv, Types
<1>10. /\ Types' /\ Holding' /\ LettingGo' /\ Queueing' /\ Preparing'
       /\ OnScreen(Shown)' = OnScreen(r)
       /\ \A k : k # "refresh" => (Has(posts', k) <=> Has(q, k))
       /\ UsableVideo' <=> UsableVideo
  BY <1>6, <1>7, <1>9, SwitchStep
<1>11. Settling'
  <2>1. SUFFICES ASSUME UsableVideo, ~diverted, ~program.moving, ~Has(posts', "changed"), Goal # NoScene
                 PROVE  OnScreen(r) = Goal
    BY <1>8, <1>10 DEF Settling
  <2>2. ~Has(posts, "changed")
    BY <1>2, <1>3, <1>10, <2>1
  <2>3. OnScreen(Shown) = Goal
    BY <2>1, <2>2 DEF CanvasInv, Settling
  <2>4. Goal \in canvas.scenes
    BY <2>1, ResolvedLives DEF Goal
  <2> QED
    BY <1>6, <2>3, <2>4
<1> QED
  BY <1>10, <1>11 DEF CanvasInv

-------------------------------------------------------------------------------
\* Steps outside of what the invariant is about.
LEMMA SameStep ==
  ASSUME CanvasInv,
         UNCHANGED <<canvas, program, held, queued, down, diverted, ui, frontend, posts, channel, wrapper,
                     prepared, due, links>>
  PROVE  CanvasInv'
  BY DEF CanvasInv, Types, TransitionList, Holding, LettingGo, Queueing, Preparing, Settling, Asked, Goal, Has,
         UsableVideo, Usable, NothingPrepared, Fit, SoleHolder, Held, Within, OnScreen, Shown

\* The wrapper on the channel and what it shows stay.
LEMMA SameShown ==
  ASSUME UNCHANGED <<channel, wrapper>>
  PROVE  Shown' = Shown
  BY DEF Shown

\* The three callers of ensure().
LEMMA EnsureSteps ==
  ASSUME CanvasInv, Loaded \/ ProfileChanged \/ \E o \in {"main", "own"} : OutputStops(o)
  PROVE  CanvasInv'
<1>1. posts \in Seq(Post)
  BY InvFacts
<1>2. CASE Loaded
  <2> DEFINE follow == Head(posts).kind = "load"
             q == Tail(posts)
  <2>1. posts # <<>> /\ Head(posts).kind \in {"load", "reset"} /\ Ensure(follow, video, q) /\ UNCHANGED program
    BY <1>2 DEF Loaded
  <2>2. follow \in BOOLEAN
    OBVIOUS
  <2>3. q \in Seq(Post) /\ \A k : Has(posts, k) <=> Head(posts).kind = k \/ Has(q, k)
    BY <1>1, <2>1, HasTail
  <2>4. \A k \in {"repair", "changed", "refresh"} : Has(q, k) <=> Has(posts, k)
    BY <2>1, <2>3
  <2> HIDE DEF follow, q
  <2> QED
    BY <2>1, <2>2, <2>3, <2>4, EnsureStep
<1>3. CASE ProfileChanged
  <2> DEFINE follow == FALSE
  <2>1. Ensure(follow, video, posts) /\ follow \in BOOLEAN /\ UNCHANGED program
    BY <1>3 DEF ProfileChanged
  <2> HIDE DEF follow
  <2> QED
    BY <1>1, <2>1, EnsureStep
<1>4. ASSUME NEW o \in {"main", "own"}, OutputStops(o)
      PROVE  CanvasInv'
  <2>1. CASE o = "main" /\ held /\ canvas.there /\ canvas.video # "ok" /\ ~down
    <3> DEFINE follow == FALSE
               active == video'
    <3>1. Ensure(follow, active, posts) /\ follow \in BOOLEAN /\ UNCHANGED program
      BY <1>4, <2>1 DEF OutputStops
    <3> HIDE DEF follow, active
    <3> QED
      BY <1>1, <3>1, EnsureStep
  <2>2. CASE ~(o = "main" /\ held /\ canvas.there /\ canvas.video # "ok" /\ ~down)
    BY <1>4, <2>2, SameStep DEF OutputStops, settings, own, queue
  <2> QED
    BY <2>1, <2>2
<1> QED
  BY <1>2, <1>3, <1>4

\* Nothing of the plugin is on the canvas.
LEMMA ReleasedIs ==
  ASSUME channel' = Nothing, wrapper' = [w \in Wrappers |-> NoWrapper]
  PROVE  Fit(Shown)' /\ \A S : Within(Shown', S)
<1>1. NoWrapper \in Wrapping /\ NoWrapper.a = NoScene /\ NoWrapper.b = NoScene
  BY DEF NoWrapper, Wrapping, Kinds, Scenes
<1>2. Shown' \in Showing /\ Shown'.channel = Nothing /\ Shown'.wrapper = [w \in Wrappers |-> NoWrapper]
  BY <1>1 DEF Shown, Showing
<1> HIDE DEF Shown
<1> QED
  BY <1>1, <1>2 DEF Fit, SoleHolder, Held, Within

\* on_canvas_remove(): a canvas that is gone is not held.
LEMMA CanvasRemovedStep ==
  ASSUME CanvasInv, CanvasRemoved
  PROVE  CanvasInv'
<1>1. /\ canvas' = NoCanvas /\ diverted' = TRUE
      /\ UNCHANGED <<frontend, program, links, posts, queued, ui, due, down>>
      /\ IF held THEN Release ELSE UNCHANGED <<held, channel, wrapper, prepared>>
  BY DEF CanvasRemoved, settings, own, queue
<1>2. held' = FALSE /\ channel' = Nothing /\ Fit(Shown)' /\ prepared' = NothingPrepared
  <2>1. CASE held
    BY <1>1, <2>1, ReleasedIs DEF Release, NothingPrepared
  <2>2. CASE ~held
    <3>1. Shown' = Shown /\ channel = Nothing
      BY <1>1, <2>2, SameShown DEF CanvasInv, Holding
    <3> QED
      BY <1>1, <2>2, <3>1 DEF CanvasInv, Types, Holding
  <2> QED
    BY <2>1, <2>2
<1>3. Types'
  BY <1>1, <1>2 DEF CanvasInv, Types, TransitionList, NoCanvas
<1>4. Holding'
  BY <1>1, <1>2 DEF Holding, NothingPrepared
<1>5. LettingGo'
  BY <1>2 DEF LettingGo, Within, Shown
<1>6. Queueing'
  BY <1>1 DEF CanvasInv, Queueing
<1>7. ~UsableVideo'
  BY <1>2 DEF UsableVideo, Usable
<1> QED
  BY <1>3, <1>4, <1>5, <1>6, <1>7 DEF CanvasInv, Preparing, Settling

\* Another collection: the old canvas is let go of before the new one comes.
LEMMA CollectionChangedStep ==
  ASSUME CanvasInv, CollectionChanged
  PROVE  CanvasInv'
<1>1. /\ Release /\ diverted' = TRUE
      /\ \E scenes \in {{}, Verticals} : canvas' = [there |-> TRUE, video |-> "ok", scenes |-> scenes]
      /\ program' \in [scene : MainScenes, moving : {FALSE}]
      /\ posts' = <<[kind |-> "load"]>> \o posts
      /\ UNCHANGED <<frontend, links, queued, ui, due, down>>
  BY DEF CollectionChanged
<1>2. held' = FALSE /\ channel' = Nothing /\ Fit(Shown)' /\ prepared' = NothingPrepared
  BY <1>1, ReleasedIs DEF Release, NothingPrepared
<1> DEFINE load == [kind |-> "load"]
<1>3. load \in Post /\ posts \in Seq(Post) /\ posts' = <<load>> \o posts
  BY <1>1, InvFacts DEF Post
<1> HIDE DEF load
<1>4. posts' \in Seq(Post) /\ \A k : Has(posts, k) => Has(posts', k)
  BY <1>3, HasPrepended
<1>5. Types'
  <2>1. canvas' \in [there : BOOLEAN, video : {"none", "old", "ok"}, scenes : SUBSET Verticals]
    BY <1>1
  <2>2. program' \in [scene : MainScenes, moving : BOOLEAN]
    BY <1>1
  <2>3. diverted' \in BOOLEAN /\ held' \in BOOLEAN
    BY <1>1, <1>2
  <2> QED
    BY <1>1, <1>4, <2>1, <2>2, <2>3 DEF CanvasInv, Types, TransitionList
<1>6. Holding'
  BY <1>1, <1>2 DEF Holding, NothingPrepared
<1>7. LettingGo'
  BY <1>2 DEF LettingGo, Within, Shown
<1>8. Queueing'
  BY <1>1, <1>4 DEF CanvasInv, Queueing
<1>9. ~UsableVideo'
  BY <1>2 DEF UsableVideo, Usable
<1> QED
  BY <1>5, <1>6, <1>7, <1>8, <1>9 DEF CanvasInv, Preparing, Settling

\* The shutdown: nothing is on the channel.
LEMMA ShutdownStep ==
  ASSUME CanvasInv, Shutdown
  PROVE  CanvasInv'
<1>1. /\ down' = TRUE /\ channel' = Nothing /\ wrapper' = [w \in Wrappers |-> NoWrapper]
      /\ prepared' = NothingPrepared
      /\ UNCHANGED <<canvas, frontend, program, links, held, posts, queued, ui, due, diverted>>
  BY DEF Shutdown, obs, settings, queue, NothingPrepared
<1>2. Fit(Shown)'
  BY <1>1, ReleasedIs
<1>3. Types'
  BY <1>1 DEF CanvasInv, Types, TransitionList
<1>4. Holding'
  BY <1>1, <1>2 DEF CanvasInv, Holding, NothingPrepared
<1>5. LettingGo'
  BY <1>1 DEF LettingGo, Within, Shown
<1>6. Queueing'
  BY <1>1 DEF CanvasInv, Queueing
<1>7. ~UsableVideo'
  BY <1>1 DEF UsableVideo, Usable
<1> QED
  BY <1>3, <1>4, <1>5, <1>6, <1>7 DEF CanvasInv, Preparing, Settling

\* A post of another kind than those the invariant counts.
LEMMA PostedStep ==
  ASSUME CanvasInv, NEW x \in Post, posts' \in {posts, Append(posts, x)},
         UNCHANGED <<frontend, links, held, channel, wrapper, prepared, queued, ui, due, down>>,
         canvas' \in [there : BOOLEAN, video : {"none", "old", "ok"}, scenes : SUBSET Verticals],
         canvas'.there = canvas.there, canvas'.video = "none" <=> canvas.video = "none",
         program' \in [scene : MainScenes, moving : BOOLEAN], diverted' \in BOOLEAN,
         canvas'.scenes = canvas.scenes \/ Has(posts', "repair") \/ channel = Nothing
  PROVE  /\ Types' /\ Holding' /\ LettingGo' /\ Queueing' /\ Preparing'
         /\ UsableVideo' <=> UsableVideo
         /\ OnScreen(Shown)' = OnScreen(Shown)
         /\ \A k : Has(posts, k) => Has(posts', k)
<1>1. posts \in Seq(Post)
  BY InvFacts
<1>2. posts' \in Seq(Post) /\ \A k : Has(posts, k) => Has(posts', k)
  <2>1. CASE posts' = posts
    BY <1>1, <2>1
  <2>2. CASE posts' = Append(posts, x)
    <3>1. Append(posts, x) \in Seq(Post) /\ \A k : Has(Append(posts, x), k) <=> Has(posts, k) \/ x.kind = k
      BY <1>1, HasAppended
    <3> QED
      BY <2>2, <3>1
  <2> QED
    BY <2>1, <2>2
<1>3. Shown' = Shown
  BY SameShown
<1>4. Types'
  BY <1>2 DEF CanvasInv, Types, TransitionList
<1>5. Holding'
  BY <1>3 DEF CanvasInv, Holding, NothingPrepared
<1>6. LettingGo'
  <2>1. CASE canvas'.scenes = canvas.scenes
    BY <1>2, <1>3, <2>1 DEF CanvasInv, LettingGo
  <2>2. CASE Has(posts', "repair") \/ channel = Nothing
    BY <1>3, <2>2, ShownNow DEF LettingGo, Within
  <2> QED
    BY <2>1, <2>2
<1>7. Queueing'
  BY <1>2 DEF CanvasInv, Queueing
<1>8. UsableVideo' <=> UsableVideo
  BY DEF UsableVideo, Usable
<1>9. Preparing'
  BY <1>2, <1>8 DEF CanvasInv, Preparing, Asked
<1> QED
  BY <1>2, <1>3, <1>4, <1>5, <1>6, <1>7, <1>8, <1>9

\* A new frame rate touches nothing that is shown.
LEMMA VideoResetStep ==
  ASSUME CanvasInv, VideoReset
  PROVE  CanvasInv'
<1> DEFINE x == [kind |-> "reset"]
<1>1. /\ canvas' = IF canvas.video = "ok" THEN [canvas EXCEPT !.video = "old"] ELSE canvas
      /\ posts' = Append(posts, x)
      /\ UNCHANGED <<frontend, program, links, held, channel, wrapper, prepared, queued, ui, due, down, diverted>>
  BY DEF VideoReset, settings, own
<1>2. x \in Post
  BY DEF Post
<1>3. /\ canvas' \in [there : BOOLEAN, video : {"none", "old", "ok"}, scenes : SUBSET Verticals]
      /\ canvas'.there = canvas.there /\ (canvas'.video = "none" <=> canvas.video = "none")
      /\ canvas'.scenes = canvas.scenes
  BY <1>1 DEF CanvasInv, Types
<1>4. program' \in [scene : MainScenes, moving : BOOLEAN] /\ diverted' \in BOOLEAN
  BY <1>1 DEF CanvasInv, Types
<1> HIDE DEF x
<1>5. /\ Types' /\ Holding' /\ LettingGo' /\ Queueing' /\ Preparing'
      /\ UsableVideo' <=> UsableVideo
      /\ OnScreen(Shown)' = OnScreen(Shown)
      /\ \A k : Has(posts, k) => Has(posts', k)
  BY <1>1, <1>2, <1>3, <1>4, PostedStep
<1>6. Goal' = Goal
  BY <1>1, <1>3 DEF Goal
<1> QED
  BY <1>1, <1>5, <1>6 DEF CanvasInv, Settling

\* The program transition starts and ends: its end is followed by SCENE_CHANGED.
LEMMA MainSteps ==
  ASSUME CanvasInv, MainOver \/ \E t \in Transitions, m \in MainScenes : MainSwitch(t, m)
  PROVE  CanvasInv'
<1>1. ASSUME NEW t \in Transitions, NEW m \in MainScenes, MainSwitch(t, m)
      PROVE  CanvasInv'
  <2> DEFINE x == [kind |-> "start", transition |-> t, dest |-> m]
  <2>1. /\ program' = [scene |-> m, moving |-> TRUE] /\ posts' \in {posts, Append(posts, x)}
        /\ UNCHANGED <<canvas, frontend, links, held, channel, wrapper, prepared, queued, ui, due, down, diverted>>
    BY <1>1 DEF MainSwitch, settings, own
  <2>2. x \in Post
    BY DEF Post
  <2>3. /\ canvas' \in [there : BOOLEAN, video : {"none", "old", "ok"}, scenes : SUBSET Verticals]
        /\ program' \in [scene : MainScenes, moving : BOOLEAN] /\ diverted' \in BOOLEAN
    BY <2>1 DEF CanvasInv, Types
  <2> HIDE DEF x
  <2>4. Types' /\ Holding' /\ LettingGo' /\ Queueing' /\ Preparing'
    BY <2>1, <2>2, <2>3, PostedStep
  <2> QED
    BY <2>1, <2>4 DEF CanvasInv, Settling
<1>2. CASE MainOver
  <2> DEFINE x == [kind |-> "changed"]
  <2>1. /\ program' = [program EXCEPT !.moving = FALSE] /\ posts' = Append(posts, x)
        /\ UNCHANGED <<canvas, frontend, links, held, channel, wrapper, prepared, queued, ui, due, down, diverted>>
    BY <1>2 DEF MainOver, settings, own
  <2>2. x \in Post /\ x.kind = "changed"
    BY DEF Post
  <2>3. /\ canvas' \in [there : BOOLEAN, video : {"none", "old", "ok"}, scenes : SUBSET Verticals]
        /\ program' \in [scene : MainScenes, moving : BOOLEAN] /\ diverted' \in BOOLEAN
    BY <2>1 DEF CanvasInv, Types
  <2> HIDE DEF x
  <2>4. Types' /\ Holding' /\ LettingGo' /\ Queueing' /\ Preparing'
    BY <2>1, <2>2, <2>3, PostedStep
  <2>5. Has(posts', "changed")
    BY <2>1, <2>2, InvFacts, HasAppended
  <2> QED
    BY <2>4, <2>5 DEF CanvasInv, Settling
<1> QED
  BY <1>1, <1>2

\* A scene goes: the repair is posted whenever a wrapper may show it.
LEMMA SceneRemovedStep ==
  ASSUME CanvasInv, NEW scene \in Verticals, SceneRemoved(scene)
  PROVE  CanvasInv'
<1> DEFINE x == [kind |-> "repair"]
<1>1. /\ canvas' = [canvas EXCEPT !.scenes = @ \ {scene}] /\ diverted' = TRUE
      /\ posts' = IF held /\ ~down THEN Append(posts, x) ELSE posts
      /\ UNCHANGED <<frontend, program, links, held, channel, wrapper, prepared, queued, ui, due, down>>
  BY DEF SceneRemoved, settings, own
<1>2. x \in Post /\ x.kind = "repair"
  BY DEF Post
<1>3. /\ canvas' \in [there : BOOLEAN, video : {"none", "old", "ok"}, scenes : SUBSET Verticals]
      /\ canvas'.there = canvas.there /\ (canvas'.video = "none" <=> canvas.video = "none")
      /\ program' \in [scene : MainScenes, moving : BOOLEAN] /\ diverted' \in BOOLEAN
  BY <1>1 DEF CanvasInv, Types
<1> HIDE DEF x
<1>4. Has(posts', "repair") \/ channel = Nothing
  BY <1>1, <1>2, InvFacts, HasAppended DEF CanvasInv, Holding
<1>5. Types' /\ Holding' /\ LettingGo' /\ Queueing' /\ Preparing'
  BY <1>1, <1>2, <1>3, <1>4, PostedStep
<1> QED
  BY <1>1, <1>5 DEF CanvasInv, Settling

\* Other links: the canvas has diverted.
LEMMA SetLinksStep ==
  ASSUME CanvasInv, NEW l, SetLinks(l)
  PROVE  CanvasInv'
<1>1. /\ diverted' = TRUE
      /\ UNCHANGED <<canvas, program, held, queued, down, ui, frontend, posts, channel, wrapper, prepared, due>>
  BY DEF SetLinks, obs, own, queue
<1> QED
  BY <1>1 DEF CanvasInv, Types, TransitionList, Holding, LettingGo, Queueing, Preparing, Settling, Asked, Has,
         UsableVideo, Usable, NothingPrepared, Fit, SoleHolder, Held, Within, OnScreen, Shown

-------------------------------------------------------------------------------
(* The steps of a refresh. *)

\* The user edits a transition: its signal is due.
LEMMA EditStep ==
  ASSUME CanvasInv, NEW t \in Transitions, EditTransition(t)
  PROVE  CanvasInv'
<1>1. /\ frontend' = [frontend EXCEPT !.settings[t] = @ + 1] /\ due' = due \cup {t}
      /\ UNCHANGED <<canvas, program, links, held, channel, wrapper, prepared, posts, queued, ui, down, diverted>>
  BY DEF EditTransition, settings, own
<1>2. /\ TransitionList' /\ frontend'.list = frontend.list
      /\ \A x \in Transitions : x # t => frontend'.settings[x] = frontend.settings[x]
  <2>1. frontend \in [list : SUBSET Transitions, current : Transitions, settings : [Transitions -> Nat]]
    BY InvFacts DEF TransitionList
  <2> QED
    BY <1>1, <2>1 DEF TransitionList
<1>3. Shown' = Shown /\ Goal' = Goal /\ (UsableVideo' <=> UsableVideo) /\ (Asked' <=> Asked)
  BY <1>1, SameShown DEF Goal, UsableVideo, Usable, Asked
<1>4. Types' /\ Queueing'
  BY <1>1, <1>2 DEF CanvasInv, Types, Queueing
<1>5. Holding' /\ LettingGo'
  BY <1>1, <1>3 DEF CanvasInv, Holding, LettingGo, NothingPrepared
<1>6. Preparing'
  <2>1. \A x \in frontend.list : x \in Transitions
    BY InvFacts DEF TransitionList
  <2> QED
    BY <1>1, <1>2, <1>3, <2>1 DEF CanvasInv, Preparing
<1>7. Settling'
  BY <1>1, <1>3 DEF CanvasInv, Settling
<1> QED
  BY <1>4, <1>5, <1>6, <1>7 DEF CanvasInv

\* The "update" signal asks for a refresh when its transition was prepared.
LEMMA UpdateSignalStep ==
  ASSUME CanvasInv, NEW t \in Transitions, UpdateSignal(t)
  PROVE  CanvasInv'
<1> DEFINE ask == [kind |-> "refresh"]
<1>1. /\ due' = due \ {t}
      /\ IF prepared[t] = NotPrepared THEN UNCHANGED <<posts, queued>>
         ELSE /\ posts' = IF queued \/ down THEN posts ELSE Append(posts, ask)
              /\ queued' = (queued \/ ~down)
      /\ UNCHANGED <<canvas, frontend, program, links, held, channel, wrapper, prepared, ui, down, diverted>>
  BY DEF UpdateSignal, QueueRefresh, obs, settings, own
<1>2. ask \in Post /\ ask.kind = "refresh" /\ posts \in Seq(Post) /\ TransitionList
  BY InvFacts DEF Post
<1> HIDE DEF ask
<1>3. /\ Append(posts, ask) \in Seq(Post)
      /\ \A k : Has(Append(posts, ask), k) <=> Has(posts, k) \/ ask.kind = k
  BY <1>2, HasAppended
<1>4. /\ posts' \in Seq(Post) /\ queued' \in BOOLEAN
      /\ \A k : k # "refresh" => (Has(posts', k) <=> Has(posts, k))
      /\ Has(posts, "refresh") => Has(posts', "refresh")
      /\ queued' => Has(posts', "refresh")
      /\ prepared[t] # NotPrepared /\ ~down => Has(posts', "refresh")
  BY <1>1, <1>2, <1>3 DEF CanvasInv, Types, Queueing
<1>5. Shown' = Shown /\ Goal' = Goal /\ (UsableVideo' <=> UsableVideo)
  BY <1>1, SameShown DEF Goal, UsableVideo, Usable
<1>6. Types'
  BY <1>1, <1>4 DEF CanvasInv, Types, TransitionList
<1>7. Holding' /\ LettingGo' /\ Queueing'
  BY <1>1, <1>4, <1>5 DEF CanvasInv, Holding, LettingGo, Queueing, NothingPrepared
<1>8. Preparing'
  <2>1. SUFFICES ASSUME UsableVideo, ~Asked', NEW x \in frontend.list
                 PROVE  /\ prepared[x] # NotPrepared
                        /\ x \notin due' =>
                             /\ prepared[x].from = frontend.settings[x]
                             /\ wrapper[x].type # "none" =>
                                  wrapper[x].applied = frontend.settings[x] \/ wrapper[x].b # NoScene
    BY <1>1, <1>5 DEF Preparing
  <2>2. ~Asked /\ prepared[t] = NotPrepared
    BY <1>1, <1>4, <2>1 DEF Asked, UsableVideo, Usable
  <2>3. x # t
    BY <2>1, <2>2 DEF CanvasInv, Preparing
  <2> QED
    BY <1>1, <2>1, <2>2, <2>3 DEF CanvasInv, Preparing
<1>9. Settling'
  BY <1>1, <1>4, <1>5 DEF CanvasInv, Settling
<1> QED
  BY <1>6, <1>7, <1>8, <1>9 DEF CanvasInv

\* The flag is reset, the work still to come.
LEMMA RefreshBeginsStep ==
  ASSUME CanvasInv, RefreshBegins
  PROVE  CanvasInv'
<1>1. /\ posts # <<>> /\ Head(posts).kind = "refresh" /\ posts' = Tail(posts) /\ queued' = FALSE /\ ui' = "refresh"
      /\ UNCHANGED <<canvas, frontend, program, links, held, channel, wrapper, prepared, due, down, diverted>>
  BY DEF RefreshBegins, obs, settings, own
<1>2. /\ posts' \in Seq(Post)
      /\ \A k : k # "refresh" => (Has(posts', k) <=> Has(posts, k))
  BY <1>1, InvFacts, HasTail
<1>3. Shown' = Shown /\ Goal' = Goal /\ (UsableVideo' <=> UsableVideo)
  BY <1>1, SameShown DEF Goal, UsableVideo, Usable
<1>4. Types'
  BY <1>1, <1>2 DEF CanvasInv, Types, TransitionList
<1>5. Holding' /\ LettingGo' /\ Queueing'
  BY <1>1, <1>2, <1>3 DEF CanvasInv, Holding, LettingGo, Queueing, NothingPrepared
<1>6. Preparing'
  BY <1>1 DEF Preparing, Asked
<1>7. Settling'
  BY <1>1, <1>2, <1>3 DEF CanvasInv, Settling
<1> QED
  BY <1>4, <1>5, <1>6, <1>7 DEF CanvasInv

\* The work of a refresh, from the settings of that moment.
LEMMA RefreshRunsStep ==
  ASSUME CanvasInv, RefreshRuns
  PROVE  CanvasInv'
<1>1. /\ Fit(Shown) /\ Live /\ TransitionList /\ Shown \in Showing
      /\ posts \in Seq(Post) /\ queued \in BOOLEAN /\ down \in BOOLEAN
      /\ queued => Has(posts, "refresh")
      /\ channel # Nothing => UsableVideo
  BY InvFacts
<1>2. /\ ui' = "free" /\ Prepare(posts)
      /\ UNCHANGED <<canvas, frontend, program, links, held, due, down, diverted>>
  BY DEF RefreshRuns, obs, settings
<1>3. Goal' = Goal /\ (UsableVideo' <=> UsableVideo)
  BY <1>2 DEF Goal, UsableVideo, Usable
<1>4. CASE UsableVideo
  <2>1. PICK failed \in SUBSET Transitions : Become(Refreshed(Shown, failed), posts) /\ prepared' = PreparedNow
    BY <1>2, <1>4 DEF Prepare
  <2> DEFINE r == Refreshed(Shown, failed)
             S == canvas.scenes
  <2>2. canvas.scenes \subseteq S /\ r = Refreshed(Shown, failed)
    OBVIOUS
  <2>3. Become(r, posts) /\ prepared' = PreparedNow
    BY <2>1
  <2> HIDE DEF r, S
  <2>4. /\ Fit(r) /\ r.channel # Nothing /\ Applied(r)
        /\ Within(Shown, S) => Within(r, S)
        /\ Active(r) = Active(Shown)
    BY <1>1, <2>2, RefreshedFits
  <2>5. /\ channel' = r.channel /\ wrapper' = r.wrapper
        /\ posts' \in Seq(Post) /\ queued' \in BOOLEAN
        /\ \A k : k # "refresh" => (Has(posts', k) <=> Has(posts, k))
        /\ queued' => Has(posts', "refresh")
        /\ r.stopped /\ ~down => Has(posts', "refresh")
    BY <1>1, <2>3, <2>4, BecomeIs DEF Fit
  <2>6. Fit(Shown)' /\ OnScreen(Shown)' = OnScreen(r) /\ \A V : Within(r, V) => Within(Shown', V)
    BY <2>4, <2>5, ShownNext
  <2>7. Types'
    BY <1>2, <2>5 DEF CanvasInv, Types, TransitionList
  <2>8. Holding'
    BY <1>2, <1>4, <2>4, <2>5, <2>6 DEF Holding, UsableVideo, Usable
  <2>9. LettingGo'
    BY <1>2, <2>4, <2>5, <2>6 DEF CanvasInv, LettingGo, S
  <2>10. Queueing'
    BY <2>5 DEF Queueing
  <2>11. Preparing'
    <3>1. SUFFICES ASSUME ~Asked', NEW t \in frontend.list
                   PROVE  /\ prepared'[t] # NotPrepared
                          /\ prepared'[t].from = frontend.settings[t]
                          /\ wrapper'[t].type # "none" =>
                                wrapper'[t].applied = frontend.settings[t] \/ wrapper'[t].b # NoScene
      BY <1>2 DEF Preparing
    <3>2. ~r.stopped
      BY <1>2, <1>4, <2>5, <3>1 DEF Asked, UsableVideo, Usable
    <3> QED
      BY <1>1, <2>3, <2>4, <2>5, <3>2, PreparedNowIs DEF Applied
  <2>12. Settling'
    <3>1. SUFFICES ASSUME ~diverted, ~program.moving, ~Has(posts', "changed"), Goal # NoScene
                   PROVE  OnScreen(r) = Goal
      BY <1>2, <1>3, <2>6 DEF Settling
    <3>2. OnScreen(Shown) = Goal
      BY <1>4, <2>5, <3>1 DEF CanvasInv, Settling
    <3>3. Goal \in canvas.scenes
      BY <3>1, ResolvedLives DEF Goal
    <3>4. /\ Active(Shown) = IF OnScreen(Shown) \in canvas.scenes THEN OnScreen(Shown) ELSE NoScene
          /\ Active(r) = IF OnScreen(r) \in canvas.scenes THEN OnScreen(r) ELSE NoScene
      BY <1>1, <2>4, ActiveIsOnScreen
    <3> QED
      BY <2>4, <3>1, <3>2, <3>3, <3>4
  <2> QED
    BY <2>7, <2>8, <2>9, <2>10, <2>11, <2>12 DEF CanvasInv
<1>5. CASE ~UsableVideo
  <2>1. Become(Shown, posts) /\ UNCHANGED prepared
    BY <1>2, <1>5 DEF Prepare
  <2>2. UNCHANGED <<channel, wrapper, posts, queued>>
    BY <2>1, ShownNow DEF Become
  <2>3. Shown' = Shown
    BY <2>2, SameShown
  <2>4. Types' /\ Queueing'
    BY <1>2, <2>2 DEF CanvasInv, Types, TransitionList, Queueing
  <2>5. Holding' /\ LettingGo'
    BY <1>2, <2>1, <2>2, <2>3 DEF CanvasInv, Holding, LettingGo, NothingPrepared
  <2> QED
    BY <1>3, <1>5, <2>4, <2>5 DEF CanvasInv, Preparing, Settling
<1> QED
  BY <1>4, <1>5

\* The frontend's list or its current transition changes, and the work of a refresh follows.
LEMMA ListSteps ==
  ASSUME CanvasInv, NEW t \in Transitions, TransitionsEdited(t) \/ TransitionChosen(t)
  PROVE  CanvasInv'
<1>1. frontend \in [list : SUBSET Transitions, current : Transitions, settings : [Transitions -> Nat]]
  BY InvFacts DEF TransitionList
<1>2. /\ ui' = "refresh" /\ TransitionList'
      /\ UNCHANGED <<canvas, program, links, held, channel, wrapper, prepared, posts, queued, due, down, diverted>>
  <2>1. CASE TransitionsEdited(t)
    <3>1. /\ frontend' = [frontend EXCEPT !.list = (@ \ {t}) \cup ({t} \ @)] /\ ui' = "refresh"
          /\ UNCHANGED <<canvas, program, links, held, channel, wrapper, prepared, posts, queued, due, down, diverted>>
      BY <2>1 DEF TransitionsEdited, settings, own
    <3> QED
      BY <1>1, <3>1 DEF TransitionList
  <2>2. CASE TransitionChosen(t)
    <3>1. /\ frontend' = [frontend EXCEPT !.current = t] /\ ui' = "refresh"
          /\ UNCHANGED <<canvas, program, links, held, channel, wrapper, prepared, posts, queued, due, down, diverted>>
      BY <2>2 DEF TransitionChosen, settings, own
    <3> QED
      BY <1>1, <3>1 DEF TransitionList
  <2> QED
    BY <2>1, <2>2
<1>3. Shown' = Shown /\ Goal' = Goal /\ (UsableVideo' <=> UsableVideo)
  BY <1>2, SameShown DEF Goal, UsableVideo, Usable
<1>4. Types' /\ Queueing'
  BY <1>2 DEF CanvasInv, Types, Queueing
<1>5. Holding' /\ LettingGo'
  BY <1>2, <1>3 DEF CanvasInv, Holding, LettingGo, NothingPrepared
<1>6. Preparing'
  BY <1>2 DEF Preparing, Asked
<1>7. Settling'
  BY <1>2, <1>3 DEF CanvasInv, Settling
<1> QED
  BY <1>4, <1>5, <1>6, <1>7 DEF CanvasInv

-------------------------------------------------------------------------------
(***************************************************************************)
(* The inductive invariant: every post that is still to come stands for    *)
(* what the canvas has yet to let go of, to prepare or to follow.          *)
(***************************************************************************)
THEOREM CanvasInvCorrect == Spec => []CanvasInv
<1>1. Init => CanvasInv
  <2> SUFFICES ASSUME Init PROVE CanvasInv
    OBVIOUS
  <2> USE DEF Init
  <2>1. Types
    <3>1. <<[kind |-> "load"]>> \in Seq(Post)
      BY DEF Post
    <3>2. canvas \in [there : BOOLEAN, video : {"none", "old", "ok"}, scenes : SUBSET Verticals]
      <4>1. CASE canvas \in [there : {TRUE}, video : {"none", "ok"}, scenes : {{}, Verticals}]
        <5>1. canvas = [there |-> canvas.there, video |-> canvas.video, scenes |-> canvas.scenes]
              /\ canvas.there \in BOOLEAN /\ canvas.video \in {"none", "old", "ok"}
              /\ canvas.scenes \subseteq Verticals
          BY ONLY <4>1
        <5> QED
          BY ONLY <5>1
      <4>2. CASE canvas = NoCanvas
        BY ONLY <4>2 DEF NoCanvas
      <4> QED
        BY <4>1, <4>2
    <3>3. TransitionList
      BY DEF TransitionList
    <3>4. program \in [scene : MainScenes, moving : BOOLEAN]
      OBVIOUS
    <3> QED
      BY <3>1, <3>2, <3>3, <3>4 DEF Types
  <2>2. Holding
    <3>1. NoWrapper \in Wrapping /\ NoWrapper.a = NoScene /\ NoWrapper.b = NoScene
      BY DEF NoWrapper, Wrapping, Kinds, Scenes
    <3>2. Fit(Shown)
      BY <3>1 DEF Fit, SoleHolder, Held, Shown, Showing
    <3> QED
      BY <3>2 DEF Holding, NothingPrepared
  <2>3. ~UsableVideo
    BY DEF UsableVideo, Usable
  <2> QED
    BY <2>1, <2>2, <2>3 DEF CanvasInv, LettingGo, Queueing, Preparing, Settling, Within, Shown
<1>2. CanvasInv /\ [Next]_vars => CanvasInv'
  <2> SUFFICES ASSUME CanvasInv, [Next]_vars
               PROVE  CanvasInv'
    OBVIOUS
  <2>1. CASE Loaded \/ ProfileChanged \/ \E o \in {"main", "own"} : OutputStops(o)
    BY <2>1, EnsureSteps
  <2>2. CASE CanvasRemoved
    BY <2>2, CanvasRemovedStep
  <2>3. CASE CollectionChanged
    BY <2>3, CollectionChangedStep
  <2>4. CASE Save
    BY <2>4, SameStep DEF Save, obs, own, queue
  <2>5. CASE VideoReset
    BY <2>5, VideoResetStep
  <2>6. ASSUME NEW o \in {"main", "own"}, OutputStarts(o)
        PROVE  CanvasInv'
    BY <2>6, SameStep DEF OutputStarts, settings, own, queue
  <2>7. CASE MainOver \/ \E t \in Transitions, m \in MainScenes : MainSwitch(t, m)
    BY <2>7, MainSteps
  <2>8. CASE Start
    BY <2>8, StartStep
  <2>9. CASE SceneChanged
    BY <2>9, SceneChangedStep
  <2>10. CASE Repair
    BY <2>10, RepairStep
  <2>11. ASSUME NEW v \in Verticals, SetActive(v) \/ SceneRemoved(v)
         PROVE  CanvasInv'
    BY <2>11, SetActiveStep, SceneRemovedStep
  <2>12. CASE TransitionOver
    BY <2>12, TransitionOverStep
  <2>13. CASE RefreshBegins
    BY <2>13, RefreshBeginsStep
  <2>14. CASE RefreshRuns
    BY <2>14, RefreshRunsStep
  <2>15. CASE Shutdown
    BY <2>15, ShutdownStep
  <2>16. ASSUME NEW t \in Transitions, EditTransition(t) \/ UpdateSignal(t)
         PROVE  CanvasInv'
    BY <2>16, EditStep, UpdateSignalStep
  <2>17. ASSUME NEW t \in Transitions, TransitionsEdited(t) \/ TransitionChosen(t)
         PROVE  CanvasInv'
    BY <2>17, ListSteps
  <2>18. ASSUME NEW m, SetMode(m)
         PROVE  CanvasInv'
    BY <2>18, SameStep DEF SetMode, obs, own, queue
  <2>19. ASSUME NEW on \in BOOLEAN, SetLinks([enabled |-> on, map |-> <<>>])
         PROVE  CanvasInv'
    BY <2>19, SetLinksStep
  <2>20. CASE UNCHANGED vars
    BY <2>20, SameStep DEF vars, obs, settings, own, queue
  <2> QED
    BY <2>1, <2>2, <2>3, <2>4, <2>5, <2>6, <2>7, <2>8, <2>9, <2>10, <2>11, <2>12, <2>13, <2>14, <2>15, <2>16,
       <2>17, <2>18, <2>19, <2>20 DEF Next
<1> QED
  BY <1>1, <1>2, PTL DEF Spec

\* No wrapper of OwnedCanvas keeps a scene alive: none that is not on channel 0 has one, none is left
\* after a release or the shutdown, and a removed scene is let go of once its post has run.
THEOREM NothingDanglesCorrect == Spec => []NothingDangles
<1>1. CanvasInv => NothingDangles
  <2> SUFFICES ASSUME CanvasInv PROVE NothingDangles
    OBVIOUS
  <2>1. \A w \in Wrappers : w # channel => {wrapper[w].a, wrapper[w].b} = {NoScene}
    BY ShownNow, InvFacts DEF Fit, SoleHolder
  <2>2. channel # Nothing => held /\ ~down /\ wrapper[channel].type # "none"
    BY ShownNow, InvFacts DEF Fit, Held, CanvasInv, Holding
  <2>3. held /\ ~down /\ prepared # [t \in Transitions |-> NotPrepared] => channel # Nothing
    BY DEF CanvasInv, Holding, NothingPrepared
  <2>4. RemovedLetGo
    <3>1. SUFFICES ASSUME \A i \in DOMAIN posts : posts[i].kind # "repair", channel # Nothing
                   PROVE  {wrapper[channel].a, wrapper[channel].b} \subseteq canvas.scenes \cup {NoScene}
      BY DEF RemovedLetGo
    <3>2. ~Has(posts, "repair")
      BY <3>1 DEF Has
    <3> QED
      BY <3>1, <3>2, ShownNow DEF CanvasInv, LettingGo, Within
  <2> QED
    BY <2>1, <2>2, <2>3, <2>4 DEF NothingDangles, SceneRefs
<1> QED
  BY <1>1, CanvasInvCorrect, PTL

\* Once every post has run, the canvas is on the scene linked to the program scene, or goes there,
\* unless something else was chosen since it last followed.
THEOREM SettledCorrect == Spec => []Settled
<1>1. CanvasInv => Settled
  <2>1. SUFFICES ASSUME CanvasInv, posts = <<>>, ~program.moving, ~diverted, UsableVideo, Goal # NoScene
                 PROVE  Goal = IF wrapper[channel].b # NoScene THEN wrapper[channel].b ELSE wrapper[channel].a
    BY DEF Settled, Goal
  <2>2. ~Has(posts, "changed")
    BY <2>1 DEF Has
  <2>3. OnScreen(Shown) = Goal
    BY <2>1, <2>2 DEF CanvasInv, Settling
  <2> QED
    BY <2>1, <2>3, ShownNow DEF OnScreen
<1> QED
  BY <1>1, CanvasInvCorrect, PTL

\* Once every post and signal has come, what is prepared is made from the settings the frontend's
\* transitions have.
THEOREM PreparedFreshCorrect == Spec => []PreparedFresh
<1>1. CanvasInv => PreparedFresh
  <2>1. SUFFICES ASSUME CanvasInv, posts = <<>>, ui = "free", due = {}, UsableVideo, NEW t \in frontend.list
                 PROVE  /\ prepared[t].from = frontend.settings[t]
                        /\ wrapper[t].type # "none" =>
                             wrapper[t].applied = frontend.settings[t] \/ wrapper[t].b # NoScene
    BY DEF PreparedFresh
  <2>2. ~Asked /\ t \notin due
    BY <2>1 DEF Asked, Has
  <2> QED
    BY <2>1, <2>2 DEF CanvasInv, Preparing
<1> QED
  BY <1>1, CanvasInvCorrect, PTL

-----------------------------------------------------------------------------
(* Who holds the canvas (PreviewDisplay).  While the graphics thread draws it, the frontend
   still has it: what the UI thread has yet to do before it frees a canvas always drops the weak
   reference first and then waits for the draw in progress. *)

Calls == {"stop", "drop", "flush", "shutdown", "remove", "free", "owned gone", "dock gone", "join reaper"}

(* What the proof needs of the types. *)
Typed ==
    /\ holders \in [Canvases -> SUBSET ({Frontend, Graphics} \cup Sessions)]
    /\ weak \in Canvases \cup {None}
    /\ \/ draw.at \in {"idle", "called"} /\ draw.canvas = None
       \/ draw.at \in {"looks", "renders"} /\ draw.canvas \in Canvases
    /\ draw = [at |-> draw.at, canvas |-> draw.canvas]
    /\ todo \in Seq(Calls)
    /\ reaper \in Seq(Sessions)

(* A display that is there draws; after the shutdown there is none. *)
DisplayHeld ==
    /\ draw # NotDrawing => display # "none"
    /\ shutdown => display = "none"
    /\ ~owned => shutdown

(* The frontend owns one canvas at most, the one OwnedCanvas knows. *)
OneOwner ==
    /\ \A c, d \in Owner : c = d
    /\ weak # None => weak \in Owner

(* The graphics thread holds what it draws, which is what OwnedCanvas knows, or the next
   call of the UI thread waits for it. *)
Drawing == draw.canvas # None

DrawsOwned ==
    /\ \A c \in Canvases : Graphics \in holders[c] <=> draw.canvas = c
    /\ Drawing => draw.canvas \in Owner
    /\ Drawing => \/ weak = draw.canvas
                  \/ weak = None /\ todo # <<>> /\ Head(todo) = "flush"

(* The order of the calls that are still to come. *)
Before(k, calls) == \E i \in 1..(k - 1) : todo[i] \in calls

InOrder ==
    \A k \in DOMAIN todo :
        /\ todo[k] = "free" => Owner = {} \/ weak = None \/ Before(k, {"drop", "remove"})
        /\ todo[k] = "drop" => \/ k + 1 \in DOMAIN todo /\ todo[k + 1] = "flush"
                               \/ shutdown \/ Before(k, {"shutdown"})
        /\ todo[k] = "owned gone" => shutdown \/ Before(k, {"shutdown"})

DrawInv == Typed /\ DisplayHeld /\ OneOwner /\ DrawsOwned /\ InOrder

-----------------------------------------------------------------------------
LEMMA InitDraw == DisplayInit => DrawInv
<1> SUFFICES ASSUME DisplayInit PROVE DrawInv
  OBVIOUS
<1>1. Typed
  BY DEF DisplayInit, Typed, NotDrawing
<1>2. DisplayHeld /\ InOrder
  BY DEF DisplayInit, DisplayHeld, InOrder
<1>3. OneOwner /\ DrawsOwned
  BY HolderNames DEF DisplayInit, OneOwner, DrawsOwned, Owner, Drawing, NotDrawing
<1> QED BY <1>1, <1>2, <1>3 DEF DrawInv

(* Nobody but the frontend changes who owns a canvas. *)
LEMMA OthersHold ==
    ASSUME Typed, NEW c, NEW who, who # Frontend, Take(c, who) \/ LetGo(c, who)
    PROVE  /\ Owner' = Owner
           /\ who # Graphics => \A d \in Canvases : Graphics \in holders'[d] <=> Graphics \in holders[d]
           /\ who \in {Graphics} \cup Sessions =>
                holders' \in [Canvases -> SUBSET ({Frontend, Graphics} \cup Sessions)]
BY DEF Typed, Owner, Take, LetGo

(* The order of the calls, when the first is made and when it is not. *)
LEMMA OrderKept ==
    ASSUME InOrder, UNCHANGED todo, Owner = {} => Owner' = {}, weak = None => weak' = None,
           shutdown => shutdown'
    PROVE  InOrder'
BY DEF InOrder, Before

LEMMA HeadOf == ASSUME NEW S, NEW s \in Seq(S), 1 \in DOMAIN s PROVE s # <<>> /\ Head(s) = s[1]
OBVIOUS

LEMMA FirstCall ==
    ASSUME Typed, todo # <<>>
    PROVE  /\ DOMAIN todo = 1..Len(todo) /\ Len(todo) \in Nat \ {0}
           /\ todo[1] = Head(todo)
           /\ Tail(todo) \in Seq(Calls) /\ DOMAIN Tail(todo) = 1..(Len(todo) - 1)
           /\ \A k \in 1..(Len(todo) - 1) : Tail(todo)[k] = todo[k + 1]
BY DEF Typed

LEMMA OrderTail ==
    ASSUME Typed, InOrder, todo # <<>>, todo' = Tail(todo),
           Owner = {} => Owner' = {}, weak = None => weak' = None, shutdown => shutdown',
           Head(todo) \in {"drop", "remove"} => Owner' = {} \/ weak' = None,
           Head(todo) = "shutdown" => shutdown'
    PROVE  InOrder'
<1>1. /\ DOMAIN todo = 1..Len(todo) /\ Len(todo) \in Nat \ {0} /\ DOMAIN todo' = 1..(Len(todo) - 1)
      /\ \A k \in 1..(Len(todo) - 1) : todo'[k] = todo[k + 1]
      /\ todo[1] = Head(todo)
  BY FirstCall
<1>2. ASSUME NEW k \in DOMAIN todo', NEW calls, Before(k + 1, calls)
      PROVE  Head(todo) \in calls \/ Before(k, calls)'
  <2>1. PICK i \in 1..k : todo[i] \in calls
    BY <1>2 DEF Before
  <2>2. CASE i = 1
    BY <1>1, <2>1, <2>2
  <2>3. CASE i # 1
    <3>1. i - 1 \in 1..(k - 1) /\ todo'[i - 1] = todo[i]
      BY <1>1, <2>3
    <3> QED BY <2>1, <3>1 DEF Before
  <2> QED BY <2>2, <2>3
<1>3. ASSUME NEW k \in DOMAIN todo'
      PROVE  /\ todo'[k] = "free" => Owner' = {} \/ weak' = None \/ Before(k, {"drop", "remove"})'
             /\ todo'[k] = "drop" => \/ k + 1 \in DOMAIN todo' /\ todo'[k + 1] = "flush"
                                     \/ shutdown' \/ Before(k, {"shutdown"})'
             /\ todo'[k] = "owned gone" => shutdown' \/ Before(k, {"shutdown"})'
  <2>1. k + 1 \in DOMAIN todo /\ todo'[k] = todo[k + 1]
    BY <1>1
  <2>2. /\ Before(k + 1, {"drop", "remove"}) => Head(todo) \in {"drop", "remove"} \/ Before(k, {"drop", "remove"})'
        /\ Before(k + 1, {"shutdown"}) => Head(todo) = "shutdown" \/ Before(k, {"shutdown"})'
    BY <1>2
  <2>3. k + 2 \in DOMAIN todo => k + 1 \in DOMAIN todo' /\ todo'[k + 1] = todo[k + 2]
    BY <1>1
  <2>4. /\ todo[k + 1] = "free" => Owner = {} \/ weak = None \/ Before(k + 1, {"drop", "remove"})
        /\ todo[k + 1] = "drop" => \/ k + 2 \in DOMAIN todo /\ todo[k + 2] = "flush"
                                   \/ shutdown \/ Before(k + 1, {"shutdown"})
        /\ todo[k + 1] = "owned gone" => shutdown \/ Before(k + 1, {"shutdown"})
    <3>1. (k + 1) + 1 = k + 2
      BY <1>1
    <3> QED BY <2>1, <3>1 DEF InOrder
  <2> QED BY <2>1, <2>2, <2>3, <2>4
<1> QED BY <1>3 DEF InOrder

(* What the order says of the next call. *)
LEMMA NextInOrder ==
    ASSUME Typed, InOrder, todo # <<>>
    PROVE  /\ Head(todo) = "free" => Owner = {} \/ weak = None
           /\ Head(todo) = "drop" => shutdown \/ (2 \in DOMAIN todo /\ todo[2] = "flush")
           /\ Head(todo) = "owned gone" => shutdown
<1>1. todo[1] = Head(todo)
  BY FirstCall
<1>2. 1 \in DOMAIN todo
  BY FirstCall
<1>3. ~Before(1, {"drop", "remove"}) /\ ~Before(1, {"shutdown"})
  BY DEF Before
<1>4. 1 + 1 = 2
  OBVIOUS
<1> QED BY <1>1, <1>2, <1>3, <1>4 DEF InOrder

-----------------------------------------------------------------------------
LEMMA DisplayStep ==
    ASSUME Typed, DisplayHeld, InOrder, [DisplayNext]_displayVars
    PROVE  DisplayHeld'
<1>1. CASE UNCHANGED <<draw, display, shutdown, owned>>
  BY <1>1 DEF DisplayHeld
<1>2. CASE GraphicsThread
  <2>1. UNCHANGED <<display, shutdown, owned>> /\ (draw # NotDrawing \/ display = "enabled")
    BY <1>2 DEF GraphicsThread, DrawBegins, GetRef, LookedAt, Rendered, NotDrawing, widget
  <2> QED BY <2>1 DEF DisplayHeld
<1>3. CASE Call
  <2>1. CASE Head(todo) \in {"shutdown", "dock gone"}
    BY <1>3, <2>1 DEF Call, ShutdownPreview, DockGone, DisplayHeld
  <2>2. CASE Head(todo) = "owned gone"
    <3> todo # <<>>
      BY <1>3 DEF Call
    <3>4. shutdown
      BY <2>2, NextInOrder
    <3>3. UNCHANGED <<draw, display, shutdown>>
      BY <1>3, <2>2 DEF Call, OwnedCanvasGone, widget
    <3> QED BY <3>4, <3>3 DEF DisplayHeld
  <2>3. CASE Head(todo) \notin {"shutdown", "dock gone", "owned gone"}
    BY <1>1, <1>3, <2>3 DEF Call, StopSessions, DropWeak, Flush, FrontendReleases, JoinReaper, widget
  <2> QED BY <2>1, <2>2, <2>3
<1>4. CASE ShowEvent \/ HideEvent \/ PaintEvent
  BY <1>4 DEF ShowEvent, HideEvent, PaintEvent, Created, DisplayHeld
<1>5. CASE RemoveCanvas \/ ReaperJob \/ RemovedByUser \/ CollectionChanging \/ Exit \/ Unloaded \/ UNCHANGED displayVars
  BY <1>1, <1>5 DEF RemoveCanvas, ReaperJob, RemovedByUser, CollectionChanging, Exit, Begins, Unloaded, widget, displayVars
<1>6. CASE (\E c \in Canvases : EnsureCanvas(c)) \/ (\E x \in Sessions : StartSession(x) \/ EndSession(x))
  BY <1>1, <1>6 DEF EnsureCanvas, StartSession, EndSession, widget
<1> QED BY <1>2, <1>3, <1>4, <1>5, <1>6 DEF DisplayNext

(* The calls of an event, in their order. *)
RemoveCalls == <<"remove", "free">>
ChangingCalls == <<"stop", "drop", "flush", "remove", "free">>

LEMMA RemoveInOrder == RemoveCalls \in Seq(Calls) /\ (todo' = RemoveCalls => InOrder')
<1>1. RemoveCalls \in Seq(Calls) /\ DOMAIN RemoveCalls = 1..2
  BY DEF RemoveCalls, Calls
<1>2. RemoveCalls[1] = "remove" /\ RemoveCalls[2] = "free"
  BY DEF RemoveCalls
<1> HIDE DEF RemoveCalls
<1>3. ASSUME todo' = RemoveCalls PROVE InOrder'
  <2>1. Before(2, {"drop", "remove"})'
    BY <1>2, <1>3 DEF Before
  <2>2. \A k \in 1..2 : k = 1 \/ k = 2
    OBVIOUS
  <2>3. todo'[1] = "remove" /\ todo'[2] = "free" /\ DOMAIN todo' = 1..2
    BY <1>1, <1>2, <1>3
  <2> QED BY <2>1, <2>2, <2>3 DEF InOrder
<1> QED BY <1>1, <1>3

LEMMA ChangingInOrder == ChangingCalls \in Seq(Calls) /\ (todo' = ChangingCalls => InOrder')
<1>1. ChangingCalls \in Seq(Calls) /\ DOMAIN ChangingCalls = 1..5
  BY DEF ChangingCalls, Calls
<1>2. /\ ChangingCalls[1] = "stop" /\ ChangingCalls[2] = "drop" /\ ChangingCalls[3] = "flush"
      /\ ChangingCalls[4] = "remove" /\ ChangingCalls[5] = "free"
  BY DEF ChangingCalls
<1> HIDE DEF ChangingCalls
<1>3. ASSUME todo' = ChangingCalls PROVE InOrder'
  <2>1. Before(5, {"drop", "remove"})'
    BY <1>2, <1>3 DEF Before
  <2>2. \A k \in 1..5 : k = 1 \/ k = 2 \/ k = 3 \/ k = 4 \/ k = 5
    OBVIOUS
  <2>3. /\ todo'[1] = "stop" /\ todo'[2] = "drop" /\ todo'[3] = "flush"
        /\ todo'[4] = "remove" /\ todo'[5] = "free" /\ DOMAIN todo' = 1..5
    BY <1>1, <1>2, <1>3
  <2> SUFFICES ASSUME NEW k \in 1..5
               PROVE  /\ todo'[k] = "free" => Before(k, {"drop", "remove"})'
                      /\ todo'[k] = "drop" => k + 1 \in DOMAIN todo' /\ todo'[k + 1] = "flush"
                      /\ todo'[k] # "owned gone"
    BY <2>3 DEF InOrder
  <2>4. CASE k = 2
    <3>1. k + 1 = 3 /\ 3 \in 1..5 /\ todo'[k] = "drop"
      BY <2>3, <2>4
    <3> QED BY <2>3, <3>1
  <2>5. CASE k = 5
    BY <2>1, <2>3, <2>5
  <2>6. CASE k = 1 \/ k = 3 \/ k = 4
    BY <2>3, <2>6
  <2> QED BY <2>2, <2>4, <2>5, <2>6
<1> QED BY <1>1, <1>3

ExitCalls == <<"stop", "shutdown", "remove", "free", "stop", "shutdown", "drop",
               "stop", "drop", "shutdown", "owned gone", "dock gone", "join reaper">>

LEMMA ExitInOrder == ExitCalls \in Seq(Calls) /\ (todo' = ExitCalls => InOrder')
<1>1. ExitCalls \in Seq(Calls) /\ DOMAIN ExitCalls = 1..13
  BY DEF ExitCalls, Calls
<1>2. /\ ExitCalls[1] = "stop" /\ ExitCalls[2] = "shutdown" /\ ExitCalls[3] = "remove"
  BY DEF ExitCalls
<1> HIDE DEF ExitCalls
<1>3. ASSUME todo' = ExitCalls PROVE InOrder'
  <2> SUFFICES ASSUME NEW k \in DOMAIN ExitCalls, k \notin {1, 2, 3}
               PROVE  Before(k, {"drop", "remove"})' /\ Before(k, {"shutdown"})'
    BY <1>1, <1>2, <1>3 DEF InOrder
  <2> QED BY <1>1, <1>2, <1>3 DEF Before
<1> QED BY <1>1, <1>3

-----------------------------------------------------------------------------
Names == {Frontend, Graphics} \cup Sessions

LEMMA HoldersTyped ==
    ASSUME Typed, NEW c, NEW who \in Names, Take(c, who) \/ LetGo(c, who)
    PROVE  holders' \in [Canvases -> SUBSET Names]
BY DEF Typed, Take, LetGo, Names

(* What stop_now() queues is a sequence of sessions. *)
LEMMA StopTyped ==
    ASSUME Typed, StopSessions
    PROVE  reaper' \in Seq(Sessions)
<1> DEFINE running == {x \in Sessions : encoding[x] # None /\ x \notin Range(reaper)}
<1>1. IsFiniteSet(running) /\ Cardinality(running) \in Nat
  <2>1. IsFiniteSet(running)
    BY HolderNames, FS_Subset
  <2> QED BY <2>1, FS_CardinalityType
<1>2. PICK order \in SetToSeqs(running) : reaper' = reaper \o order
  BY DEF StopSessions
<1>3. order \in [1..Cardinality(running) -> running]
  BY <1>2 DEF SetToSeqs
<1>4. order \in [1..Cardinality(running) -> Sessions]
  BY <1>3
<1> HIDE DEF running
<1>5. order \in Seq(Sessions)
  BY <1>1, <1>4, SeqDef
<1> QED BY <1>2, <1>5 DEF Typed

(* The signal of a removed canvas puts what on_canvas_remove() does before the rest. *)
RemovedCalls == <<"stop", "drop", "flush">>

LEMMA RemovedTyped ==
    /\ RemovedCalls \in Seq(Calls) /\ Len(RemovedCalls) = 3
    /\ RemovedCalls[1] = "stop" /\ RemovedCalls[2] = "drop" /\ RemovedCalls[3] = "flush"
<1>1. RemovedCalls \in Seq(Calls)
  BY DEF RemovedCalls, Calls
<1>2. /\ Len(RemovedCalls) = 3
      /\ RemovedCalls[1] = "stop" /\ RemovedCalls[2] = "drop" /\ RemovedCalls[3] = "flush"
  BY DEF RemovedCalls
<1> QED BY <1>1, <1>2

LEMMA RemovedFirst ==
    ASSUME NEW s \in Seq(Calls)
    PROVE  /\ RemovedCalls \o s \in Seq(Calls) /\ <<>> \o s = s
           /\ DOMAIN (RemovedCalls \o s) = 1..(Len(s) + 3) /\ Len(s) \in Nat
           /\ (RemovedCalls \o s)[1] = "stop" /\ (RemovedCalls \o s)[2] = "drop"
           /\ (RemovedCalls \o s)[3] = "flush"
           /\ \A k \in 1..Len(s) : (RemovedCalls \o s)[k + 3] = s[k]
<1> DEFINE r == RemovedCalls \o s
<1>1. /\ r \in Seq(Calls) /\ Len(r) = 3 + Len(s) /\ Len(s) \in Nat
      /\ \A k \in 1..(3 + Len(s)) : r[k] = IF k <= 3 THEN RemovedCalls[k] ELSE s[k - 3]
  <2>1. /\ r \in Seq(Calls) /\ Len(r) = Len(RemovedCalls) + Len(s)
        /\ \A k \in 1..(Len(RemovedCalls) + Len(s)) :
              r[k] = IF k <= Len(RemovedCalls) THEN RemovedCalls[k] ELSE s[k - Len(RemovedCalls)]
    BY RemovedTyped, ConcatProperties, Zenon
  <2> HIDE DEF r
  <2> QED BY <2>1, RemovedTyped
<1>2. <<>> \o s = s
  BY ConcatEmptySeq
<1> HIDE DEF r
<1>3. DOMAIN r = 1..(Len(s) + 3)
  BY <1>1
<1>4. /\ r[1] = RemovedCalls[1] /\ r[2] = RemovedCalls[2] /\ r[3] = RemovedCalls[3]
      /\ \A k \in 1..Len(s) : r[k + 3] = s[k]
  BY <1>1
<1> QED BY <1>1, <1>2, <1>3, <1>4, RemovedTyped DEF r

LEMMA TypedStep ==
    ASSUME Typed, [DisplayNext]_displayVars
    PROVE  Typed'
<1> USE DEF Typed
<1>1. CASE GraphicsThread
  <2>1. UNCHANGED <<weak, todo, reaper>>
    BY <1>1 DEF GraphicsThread, DrawBegins, GetRef, LookedAt, Rendered
  <2>2. /\ \/ draw'.at \in {"idle", "called"} /\ draw'.canvas = None
           \/ draw'.at \in {"looks", "renders"} /\ draw'.canvas \in Canvases
        /\ draw' = [at |-> draw'.at, canvas |-> draw'.canvas]
    BY <1>1 DEF GraphicsThread, DrawBegins, GetRef, LookedAt, Rendered, NotDrawing
  <2>3. holders' \in [Canvases -> SUBSET Names]
    <3>1. Graphics \in Names /\ (UNCHANGED holders => holders' \in [Canvases -> SUBSET Names])
      BY DEF Names
    <3> QED BY <1>1, <3>1, HoldersTyped DEF GraphicsThread, DrawBegins, GetRef, LookedAt, Rendered, libobs
  <2> QED BY <2>1, <2>2, <2>3 DEF Names
<1>2. CASE Call
  <2>1. UNCHANGED draw /\ weak' \in {weak, None} /\ todo' \in Seq(Calls)
    BY <1>2, FirstCall DEF Call, StopSessions, DropWeak, Flush, ShutdownPreview, FrontendReleases, OwnedCanvasGone,
                            DockGone, JoinReaper
  <2>2. holders' \in [Canvases -> SUBSET Names]
    <3>1. Frontend \in Names /\ (UNCHANGED holders => holders' \in [Canvases -> SUBSET Names])
      BY DEF Names
    <3> QED BY <1>2, <3>1, HoldersTyped DEF Call, StopSessions, DropWeak, Flush, ShutdownPreview, FrontendReleases,
                            OwnedCanvasGone, DockGone, JoinReaper, libobs
  <2>3. reaper' \in Seq(Sessions)
    BY <1>2, StopTyped DEF Call, DropWeak, Flush, ShutdownPreview, FrontendReleases, OwnedCanvasGone, DockGone, JoinReaper
  <2> QED BY <2>1, <2>2, <2>3 DEF Names
<1>3. CASE RemoveCanvas
  <2>1. Tail(todo) \in Seq(Calls)
    BY <1>3, FirstCall DEF RemoveCanvas
  <2>2. todo' \in Seq(Calls)
    BY <1>3, <2>1, RemovedFirst DEF RemoveCanvas, Removed, RemovedCalls
  <2> QED BY <1>3, <2>2 DEF RemoveCanvas
<1>4. CASE RemovedByUser \/ CollectionChanging \/ Exit
  <2>1. todo' \in Seq(Calls)
    BY <1>4, RemoveInOrder, ChangingInOrder, ExitInOrder
    DEF RemovedByUser, CollectionChanging, Exit, Begins, RemoveCalls, ChangingCalls, ExitCalls
  <2> QED BY <1>4, <2>1 DEF RemovedByUser, CollectionChanging, Exit, Begins, libobs
<1>5. CASE \E c \in Canvases : EnsureCanvas(c)
  <2> PICK c \in Canvases : EnsureCanvas(c)
    BY <1>5
  <2>1. holders' \in [Canvases -> SUBSET Names]
    BY HoldersTyped DEF EnsureCanvas, Names
  <2> QED BY <2>1 DEF EnsureCanvas, Names
<1>6. CASE \E x \in Sessions : StartSession(x) \/ EndSession(x)
  <2> PICK x \in Sessions : StartSession(x) \/ EndSession(x)
    BY <1>6
  <2>1. holders' \in [Canvases -> SUBSET Names]
    BY HoldersTyped DEF StartSession, EndSession, libobs, Names
  <2>2. reaper' \in Seq(Sessions)
    <3>1. Append(reaper, x) \in Seq(Sessions)
      OBVIOUS
    <3> QED BY <3>1 DEF StartSession, EndSession
  <2> QED BY <2>1, <2>2 DEF StartSession, EndSession, Names
<1>7. CASE ReaperJob
  <2>1. Head(reaper) \in Sessions /\ reaper' \in Seq(Sessions)
    BY <1>7 DEF ReaperJob
  <2>2. holders' \in [Canvases -> SUBSET Names]
    BY <1>7, <2>1, HoldersTyped DEF ReaperJob, Names
  <2> QED BY <1>7, <2>1, <2>2 DEF ReaperJob, Names
<1>8. CASE ShowEvent \/ HideEvent \/ PaintEvent \/ Unloaded \/ UNCHANGED displayVars
  BY <1>8 DEF ShowEvent, HideEvent, PaintEvent, Unloaded, displayVars, libobs
<1> QED BY <1>1, <1>2, <1>3, <1>4, <1>5, <1>6, <1>7, <1>8 DEF DisplayNext

-----------------------------------------------------------------------------
(* Nothing is drawn once the preview is shut down, and when the UI thread passes a call that
   waits for the draws. *)
LEMMA NoDraw ==
    ASSUME Typed, DisplayHeld, DrawsOwned,
           \/ shutdown
           \/ Owner = {}
           \/ weak = None /\ (todo # <<>> => Head(todo) # "flush")
           \/ display # "none" => draw = NotDrawing
    PROVE  ~Drawing /\ \A c \in Canvases : Graphics \notin holders[c]
<1>1. draw = NotDrawing => ~Drawing
  BY DEF NotDrawing, Drawing
<1>2. ~Drawing
  BY <1>1, HolderNames DEF DisplayHeld, DrawsOwned, Typed, Drawing
<1> QED BY <1>2, HolderNames DEF DrawsOwned, Drawing

(* What a call of the UI thread does to the owner and to the reference that is weak. *)
LEMMA CallOwner ==
    ASSUME Typed, OneOwner, InOrder, Call
    PROVE  /\ Owner' \subseteq Owner
           /\ Head(todo) # "free" => UNCHANGED holders
           /\ Head(todo) = "free" => UNCHANGED weak /\ ((Owner = {} /\ UNCHANGED holders) \/ weak = None)
           /\ \A c \in Canvases : Graphics \in holders'[c] <=> Graphics \in holders[c]
           /\ weak' \in {weak, None}
           /\ UNCHANGED draw
<1>1. todo # <<>>
  BY DEF Call
<1>2. CASE Head(todo) = "free"
  <2>1. UNCHANGED <<weak, draw>> /\ (UNCHANGED holders \/ \E c \in Owner : LetGo(c, Frontend))
        /\ (Owner = {} => UNCHANGED holders)
    BY <1>2 DEF Call, FrontendReleases
  <2>2. Owner = {} \/ weak = None
    BY <1>1, <1>2, NextInOrder
  <2>3. Owner' \subseteq Owner /\ \A c \in Canvases : Graphics \in holders'[c] <=> Graphics \in holders[c]
    BY <2>1 DEF Typed, Owner, LetGo, Frontend, Graphics
  <2> QED BY <1>2, <2>1, <2>2, <2>3
<1>3. CASE Head(todo) # "free"
  <2>1. UNCHANGED <<holders, draw>> /\ weak' \in {weak, None}
    BY <1>3 DEF Call, StopSessions, DropWeak, Flush, ShutdownPreview, OwnedCanvasGone, DockGone, JoinReaper, libobs
  <2> QED BY <1>3, <2>1 DEF Owner
<1> QED BY <1>2, <1>3

LEMMA OwnerStep ==
    ASSUME Typed, OneOwner, InOrder, [DisplayNext]_displayVars
    PROVE  OneOwner'
<1>1. CASE Owner' = Owner /\ UNCHANGED weak
  BY <1>1 DEF OneOwner
<1>2. CASE GraphicsThread
  <2>1. \A c : Take(c, Graphics) \/ LetGo(c, Graphics) => Owner' = Owner
    BY OthersHold DEF Graphics, Frontend
  <2>2. UNCHANGED weak /\ (UNCHANGED holders \/ \E c : Take(c, Graphics) \/ LetGo(c, Graphics))
    BY <1>2 DEF GraphicsThread, DrawBegins, GetRef, LookedAt, Rendered, libobs
  <2> QED BY <1>1, <2>1, <2>2 DEF Owner
<1>3. CASE Call
  <2>1. CASE Head(todo) = "free"
    BY <1>3, <2>1, CallOwner DEF OneOwner, Owner
  <2>2. CASE Head(todo) # "free"
    <3>1. Owner' = Owner /\ weak' \in {weak, None}
      BY <1>3, <2>2, CallOwner DEF Owner
    <3> QED BY <3>1 DEF OneOwner
  <2> QED BY <2>1, <2>2
<1>4. CASE ReaperJob
  <2>1. Head(reaper) \in Sessions /\ Head(reaper) # Frontend
    BY <1>4, HolderNames DEF ReaperJob, Typed
  <2> QED BY <1>1, <1>4, <2>1, OthersHold DEF ReaperJob
<1>5. ASSUME NEW x \in Sessions, StartSession(x) \/ EndSession(x) PROVE OneOwner'
  <2>1. x # Frontend
    BY HolderNames
  <2> QED BY <1>1, <1>5, <2>1, OthersHold DEF StartSession, EndSession, libobs, Owner
<1>6. ASSUME NEW c \in Canvases, EnsureCanvas(c) PROVE OneOwner'
  <2>1. Owner' = {c} /\ weak' = c
    BY <1>6 DEF EnsureCanvas, Take, Owner, Typed
  <2> QED BY <2>1 DEF OneOwner
<1>7. CASE RemoveCanvas \/ RemovedByUser \/ CollectionChanging \/ Exit \/ ShowEvent \/ HideEvent \/ PaintEvent
           \/ Unloaded \/ UNCHANGED displayVars
  BY <1>1, <1>7 DEF RemoveCanvas, RemovedByUser, CollectionChanging, Exit, Begins, ShowEvent, HideEvent, PaintEvent,
                    Unloaded, displayVars, libobs, Owner
<1> QED BY <1>2, <1>3, <1>4, <1>5, <1>6, <1>7 DEF DisplayNext

LEMMA DrawsStep ==
    ASSUME Typed, DisplayHeld, OneOwner, DrawsOwned, InOrder, [DisplayNext]_displayVars
    PROVE  DrawsOwned'
<1>1. CASE UNCHANGED <<draw, weak, todo>> /\ Owner' = Owner
           /\ \A c \in Canvases : Graphics \in holders'[c] <=> Graphics \in holders[c]
  BY <1>1 DEF DrawsOwned, Drawing
<1>2. CASE UNCHANGED <<draw, weak, holders>> /\ (todo = <<>> \/ Head(todo) # "flush")
  BY <1>2 DEF DrawsOwned, Drawing, Owner
<1>3. CASE UNCHANGED draw /\ ~Drawing
           /\ \A c \in Canvases : Graphics \in holders'[c] <=> Graphics \in holders[c]
  BY <1>3 DEF DrawsOwned, Drawing
<1>4. CASE GraphicsThread
  <2>1. CASE DrawBegins
    <3>1. draw.canvas = None /\ draw'.canvas = None /\ UNCHANGED <<holders, weak, todo>>
      BY <1>4, <2>1 DEF DrawBegins, NotDrawing, libobs
    <3> QED BY <3>1 DEF DrawsOwned, Drawing, Owner
  <2>2. CASE GetRef
    <3>1. draw.canvas = None /\ UNCHANGED <<weak, todo>>
      BY <2>2, HolderNames DEF GetRef, Typed
    <3>2. CASE UNCHANGED holders /\ draw' = NotDrawing
      BY <3>1, <3>2 DEF DrawsOwned, Drawing, NotDrawing, Owner
    <3>3. CASE Take(weak, Graphics) /\ weak # None /\ draw' = [at |-> "looks", canvas |-> weak]
      <4>1. draw'.canvas = weak /\ weak \in Canvases /\ weak \in Owner /\ Owner' = Owner
        BY <3>3, OthersHold DEF OneOwner, Typed, Graphics, Frontend
      <4>2. \A c \in Canvases : Graphics \in holders'[c] <=> c = weak
        BY <3>1, <3>3, HolderNames DEF DrawsOwned, Take, Typed
      <4> QED BY <3>1, <4>1, <4>2 DEF DrawsOwned, Drawing
    <3> QED BY <2>2, <3>2, <3>3 DEF GetRef
  <2>3. CASE LookedAt \/ Rendered
    <3>1. UNCHANGED <<weak, todo>>
      BY <2>3 DEF LookedAt, Rendered
    <3>2. CASE LetGo(draw.canvas, Graphics) /\ draw' = NotDrawing
      <4>1. draw'.canvas = None
        BY <3>2 DEF NotDrawing
      <4>2. \A c \in Canvases : Graphics \notin holders'[c]
        BY <3>2 DEF DrawsOwned, LetGo, Typed
      <4> QED BY <4>1, <4>2, HolderNames DEF DrawsOwned, Drawing
    <3>3. CASE draw' = [draw EXCEPT !.at = "renders"] /\ UNCHANGED holders
      <4>1. draw'.canvas = draw.canvas
        BY <3>3 DEF Typed
      <4> QED BY <3>1, <3>3, <4>1 DEF DrawsOwned, Drawing, Owner
    <3> QED BY <2>3, <3>2, <3>3 DEF LookedAt, Rendered
  <2> QED BY <1>4, <2>1, <2>2, <2>3 DEF GraphicsThread
<1>5. CASE Call
  <2>0. todo # <<>> /\ todo' = Tail(todo)
    BY <1>5 DEF Call
  <2>1. CASE Head(todo) \in {"flush", "shutdown", "dock gone"}
    <3>1. display # "none" => draw = NotDrawing
      BY <1>5, <2>1 DEF Call, Flush, ShutdownPreview, DockGone
    <3> QED BY <1>3, <1>5, <3>1, NoDraw, CallOwner
  <2>2. CASE Head(todo) = "free"
    <3>1. Owner = {} \/ weak = None
      BY <1>5, <2>2, CallOwner
    <3> QED BY <1>3, <1>5, <2>2, <3>1, NoDraw, CallOwner
  <2>3. CASE Head(todo) = "owned gone"
    <3>1. shutdown
      BY <2>0, <2>3, NextInOrder
    <3>2. ~Drawing
      BY <3>1, NoDraw
    <3> QED BY <1>3, <1>5, <3>2, CallOwner
  <2>4. CASE Head(todo) \in {"stop", "join reaper"}
    <3>1. UNCHANGED <<draw, weak, holders>>
      BY <1>5, <2>4 DEF Call, StopSessions, JoinReaper, libobs
    <3> QED BY <1>2, <2>4, <3>1
  <2>5. CASE Head(todo) = "drop"
    <3>1. UNCHANGED <<draw, holders>> /\ weak' = None
      BY <1>5, <2>5 DEF Call, DropWeak, libobs
    <3>3. shutdown \/ (2 \in DOMAIN todo /\ todo[2] = "flush")
      BY <2>0, <2>5, NextInOrder
    <3>4. CASE shutdown
      <4>1. ~Drawing
        BY <3>4, NoDraw
      <4> QED BY <1>3, <3>1, <4>1
    <3>5. CASE 2 \in DOMAIN todo /\ todo[2] = "flush"
      <4>1. todo # <<>> /\ todo' = Tail(todo)
        BY <2>0
      <4>2. /\ Tail(todo) \in Seq(Calls) /\ DOMAIN todo = 1..Len(todo) /\ Len(todo) \in Nat
            /\ DOMAIN Tail(todo) = 1..(Len(todo) - 1)
            /\ \A k \in 1..(Len(todo) - 1) : Tail(todo)[k] = todo[k + 1]
        BY <4>1, FirstCall
      <4>3. todo' # <<>> /\ Head(todo') = "flush"
        <5>1. 1 \in 1..(Len(todo) - 1) /\ todo[1 + 1] = "flush"
          BY <3>5, <4>2
        <5>2. Tail(todo)[1] = "flush" /\ 1 \in DOMAIN Tail(todo)
          BY <4>2, <5>1
        <5>3. Tail(todo) # <<>> /\ Head(Tail(todo)) = Tail(todo)[1]
          BY <4>2, <5>2, HeadOf
        <5> QED BY <4>1, <5>2, <5>3
      <4> QED BY <3>1, <4>3 DEF DrawsOwned, Drawing, Owner
    <3> QED BY <3>3, <3>4, <3>5
  <2> QED BY <1>5, <2>1, <2>2, <2>3, <2>4, <2>5 DEF Call
<1>6. CASE ReaperJob
  <2>1. Head(reaper) \in Sessions /\ Head(reaper) # Frontend /\ Head(reaper) # Graphics
    BY <1>6, HolderNames DEF ReaperJob, Typed
  <2> QED BY <1>1, <1>6, <2>1, OthersHold DEF ReaperJob
<1>7. ASSUME NEW x \in Sessions, StartSession(x) \/ EndSession(x) PROVE DrawsOwned'
  <2>1. x # Frontend /\ x # Graphics
    BY HolderNames
  <2> QED BY <1>1, <1>7, <2>1, OthersHold DEF StartSession, EndSession, libobs, Owner
<1>8. ASSUME NEW c \in Canvases, EnsureCanvas(c) PROVE DrawsOwned'
  <2>1. UNCHANGED draw /\ Owner = {} /\ \A d \in Canvases : Graphics \in holders'[d] <=> Graphics \in holders[d]
    BY <1>8 DEF EnsureCanvas, Take, Typed, Frontend, Graphics
  <2>2. ~Drawing
    BY <2>1, NoDraw
  <2> QED BY <1>3, <2>1, <2>2
<1>9. CASE RemoveCanvas \/ RemovedByUser \/ CollectionChanging \/ Exit
  BY <1>2, <1>9 DEF RemoveCanvas, RemovedByUser, CollectionChanging, Exit, Begins, libobs
<1>10. CASE ShowEvent \/ HideEvent \/ PaintEvent \/ Unloaded \/ UNCHANGED displayVars
  BY <1>1, <1>10 DEF ShowEvent, HideEvent, PaintEvent, Unloaded, displayVars, libobs, Owner
<1> QED BY <1>4, <1>5, <1>6, <1>7, <1>8, <1>9, <1>10 DEF DisplayNext

LEMMA OrderStep ==
    ASSUME Typed, OneOwner, InOrder, [DisplayNext]_displayVars
    PROVE  InOrder'
<1>1. CASE Call
  <2>1. todo # <<>> /\ todo' = Tail(todo)
    BY <1>1 DEF Call
  <2>2. (Owner = {} => Owner' = {}) /\ (weak = None => weak' = None)
    BY <1>1, CallOwner
  <2>3. /\ (shutdown => shutdown') /\ (Head(todo) = "shutdown" => shutdown')
        /\ Head(todo) # "remove" /\ (Head(todo) = "drop" => weak' = None)
    BY <1>1 DEF Call, StopSessions, DropWeak, Flush, ShutdownPreview, FrontendReleases, OwnedCanvasGone, DockGone, JoinReaper,
                widget
  <2> QED BY <2>1, <2>2, <2>3, OrderTail
<1>2. CASE RemoveCanvas
  <2>1. todo # <<>> /\ Head(todo) = "remove" /\ UNCHANGED <<holders, weak, shutdown>> /\ Owner' = Owner
    BY <1>2 DEF RemoveCanvas, widget, Owner
  <2>2. CASE todo' = Tail(todo) /\ (Owner = {} \/ weak = None)
    BY <2>1, <2>2, OrderTail
  <2>3. CASE todo' = RemovedCalls \o Tail(todo)
    <3> DEFINE s == Tail(todo)
    <3>1. /\ s \in Seq(Calls) /\ Len(s) = Len(todo) - 1 /\ Len(todo) \in Nat /\ DOMAIN todo = 1..Len(todo)
          /\ todo[1] = "remove"
          /\ \A k \in 1..Len(s) : s[k] = todo[k + 1]
      BY <2>1, FirstCall, HeadTailProperties DEF Typed
    <3>2. /\ DOMAIN todo' = 1..(Len(s) + 3)
          /\ todo'[1] = "stop" /\ todo'[2] = "drop" /\ todo'[3] = "flush"
          /\ \A k \in 1..Len(s) : todo'[k + 3] = s[k]
      BY <2>3, <3>1, RemovedFirst
    <3> HIDE DEF s
    <3>3. ASSUME NEW k \in DOMAIN todo'
          PROVE  /\ todo'[k] = "free" => Before(k, {"drop", "remove"})'
                 /\ todo'[k] = "drop" => \/ k + 1 \in DOMAIN todo' /\ todo'[k + 1] = "flush"
                                         \/ shutdown' \/ Before(k, {"shutdown"})'
                 /\ todo'[k] = "owned gone" => shutdown' \/ Before(k, {"shutdown"})'
      <4>1. CASE k = 1 \/ k = 3
        BY <3>2, <4>1
      <4>2. CASE k = 2
        <5>1. k + 1 = 3 /\ 3 \in DOMAIN todo' /\ todo'[k] = "drop"
          BY <3>1, <3>2, <4>2
        <5> QED BY <3>2, <5>1
      <4>3. CASE k > 3
        <5>1. k - 2 \in DOMAIN todo /\ todo'[k] = todo[k - 2]
          <6>1. k - 3 \in 1..Len(s) /\ (k - 3) + 3 = k /\ (k - 3) + 1 = k - 2
            BY <3>1, <3>2, <4>3
          <6> QED BY <3>1, <3>2, <6>1
        <5>2. Before(k, {"drop", "remove"})'
          BY <3>2, <4>3 DEF Before
        <5>3. ASSUME Before(k - 2, {"shutdown"}) PROVE Before(k, {"shutdown"})'
          <6>1. PICK i \in 1..(k - 3) : todo[i] = "shutdown"
            BY <3>1, <3>2, <4>3, <5>3 DEF Before
          <6>2. i # 1
            BY <3>1, <6>1
          <6>3. i - 1 \in 1..Len(s) /\ (i - 1) + 3 = i + 2 /\ (i - 1) + 1 = i /\ i + 2 \in 1..(k - 1)
            BY <3>1, <3>2, <4>3, <6>2
          <6>4. todo'[i + 2] = "shutdown"
            BY <3>1, <3>2, <6>1, <6>3
          <6> QED BY <6>3, <6>4 DEF Before
        <5>4. k - 1 \in DOMAIN todo => k + 1 \in DOMAIN todo' /\ todo'[k + 1] = todo[k - 1]
          <6> SUFFICES ASSUME k - 1 \in DOMAIN todo PROVE k + 1 \in DOMAIN todo' /\ todo'[k + 1] = todo[k - 1]
            OBVIOUS
          <6>1. k - 2 \in 1..Len(s) /\ (k - 2) + 3 = k + 1 /\ (k - 2) + 1 = k - 1 /\ k + 1 \in 1..(Len(s) + 3)
            BY <3>1, <3>2, <4>3
          <6> QED BY <3>1, <3>2, <6>1
        <5>5. (k - 2) + 1 = k - 1
          BY <3>2
        <5>6. /\ todo[k - 2] = "drop" => \/ k - 1 \in DOMAIN todo /\ todo[k - 1] = "flush"
                                         \/ shutdown \/ Before(k - 2, {"shutdown"})
              /\ todo[k - 2] = "owned gone" => shutdown \/ Before(k - 2, {"shutdown"})
          BY <5>1, <5>5 DEF InOrder
        <5> QED BY <2>1, <5>1, <5>2, <5>3, <5>4, <5>6
      <4>4. k = 1 \/ k = 2 \/ k = 3 \/ k > 3
        BY <3>1, <3>2
      <4> QED BY <4>1, <4>2, <4>3, <4>4
    <3> QED BY <3>3 DEF InOrder
  <2>4. Tail(todo) \in Seq(Calls)
    BY <2>1, FirstCall
  <2> QED BY <1>2, <2>2, <2>3, <2>4, RemovedFirst DEF RemoveCanvas, Removed, OneOwner, RemovedCalls
<1>3. CASE RemovedByUser \/ CollectionChanging \/ Exit
  BY <1>3, RemoveInOrder, ChangingInOrder, ExitInOrder
  DEF RemovedByUser, CollectionChanging, Exit, Begins, RemoveCalls, ChangingCalls, ExitCalls
<1>4. CASE GraphicsThread \/ ReaperJob \/ ShowEvent \/ HideEvent \/ PaintEvent \/ Unloaded \/ UNCHANGED displayVars
  <2>1. UNCHANGED <<todo, weak, shutdown>>
    BY <1>4 DEF GraphicsThread, DrawBegins, GetRef, LookedAt, Rendered, ReaperJob, ShowEvent, HideEvent, PaintEvent,
                Unloaded, displayVars, widget
  <2>2. Owner' = Owner
    <3>1. CASE GraphicsThread
      <4>1. \A c : Take(c, Graphics) \/ LetGo(c, Graphics) => Owner' = Owner
        BY OthersHold DEF Graphics, Frontend
      <4> QED BY <3>1, <4>1 DEF GraphicsThread, DrawBegins, GetRef, LookedAt, Rendered, libobs, Owner
    <3>2. CASE ReaperJob
      <4>1. Head(reaper) \in Sessions /\ Head(reaper) # Frontend
        BY <3>2, HolderNames DEF ReaperJob, Typed
      <4> QED BY <3>2, <4>1, OthersHold DEF ReaperJob
    <3>3. CASE ShowEvent \/ HideEvent \/ PaintEvent \/ Unloaded \/ UNCHANGED displayVars
      BY <3>3 DEF ShowEvent, HideEvent, PaintEvent, Unloaded, displayVars, libobs, Owner
    <3> QED BY <1>4, <3>1, <3>2, <3>3
  <2> QED BY <2>1, <2>2, OrderKept
<1>5. CASE (\E c \in Canvases : EnsureCanvas(c)) \/ (\E x \in Sessions : StartSession(x) \/ EndSession(x))
  <2>1. todo' = <<>>
    BY <1>5 DEF EnsureCanvas, StartSession, EndSession
  <2>2. DOMAIN todo' = {}
    BY <2>1
  <2> QED BY <2>2 DEF InOrder
<1> QED BY <1>1, <1>2, <1>3, <1>4, <1>5 DEF DisplayNext

-----------------------------------------------------------------------------
(* The state of the preview, of its canvas and of the calls to come is always consistent: the
   invariant the two results below rest on. *)
THEOREM DrawInvCorrect == DisplaySpec => []DrawInv
<1>1. DisplayInit => DrawInv
  BY InitDraw
<1>2. DrawInv /\ [DisplayNext]_displayVars => DrawInv'
  BY TypedStep, DisplayStep, OwnerStep, DrawsStep, OrderStep DEF DrawInv
<1> QED BY <1>1, <1>2, PTL DEF DisplaySpec

(* Whatever the order of events, a draw in progress always finds the OwnedCanvas it asks and
   the display it draws on: shutdown() and the dock's removal wait for it, and OwnedCanvas goes
   after a shutdown only. *)
THEOREM DrawOwnerCorrect == DisplaySpec => []DrawHasOwner
<1>1. DrawInv => DrawHasOwner
  BY DEF DrawInv, DisplayHeld, DrawHasOwner
<1> QED BY <1>1, DrawInvCorrect, PTL

(* The graphics thread never gives back the last reference to a canvas, which would free it
   inside the draw callback: while it draws one, the frontend holds it as well, and the frontend
   lets go only when no draw is in progress. *)
THEOREM LastReleaseCorrect == DisplaySpec => LastReleaseNotInDraw
<1>1. DrawInv /\ [DisplayNext]_displayVars => \A c \in Canvases : Graphics \in holders[c] => holders'[c] # {}
  <2> SUFFICES ASSUME DrawInv, [DisplayNext]_displayVars, NEW c \in Canvases, Graphics \in holders[c]
               PROVE  holders'[c] # {}
    OBVIOUS
  <2> USE DEF DrawInv
  <2>1. Drawing /\ c = draw.canvas /\ c \in Owner
    BY HolderNames DEF DrawsOwned, Drawing
  <2>2. CASE Owner' = Owner
    BY <2>1, <2>2 DEF Owner
  <2>3. CASE GraphicsThread
    <3>1. \A d : Take(d, Graphics) \/ LetGo(d, Graphics) => Owner' = Owner
      BY OthersHold DEF Graphics, Frontend
    <3> QED BY <2>2, <2>3, <3>1 DEF GraphicsThread, DrawBegins, GetRef, LookedAt, Rendered, libobs, Owner
  <2>4. CASE Call
    <3>1. Graphics \in holders'[c]
      BY <2>4, CallOwner
    <3> QED BY <3>1
  <2>5. CASE ReaperJob
    <3>1. Head(reaper) \in Sessions /\ Head(reaper) # Frontend
      BY <2>5, HolderNames DEF ReaperJob, Typed
    <3> QED BY <2>2, <2>5, <3>1, OthersHold DEF ReaperJob
  <2>6. ASSUME NEW x \in Sessions, StartSession(x) \/ EndSession(x) PROVE holders'[c] # {}
    <3>1. x # Frontend
      BY HolderNames
    <3> QED BY <2>2, <2>6, <3>1, OthersHold DEF StartSession, EndSession, libobs, Owner
  <2>7. CASE \E d \in Canvases : EnsureCanvas(d)
    BY <2>1, <2>7 DEF EnsureCanvas
  <2>8. CASE RemoveCanvas \/ RemovedByUser \/ CollectionChanging \/ Exit \/ ShowEvent \/ HideEvent \/ PaintEvent
             \/ Unloaded \/ UNCHANGED displayVars
    BY <2>2, <2>8 DEF RemoveCanvas, RemovedByUser, CollectionChanging, Exit, Begins, ShowEvent, HideEvent, PaintEvent,
                      Unloaded, displayVars, libobs, Owner
  <2> QED BY <2>3, <2>4, <2>5, <2>6, <2>7, <2>8 DEF DisplayNext
<1>2. DrawInv /\ [DisplayNext]_displayVars => [\A c \in Canvases : Graphics \in holders[c] => holders'[c] # {}]_displayVars
  BY <1>1
<1> QED BY <1>2, DrawInvCorrect, PTL DEF DisplaySpec, LastReleaseNotInDraw
==================================================================================
