------------------------- MODULE VerticalOutput_proofs -------------------------
(***************************************************************************)
(* The vertical recorder and the vertical replay buffer, for any number of *)
(* output objects, starts and presses: every reference to the canvas and   *)
(* every output has one holder, a session ends by its own output's stop    *)
(* only, and runs only while somebody wants it.                            *)
(***************************************************************************)
EXTENDS VerticalOutput, FiniteSetTheorems, SequenceTheorems, TLAPS

(* An output that exists is held by the session, by the running job or by one
   job of the queue.  For a queue q, the running job r, the session's output out
   and the phases ph, which a step changes together. *)
Runs(r, o) == r # NoJob /\ r.output = o

HeldOnce(q, r, out) ==
    /\ \A i, j \in DOMAIN q : q[i].output # None /\ q[i].output = q[j].output => i = j
    /\ r # NoJob /\ r.output # None => \A i \in DOMAIN q : q[i].output # r.output
    /\ out # None => ~Runs(r, out) /\ \A i \in DOMAIN q : q[i].output # out

Holders(q, r, out, ph) ==
    /\ \A o \in Outputs : ph[o] # "absent" =>
          out = o \/ Runs(r, o) \/ \E i \in DOMAIN q : q[i].output = o
    /\ out # None => ph[out] # "absent"

(* What a job has exists; it has never run when it is the dead session of an
   attempt, and does not run when it is reaped without force. *)
JobFits(j, ph) ==
    j.output # None =>
       /\ ph[j.output] # "absent"
       /\ ~j.canvas => ph[j.output] = "idle"
       /\ ~j.force => ph[j.output] # "active"

Held(q, r, out, ph) ==
    /\ HeldOnce(q, r, out) /\ Holders(q, r, out, ph)
    /\ r # NoJob => JobFits(r, ph)
    /\ \A i \in DOMAIN q : JobFits(q[i], ph)

HeldNow == Held(queue, running, output, phase)

(* Who has the references to the canvas. *)
QueueRefs == Cardinality(QueuedRefs)
JobRefs == OneIf(Working /\ running.canvas)
SessionRefs == OneIf(state # "Idle")
StartRefs == OneIf(attempt.going)

References == canvasRefs = QueueRefs + JobRefs + SessionRefs + StartRefs

Session ==
    /\ state = "Idle" <=> output = None
    /\ connected \subseteq {output}
    /\ attempt.going => state = "Idle"

(* What a posted finish() may find, and a posted restart. *)
OfSession(p) == p.do = "finish" /\ p.session = sessionId /\ state # "Idle"

Posts ==
    /\ \A i \in DOMAIN posted : posted[i].do = "finish" => posted[i].session <= sessionId
    /\ \A i \in DOMAIN posted : OfSession(posted[i]) => phase[output] # "active"
    /\ \A i, j \in DOMAIN posted : OfSession(posted[i]) /\ i < j => posted[j].do # "restart"
    /\ \A i \in DOMAIN posted : posted[i].do = "restart" /\ restart # "no" => posted[i].withMain = (restart = "main")

(* What runs, or is to be started again, is what somebody wants. *)
Wished ==
    /\ state = "Running" => wish # "nobody" /\ startedWithMain = (wish = "main")
    /\ state = "Idle" /\ restart # "no" => wish # "nobody" /\ (restart = "main") = (wish = "main")
    /\ attempt.going /\ attempt.restart => restart = "no" /\ wish # "nobody" /\ attempt.withMain = (wish = "main")

Unloading ==
    /\ module # "up" => state = "Idle" /\ ~attempt.going
    /\ shuttingDown <=> module \in {"draining", "unloaded"}
    /\ exited => shuttingDown /\ queue = <<>> /\ ~Working
    /\ module = "unloaded" => exited

(* A press that is pending is the last one. *)
Presses ==
    /\ pending \in {0, presses}
    /\ \A o \in Outputs : /\ want[o] # None => want[o] <= presses
                          /\ writing[o] # None => writing[o] <= presses

OutputInv ==
    /\ TypeOK /\ HeldNow /\ References
    /\ Session /\ Posts /\ Wished /\ Unloading /\ Presses

USE DEF worldVars, memberVars, sessionVars, settingVars, outputVars, clipVars, remuxVars, reaperVars

-----------------------------------------------------------------------------
(* The types.                                                              *)

LEMMA JobTyped ==
    ASSUME NEW o \in Outputs \cup {None}, NEW c \in BOOLEAN, NEW f \in BOOLEAN
    PROVE  /\ Job(o, c, f) \in JobType /\ Job(o, c, f) # NoJob
           /\ Job(o, c, f).output = o /\ Job(o, c, f).canvas = c /\ Job(o, c, f).force = f
BY NoJobAssumption DEF Job, JobType

LEMMA AppendTyped == ASSUME NEW S, NEW s \in Seq(S), NEW x \in S PROVE Append(s, x) \in Seq(S)
OBVIOUS

LEMMA TailTyped == ASSUME NEW S, NEW s \in Seq(S), s # <<>> PROVE Tail(s) \in Seq(S) /\ Head(s) \in S
BY HeadTailProperties

LEMMA FinishTyped ==
    ASSUME NEW n \in Nat, NEW c \in Code
    PROVE  [do |-> "finish", session |-> n, code |-> c] \in Post
BY DEF Post

LEMMA RestartTyped == ASSUME NEW w \in BOOLEAN PROVE [do |-> "restart", withMain |-> w] \in Post
BY DEF Post

LEMMA InitTyped == Init => TypeOK
<1> SUFFICES ASSUME Init PROVE TypeOK
  OBVIOUS
<1>1. attempt \in [encoder : Encoder, withMain : BOOLEAN, restart : BOOLEAN, going : BOOLEAN]
  BY DEF Init, NoAttempt, Encoder
<1>2. startedWithMain = FALSE /\ remuxOnStop = FALSE /\ runtimeRestarted = FALSE
  BY DEF Init
<1>3. queue = <<>> /\ running = NoJob /\ shuttingDown = FALSE /\ exited = FALSE
  BY DEF Init, ReaperInit
<1>4. startedWithMain \in BOOLEAN /\ remuxOnStop \in BOOLEAN /\ runtimeRestarted \in BOOLEAN
      /\ shuttingDown \in BOOLEAN /\ exited \in BOOLEAN
  BY <1>2, <1>3, Zenon
<1>5. queue \in Seq(JobType) /\ posted \in Seq(Post) /\ running \in JobType \cup {NoJob}
  BY <1>3, EmptySeq DEF Init
<1>6. /\ product \in {"recording", "replay"} /\ module = "up" /\ main = "off"
      /\ state = "Idle" /\ output = None /\ sessionId = 0 /\ encoder = "x264" /\ restart = "no"
      /\ canvasRefs = 0 /\ phase = [o \in Outputs |-> "absent"] /\ asked = {} /\ connected = {}
      /\ pending = 0 /\ presses = 0 /\ want = [o \in Outputs |-> None]
      /\ writing = [o \in Outputs |-> None] /\ remuxQueue = 0 /\ remux = "none"
      /\ starts = 0 /\ wish = "nobody"
  BY DEF Init
<1> QED BY <1>1, <1>4, <1>5, <1>6 DEF TypeOK, Encoder

(* The session and its settings, and what a step leaves of them. *)
MembersTyped ==
    /\ state' \in {"Idle", "Running", "Stopping"} /\ output' \in Outputs \cup {None}
    /\ sessionId' \in Nat /\ startedWithMain' \in BOOLEAN /\ remuxOnStop' \in BOOLEAN
    /\ encoder' \in Encoder /\ runtimeRestarted' \in BOOLEAN /\ restart' \in {"no", "hand", "main"}

ReaperTyped ==
    /\ queue' \in Seq(JobType) /\ running' \in JobType \cup {NoJob}
    /\ shuttingDown' \in BOOLEAN /\ exited' \in BOOLEAN

RestTyped ==
    /\ attempt' \in [encoder : Encoder, withMain : BOOLEAN, restart : BOOLEAN, going : BOOLEAN]
    /\ canvasRefs' \in Nat /\ posted' \in Seq(Post) /\ wish' \in {"nobody", "hand", "main"}

LEMMA DetachTyped ==
    ASSUME TypeOK, NEW force \in BOOLEAN, Detach(force)
    PROVE  /\ ReaperTyped /\ pending' \in Nat /\ connected' \subseteq Outputs
           /\ state' = "Idle" /\ output' = None /\ sessionId' = sessionId + 1 /\ sessionId' \in Nat
           /\ startedWithMain' = FALSE /\ remuxOnStop' = FALSE /\ encoder' \in Encoder /\ runtimeRestarted' = FALSE
<1>1. Job(output, TRUE, force) \in JobType
  BY JobTyped DEF TypeOK
<1>2. queue' \in Seq(JobType)
  BY <1>1, AppendTyped DEF Detach, Enqueued, TypeOK
<1>3. /\ running' = running /\ shuttingDown' = shuttingDown /\ exited' = exited
      /\ connected' \subseteq connected /\ pending' = 0 /\ sessionId' = sessionId + 1
      /\ state' = "Idle" /\ output' = None /\ encoder' = "x264"
  BY DEF Detach, Enqueued
<1>4. startedWithMain' = FALSE /\ remuxOnStop' = FALSE /\ runtimeRestarted' = FALSE
  BY DEF Detach
<1>5. ReaperTyped
  BY <1>2, <1>3 DEF TypeOK, ReaperTyped
<1> QED BY <1>3, <1>4, <1>5 DEF TypeOK, Encoder

LEMMA RemuxTyped ==
    ASSUME TypeOK, NEW wanted, QueueRemux(wanted)
    PROVE  remuxQueue' \in Nat /\ remux' \in {"none", "waiting", "working", "done"}
BY DEF QueueRemux, TypeOK

LEMMA SessionFinishTyped ==
    ASSUME TypeOK, NEW s, NEW code, NEW then \in Seq(Post), FinishSession(s, code, then)
    PROVE  /\ MembersTyped /\ ReaperTyped /\ pending' \in Nat /\ connected' \subseteq Outputs
           /\ posted' \in Seq(Post) /\ wish' \in {"nobody", "hand", "main"}
           /\ remuxQueue' \in Nat /\ remux' \in {"none", "waiting", "working", "done"}
<1>1. /\ ReaperTyped /\ pending' \in Nat /\ connected' \subseteq Outputs
      /\ state' = "Idle" /\ output' = None /\ sessionId' \in Nat
      /\ startedWithMain' = FALSE /\ remuxOnStop' = FALSE /\ encoder' \in Encoder /\ runtimeRestarted' = FALSE
  <2>1. Detach(FALSE)
    BY DEF FinishSession
  <2> QED BY <2>1, DetachTyped
<1>2. Append(then, [do |-> "restart", withMain |-> startedWithMain]) \in Seq(Post)
  <2>1. [do |-> "restart", withMain |-> startedWithMain] \in Post
    BY RestartTyped DEF TypeOK
  <2> QED BY <2>1, AppendTyped
<1>3. posted' \in Seq(Post) /\ restart' \in {"no", "hand", "main"} /\ wish' \in {"nobody", "hand", "main"}
  BY <1>2 DEF FinishSession, TypeOK
<1>4. remuxQueue' \in Nat /\ remux' \in {"none", "waiting", "working", "done"}
  BY RemuxTyped DEF FinishSession
<1> QED BY <1>1, <1>3, <1>4 DEF MembersTyped

LEMMA BeginTyped ==
    ASSUME TypeOK, NEW w \in BOOLEAN, NEW e \in Encoder, NEW again \in BOOLEAN, BeginStart(w, e, again)
    PROVE  /\ ReaperTyped /\ canvasRefs' \in Nat /\ starts' \in Nat /\ wish' \in {"nobody", "hand", "main"}
           /\ attempt' \in [encoder : Encoder, withMain : BOOLEAN, restart : BOOLEAN, going : BOOLEAN]
<1>1. Append(queue, Job(None, TRUE, FALSE)) \in Seq(JobType)
  <2>1. Job(None, TRUE, FALSE) \in JobType
    BY JobTyped
  <2> QED BY <2>1, AppendTyped DEF TypeOK
<1>2. [encoder |-> e, withMain |-> w, restart |-> again, going |-> TRUE]
        \in [encoder : Encoder, withMain : BOOLEAN, restart : BOOLEAN, going : BOOLEAN]
  OBVIOUS
<1>3. wish' \in {wish, "nobody"}
  BY DEF BeginStart
<1>4. CASE UNCHANGED <<attempt, canvasRefs, starts, reaperVars>>
  BY <1>3, <1>4 DEF TypeOK, ReaperTyped
<1>5. CASE starts' = starts + 1 /\ canvasRefs' = canvasRefs + 1 /\ Enqueued(Job(None, TRUE, FALSE)) /\ UNCHANGED attempt
  <2>1. queue' \in Seq(JobType) /\ UNCHANGED <<running, shuttingDown, exited>>
    BY <1>1, <1>5 DEF Enqueued
  <2>2. ReaperTyped
    BY <2>1 DEF TypeOK, ReaperTyped
  <2> QED BY <1>3, <1>5, <2>2 DEF TypeOK
<1>6. CASE /\ starts' = starts + 1 /\ canvasRefs' = canvasRefs + 1 /\ UNCHANGED reaperVars
           /\ attempt' = [encoder |-> e, withMain |-> w, restart |-> again, going |-> TRUE]
  BY <1>2, <1>3, <1>6 DEF TypeOK, ReaperTyped
<1> QED BY <1>4, <1>5, <1>6 DEF BeginStart

LEMMA StopNowTyped ==
    ASSUME TypeOK, StopNow
    PROVE  /\ MembersTyped /\ ReaperTyped /\ pending' \in Nat /\ connected' \subseteq Outputs
           /\ wish' \in {"nobody", "hand", "main"}
<1>1. CASE state = "Idle"
  BY <1>1 DEF StopNow, TypeOK, MembersTyped, ReaperTyped
<1>2. CASE state # "Idle"
  <2>1. Detach(TRUE) /\ restart' = "no" /\ wish' = "nobody"
    BY <1>2 DEF StopNow
  <2> QED BY <2>1, DetachTyped DEF MembersTyped
<1> QED BY <1>1, <1>2

LEMMA StopTyped ==
    ASSUME TypeOK, Stop
    PROVE  /\ MembersTyped /\ ReaperTyped /\ pending' \in Nat /\ connected' \subseteq Outputs
           /\ posted' \in Seq(Post) /\ wish' \in {"nobody", "hand", "main"} /\ asked' \subseteq Outputs
           /\ remuxQueue' \in Nat /\ remux' \in {"none", "waiting", "working", "done"}
           /\ UNCHANGED <<canvasRefs, phase, want, writing, presses>>
<1>1. CASE Active(output)
  BY <1>1 DEF Stop, TypeOK, MembersTyped, ReaperTyped
<1>2. CASE ~Active(output)
  <2>1. FinishSession("Stopping", "success", posted)
    BY <1>2 DEF Stop
  <2>2. posted \in Seq(Post) /\ asked \subseteq Outputs
    BY DEF TypeOK
  <2>3. asked' = asked /\ UNCHANGED <<canvasRefs, phase, want, writing, presses>>
    BY <2>1 DEF FinishSession
  <2> QED BY <2>1, <2>2, <2>3, SessionFinishTyped
<1> QED BY <1>1, <1>2

LEMMA FailTyped ==
    ASSUME TypeOK, NEW o \in Outputs \cup {None}, AttemptFails(o)
    PROVE  /\ ReaperTyped /\ wish' \in {"nobody", "hand", "main"}
           /\ attempt' \in [encoder : Encoder, withMain : BOOLEAN, restart : BOOLEAN, going : BOOLEAN]
<1> DEFINE last == ~HasFallback(attempt.encoder)
           final == IF last THEN <<Job(None, TRUE, FALSE)>> ELSE <<>>
<1>1. DeadSession(o) \in Seq(JobType) /\ final \in Seq(JobType)
  <2>1. Job(o, FALSE, FALSE) \in JobType /\ Job(None, TRUE, FALSE) \in JobType
    BY JobTyped
  <2>2. \A j \in JobType : <<j>> \in Seq(JobType)
    OBVIOUS
  <2>3. <<Job(o, FALSE, FALSE)>> \in Seq(JobType) /\ <<Job(None, TRUE, FALSE)>> \in Seq(JobType)
    BY <2>1, <2>2
  <2> QED BY <2>3, EmptySeq DEF DeadSession
<1>2. /\ queue' = queue \o DeadSession(o) \o final /\ UNCHANGED <<running, shuttingDown, exited>>
      /\ attempt' = IF last THEN NoAttempt ELSE [attempt EXCEPT !.encoder = "x264"]
      /\ wish' \in {wish, "nobody"}
  BY DEF AttemptFails
<1> HIDE DEF final, last
<1>3. queue \in Seq(JobType)
  BY DEF TypeOK
<1>4. queue' \in Seq(JobType)
  BY <1>1, <1>2, <1>3, ConcatProperties
<1>5. NoAttempt \in [encoder : Encoder, withMain : BOOLEAN, restart : BOOLEAN, going : BOOLEAN]
  BY DEF NoAttempt, Encoder
<1>6. [attempt EXCEPT !.encoder = "x264"] \in [encoder : Encoder, withMain : BOOLEAN, restart : BOOLEAN, going : BOOLEAN]
  BY DEF TypeOK, Encoder
<1> QED BY <1>2, <1>4, <1>5, <1>6 DEF TypeOK, ReaperTyped


Counted == Working /\ running.canvas => canvasRefs > 0

LEMMA NextTyped == TypeOK /\ Counted /\ [Next]_vars => TypeOK'
<1> SUFFICES ASSUME TypeOK, Counted, [Next]_vars PROVE TypeOK'
  OBVIOUS
<1>1. CASE ToggleOn
  <2>1. FALSE \in BOOLEAN /\ Chosen \in Encoder
    BY DEF Chosen, Encoder
  <2>2. BeginStart(FALSE, Chosen, FALSE)
    BY <1>1 DEF ToggleOn
  <2>3. /\ ReaperTyped /\ canvasRefs' \in Nat /\ starts' \in Nat /\ wish' \in {"nobody", "hand", "main"}
        /\ attempt' \in [encoder : Encoder, withMain : BOOLEAN, restart : BOOLEAN, going : BOOLEAN]
    BY <2>1, <2>2, BeginTyped
  <2> QED BY <1>1, <2>3 DEF ToggleOn, TypeOK, ReaperTyped
<1>2. CASE ToggleOff
  BY <1>2, StopTyped DEF ToggleOff, TypeOK, MembersTyped, ReaperTyped
<1>3. CASE MainStarts
  <2>1. TRUE \in BOOLEAN /\ FALSE \in BOOLEAN /\ Chosen \in Encoder
    BY DEF Chosen, Encoder
  <2>2. BeginStart(TRUE, Chosen, FALSE) \/ UNCHANGED <<attempt, canvasRefs, starts, wish, reaperVars>>
    BY <1>3 DEF MainStarts
  <2>3. /\ ReaperTyped /\ canvasRefs' \in Nat /\ starts' \in Nat /\ wish' \in {"nobody", "hand", "main"}
        /\ attempt' \in [encoder : Encoder, withMain : BOOLEAN, restart : BOOLEAN, going : BOOLEAN]
    <3>1. CASE BeginStart(TRUE, Chosen, FALSE)
      BY <2>1, <3>1, BeginTyped
    <3>2. CASE UNCHANGED <<attempt, canvasRefs, starts, wish, reaperVars>>
      BY <3>2 DEF TypeOK, ReaperTyped
    <3> QED BY <2>2, <3>1, <3>2
  <2> QED BY <1>3, <2>3 DEF MainStarts, TypeOK, ReaperTyped
<1>4. CASE MainStopping
  <2>1. /\ main' = "off" /\ UNCHANGED <<product, module, attempt, starts>>
        /\ \/ Stop
           \/ /\ restart' \in {"no", restart} /\ wish' \in {"nobody", wish}
              /\ UNCHANGED <<sessionVars, posted, canvasRefs, outputVars, clipVars, remuxVars, reaperVars>>
    BY <1>4 DEF MainStopping
  <2>2. CASE Stop
    BY <2>1, <2>2, StopTyped DEF TypeOK, MembersTyped, ReaperTyped
  <2>3. CASE ~Stop
    BY <2>1, <2>3 DEF TypeOK
  <2> QED BY <2>2, <2>3
<1>5. CASE ForcedStop
  BY <1>5, StopNowTyped DEF ForcedStop, TypeOK, MembersTyped, ReaperTyped
<1>6. CASE Save
  <2>1. /\ presses' = presses + 1 /\ pending' = presses + 1 /\ presses \in Nat /\ output \in Outputs
        /\ want' = [want EXCEPT ![output] = presses + 1] \/ want' = want
    BY <1>6 DEF Save, Named, Active, TypeOK
  <2>2. want' \in [Outputs -> Nat \cup {None}]
    BY <2>1 DEF TypeOK
  <2> QED BY <1>6, <2>1, <2>2 DEF Save, TypeOK
<1>7. CASE Unload
  BY <1>7, StopNowTyped DEF Unload, TypeOK, MembersTyped, ReaperTyped
<1>8. CASE MainEnds
  BY <1>8 DEF MainEnds, TypeOK
<1>9. CASE TryStartFails
  <2>1. PICK o \in Outputs \cup {None} :
          AttemptFails(o) /\ (UNCHANGED phase \/ (o # None /\ phase' = [phase EXCEPT ![o] = "idle"]))
    <3>1. Absent # {} => NewOutput \in Outputs
      BY DEF NewOutput, Absent
    <3> QED BY <1>9, <3>1, VerticalConstants DEF TryStartFails
  <2>2. phase' \in [Outputs -> {"absent", "idle", "active", "closing"}]
    BY <2>1 DEF TypeOK
  <2>3. /\ ReaperTyped /\ wish' \in {"nobody", "hand", "main"}
        /\ attempt' \in [encoder : Encoder, withMain : BOOLEAN, restart : BOOLEAN, going : BOOLEAN]
    BY <2>1, FailTyped
  <2> QED BY <1>9, <2>2, <2>3 DEF TryStartFails, TypeOK, ReaperTyped
<1>10. CASE TryStartSucceeds
  <2>1. NewOutput \in Outputs
    BY <1>10 DEF TryStartSucceeds, NewOutput, Absent
  <2>2. attempt' \in [encoder : Encoder, withMain : BOOLEAN, restart : BOOLEAN, going : BOOLEAN]
    BY <1>10 DEF TryStartSucceeds, NoAttempt, Encoder
  <2>3. encoder' = attempt.encoder /\ attempt.encoder \in Encoder /\ sessionId' = sessionId + 1 /\ sessionId' \in Nat
    BY <1>10 DEF TryStartSucceeds, TypeOK
  <2>4. startedWithMain' \in BOOLEAN
    BY <1>10, Zenon DEF TryStartSucceeds, TypeOK
  <2>5. runtimeRestarted' \in BOOLEAN
    BY <1>10, Zenon DEF TryStartSucceeds, TypeOK
  <2>6. remuxOnStop' \in BOOLEAN
    BY <1>10 DEF TryStartSucceeds
  <2>7. /\ phase' \in [Outputs -> {"absent", "idle", "active", "closing"}]
        /\ connected' \subseteq Outputs /\ output' \in Outputs
        /\ state' = "Running" /\ pending' = 0 /\ wish' \in {"nobody", "hand", "main"}
    BY <1>10, <2>1 DEF TryStartSucceeds, TypeOK
  <2> QED BY <1>10, <2>2, <2>3, <2>4, <2>5, <2>6, <2>7 DEF TryStartSucceeds, TypeOK
<1>11. CASE FinishPosted
  <2>1. Tail(posted) \in Seq(Post)
    BY <1>11, TailTyped DEF FinishPosted, TypeOK
  <2>2. CASE FinishSession(state, Head(posted).code, Tail(posted))
    <3>1. /\ MembersTyped /\ ReaperTyped /\ pending' \in Nat /\ connected' \subseteq Outputs
          /\ posted' \in Seq(Post) /\ wish' \in {"nobody", "hand", "main"}
          /\ remuxQueue' \in Nat /\ remux' \in {"none", "waiting", "working", "done"}
      BY <2>1, <2>2, SessionFinishTyped
    <3>2. UNCHANGED <<worldVars, attempt, starts, canvasRefs, phase, asked, want, writing, presses>>
      BY <1>11, <2>2 DEF FinishPosted, FinishSession
    <3> QED BY <3>1, <3>2 DEF TypeOK, MembersTyped, ReaperTyped
  <2>3. CASE ~FinishSession(state, Head(posted).code, Tail(posted))
    <3>1. /\ posted' = Tail(posted)
          /\ UNCHANGED <<memberVars, canvasRefs, outputVars, clipVars, remuxVars, wish, reaperVars>>
          /\ UNCHANGED <<worldVars, attempt, starts>>
      BY <1>11, <2>3 DEF FinishPosted
    <3> QED BY <2>1, <3>1 DEF TypeOK
  <2> QED BY <2>2, <2>3
<1>12. CASE RestartPosted
  <2>1. Tail(posted) \in Seq(Post) /\ Head(posted) \in Post /\ Head(posted).do = "restart"
    BY <1>12, TailTyped DEF RestartPosted, TypeOK
  <2>2. Head(posted).withMain \in BOOLEAN /\ TRUE \in BOOLEAN /\ "x264" \in Encoder
    BY <2>1 DEF Post, Encoder
  <2>3. /\ ReaperTyped /\ canvasRefs' \in Nat /\ starts' \in Nat /\ wish' \in {"nobody", "hand", "main"}
        /\ attempt' \in [encoder : Encoder, withMain : BOOLEAN, restart : BOOLEAN, going : BOOLEAN]
    <3>1. CASE BeginStart(Head(posted).withMain, "x264", TRUE)
      BY <2>2, <3>1, BeginTyped
    <3>2. CASE ~BeginStart(Head(posted).withMain, "x264", TRUE)
      <4>1. wish' \in {"nobody", wish} /\ UNCHANGED <<attempt, canvasRefs, starts, reaperVars>>
        BY <1>12, <3>2 DEF RestartPosted
      <4> QED BY <4>1 DEF TypeOK, ReaperTyped
    <3> QED BY <3>1, <3>2
  <2> QED BY <1>12, <2>1, <2>3 DEF RestartPosted, TypeOK, ReaperTyped
<1>13. CASE JoinRemux
  <2>1. shuttingDown' = TRUE /\ UNCHANGED <<queue, running, exited>>
    BY <1>13 DEF JoinRemux, RequestShutdown
  <2>2. shuttingDown' \in BOOLEAN
    BY <2>1, Zenon
  <2> QED BY <1>13, <2>1, <2>2, EmptySeq DEF JoinRemux, TypeOK
<1>14. CASE JoinReaper
  BY <1>14 DEF JoinReaper, TypeOK
<1>15. CASE TakeJob
  <2>1. /\ queue' = Tail(queue) /\ running' = Head(queue) /\ queue # <<>>
        /\ UNCHANGED <<shuttingDown, exited>>
    BY <1>15 DEF TakeJob, Take
  <2>2. queue' \in Seq(JobType) /\ running' \in JobType
    BY <2>1, TailTyped DEF TypeOK
  <2> QED BY <1>15, <2>1, <2>2 DEF TakeJob, OnlyReaper, TypeOK
<1>16. CASE StopOutput
  BY <1>16 DEF StopOutput, OnlyReaper, TypeOK, JobType, Working
<1>17. CASE Release
  <2>1. running \in JobType /\ running' = NoJob /\ UNCHANGED <<queue, shuttingDown, exited>>
    BY <1>17 DEF Release, Working, Finish, TypeOK
  <2>2. canvasRefs' \in Nat
    BY <1>17 DEF Release, Counted, TypeOK
  <2>3. phase' \in [Outputs -> {"absent", "idle", "active", "closing"}]
    BY <1>17 DEF Release, TypeOK
  <2> QED BY <1>17, <2>1, <2>2, <2>3 DEF Release, OnlyReaper, TypeOK
<1>18. CASE ExitWorker
  <2>1. exited' = TRUE /\ UNCHANGED <<queue, running, shuttingDown>>
    BY <1>18 DEF ExitWorker, Exit
  <2>2. exited' \in BOOLEAN
    BY <2>1, Zenon
  <2> QED BY <1>18, <2>1, <2>2 DEF ExitWorker, OnlyReaper, TypeOK
<1>19. ASSUME NEW o \in Outputs, OutputStops(o) PROVE TypeOK'
  <2>1. posted' \in Seq(Post)
    <3>1. \A code \in Codes : [do |-> "finish", session |-> sessionId, code |-> code] \in Post
      BY FinishTyped DEF TypeOK, Codes
    <3>2. posted \in Seq(Post)
      BY DEF TypeOK
    <3>3. posted' = posted \/ \E code \in Codes :
              posted' = Append(posted, [do |-> "finish", session |-> sessionId, code |-> code])
      BY <1>19 DEF OutputStops
    <3> QED BY <3>1, <3>2, <3>3, AppendTyped
  <2> QED BY <1>19, <2>1 DEF OutputStops, OnlyOutput, TypeOK
<1>20. ASSUME NEW o \in Outputs, OutputEnds(o) PROVE TypeOK'
  BY <1>20 DEF OutputEnds, OnlyOutput, TypeOK
<1>21. ASSUME NEW o \in Outputs, ClipBegins(o) PROVE TypeOK'
  BY <1>21 DEF ClipBegins, OnlyOutput, TypeOK
<1>22. ASSUME NEW o \in Outputs, ClipEnds(o) PROVE TypeOK'
  BY <1>22 DEF ClipEnds, OnlyOutput, TypeOK
<1>23. CASE RemuxTake
  BY <1>23 DEF RemuxTake, OnlyRemux, TypeOK
<1>24. CASE RemuxAborts
  BY <1>24 DEF RemuxAborts, OnlyRemux, TypeOK
<1>25. CASE RemuxEnds
  BY <1>25 DEF RemuxEnds, OnlyRemux, TypeOK
<1>26. CASE UNCHANGED vars
  BY <1>26 DEF vars, TypeOK
<1> QED BY <1>1, <1>2, <1>3, <1>4, <1>5, <1>6, <1>7, <1>8, <1>9, <1>10, <1>11, <1>12, <1>13, <1>14,
           <1>15, <1>16, <1>17, <1>18, <1>19, <1>20, <1>21, <1>22, <1>23, <1>24, <1>25, <1>26
        DEF Next, UIEvent, UIWork, Worker, OutputThread


-----------------------------------------------------------------------------
(* The holders of the outputs.                                             *)

Phases == [Outputs -> {"absent", "idle", "active", "closing"}]

LEMMA AppendAt ==
    ASSUME NEW S, NEW q \in Seq(S), NEW x
    PROVE  /\ DOMAIN Append(q, x) = DOMAIN q \cup {Len(q) + 1} /\ Len(q) + 1 \notin DOMAIN q
           /\ \A i \in DOMAIN q : Append(q, x)[i] = q[i]
           /\ Append(q, x)[Len(q) + 1] = x
OBVIOUS

LEMMA TailAt ==
    ASSUME NEW S, NEW q \in Seq(S), q # <<>>
    PROVE  /\ 1 \in DOMAIN q /\ Head(q) = q[1] /\ DOMAIN q \subseteq Nat
           /\ \A i \in DOMAIN Tail(q) : i \in Nat /\ i + 1 \in DOMAIN q /\ i + 1 # 1 /\ Tail(q)[i] = q[i + 1]
           /\ \A i \in DOMAIN q : i # 1 => i - 1 \in DOMAIN Tail(q) /\ Tail(q)[i - 1] = q[i]
<1>1. Len(q) \in Nat /\ Len(q) # 0 /\ DOMAIN q = 1..Len(q)
  BY EmptySeq
<1>2. Len(Tail(q)) = Len(q) - 1 /\ DOMAIN Tail(q) = 1..(Len(q) - 1)
      /\ \A i \in 1..(Len(q) - 1) : Tail(q)[i] = q[i + 1]
  BY <1>1, HeadTailProperties
<1>3. Head(q) = q[1]
  OBVIOUS
<1>4. \A i \in DOMAIN q : i # 1 => i - 1 \in 1..(Len(q) - 1) /\ (i - 1) + 1 = i
  BY <1>1
<1>5. \A i \in 1..(Len(q) - 1) : i \in Nat /\ i + 1 \in 1..Len(q) /\ i + 1 # 1
  BY <1>1
<1>6. 1 \in DOMAIN q /\ DOMAIN q \subseteq Nat
  BY <1>1
<1>7. ASSUME NEW i \in DOMAIN Tail(q)
      PROVE  i \in Nat /\ i + 1 \in DOMAIN q /\ i + 1 # 1 /\ Tail(q)[i] = q[i + 1]
  BY <1>1, <1>2, <1>5, <1>7
<1>8. ASSUME NEW i \in DOMAIN q, i # 1
      PROVE  i - 1 \in DOMAIN Tail(q) /\ Tail(q)[i - 1] = q[i]
  BY <1>1, <1>2, <1>4, <1>8
<1> QED BY <1>3, <1>6, <1>7, <1>8

LEMMA JobsTyped ==
    ASSUME NEW q \in Seq(JobType)
    PROVE  \A i \in DOMAIN q : q[i] \in JobType /\ q[i].output \in Outputs \cup {None}
<1>1. \A i \in DOMAIN q : q[i] \in JobType
  OBVIOUS
<1> QED BY <1>1 DEF JobType

(* A job without an output. *)
LEMMA HeldCanvas ==
    ASSUME NEW q \in Seq(JobType), NEW r, NEW out, NEW ph, NEW x, x.output = None, Held(q, r, out, ph)
    PROVE  Held(Append(q, x), r, out, ph)
<1> DEFINE p == Append(q, x)
<1>1. /\ DOMAIN p = DOMAIN q \cup {Len(q) + 1} /\ \A i \in DOMAIN q : p[i] = q[i]
      /\ p[Len(q) + 1] = x
  BY AppendAt
<1> HIDE DEF p
<1>2. HeldOnce(p, r, out)
  BY <1>1 DEF Held, HeldOnce
<1>3. Holders(p, r, out, ph)
  BY <1>1 DEF Held, Holders
<1>4. \A i \in DOMAIN p : JobFits(p[i], ph)
  BY <1>1 DEF Held, JobFits
<1> QED BY <1>2, <1>3, <1>4 DEF Held, p

(* The session's output goes to a job. *)
LEMMA HeldDetached ==
    ASSUME NEW q \in Seq(JobType), NEW r, NEW out \in Outputs, NEW ph, NEW x, x.output = out, x.canvas = TRUE,
           Held(q, r, out, ph), x.force \/ ph[out] # "active"
    PROVE  Held(Append(q, x), r, None, ph)
<1> DEFINE p == Append(q, x)
<1>1. /\ DOMAIN p = DOMAIN q \cup {Len(q) + 1} /\ \A i \in DOMAIN q : p[i] = q[i]
      /\ p[Len(q) + 1] = x
  BY AppendAt
<1> HIDE DEF p
<1>0. out # None
  BY VerticalConstants
<1>2. HeldOnce(p, r, None)
  BY <1>0, <1>1 DEF Held, HeldOnce, Runs
<1>3. Holders(p, r, None, ph)
  BY <1>0, <1>1 DEF Held, Holders
<1>4. \A i \in DOMAIN p : JobFits(p[i], ph)
  BY <1>0, <1>1 DEF Held, JobFits, Holders
<1> QED BY <1>2, <1>3, <1>4 DEF Held, p

(* The output of a failed attempt, new in its job. *)
LEMMA HeldDead ==
    ASSUME NEW q \in Seq(JobType), NEW r \in JobType \cup {NoJob}, NEW out \in Outputs \cup {None},
           NEW ph \in Phases, NEW o \in Outputs, ph[o] = "absent", NEW x, x.output = o, Held(q, r, out, ph)
    PROVE  Held(Append(q, x), r, out, [ph EXCEPT ![o] = "idle"])
<1> DEFINE p == Append(q, x)
           ph2 == [ph EXCEPT ![o] = "idle"]
<1>1. /\ DOMAIN p = DOMAIN q \cup {Len(q) + 1} /\ \A i \in DOMAIN q : p[i] = q[i]
      /\ p[Len(q) + 1] = x
  BY AppendAt
<1>2. ph2[o] = "idle" /\ \A u \in Outputs : u # o => ph2[u] = ph[u]
  BY DEF Phases
<1>3. \A i \in DOMAIN q : q[i] \in JobType
  OBVIOUS
<1> HIDE DEF p, ph2
<1>4. o # None /\ o # out /\ ~Runs(r, o) /\ \A i \in DOMAIN q : q[i].output # o
  BY VerticalConstants DEF Held, Holders, JobFits, Runs
<1>5. HeldOnce(p, r, out)
  BY <1>1, <1>4 DEF Held, HeldOnce, Runs
<1>6. Holders(p, r, out, ph2)
  BY <1>1, <1>2, <1>4 DEF Held, Holders
<1>7. \A i \in DOMAIN p : JobFits(p[i], ph2)
  BY <1>1, <1>2, <1>3, <1>4 DEF Held, JobFits, JobType
<1>8. r # NoJob => JobFits(r, ph2)
  BY <1>2, <1>4 DEF Held, JobFits, JobType, Runs
<1> QED BY <1>5, <1>6, <1>7, <1>8 DEF Held, p, ph2


(* The worker takes a job. *)
LEMMA HeldTaken ==
    ASSUME NEW q \in Seq(JobType), q # <<>>, NEW out, NEW ph, Held(q, NoJob, out, ph)
    PROVE  Held(Tail(q), Head(q), out, ph)
<1> DEFINE t == Tail(q)
           h == Head(q)
<1>1. /\ 1 \in DOMAIN q /\ h = q[1] /\ DOMAIN q \subseteq Nat
      /\ \A i \in DOMAIN t : i \in Nat /\ i + 1 \in DOMAIN q /\ i + 1 # 1 /\ t[i] = q[i + 1]
      /\ \A i \in DOMAIN q : i # 1 => i - 1 \in DOMAIN t /\ t[i - 1] = q[i]
  BY TailAt
<1>2. h # NoJob
  BY <1>1, JobsTyped, NoJobAssumption
<1>3. \A i, j \in DOMAIN t : i + 1 = j + 1 => i = j
  BY <1>1
<1> HIDE DEF t, h
<1>4. HeldOnce(t, h, out)
  BY <1>1, <1>3 DEF Held, HeldOnce, Runs
<1>5. Holders(t, h, out, ph)
  <2>1. ASSUME NEW o \in Outputs, NEW i \in DOMAIN q, q[i].output = o
        PROVE  Runs(h, o) \/ \E j \in DOMAIN t : t[j].output = o
    <3>1. CASE i = 1
      BY <1>1, <1>2, <2>1, <3>1 DEF Runs
    <3>2. CASE i # 1
      BY <1>1, <2>1, <3>2
    <3> QED BY <3>1, <3>2
  <2> QED BY <2>1 DEF Held, Holders, Runs
<1>6. JobFits(h, ph) /\ \A i \in DOMAIN t : JobFits(t[i], ph)
  BY <1>1 DEF Held
<1> QED BY <1>4, <1>5, <1>6 DEF Held, t, h

(* The worker has released a job. *)
LEMMA HeldReleased ==
    ASSUME NEW q \in Seq(JobType), NEW r \in JobType, NEW out \in Outputs \cup {None}, NEW ph \in Phases,
           Held(q, r, out, ph), NEW ph2,
           ph2 = IF r.output = None THEN ph ELSE [ph EXCEPT ![r.output] = "absent"]
    PROVE  Held(q, NoJob, out, ph2)
<1>1. r # NoJob /\ r.output \in Outputs \cup {None} /\ \A i \in DOMAIN q : q[i].output \in Outputs \cup {None}
  <2>1. r # NoJob /\ r.output \in Outputs \cup {None}
    BY NoJobAssumption DEF JobType
  <2> QED BY <2>1, JobsTyped
<1>2. \A u \in Outputs : u # r.output => ph2[u] = ph[u]
  BY <1>1 DEF Phases
<1>3. r.output # None => ph2[r.output] = "absent"
  BY <1>1 DEF Phases
<1>4. r.output # None => r.output # out /\ \A i \in DOMAIN q : q[i].output # r.output
  BY <1>1 DEF Held, HeldOnce, Runs
<1>5. HeldOnce(q, NoJob, out)
  BY DEF Held, HeldOnce, Runs
<1>6. Holders(q, NoJob, out, ph2)
  <2>1. ASSUME NEW o \in Outputs, ph2[o] # "absent"
        PROVE  out = o \/ \E i \in DOMAIN q : q[i].output = o
    BY <1>2, <1>3, <2>1, VerticalConstants DEF Held, Holders, Runs
  <2>2. out # None => ph2[out] # "absent"
    BY <1>2, <1>4 DEF Held, Holders
  <2> QED BY <2>1, <2>2 DEF Holders, Runs
<1>7. \A i \in DOMAIN q : JobFits(q[i], ph2)
  BY <1>1, <1>2, <1>4 DEF Held, JobFits
<1> QED BY <1>5, <1>6, <1>7 DEF Held

(* A start has succeeded. *)
LEMMA HeldStarted ==
    ASSUME NEW q \in Seq(JobType), NEW r \in JobType \cup {NoJob}, NEW ph \in Phases, NEW o \in Outputs,
           ph[o] = "absent", Held(q, r, None, ph)
    PROVE  Held(q, r, o, [ph EXCEPT ![o] = "active"])
<1> DEFINE ph2 == [ph EXCEPT ![o] = "active"]
<1>1. ph2[o] = "active" /\ \A u \in Outputs : u # o => ph2[u] = ph[u]
  BY DEF Phases
<1>2. \A i \in DOMAIN q : q[i].output \in Outputs \cup {None}
  BY JobsTyped
<1>3. r # NoJob => r.output \in Outputs \cup {None}
  BY DEF JobType
<1> HIDE DEF ph2
<1>4. o # None /\ ~Runs(r, o) /\ \A i \in DOMAIN q : q[i].output # o
  BY VerticalConstants DEF Held, JobFits, Runs
<1>5. HeldOnce(q, r, o)
  BY <1>4 DEF Held, HeldOnce
<1>6. Holders(q, r, o, ph2)
  BY <1>1, <1>4, VerticalConstants DEF Held, Holders
<1>7. \A i \in DOMAIN q : JobFits(q[i], ph2)
  BY <1>1, <1>2, <1>4 DEF Held, JobFits
<1>8. r # NoJob => JobFits(r, ph2)
  BY <1>1, <1>3, <1>4 DEF Held, JobFits, Runs
<1> QED BY <1>5, <1>6, <1>7, <1>8 DEF Held, ph2

(* An output that runs stops, or its threads end. *)
LEMMA HeldStopping ==
    ASSUME NEW q \in Seq(JobType), NEW r \in JobType \cup {NoJob}, NEW out \in Outputs \cup {None},
           NEW ph \in Phases, NEW o \in Outputs, ph[o] \in {"active", "closing"}, NEW p \in {"closing", "idle"},
           Held(q, r, out, ph)
    PROVE  Held(q, r, out, [ph EXCEPT ![o] = p])
<1> DEFINE ph2 == [ph EXCEPT ![o] = p]
<1>1. ph2[o] = p /\ \A u \in Outputs : u # o => ph2[u] = ph[u]
  BY DEF Phases
<1>2. \A i \in DOMAIN q : q[i].output \in Outputs \cup {None}
  BY JobsTyped
<1>3. r # NoJob => r.output \in Outputs \cup {None}
  BY DEF JobType
<1> HIDE DEF ph2
<1>4. HeldOnce(q, r, out)
  BY DEF Held
<1>5. Holders(q, r, out, ph2)
  BY <1>1 DEF Held, Holders
<1>6. \A i \in DOMAIN q : JobFits(q[i], ph2)
  BY <1>1, <1>2 DEF Held, JobFits
<1>7. r # NoJob => JobFits(r, ph2)
  BY <1>1, <1>3 DEF Held, JobFits
<1> QED BY <1>4, <1>5, <1>6, <1>7 DEF Held, ph2


-----------------------------------------------------------------------------
(* The references to the canvas.                                           *)

Refs(q) == {i \in DOMAIN q : q[i].canvas}

LEMMA RefsFinite ==
    ASSUME NEW q \in Seq(JobType)
    PROVE  IsFiniteSet(Refs(q)) /\ Cardinality(Refs(q)) \in Nat
<1>1. DOMAIN q = 1..Len(q) /\ Len(q) \in Nat
  OBVIOUS
<1>2. IsFiniteSet(DOMAIN q)
  BY <1>1, FS_Interval
<1>3. Refs(q) \in SUBSET DOMAIN q
  BY DEF Refs
<1> QED BY <1>2, <1>3, FS_Subset, FS_CardinalityType

LEMMA RefsEmpty == Cardinality(Refs(<<>>)) = 0
<1>1. Refs(<<>>) = {}
  BY DEF Refs
<1> QED BY <1>1, FS_EmptySet

LEMMA RefsAppend ==
    ASSUME NEW q \in Seq(JobType), NEW x \in JobType
    PROVE  Cardinality(Refs(Append(q, x))) = Cardinality(Refs(q)) + OneIf(x.canvas)
<1> DEFINE p == Append(q, x)
           n == Len(q) + 1
<1>1. /\ DOMAIN p = DOMAIN q \cup {n} /\ n \notin DOMAIN q
      /\ \A i \in DOMAIN q : p[i] = q[i]
      /\ p[n] = x
  BY AppendAt
<1>2. IsFiniteSet(Refs(q)) /\ Cardinality(Refs(q)) \in Nat /\ n \notin Refs(q)
  BY <1>1, RefsFinite DEF Refs
<1> HIDE DEF p, n
<1>3. CASE x.canvas
  <2>1. Refs(p) = Refs(q) \cup {n}
    BY <1>1, <1>3 DEF Refs
  <2>2. Cardinality(Refs(p)) = Cardinality(Refs(q)) + 1
    BY <1>2, <2>1, FS_AddElement
  <2> QED BY <1>3, <2>2 DEF p, OneIf
<1>4. CASE ~x.canvas
  <2>1. Refs(p) = Refs(q)
    BY <1>1, <1>4 DEF Refs
  <2>2. Cardinality(Refs(p)) = Cardinality(Refs(q)) + 0
    BY <1>2, <2>1
  <2> QED BY <1>4, <2>2 DEF p, OneIf
<1> QED BY <1>3, <1>4

LEMMA RefsTail ==
    ASSUME NEW q \in Seq(JobType), q # <<>>
    PROVE  Cardinality(Refs(q)) = Cardinality(Refs(Tail(q))) + OneIf(Head(q).canvas)
<1> DEFINE t == Tail(q)
           later == Refs(q) \ {1}
           f == [i \in later |-> i - 1]
<1>1. /\ 1 \in DOMAIN q /\ Head(q) = q[1] /\ DOMAIN q \subseteq Nat
      /\ \A i \in DOMAIN t : i \in Nat /\ i + 1 \in DOMAIN q /\ i + 1 # 1 /\ t[i] = q[i + 1]
      /\ \A i \in DOMAIN q : i # 1 => i - 1 \in DOMAIN t /\ t[i - 1] = q[i]
  BY TailAt
<1>2. IsFiniteSet(Refs(q)) /\ Cardinality(Refs(q)) \in Nat
  BY RefsFinite
<1> HIDE DEF t
<1>3. f \in [later -> Refs(t)]
  BY <1>1 DEF Refs
<1>4. \A i, j \in later : f[i] = f[j] => i = j
  BY <1>1 DEF Refs
<1>5. ASSUME NEW j \in Refs(t) PROVE \E i \in later : f[i] = j
  <2>1. j + 1 \in later /\ (j + 1) - 1 = j
    BY <1>1, <1>5 DEF Refs
  <2> QED BY <2>1
<1>6. ExistsBijection(later, Refs(t))
  <2> HIDE DEF f, later
  <2>1. f \in Injection(later, Refs(t))
    BY <1>3, <1>4 DEF Injection, IsInjective
  <2>2. f \in Surjection(later, Refs(t))
    BY <1>3, <1>5 DEF Surjection
  <2> QED BY <2>1, <2>2 DEF ExistsBijection, Bijection
<1>7. /\ IsFiniteSet(later)
      /\ Cardinality(later) = IF 1 \in Refs(q) THEN Cardinality(Refs(q)) - 1 ELSE Cardinality(Refs(q))
  BY <1>2, FS_RemoveElement
<1>8. Cardinality(Refs(t)) = Cardinality(later)
  BY <1>6, <1>7, FS_Bijection
<1>9. 1 \in Refs(q) <=> Head(q).canvas
  BY <1>1 DEF Refs
<1> HIDE DEF later
<1> QED BY <1>2, <1>7, <1>8, <1>9 DEF t, OneIf


LEMMA RefsTyped ==
    ASSUME TypeOK
    PROVE  /\ QueueRefs \in Nat /\ JobRefs \in Nat /\ SessionRefs \in Nat /\ StartRefs \in Nat
           /\ canvasRefs \in Nat
<1>1. QueueRefs \in Nat
  BY RefsFinite DEF TypeOK, QueueRefs, QueuedRefs, Refs
<1>2. JobRefs \in Nat
  BY DEF JobRefs, OneIf
<1>3. SessionRefs \in Nat /\ StartRefs \in Nat /\ canvasRefs \in Nat
  BY DEF SessionRefs, StartRefs, OneIf, TypeOK
<1> QED BY <1>1, <1>2, <1>3

(* A job more in the queue. *)
LEMMA QueueGrows ==
    ASSUME TypeOK, NEW job \in JobType, job.canvas = TRUE, queue' = Append(queue, job)
    PROVE  QueueRefs' = QueueRefs + 1
<1>1. Cardinality(Refs(queue')) = Cardinality(Refs(queue)) + 1
  BY RefsAppend DEF TypeOK, OneIf
<1> QED BY <1>1 DEF QueueRefs, QueuedRefs, Refs

LEMMA InvCounted == TypeOK /\ References => Counted
<1> SUFFICES ASSUME TypeOK, References, Working, running.canvas PROVE canvasRefs > 0
  BY DEF Counted
<1>1. QueueRefs \in Nat /\ SessionRefs \in Nat /\ StartRefs \in Nat
  BY RefsTyped
<1>2. JobRefs = 1
  BY DEF JobRefs, OneIf
<1> QED BY <1>1, <1>2 DEF References

-----------------------------------------------------------------------------
(* The steps that change a holder.                                         *)

(* The canvas of a start that was refused is reaped; that of a start that was
   not is the attempt's. *)
LEMMA BeginHolds ==
    ASSUME TypeOK, HeldNow, References, Session, NEW w, NEW e, NEW again, ~attempt.going,
           BeginStart(w, e, again), UNCHANGED <<state, output, phase>>
    PROVE  HeldNow' /\ References'
<1>1. CASE UNCHANGED <<attempt, canvasRefs, starts, reaperVars>>
  <2>1. HeldNow'
    BY <1>1 DEF HeldNow
  <2>2. References'
    BY <1>1 DEF References, QueueRefs, JobRefs, SessionRefs, StartRefs, QueuedRefs, Working
  <2> QED BY <2>1, <2>2
<1>2. CASE canvasRefs' = canvasRefs + 1 /\ Enqueued(Job(None, TRUE, FALSE)) /\ UNCHANGED attempt
  <2>1. Job(None, TRUE, FALSE) \in JobType /\ Job(None, TRUE, FALSE).output = None /\ Job(None, TRUE, FALSE).canvas = TRUE
    BY JobTyped
  <2>2. queue' = Append(queue, Job(None, TRUE, FALSE)) /\ running' = running /\ queue \in Seq(JobType)
    BY <1>2 DEF Enqueued, TypeOK
  <2>3. HeldNow'
    BY <2>1, <2>2, HeldCanvas DEF HeldNow
  <2>4. QueueRefs' = QueueRefs + 1
    BY <2>1, <2>2, QueueGrows
  <2>5. JobRefs' = JobRefs /\ SessionRefs' = SessionRefs /\ StartRefs' = StartRefs
    BY <1>2, <2>2 DEF JobRefs, SessionRefs, StartRefs, Working
  <2>6. References'
    BY <1>2, <2>4, <2>5, RefsTyped DEF References
  <2> QED BY <2>3, <2>6
<1>3. CASE /\ canvasRefs' = canvasRefs + 1 /\ UNCHANGED reaperVars
           /\ attempt' = [encoder |-> e, withMain |-> w, restart |-> again, going |-> TRUE]
  <2>1. HeldNow'
    BY <1>3 DEF HeldNow
  <2>2. QueueRefs' = QueueRefs /\ JobRefs' = JobRefs /\ SessionRefs' = SessionRefs
    BY <1>3 DEF QueueRefs, QueuedRefs, JobRefs, SessionRefs, Working
  <2>3. StartRefs' = 1 /\ StartRefs = 0
    BY <1>3 DEF StartRefs, OneIf
  <2>4. References'
    BY <1>3, <2>2, <2>3, RefsTyped DEF References
  <2> QED BY <2>1, <2>4
<1> QED BY <1>1, <1>2, <1>3 DEF BeginStart

(* A session that ends leaves its output and its canvas to the reaper. *)
LEMMA DetachHolds ==
    ASSUME TypeOK, HeldNow, References, Session, NEW force \in BOOLEAN, state # "Idle",
           force \/ phase[output] # "active", Detach(force), UNCHANGED <<attempt, canvasRefs, phase>>
    PROVE  HeldNow' /\ References'
<1> DEFINE job == Job(output, TRUE, force)
<1>1. output \in Outputs
  BY DEF TypeOK, Session
<1>2. job \in JobType /\ job.output = output /\ job.canvas = TRUE /\ job.force = force
  BY <1>1, JobTyped
<1>3. /\ queue' = Append(queue, job) /\ running' = running /\ queue \in Seq(JobType)
      /\ output' = None /\ state' = "Idle"
  BY DEF Detach, Enqueued, TypeOK
<1> HIDE DEF job
<1>4. HeldNow'
  BY <1>1, <1>2, <1>3, HeldDetached DEF HeldNow
<1>5. QueueRefs' = QueueRefs + 1
  BY <1>2, <1>3, QueueGrows
<1>6. JobRefs' = JobRefs /\ StartRefs' = StartRefs
  BY <1>3 DEF JobRefs, StartRefs, Working
<1>7. SessionRefs = 1 /\ SessionRefs' = 0
  BY <1>3 DEF SessionRefs, OneIf
<1>8. References'
  BY <1>5, <1>6, <1>7, RefsTyped DEF References
<1> QED BY <1>4, <1>8

LEMMA SucceedHolds ==
    ASSUME TypeOK, HeldNow, References, Session, TryStartSucceeds
    PROVE  HeldNow' /\ References'
<1>1. NewOutput \in Outputs /\ phase[NewOutput] = "absent"
  BY DEF TryStartSucceeds, NewOutput, Absent
<1>2. /\ attempt.going = TRUE /\ state = "Idle" /\ output = None /\ attempt'.going = FALSE
      /\ state' = "Running" /\ output' = NewOutput /\ phase' = [phase EXCEPT ![NewOutput] = "active"]
      /\ UNCHANGED <<queue, running, canvasRefs>>
  BY DEF TryStartSucceeds, Session, NoAttempt, TypeOK
<1>3. HeldNow'
  BY <1>1, <1>2, HeldStarted DEF HeldNow, TypeOK, Phases
<1>4. QueueRefs' = QueueRefs /\ JobRefs' = JobRefs
  BY <1>2 DEF QueueRefs, QueuedRefs, JobRefs, Working
<1>5. SessionRefs = 0 /\ SessionRefs' = 1 /\ StartRefs = 1 /\ StartRefs' = 0
  BY <1>2 DEF SessionRefs, StartRefs, OneIf
<1>6. References'
  BY <1>2, <1>4, <1>5, RefsTyped DEF References
<1> QED BY <1>3, <1>6

(* A failed attempt: its dead session, if there is one, and the canvas after the last. *)
LEMMA FailHolds ==
    ASSUME TypeOK, HeldNow, References, Session, TryStartFails
    PROVE  HeldNow' /\ References'
<1> DEFINE dead(o) == Job(o, FALSE, FALSE)
           canvas == Job(None, TRUE, FALSE)
           last == ~HasFallback(attempt.encoder)
<1>1. /\ attempt.going = TRUE /\ state' = state /\ output' = output /\ canvasRefs' = canvasRefs /\ running' = running
      /\ (last => attempt'.going = FALSE) /\ (~last => attempt'.going = TRUE)
  <2>1. /\ attempt.going /\ state' = state /\ output' = output /\ canvasRefs' = canvasRefs /\ running' = running
        /\ attempt' = IF last THEN NoAttempt ELSE [attempt EXCEPT !.encoder = "x264"]
    BY DEF TryStartFails, AttemptFails
  <2>2. attempt.going = TRUE /\ [attempt EXCEPT !.encoder = "x264"].going = attempt.going
    BY <2>1 DEF TypeOK
  <2>3. NoAttempt.going = FALSE
    BY DEF NoAttempt
  <2>4. CASE last
    BY <2>1, <2>2, <2>3, <2>4
  <2>5. CASE ~last
    BY <2>1, <2>2, <2>5
  <2> QED BY <2>4, <2>5
<1>2. queue \in Seq(JobType) /\ Cardinality(Refs(queue)) \in Nat
  BY RefsFinite DEF TypeOK
<1>3. canvas \in JobType /\ canvas.output = None /\ canvas.canvas = TRUE
  BY JobTyped
<1>4. PICK q \in Seq(JobType) :
         /\ Held(q, running, output, phase') /\ Cardinality(Refs(q)) = Cardinality(Refs(queue))
         /\ queue' = q \o (IF last THEN <<canvas>> ELSE <<>>)
  <2>1. CASE AttemptFails(None) /\ UNCHANGED phase
    <3>1. queue' = queue \o <<>> \o (IF last THEN <<canvas>> ELSE <<>>)
      BY <2>1 DEF AttemptFails, DeadSession
    <3>2. queue \o <<>> = queue
      BY <1>2
    <3> QED BY <1>2, <2>1, <3>1, <3>2 DEF HeldNow
  <2>2. CASE Absent # {} /\ phase' = [phase EXCEPT ![NewOutput] = "idle"] /\ AttemptFails(NewOutput)
    <3>1. NewOutput \in Outputs /\ phase[NewOutput] = "absent" /\ NewOutput # None
      BY <2>2, VerticalConstants DEF NewOutput, Absent
    <3>2. dead(NewOutput) \in JobType /\ dead(NewOutput).output = NewOutput /\ dead(NewOutput).canvas = FALSE
      BY <3>1, JobTyped
    <3>3. queue' = queue \o <<dead(NewOutput)>> \o (IF last THEN <<canvas>> ELSE <<>>)
      BY <2>2, <3>1 DEF AttemptFails, DeadSession
    <3>4. queue \o <<dead(NewOutput)>> = Append(queue, dead(NewOutput))
      <4> HIDE DEF dead
      <4> QED BY <1>2, <3>2
    <3>5. Append(queue, dead(NewOutput)) \in Seq(JobType)
      BY <1>2, <3>2, AppendTyped
    <3>6. Held(Append(queue, dead(NewOutput)), running, output, phase')
      <4> HIDE DEF dead
      <4>1. running \in JobType \cup {NoJob} /\ output \in Outputs \cup {None} /\ phase \in Phases
        BY DEF TypeOK, Phases
      <4> QED BY <1>2, <2>2, <3>1, <3>2, <4>1, HeldDead DEF HeldNow
    <3>7. Cardinality(Refs(Append(queue, dead(NewOutput)))) = Cardinality(Refs(queue))
      <4> HIDE DEF dead
      <4> QED BY <1>2, <3>2, RefsAppend DEF OneIf
    <3> QED BY <3>3, <3>4, <3>5, <3>6, <3>7
  <2> QED BY <2>1, <2>2 DEF TryStartFails
<1> HIDE DEF dead, canvas
<1>5. JobRefs' = JobRefs /\ SessionRefs' = SessionRefs
  BY <1>1 DEF JobRefs, SessionRefs, Working
<1>6. CASE last
  <2>1. queue' = Append(q, canvas)
    BY <1>4, <1>6
  <2>2. HeldNow'
    BY <1>1, <1>3, <1>4, <2>1, HeldCanvas DEF HeldNow
  <2>3. Cardinality(Refs(queue')) = Cardinality(Refs(queue)) + 1
    BY <1>2, <1>3, <1>4, <2>1, RefsAppend DEF OneIf
  <2>4. QueueRefs' = QueueRefs + 1
    BY <2>3 DEF QueueRefs, QueuedRefs, Refs
  <2>5. StartRefs = 1 /\ StartRefs' = 0
    BY <1>1, <1>6 DEF StartRefs, OneIf
  <2>6. References'
    BY <1>1, <1>5, <2>4, <2>5, RefsTyped DEF References
  <2> QED BY <2>2, <2>6
<1>7. CASE ~last
  <2>1. queue' = q
    BY <1>4, <1>7
  <2>2. HeldNow'
    BY <1>1, <1>4, <2>1 DEF HeldNow
  <2>3. QueueRefs' = QueueRefs
    BY <1>4, <2>1 DEF QueueRefs, QueuedRefs, Refs
  <2>4. StartRefs' = StartRefs
    BY <1>1, <1>7 DEF StartRefs, OneIf
  <2>5. References'
    BY <1>1, <1>5, <2>3, <2>4, RefsTyped DEF References
  <2> QED BY <2>2, <2>5
<1> QED BY <1>6, <1>7


LEMMA TakeHolds ==
    ASSUME TypeOK, HeldNow, References, TakeJob
    PROVE  HeldNow' /\ References'
<1>1. /\ queue \in Seq(JobType) /\ queue # <<>> /\ running = NoJob
      /\ queue' = Tail(queue) /\ running' = Head(queue)
      /\ UNCHANGED <<state, output, phase, attempt, canvasRefs>>
  BY DEF TakeJob, Take, OnlyReaper, TypeOK
<1>2. HeldNow'
  BY <1>1, HeldTaken DEF HeldNow
<1>3. running' # NoJob
  BY <1>1, TailTyped, NoJobAssumption
<1>4. Cardinality(Refs(queue)) = Cardinality(Refs(queue')) + OneIf(Head(queue).canvas)
  BY <1>1, RefsTail
<1>5. Cardinality(Refs(queue')) \in Nat /\ Cardinality(Refs(queue)) = QueueRefs /\ Cardinality(Refs(queue')) = QueueRefs'
  <2>1. queue' \in Seq(JobType)
    BY <1>1, TailTyped
  <2> QED BY <2>1, RefsFinite DEF QueueRefs, QueuedRefs, Refs
<1>6. JobRefs = 0 /\ JobRefs' = OneIf(Head(queue).canvas)
  BY <1>1, <1>3 DEF JobRefs, Working, OneIf
<1>7. SessionRefs' = SessionRefs /\ StartRefs' = StartRefs
  BY <1>1 DEF SessionRefs, StartRefs
<1>8. OneIf(Head(queue).canvas) \in Nat
  BY DEF OneIf
<1>9. References'
  BY <1>1, <1>4, <1>5, <1>6, <1>7, <1>8, RefsTyped DEF References
<1> QED BY <1>2, <1>9

LEMMA ReleaseHolds ==
    ASSUME TypeOK, HeldNow, References, Release
    PROVE  HeldNow' /\ References'
<1>1. /\ running \in JobType /\ running # NoJob /\ queue' = queue /\ running' = NoJob
      /\ UNCHANGED <<state, output, attempt>>
      /\ phase' = IF running.output = None THEN phase ELSE [phase EXCEPT ![running.output] = "absent"]
      /\ canvasRefs' = IF running.canvas THEN canvasRefs - 1 ELSE canvasRefs
  BY DEF Release, Working, Finish, OnlyReaper, TypeOK
<1>2. HeldNow'
  <2>1. queue \in Seq(JobType) /\ output \in Outputs \cup {None} /\ phase \in Phases
    BY DEF TypeOK, Phases
  <2> QED BY <1>1, <2>1, HeldReleased DEF HeldNow
<1>3. QueueRefs' = QueueRefs /\ SessionRefs' = SessionRefs /\ StartRefs' = StartRefs
  BY <1>1 DEF QueueRefs, QueuedRefs, SessionRefs, StartRefs
<1>4. JobRefs = (IF running.canvas THEN 1 ELSE 0) /\ JobRefs' = 0
  BY <1>1 DEF JobRefs, Working, OneIf
<1>5. References'
  BY <1>1, <1>3, <1>4, RefsTyped DEF References
<1> QED BY <1>2, <1>5

LEMMA RunsHolds ==
    ASSUME TypeOK, HeldNow, References, NEW o \in Outputs, OutputStops(o) \/ OutputEnds(o)
    PROVE  HeldNow' /\ References'
<1>1. PICK p \in {"closing", "idle"} :
         /\ phase[o] \in {"active", "closing"} /\ phase' = [phase EXCEPT ![o] = p]
         /\ UNCHANGED <<state, output, attempt, canvasRefs, queue, running>>
  BY DEF OutputStops, OutputEnds, OnlyOutput
<1>2. HeldNow'
  <2>1. queue \in Seq(JobType) /\ running \in JobType \cup {NoJob} /\ output \in Outputs \cup {None} /\ phase \in Phases
    BY DEF TypeOK, Phases
  <2> QED BY <1>1, <2>1, HeldStopping DEF HeldNow
<1>3. References'
  BY <1>1 DEF References, QueueRefs, QueuedRefs, JobRefs, SessionRefs, StartRefs, Working
<1> QED BY <1>2, <1>3

(* A step that moves no holder. *)
LEMMA SameHolds ==
    ASSUME HeldNow, References, state' = "Idle" <=> state = "Idle",
           UNCHANGED <<output, attempt, canvasRefs, phase, queue, running>>
    PROVE  HeldNow' /\ References'
BY DEF HeldNow, References, QueueRefs, QueuedRefs, JobRefs, SessionRefs, StartRefs, OneIf, Working

-----------------------------------------------------------------------------
(* The same for finish(), stop() and stop_now().                           *)

LEMMA FinishHolds ==
    ASSUME TypeOK, HeldNow, References, Session, state # "Idle", phase[output] # "active",
           NEW s, NEW code, NEW then, FinishSession(s, code, then), attempt' = attempt
    PROVE  HeldNow' /\ References'
<1>1. Detach(FALSE) /\ UNCHANGED <<attempt, canvasRefs, phase>>
  BY DEF FinishSession
<1> QED BY <1>1, DetachHolds

LEMMA StopHolds ==
    ASSUME TypeOK, HeldNow, References, Session, state # "Idle", Stop, attempt' = attempt
    PROVE  HeldNow' /\ References'
<1>1. CASE Active(output)
  <2>1. state' = "Stopping" /\ UNCHANGED <<output, attempt, canvasRefs, phase, queue, running>>
    BY <1>1 DEF Stop
  <2> QED BY <2>1, SameHolds
<1>2. CASE ~Active(output)
  <2>1. FinishSession("Stopping", "success", posted) /\ phase[output] # "active"
    BY <1>2 DEF Stop, Active, Session
  <2> QED BY <2>1, FinishHolds
<1> QED BY <1>1, <1>2

LEMMA StopNowHolds ==
    ASSUME TypeOK, HeldNow, References, Session, StopNow, UNCHANGED <<attempt, canvasRefs, phase>>
    PROVE  HeldNow' /\ References'
<1>1. CASE state = "Idle"
  BY <1>1, SameHolds DEF StopNow
<1>2. CASE state # "Idle"
  BY <1>2, DetachHolds DEF StopNow
<1> QED BY <1>1, <1>2


LEMMA NextHolds ==
    ASSUME TypeOK, HeldNow, References, Session, Posts, [Next]_vars
    PROVE  HeldNow' /\ References'
<1>1. CASE ToggleOn
  BY <1>1, BeginHolds DEF ToggleOn, UIReady
<1>2. CASE ToggleOff
  BY <1>2, StopHolds DEF ToggleOff
<1>3. CASE MainStarts
  <2>1. CASE BeginStart(TRUE, Chosen, FALSE)
    BY <1>3, <2>1, BeginHolds DEF MainStarts, UIReady
  <2>2. CASE ~BeginStart(TRUE, Chosen, FALSE)
    <3>1. UNCHANGED <<state, output, attempt, canvasRefs, phase, queue, running>>
      BY <1>3, <2>2 DEF MainStarts
    <3> QED BY <3>1, SameHolds
  <2> QED BY <2>1, <2>2
<1>4. CASE MainStopping
  <2>1. CASE state = "Running" /\ Stop
    BY <1>4, <2>1, StopHolds DEF MainStopping
  <2>2. CASE ~(state = "Running" /\ Stop)
    <3>1. UNCHANGED <<state, output, attempt, canvasRefs, phase, queue, running>>
      BY <1>4, <2>2 DEF MainStopping
    <3> QED BY <3>1, SameHolds
  <2> QED BY <2>1, <2>2
<1>5. CASE ForcedStop
  BY <1>5, StopNowHolds DEF ForcedStop
<1>6. CASE Save
  BY <1>6, SameHolds DEF Save
<1>7. CASE Unload
  BY <1>7, StopNowHolds DEF Unload
<1>8. CASE MainEnds
  BY <1>8, SameHolds DEF MainEnds
<1>9. CASE TryStartFails
  BY <1>9, FailHolds
<1>10. CASE TryStartSucceeds
  BY <1>10, SucceedHolds
<1>11. CASE FinishPosted
  <2>1. CASE OwnSession(Head(posted).session)
    <3>1. /\ state # "Idle" /\ attempt' = attempt
          /\ FinishSession(state, Head(posted).code, Tail(posted))
      BY <1>11, <2>1 DEF FinishPosted, OwnSession
    <3>2. 1 \in DOMAIN posted /\ OfSession(posted[1])
      BY <1>11, <2>1, TailAt DEF FinishPosted, OwnSession, OfSession, TypeOK
    <3>3. phase[output] # "active"
      BY <3>2 DEF Posts
    <3> QED BY <3>1, <3>3, FinishHolds
  <2>2. CASE ~OwnSession(Head(posted).session)
    <3>1. UNCHANGED <<state, output, attempt, canvasRefs, phase, queue, running>>
      BY <1>11, <2>2 DEF FinishPosted
    <3> QED BY <3>1, SameHolds
  <2> QED BY <2>1, <2>2
<1>12. CASE RestartPosted
  <2>1. CASE BeginStart(Head(posted).withMain, "x264", TRUE)
    BY <1>12, <2>1, BeginHolds DEF RestartPosted, UIReady
  <2>2. CASE ~BeginStart(Head(posted).withMain, "x264", TRUE)
    <3>1. UNCHANGED <<state, output, attempt, canvasRefs, phase, queue, running>>
      BY <1>12, <2>2 DEF RestartPosted
    <3> QED BY <3>1, SameHolds
  <2> QED BY <2>1, <2>2
<1>13. CASE JoinRemux
  BY <1>13, SameHolds DEF JoinRemux, RequestShutdown
<1>14. CASE JoinReaper
  BY <1>14, SameHolds DEF JoinReaper
<1>15. CASE TakeJob
  BY <1>15, TakeHolds
<1>16. CASE StopOutput
  BY <1>16, SameHolds DEF StopOutput, OnlyReaper
<1>17. CASE Release
  BY <1>17, ReleaseHolds
<1>18. CASE ExitWorker
  BY <1>18, SameHolds DEF ExitWorker, Exit, OnlyReaper
<1>19. ASSUME NEW o \in Outputs, OutputStops(o) \/ OutputEnds(o) PROVE HeldNow' /\ References'
  BY <1>19, RunsHolds
<1>20. ASSUME NEW o \in Outputs, ClipBegins(o) \/ ClipEnds(o) PROVE HeldNow' /\ References'
  BY <1>20, SameHolds DEF ClipBegins, ClipEnds, OnlyOutput
<1>21. CASE RemuxTake \/ RemuxAborts \/ RemuxEnds
  BY <1>21, SameHolds DEF RemuxTake, RemuxAborts, RemuxEnds, OnlyRemux
<1>22. CASE UNCHANGED vars
  BY <1>22, SameHolds DEF vars
<1> QED BY <1>1, <1>2, <1>3, <1>4, <1>5, <1>6, <1>7, <1>8, <1>9, <1>10, <1>11, <1>12, <1>13, <1>14,
           <1>15, <1>16, <1>17, <1>18, <1>19, <1>20, <1>21, <1>22
        DEF Next, UIEvent, UIWork, Worker, OutputThread


-----------------------------------------------------------------------------
(* The session and the start under way.                                    *)

LEMMA StopSession ==
    ASSUME TypeOK, Session, state # "Idle", Stop, attempt' = attempt, ~attempt.going
    PROVE  Session'
<1>1. CASE Active(output)
  BY <1>1 DEF Stop, Session
<1>2. CASE ~Active(output)
  BY <1>2 DEF Stop, FinishSession, Detach, Session
<1> QED BY <1>1, <1>2

LEMMA StopNowSession ==
    ASSUME TypeOK, Session, StopNow, attempt' = attempt, ~attempt.going
    PROVE  Session'
BY DEF StopNow, Detach, Session

LEMMA BeginSession ==
    ASSUME Session, NEW w, NEW e, NEW again, BeginStart(w, e, again), UNCHANGED <<state, output, connected>>
    PROVE  Session'
BY DEF BeginStart, Session

LEMMA SameSession ==
    ASSUME Session, UNCHANGED <<state, output, connected, attempt>> PROVE Session'
BY DEF Session

LEMMA NextSession ==
    ASSUME TypeOK, Session, [Next]_vars
    PROVE  Session'
<1>1. CASE ToggleOn
  BY <1>1, BeginSession DEF ToggleOn
<1>2. CASE ToggleOff
  BY <1>2, StopSession DEF ToggleOff, UIReady
<1>3. CASE MainStarts
  BY <1>3, BeginSession, SameSession DEF MainStarts
<1>4. CASE MainStopping
  BY <1>4, StopSession, SameSession DEF MainStopping, UIReady
<1>5. CASE ForcedStop
  BY <1>5, StopNowSession DEF ForcedStop, UIReady
<1>6. CASE Save
  BY <1>6, SameSession DEF Save
<1>7. CASE Unload
  BY <1>7, StopNowSession DEF Unload, UIReady
<1>8. CASE MainEnds
  BY <1>8, SameSession DEF MainEnds
<1>9. CASE TryStartFails
  BY <1>9 DEF TryStartFails, Session
<1>10. CASE TryStartSucceeds
  <2>1. NewOutput \in Outputs /\ NewOutput # None /\ connected = {}
    BY <1>10, VerticalConstants DEF TryStartSucceeds, NewOutput, Absent, Session, TypeOK
  <2>2. attempt'.going = FALSE /\ output' = NewOutput /\ state' = "Running" /\ connected' = connected \cup {NewOutput}
    BY <1>10 DEF TryStartSucceeds, NoAttempt
  <2> QED BY <2>1, <2>2 DEF Session
<1>11. CASE FinishPosted
  <2>1. CASE FinishSession(state, Head(posted).code, Tail(posted))
    BY <1>11, <2>1 DEF FinishPosted, FinishSession, Detach, Session, UIReady
  <2>2. CASE ~FinishSession(state, Head(posted).code, Tail(posted))
    BY <1>11, <2>2, SameSession DEF FinishPosted
  <2> QED BY <2>1, <2>2
<1>12. CASE RestartPosted
  BY <1>12, BeginSession, SameSession DEF RestartPosted
<1>13. CASE JoinRemux \/ JoinReaper
  BY <1>13, SameSession DEF JoinRemux, JoinReaper
<1>14. CASE Worker
  BY <1>14, SameSession DEF Worker, TakeJob, StopOutput, Release, ExitWorker, OnlyReaper
<1>15. ASSUME NEW o \in Outputs, OutputThread(o) PROVE Session'
  BY <1>15, SameSession DEF OutputThread, OutputStops, OutputEnds, ClipBegins, ClipEnds, OnlyOutput
<1>16. CASE RemuxTake \/ RemuxAborts \/ RemuxEnds
  BY <1>16, SameSession DEF RemuxTake, RemuxAborts, RemuxEnds, OnlyRemux
<1>17. CASE UNCHANGED vars
  BY <1>17, SameSession DEF vars
<1> QED BY <1>1, <1>2, <1>3, <1>4, <1>5, <1>6, <1>7, <1>8, <1>9, <1>10, <1>11, <1>12, <1>13, <1>14,
           <1>15, <1>16, <1>17 DEF Next, UIEvent, UIWork

-----------------------------------------------------------------------------
(* What is wanted.                                                         *)

LEMMA SameWished ==
    ASSUME Wished, UNCHANGED <<state, startedWithMain, restart, attempt, wish>> PROVE Wished'
BY DEF Wished

(* What a start leaves: an attempt of its own, or what there was. *)
LEMMA BeginAttempt ==
    ASSUME NEW w \in BOOLEAN, NEW e, NEW again \in BOOLEAN, BeginStart(w, e, again)
    PROVE  \/ attempt' = attempt /\ wish' = (IF again THEN "nobody" ELSE wish)
           \/ attempt'.going /\ attempt'.restart = again /\ attempt'.withMain = w /\ wish' = wish
<1>1. CASE attempt' = [encoder |-> e, withMain |-> w, restart |-> again, going |-> TRUE] /\ wish' = wish
  <2>1. attempt'.going /\ attempt'.restart = again /\ attempt'.withMain = w
    BY <1>1
  <2> QED BY <1>1, <2>1
<1>2. CASE attempt' = attempt /\ wish' = (IF again THEN "nobody" ELSE wish)
  BY <1>2
<1> QED BY <1>1, <1>2 DEF BeginStart

(* A start by hand or with the main output. *)
LEMMA BeginWished ==
    ASSUME Wished, NEW w \in BOOLEAN, NEW e, BeginStart(w, e, FALSE),
           UNCHANGED <<state, startedWithMain, restart>>
    PROVE  Wished'
<1>1. wish' = wish /\ (attempt' = attempt \/ attempt'.restart = FALSE)
  BY BeginAttempt
<1> QED BY <1>1 DEF Wished

LEMMA FinishWished ==
    ASSUME TypeOK, Wished, ~attempt.going, attempt' = attempt, NEW s, s = "Running" => state = "Running",
           NEW code, NEW then, FinishSession(s, code, then)
    PROVE  Wished'
<1>1. state' = "Idle"
  BY DEF FinishSession, Detach
<1>2. CASE s = "Running" /\ Restarts(code)
  <2>1. restart' = (IF startedWithMain THEN "main" ELSE "hand") /\ wish' = wish
    BY <1>2 DEF FinishSession
  <2>2. wish # "nobody" /\ startedWithMain = (wish = "main")
    BY <1>2 DEF Wished
  <2> QED BY <1>1, <2>1, <2>2 DEF Wished
<1>3. CASE ~(s = "Running" /\ Restarts(code))
  <2>1. restart' = "no"
    BY <1>3 DEF FinishSession
  <2> QED BY <1>1, <2>1 DEF Wished
<1> QED BY <1>2, <1>3

LEMMA StopWished ==
    ASSUME TypeOK, Wished, ~attempt.going, attempt' = attempt, Stop
    PROVE  Wished'
<1>1. CASE Active(output)
  BY <1>1 DEF Stop, Wished
<1>2. CASE ~Active(output)
  BY <1>2, FinishWished DEF Stop
<1> QED BY <1>1, <1>2

LEMMA StopNowWished ==
    ASSUME Wished, ~attempt.going, attempt' = attempt, StopNow PROVE Wished'
BY DEF StopNow, Detach, Wished

LEMMA NextWished ==
    ASSUME TypeOK, Session, Posts, Wished, [Next]_vars
    PROVE  Wished'
<1>1. CASE ToggleOn
  BY <1>1, BeginWished DEF ToggleOn
<1>2. CASE ToggleOff
  BY <1>2, StopWished DEF ToggleOff, UIReady
<1>3. CASE MainStarts
  BY <1>3, BeginWished, SameWished DEF MainStarts
<1>4. CASE MainStopping
  <2>1. CASE startedWithMain /\ state = "Running"
    BY <1>4, <2>1, StopWished DEF MainStopping, UIReady
  <2>2. CASE ~(startedWithMain /\ state = "Running")
    <3>1. /\ restart' = (IF restart = "main" THEN "no" ELSE restart)
          /\ wish' = (IF wish = "main" THEN "nobody" ELSE wish)
          /\ ~attempt.going /\ UNCHANGED <<state, startedWithMain, attempt>>
      BY <1>4, <2>2 DEF MainStopping, UIReady
    <3>2. state = "Running" => wish # "main" /\ startedWithMain = (wish = "main")
      BY <2>2 DEF Wished
    <3> QED BY <2>2, <3>1, <3>2 DEF Wished
  <2> QED BY <2>1, <2>2
<1>5. CASE ForcedStop
  BY <1>5, StopNowWished DEF ForcedStop, UIReady
<1>6. CASE Save
  BY <1>6, SameWished DEF Save
<1>7. CASE Unload
  BY <1>7, StopNowWished DEF Unload, UIReady
<1>8. CASE MainEnds
  BY <1>8, SameWished DEF MainEnds
<1>9. CASE TryStartFails
  <2>1. PICK o : AttemptFails(o)
    BY <1>9 DEF TryStartFails
  <2>2. UNCHANGED <<state, startedWithMain, restart>> /\ attempt.going /\ state = "Idle"
    BY <1>9 DEF TryStartFails, Session
  <2>3. CASE HasFallback(attempt.encoder)
    <3>1. /\ wish' = wish
          /\ attempt'.going = attempt.going /\ attempt'.restart = attempt.restart /\ attempt'.withMain = attempt.withMain
      BY <2>1, <2>3 DEF AttemptFails, TypeOK
    <3> QED BY <2>2, <3>1 DEF Wished
  <2>4. CASE ~HasFallback(attempt.encoder)
    <3>1. wish' = (IF attempt.restart THEN "nobody" ELSE wish) /\ attempt'.going = FALSE
      BY <2>1, <2>4 DEF AttemptFails, NoAttempt
    <3> QED BY <2>2, <3>1 DEF Wished
  <2> QED BY <2>3, <2>4
<1>10. CASE TryStartSucceeds
  <2>1. /\ attempt.going /\ attempt'.going = FALSE /\ state' = "Running" /\ startedWithMain' = attempt.withMain
        /\ wish' = IF attempt.restart THEN wish ELSE IF attempt.withMain THEN "main" ELSE "hand"
    BY <1>10 DEF TryStartSucceeds, NoAttempt
  <2>2. attempt.withMain \in BOOLEAN
    BY DEF TypeOK
  <2>3. wish' # "nobody" /\ attempt.withMain = (wish' = "main")
    BY <2>1, <2>2 DEF Wished
  <2> QED BY <2>1, <2>3 DEF Wished
<1>11. CASE FinishPosted
  <2>1. CASE FinishSession(state, Head(posted).code, Tail(posted))
    BY <1>11, <2>1, FinishWished DEF FinishPosted, UIReady
  <2>2. CASE ~FinishSession(state, Head(posted).code, Tail(posted))
    BY <1>11, <2>2, SameWished DEF FinishPosted
  <2> QED BY <2>1, <2>2
<1>12. CASE RestartPosted
  <2> DEFINE withMain == Head(posted).withMain
  <2>1. 1 \in DOMAIN posted /\ Head(posted) = posted[1] /\ posted[1].do = "restart"
    BY <1>12, TailAt DEF RestartPosted, TypeOK
  <2>2. restart # "no" => withMain = (restart = "main")
    BY <2>1 DEF Posts
  <2>3. ~attempt.going /\ restart' = "no" /\ UNCHANGED <<state, startedWithMain>>
    BY <1>12 DEF RestartPosted, UIReady
  <2>4. CASE restart # "no" /\ BeginStart(withMain, "x264", TRUE)
    <3>1. state = "Idle" /\ wish # "nobody" /\ withMain = (wish = "main")
      BY <2>2, <2>4 DEF BeginStart, Wished
    <3>2. CASE attempt' = attempt
      BY <2>3, <3>1, <3>2 DEF Wished
    <3>3. CASE wish' = wish /\ attempt'.withMain = withMain
      BY <2>3, <3>1, <3>3 DEF Wished
    <3>4. withMain \in BOOLEAN
      BY <2>1, TailTyped DEF TypeOK, Post
    <3> QED BY <2>4, <3>2, <3>3, <3>4, BeginAttempt
  <2>5. CASE ~(restart # "no" /\ BeginStart(withMain, "x264", TRUE))
    <3>1. attempt' = attempt /\ wish' = IF restart # "no" /\ state = "Idle" THEN "nobody" ELSE wish
      BY <1>12, <2>5 DEF RestartPosted
    <3> QED BY <2>3, <3>1 DEF Wished
  <2> QED BY <2>4, <2>5
<1>13. CASE JoinRemux \/ JoinReaper
  BY <1>13, SameWished DEF JoinRemux, JoinReaper
<1>14. CASE Worker
  BY <1>14, SameWished DEF Worker, TakeJob, StopOutput, Release, ExitWorker, OnlyReaper
<1>15. ASSUME NEW o \in Outputs, OutputThread(o) PROVE Wished'
  BY <1>15, SameWished DEF OutputThread, OutputStops, OutputEnds, ClipBegins, ClipEnds, OnlyOutput
<1>16. CASE RemuxTake \/ RemuxAborts \/ RemuxEnds
  BY <1>16, SameWished DEF RemuxTake, RemuxAborts, RemuxEnds, OnlyRemux
<1>17. CASE UNCHANGED vars
  BY <1>17, SameWished DEF vars
<1> QED BY <1>1, <1>2, <1>3, <1>4, <1>5, <1>6, <1>7, <1>8, <1>9, <1>10, <1>11, <1>12, <1>13, <1>14,
           <1>15, <1>16, <1>17 DEF Next, UIEvent, UIWork


-----------------------------------------------------------------------------
(* The posts.                                                              *)

(* A post of the session that runs, for the number id of that session. *)
Finishes(p, id) == p.do = "finish" /\ p.session = id

LEMMA PostsTyped == TypeOK => posted \in Seq(Post) /\ \A i \in DOMAIN posted : posted[i] \in Post /\ i \in Nat
BY DEF TypeOK

(* What is left of the posts stays true of the session, or of the next one. *)
KeepsSession ==
    \/ /\ sessionId' = sessionId /\ output' = output /\ (state' # "Idle" => state # "Idle")
       /\ \A o \in Outputs : phase[o] # "active" => phase'[o] # "active"
    \/ sessionId' = sessionId + 1

LEMMA FewerPosts ==
    ASSUME TypeOK, Session, Posts, KeepsSession, restart' \in {restart, "no"},
           posted' = posted \/ (posted # <<>> /\ posted' = Tail(posted))
    PROVE  Posts'
<1>1. PICK k \in {0, 1} : \A i \in DOMAIN posted' : i \in Nat /\ i + k \in DOMAIN posted /\ posted'[i] = posted[i + k]
  <2>1. CASE posted' = posted
    <3>1. \A i \in DOMAIN posted : i \in Nat /\ i + 0 = i
      BY PostsTyped
    <3> QED BY <2>1, <3>1
  <2>2. CASE posted # <<>> /\ posted' = Tail(posted)
    BY <2>2, PostsTyped, TailAt
  <2> QED BY <2>1, <2>2
<1>2. \A i \in DOMAIN posted : posted[i].do = "finish" => posted[i].session \in Nat /\ posted[i].session <= sessionId
  BY PostsTyped DEF Posts, Post
<1>3. \A i \in DOMAIN posted' : posted'[i].do = "finish" => posted'[i].session <= sessionId'
  BY <1>1, <1>2 DEF KeepsSession, TypeOK
<1>4. ASSUME NEW i \in DOMAIN posted', Finishes(posted'[i], sessionId'), state' # "Idle"
      PROVE  /\ OfSession(posted[i + k]) /\ output' = output
             /\ \A o \in Outputs : phase[o] # "active" => phase'[o] # "active"
  BY <1>1, <1>2, <1>4 DEF Finishes, OfSession, KeepsSession, TypeOK
<1>5. ASSUME NEW i \in DOMAIN posted', Finishes(posted'[i], sessionId'), state' # "Idle"
      PROVE  phase'[output'] # "active"
  <2>1. state # "Idle" /\ output' = output /\ phase[output] # "active"
    BY <1>1, <1>4, <1>5 DEF Posts, OfSession
  <2> QED BY <1>4, <1>5, <2>1 DEF Session, TypeOK
<1>6. ASSUME NEW i \in DOMAIN posted', NEW j \in DOMAIN posted', Finishes(posted'[i], sessionId'), state' # "Idle", i < j
      PROVE  posted'[j].do # "restart"
  <2>1. i + k < j + k
    BY <1>1, <1>6
  <2> QED BY <1>1, <1>4, <1>6, <2>1 DEF Posts
<1>7. \A i \in DOMAIN posted' : posted'[i].do = "restart" /\ restart' # "no" => posted'[i].withMain = (restart' = "main")
  BY <1>1 DEF Posts
<1> QED BY <1>3, <1>5, <1>6, <1>7 DEF Posts, OfSession, Finishes

(* An encode error ends the session whose post it is, and posts the restart. *)
LEMMA AgainPosts ==
    ASSUME TypeOK, Session, Posts, posted # <<>>, OfSession(Head(posted)), sessionId' = sessionId + 1, state' = "Idle",
           posted' = Append(Tail(posted), [do |-> "restart", withMain |-> startedWithMain]),
           restart' = IF startedWithMain THEN "main" ELSE "hand"
    PROVE  Posts'
<1> DEFINE t == Tail(posted)
           again == [do |-> "restart", withMain |-> startedWithMain]
<1>1. /\ t \in Seq(Post) /\ 1 \in DOMAIN posted /\ Head(posted) = posted[1]
      /\ \A i \in DOMAIN t : i \in Nat /\ i + 1 \in DOMAIN posted /\ i + 1 # 1 /\ t[i] = posted[i + 1]
  BY PostsTyped, TailAt, TailTyped
<1>2. /\ DOMAIN posted' = DOMAIN t \cup {Len(t) + 1} /\ \A i \in DOMAIN t : posted'[i] = t[i]
      /\ posted'[Len(t) + 1] = again
  BY <1>1, AppendAt
<1>3. again.do = "restart" /\ again.withMain = startedWithMain
  OBVIOUS
<1> HIDE DEF t, again
<1>4. \A i \in DOMAIN t : t[i].do # "restart"
  <2>1. \A i \in DOMAIN t : 1 < i + 1
    BY <1>1
  <2> QED BY <1>1, <2>1 DEF Posts
<1>5. \A i \in DOMAIN t : t[i].do = "finish" => t[i].session \in Nat /\ t[i].session <= sessionId
  BY <1>1, PostsTyped DEF Posts, Post
<1>6. \A i \in DOMAIN posted' : posted'[i].do = "finish" => posted'[i].session <= sessionId'
  <2>1. sessionId \in Nat /\ sessionId' = sessionId + 1
    BY DEF TypeOK
  <2>2. ASSUME NEW i \in DOMAIN posted', posted'[i].do = "finish"
        PROVE  posted'[i].session \in Nat /\ posted'[i].session <= sessionId
    BY <1>2, <1>3, <1>5, <2>2
  <2> QED BY <2>1, <2>2
<1>7. startedWithMain = (restart' = "main")
  BY DEF TypeOK
<1>8. \A i \in DOMAIN posted' : posted'[i].do = "restart" => posted'[i].withMain = startedWithMain
  BY <1>2, <1>3, <1>4
<1>9. \A i \in DOMAIN posted' : posted'[i].do = "restart" => posted'[i].withMain = (restart' = "main")
  BY <1>7, <1>8
<1> QED BY <1>6, <1>9 DEF Posts, OfSession

(* The session's output stops. *)
LEMMA StopsPosts ==
    ASSUME TypeOK, Session, Posts, NEW o \in Outputs, o = output, NEW code, phase'[o] # "active",
           UNCHANGED <<sessionId, output, state, restart>>,
           posted' = Append(posted, [do |-> "finish", session |-> sessionId, code |-> code])
    PROVE  Posts'
<1> DEFINE end == [do |-> "finish", session |-> sessionId, code |-> code]
<1>1. /\ DOMAIN posted' = DOMAIN posted \cup {Len(posted) + 1} /\ \A i \in DOMAIN posted : posted'[i] = posted[i]
      /\ posted'[Len(posted) + 1] = end
  BY PostsTyped, AppendAt
<1>2. end.do = "finish" /\ end.session = sessionId
  OBVIOUS
<1>3. \A i \in DOMAIN posted : i < Len(posted) + 1
  BY PostsTyped
<1> HIDE DEF end
<1>4. \A i \in DOMAIN posted' : posted'[i].do = "finish" => posted'[i].session <= sessionId'
  BY <1>1, <1>2 DEF Posts, TypeOK
<1>5. \A i, j \in DOMAIN posted' : OfSession(posted'[i]) /\ i < j => posted'[j].do # "restart"
  BY <1>1, <1>2, <1>3 DEF Posts
<1>6. \A i \in DOMAIN posted' : posted'[i].do = "restart" => i \in DOMAIN posted /\ posted'[i] = posted[i]
  BY <1>1, <1>2
<1>7. \A i \in DOMAIN posted' : posted'[i].do = "restart" /\ restart' # "no" => posted'[i].withMain = (restart' = "main")
  BY <1>6 DEF Posts
<1> QED BY <1>4, <1>5, <1>7 DEF Posts, OfSession


LEMMA FinishPosts ==
    ASSUME TypeOK, Session, Posts, posted # <<>>, OfSession(Head(posted)),
           FinishSession(state, Head(posted).code, Tail(posted))
    PROVE  Posts'
<1>1. sessionId' = sessionId + 1 /\ state' = "Idle"
  BY DEF FinishSession, Detach
<1>2. CASE state = "Running" /\ Restarts(Head(posted).code)
  <2>1. /\ posted' = Append(Tail(posted), [do |-> "restart", withMain |-> startedWithMain])
        /\ restart' = IF startedWithMain THEN "main" ELSE "hand"
    BY <1>2 DEF FinishSession
  <2> QED BY <1>1, <2>1, AgainPosts
<1>3. CASE ~(state = "Running" /\ Restarts(Head(posted).code))
  <2>1. restart' = "no" /\ posted' = Tail(posted)
    BY <1>3 DEF FinishSession
  <2>2. KeepsSession
    BY <1>1 DEF KeepsSession
  <2> QED BY <2>1, <2>2, FewerPosts
<1> QED BY <1>2, <1>3

LEMMA StopPosts ==
    ASSUME TypeOK, Session, Posts, state # "Idle", Stop
    PROVE  Posts'
<1>1. CASE Active(output)
  BY <1>1, FewerPosts DEF Stop, KeepsSession
<1>2. CASE ~Active(output)
  <2>1. sessionId' = sessionId + 1 /\ posted' = posted /\ restart' = "no"
    BY <1>2 DEF Stop, FinishSession, Detach
  <2> QED BY <2>1, FewerPosts DEF KeepsSession
<1> QED BY <1>1, <1>2

LEMMA StopNowPosts ==
    ASSUME TypeOK, Session, Posts, StopNow, posted' = posted, phase' = phase
    PROVE  Posts'
<1>1. restart' = "no" /\ KeepsSession
  BY DEF StopNow, Detach, KeepsSession
<1> QED BY <1>1, FewerPosts

LEMMA SamePosts ==
    ASSUME TypeOK, Session, Posts, UNCHANGED <<posted, sessionId, output, state, restart, phase>> PROVE Posts'
BY FewerPosts DEF KeepsSession

LEMMA NextPosts ==
    ASSUME TypeOK, Session, Posts, [Next]_vars
    PROVE  Posts'
<1>1. CASE ToggleOn
  BY <1>1, SamePosts DEF ToggleOn
<1>2. CASE ToggleOff
  BY <1>2, StopPosts DEF ToggleOff
<1>3. CASE MainStarts
  BY <1>3, SamePosts DEF MainStarts
<1>4. CASE MainStopping
  <2>1. CASE state = "Running" /\ Stop
    BY <2>1, StopPosts
  <2>2. CASE ~(state = "Running" /\ Stop)
    <3>1. restart' \in {restart, "no"} /\ UNCHANGED <<posted, sessionId, output, state, phase>>
      BY <1>4, <2>2 DEF MainStopping
    <3> QED BY <3>1, FewerPosts DEF KeepsSession
  <2> QED BY <2>1, <2>2
<1>5. CASE ForcedStop
  BY <1>5, StopNowPosts DEF ForcedStop
<1>6. CASE Save
  BY <1>6, SamePosts DEF Save
<1>7. CASE Unload
  BY <1>7, StopNowPosts DEF Unload
<1>8. CASE MainEnds
  BY <1>8, SamePosts DEF MainEnds
<1>9. CASE TryStartFails
  <2>1. UNCHANGED <<posted, sessionId, output, state, restart>>
    BY <1>9 DEF TryStartFails
  <2>2. \A o \in Outputs : phase'[o] = phase[o] \/ phase'[o] = "idle"
    BY <1>9 DEF TryStartFails, TypeOK
  <2> QED BY <2>1, <2>2, FewerPosts DEF KeepsSession
<1>10. CASE TryStartSucceeds
  <2>1. posted' = posted /\ sessionId' = sessionId + 1 /\ restart' = restart
    BY <1>10 DEF TryStartSucceeds
  <2> QED BY <2>1, FewerPosts DEF KeepsSession
<1>11. CASE FinishPosted
  <2>1. posted # <<>> /\ Head(posted).do = "finish"
    BY <1>11 DEF FinishPosted
  <2>2. CASE OwnSession(Head(posted).session)
    <3>1. OfSession(Head(posted)) /\ FinishSession(state, Head(posted).code, Tail(posted))
      BY <1>11, <2>2 DEF FinishPosted, OwnSession, OfSession
    <3> QED BY <2>1, <3>1, FinishPosts
  <2>3. CASE ~OwnSession(Head(posted).session)
    <3>1. posted' = Tail(posted) /\ UNCHANGED <<sessionId, output, state, restart, phase>>
      BY <1>11, <2>3 DEF FinishPosted
    <3> QED BY <2>1, <3>1, FewerPosts DEF KeepsSession
  <2> QED BY <2>2, <2>3
<1>12. CASE RestartPosted
  <2>1. /\ posted # <<>> /\ posted' = Tail(posted) /\ restart' = "no"
        /\ UNCHANGED <<sessionId, output, state, phase>>
    BY <1>12 DEF RestartPosted
  <2> QED BY <2>1, FewerPosts DEF KeepsSession
<1>13. CASE JoinRemux
  <2>1. posted' = <<>>
    BY <1>13 DEF JoinRemux
  <2> QED BY <2>1 DEF Posts
<1>14. CASE JoinReaper
  BY <1>14, SamePosts DEF JoinReaper
<1>15. CASE TakeJob \/ StopOutput \/ ExitWorker
  BY <1>15, SamePosts DEF TakeJob, StopOutput, ExitWorker, OnlyReaper
<1>16. CASE Release
  <2>1. UNCHANGED <<posted, sessionId, output, state, restart>>
    BY <1>16 DEF Release, OnlyReaper
  <2>2. \A o \in Outputs : phase'[o] = phase[o] \/ phase'[o] = "absent"
    BY <1>16 DEF Release, TypeOK
  <2> QED BY <2>1, <2>2, FewerPosts DEF KeepsSession
<1>17. ASSUME NEW o \in Outputs, OutputStops(o) PROVE Posts'
  <2>1. /\ \A u \in Outputs : phase'[u] = phase[u] \/ phase'[u] = "closing"
        /\ phase'[o] = "closing" /\ UNCHANGED <<sessionId, output, state, restart>>
    BY <1>17 DEF OutputStops, OnlyOutput, TypeOK
  <2>2. CASE posted' = posted
    BY <2>1, <2>2, FewerPosts DEF KeepsSession
  <2>3. CASE posted' # posted
    <3>1. PICK code : posted' = Append(posted, [do |-> "finish", session |-> sessionId, code |-> code])
      BY <1>17, <2>3 DEF OutputStops
    <3>2. o = output
      BY <1>17, <2>3 DEF OutputStops, Session
    <3> QED BY <2>1, <3>1, <3>2, StopsPosts
  <2> QED BY <2>2, <2>3
<1>18. ASSUME NEW o \in Outputs, OutputEnds(o) PROVE Posts'
  <2>1. /\ \A u \in Outputs : phase'[u] = phase[u] \/ phase'[u] = "idle"
        /\ UNCHANGED <<posted, sessionId, output, state, restart>>
    BY <1>18 DEF OutputEnds, OnlyOutput, TypeOK
  <2> QED BY <2>1, FewerPosts DEF KeepsSession
<1>19. ASSUME NEW o \in Outputs, ClipBegins(o) \/ ClipEnds(o) PROVE Posts'
  BY <1>19, SamePosts DEF ClipBegins, ClipEnds, OnlyOutput
<1>20. CASE RemuxTake \/ RemuxAborts \/ RemuxEnds
  BY <1>20, SamePosts DEF RemuxTake, RemuxAborts, RemuxEnds, OnlyRemux
<1>21. CASE UNCHANGED vars
  BY <1>21, SamePosts DEF vars
<1> QED BY <1>1, <1>2, <1>3, <1>4, <1>5, <1>6, <1>7, <1>8, <1>9, <1>10, <1>11, <1>12, <1>13, <1>14,
           <1>15, <1>16, <1>17, <1>18, <1>19, <1>20, <1>21
        DEF Next, UIEvent, UIWork, Worker, OutputThread


-----------------------------------------------------------------------------
(* The unload.                                                             *)

LEMMA UpUnloading ==
    ASSUME Unloading, module = "up", module' = "up", UNCHANGED <<shuttingDown, exited>>
    PROVE  Unloading'
BY DEF Unloading

LEMMA SameUnloading ==
    ASSUME Unloading, UNCHANGED <<module, state, attempt, queue, running, shuttingDown, exited>> PROVE Unloading'
BY DEF Unloading, Working

LEMMA NextUnloading ==
    ASSUME TypeOK, Session, Unloading, [Next]_vars
    PROVE  Unloading'
<1>1. CASE ToggleOn
  BY <1>1, UpUnloading DEF ToggleOn, UIReady, BeginStart, Enqueued
<1>2. CASE ToggleOff
  BY <1>2, UpUnloading DEF ToggleOff, UIReady, Stop, FinishSession, Detach, Enqueued
<1>3. CASE MainStarts
  BY <1>3, UpUnloading DEF MainStarts, UIReady, BeginStart, Enqueued
<1>4. CASE MainStopping
  BY <1>4, UpUnloading DEF MainStopping, UIReady, Stop, FinishSession, Detach, Enqueued
<1>5. CASE ForcedStop
  BY <1>5, UpUnloading DEF ForcedStop, UIReady, StopNow, Detach, Enqueued
<1>6. CASE Save
  BY <1>6, UpUnloading DEF Save, UIReady
<1>7. CASE Unload
  <2>1. module = "up" /\ module' = "joining" /\ ~attempt.going /\ attempt' = attempt /\ StopNow
    BY <1>7 DEF Unload, UIReady
  <2>2. state' = "Idle" /\ UNCHANGED <<shuttingDown, exited>>
    BY <2>1 DEF StopNow, Detach, Enqueued
  <2> QED BY <2>1, <2>2 DEF Unloading
<1>8. CASE MainEnds
  BY <1>8, SameUnloading DEF MainEnds
<1>9. CASE TryStartFails \/ TryStartSucceeds
  <2>1. module = "up"
    BY <1>9 DEF TryStartFails, TryStartSucceeds, Unloading
  <2> QED BY <1>9, <2>1, UpUnloading DEF TryStartFails, TryStartSucceeds, AttemptFails
<1>10. CASE FinishPosted
  BY <1>10, UpUnloading DEF FinishPosted, UIReady, FinishSession, Detach, Enqueued
<1>11. CASE RestartPosted
  BY <1>11, UpUnloading DEF RestartPosted, UIReady, BeginStart, Enqueued
<1>12. CASE JoinRemux
  <2>1. module = "joining" /\ module' = "draining" /\ shuttingDown' = TRUE
        /\ UNCHANGED <<state, attempt, queue, running, exited>>
    BY <1>12 DEF JoinRemux, RequestShutdown
  <2> QED BY <2>1 DEF Unloading, Working
<1>13. CASE JoinReaper
  <2>1. module = "draining" /\ module' = "unloaded" /\ exited
        /\ UNCHANGED <<state, attempt, queue, running, shuttingDown, exited>>
    BY <1>13 DEF JoinReaper
  <2> QED BY <2>1 DEF Unloading, Working
<1>14. CASE TakeJob
  <2>1. ~exited /\ UNCHANGED <<module, state, attempt, shuttingDown, exited>>
    BY <1>14 DEF TakeJob, Take, OnlyReaper
  <2> QED BY <2>1 DEF Unloading
<1>15. CASE StopOutput
  BY <1>15, SameUnloading DEF StopOutput, OnlyReaper
<1>16. CASE Release
  <2>1. running' = NoJob /\ UNCHANGED <<module, state, attempt, queue, shuttingDown, exited>>
    BY <1>16 DEF Release, Finish, OnlyReaper
  <2> QED BY <2>1 DEF Unloading, Working
<1>17. CASE ExitWorker
  <2>1. /\ shuttingDown /\ running = NoJob /\ queue = <<>> /\ exited' = TRUE
        /\ UNCHANGED <<module, state, attempt, queue, running, shuttingDown>>
    BY <1>17 DEF ExitWorker, Exit, OnlyReaper
  <2> QED BY <2>1 DEF Unloading, Working
<1>18. ASSUME NEW o \in Outputs, OutputThread(o) PROVE Unloading'
  BY <1>18, SameUnloading DEF OutputThread, OutputStops, OutputEnds, ClipBegins, ClipEnds, OnlyOutput
<1>19. CASE RemuxTake \/ RemuxAborts \/ RemuxEnds
  BY <1>19, SameUnloading DEF RemuxTake, RemuxAborts, RemuxEnds, OnlyRemux
<1>20. CASE UNCHANGED vars
  BY <1>20, SameUnloading DEF vars
<1> QED BY <1>1, <1>2, <1>3, <1>4, <1>5, <1>6, <1>7, <1>8, <1>9, <1>10, <1>11, <1>12, <1>13, <1>14,
           <1>15, <1>16, <1>17, <1>18, <1>19, <1>20 DEF Next, UIEvent, UIWork, Worker

-----------------------------------------------------------------------------
(* The presses.                                                            *)

LEMMA CalmPresses ==
    ASSUME Presses, pending' \in {pending, 0}, UNCHANGED <<want, writing, presses>> PROVE Presses'
BY DEF Presses

LEMMA NextPresses ==
    ASSUME TypeOK, Presses, [Next]_vars
    PROVE  Presses'
<1>1. CASE ToggleOn \/ MainStarts \/ RestartPosted
  BY <1>1, CalmPresses DEF ToggleOn, MainStarts, RestartPosted
<1>2. CASE ToggleOff
  BY <1>2, CalmPresses DEF ToggleOff, Stop, FinishSession, Detach
<1>3. CASE MainStopping
  BY <1>3, CalmPresses DEF MainStopping, Stop, FinishSession, Detach
<1>4. CASE ForcedStop \/ Unload
  BY <1>4, CalmPresses DEF ForcedStop, Unload, StopNow, Detach
<1>5. CASE Save
  <2>1. /\ presses' = presses + 1 /\ pending' = presses + 1 /\ writing' = writing
        /\ want' = want \/ want' = [want EXCEPT ![output] = presses + 1]
    BY <1>5 DEF Save, Named
  <2>2. \A o \in Outputs : want'[o] = want[o] \/ want'[o] = presses + 1
    BY <2>1 DEF TypeOK
  <2>3. \A o \in Outputs : /\ want[o] # None => want[o] \in Nat
                           /\ writing[o] # None => writing[o] \in Nat
    BY DEF TypeOK
  <2>4. presses \in Nat /\ presses < presses + 1
    BY DEF TypeOK
  <2> QED BY <2>1, <2>2, <2>3, <2>4 DEF Presses
<1>6. CASE MainEnds \/ TryStartFails \/ TryStartSucceeds \/ JoinRemux \/ JoinReaper
  BY <1>6, CalmPresses DEF MainEnds, TryStartFails, TryStartSucceeds, JoinRemux, JoinReaper
<1>7. CASE FinishPosted
  BY <1>7, CalmPresses DEF FinishPosted, FinishSession, Detach
<1>8. CASE Worker
  BY <1>8, CalmPresses DEF Worker, TakeJob, StopOutput, Release, ExitWorker, OnlyReaper
<1>9. ASSUME NEW o \in Outputs, OutputStops(o) \/ OutputEnds(o) \/ ClipEnds(o) PROVE Presses'
  <2>1. /\ pending' \in {pending, 0} /\ presses' = presses
        /\ \A u \in Outputs : want'[u] \in {want[u], None} /\ writing'[u] \in {writing[u], None}
    BY <1>9 DEF OutputStops, OutputEnds, ClipEnds, OnlyOutput, TypeOK
  <2> QED BY <2>1 DEF Presses
<1>10. ASSUME NEW o \in Outputs, ClipBegins(o) PROVE Presses'
  <2>1. /\ pending' = pending /\ presses' = presses /\ presses >= 0
        /\ \A u \in Outputs : want'[u] \in {want[u], None} /\ writing'[u] \in {writing[u], want[u], 0}
    BY <1>10 DEF ClipBegins, OnlyOutput, TypeOK
  <2> QED BY <2>1 DEF Presses
<1>11. CASE RemuxTake \/ RemuxAborts \/ RemuxEnds
  BY <1>11, CalmPresses DEF RemuxTake, RemuxAborts, RemuxEnds, OnlyRemux
<1>12. CASE UNCHANGED vars
  BY <1>12, CalmPresses DEF vars
<1> QED BY <1>1, <1>2, <1>3, <1>4, <1>5, <1>6, <1>7, <1>8, <1>9, <1>10, <1>11, <1>12
        DEF Next, UIEvent, UIWork, OutputThread

-----------------------------------------------------------------------------
(* The theorems.                                                           *)

LEMMA InitInv == Init => OutputInv
<1> SUFFICES ASSUME Init PROVE OutputInv
  OBVIOUS
<1>1. TypeOK
  BY InitTyped
<1>2. /\ queue = <<>> /\ running = NoJob /\ shuttingDown = FALSE /\ exited = FALSE
      /\ state = "Idle" /\ output = None /\ attempt.going = FALSE /\ module = "up" /\ canvasRefs = 0
      /\ posted = <<>> /\ restart = "no" /\ connected = {} /\ pending = 0
  BY DEF Init, ReaperInit, NoAttempt
<1>3. \A o \in Outputs : phase[o] = "absent" /\ want[o] = None /\ writing[o] = None
  BY DEF Init
<1>4. HeldNow
  BY <1>2, <1>3 DEF HeldNow, Held, HeldOnce, Holders, JobFits
<1>5. References
  <2>1. QueueRefs = 0
    BY <1>2, RefsEmpty DEF QueueRefs, QueuedRefs, Refs
  <2>2. JobRefs = 0 /\ SessionRefs = 0 /\ StartRefs = 0
    BY <1>2 DEF JobRefs, SessionRefs, StartRefs, OneIf, Working
  <2> QED BY <1>2, <2>1, <2>2 DEF References
<1>6. Session /\ Posts /\ Wished
  BY <1>2 DEF Session, Posts, Wished
<1>7. Unloading /\ Presses
  BY <1>2, <1>3 DEF Unloading, Presses
<1> QED BY <1>1, <1>4, <1>5, <1>6, <1>7 DEF OutputInv

(* The inductive invariant: every output and every reference to the canvas has
   one holder, what a job releases without force has stopped, and a session, a
   start and a restart are each what somebody wants. *)
THEOREM OutputInvCorrect == Spec => []OutputInv
<1>1. OutputInv /\ [Next]_vars => OutputInv'
  <2> SUFFICES ASSUME OutputInv, [Next]_vars PROVE OutputInv'
    OBVIOUS
  <2>1. TypeOK'
    BY InvCounted, NextTyped DEF OutputInv
  <2>2. HeldNow' /\ References'
    BY NextHolds DEF OutputInv
  <2>3. Session' /\ Posts' /\ Wished'
    BY NextSession, NextPosts, NextWished DEF OutputInv
  <2>4. Unloading' /\ Presses'
    BY NextUnloading, NextPresses DEF OutputInv
  <2> QED BY <2>1, <2>2, <2>3, <2>4 DEF OutputInv
<1> QED BY <1>1, InitInv, PTL DEF Spec

LEMMA InvHolds == OutputInv => SessionsHeld
<1> SUFFICES ASSUME OutputInv PROVE SessionsHeld
  OBVIOUS
<1>0. /\ TypeOK /\ Held(queue, running, output, phase) /\ References
      /\ Session /\ Wished /\ Unloading
  BY DEF OutputInv, HeldNow
<1>1. CanvasRefsHeld
  <2>1. canvasRefs = Cardinality(QueuedRefs) + OneIf(Working /\ running.canvas)
                     + OneIf(state # "Idle") + OneIf(attempt.going)
    BY <1>0 DEF References, QueueRefs, JobRefs, SessionRefs, StartRefs
  <2>2. ASSUME NEW o \in Outputs, phase[o] \in {"active", "closing"}
        PROVE  \/ state # "Idle" /\ output = o
               \/ Working /\ running.output = o /\ running.canvas
               \/ \E i \in QueuedRefs : queue[i].output = o
    <3>1. output = o \/ Runs(running, o) \/ \E i \in DOMAIN queue : queue[i].output = o
      BY <1>0, <2>2 DEF Held, Holders
    <3>2. o # None
      BY VerticalConstants
    <3>3. \A j : j.output = o /\ JobFits(j, phase) => j.canvas
      BY <2>2, <3>2 DEF JobFits
    <3> QED BY <1>0, <3>1, <3>2, <3>3 DEF Session, Runs, Working, Held, QueuedRefs
  <2> QED BY <2>1, <2>2 DEF CanvasRefsHeld
<1>2. GracefulEndsStopped
  BY <1>0 DEF GracefulEndsStopped, Held, JobFits, Working
<1>3. RunsOnlyWanted
  BY <1>0 DEF RunsOnlyWanted, Wished
<1>4. UnloadReleases
  <2> SUFFICES ASSUME module = "unloaded" PROVE canvasRefs = 0 /\ \A o \in Outputs : phase[o] = "absent"
    BY DEF UnloadReleases
  <2>1. exited /\ queue = <<>> /\ ~Working /\ state = "Idle" /\ ~attempt.going /\ output = None
    BY <1>0 DEF Unloading, Session
  <2>2. QueueRefs = 0 /\ JobRefs = 0 /\ SessionRefs = 0 /\ StartRefs = 0
    BY <2>1, RefsEmpty DEF QueueRefs, QueuedRefs, Refs, JobRefs, SessionRefs, StartRefs, OneIf
  <2>3. canvasRefs = 0
    BY <1>0, <2>2 DEF References
  <2>4. ASSUME NEW o \in Outputs PROVE phase[o] = "absent"
    BY <1>0, <2>1, VerticalConstants DEF Held, Holders, Runs, Working
  <2> QED BY <2>3, <2>4
<1> QED BY <1>0, <1>1, <1>2, <1>3, <1>4 DEF SessionsHeld

(* Every reference to the canvas has one holder who releases it, and an output
   that encodes one of its own; what is reaped without force has stopped; what
   runs is wanted; and after the unload nothing is left (VerticalRecorder.cpp,
   VerticalReplayBuffer.cpp). *)
THEOREM SessionsHeldCorrect == Spec => []SessionsHeld
BY OutputInvCorrect, InvHolds, PTL

(* A clip that is being written while a press is pending was asked for by that
   press or by an earlier one: on_output_saved() names no clip after a press
   older than its own. *)
THEOREM ClipNotStaleCorrect == Spec => []ClipNotStale
<1>1. OutputInv => ClipNotStale
  BY DEF OutputInv, TypeOK, Presses, ClipNotStale
<1> QED BY <1>1, OutputInvCorrect, PTL

==================================================================================
