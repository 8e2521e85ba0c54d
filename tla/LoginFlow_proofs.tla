---------------------------- MODULE LoginFlow_proofs ----------------------------
(***************************************************************************)
(* Which results of a login count, for any number of starts, connections   *)
(* and late posts.  A start is alive only while the flow is its own: that  *)
(* is what cancel(), start() and finish() keep, and all that the posted    *)
(* results are checked against.                                            *)
(***************************************************************************)
EXTENDS LoginFlow, FiniteSetTheorems, TLAPS

Places == {"none", "poll", "reading", "closing", "posting", "ended"}
Finds == {"nothing", "failed", "code"}

(* What the proof needs of the types. *)
Typed ==
    /\ flow \in [running : BOOLEAN, login : Logins \cup {None},
                 verifier : Logins \cup {None}, done : Logins \cup {None}]
    /\ listener \in [Logins -> [at : Places, found : Finds, requests : Nat]]
    /\ calls \in [Logins -> Nat]
    /\ alive \subseteq Logins /\ cancelled \subseteq Logins

Started == {r \in Logins : listener[r].at # "none"}

(* Starts are numbered in order, and there is a number left for the one under way. *)
InOrder == \E n \in 0..MaxLogins : Started = 1..n /\ (ui = "start" => n < MaxLogins)

(* What no start has touched yet. *)
Fresh ==
    /\ \A r \in Logins \ Started : calls[r] = 0 /\ r \notin cancelled
    /\ flow.running => flow.login \in Started

(* A result counts only for the start that is running, which was told nothing yet. *)
OnlyCurrent ==
    \A r \in alive : /\ ui = "free" /\ flow.running
                     /\ r = flow.login /\ r = flow.done
                     /\ calls[r] = 0 /\ r \notin cancelled

FlowInv == Typed /\ InOrder /\ Fresh /\ OnlyCurrent

-----------------------------------------------------------------------------
LEMMA InitFlow == Init => FlowInv
<1> SUFFICES ASSUME Init PROVE FlowInv
  OBVIOUS
<1>1. Typed
  BY DEF Init, Typed, NoFlow, Places, Finds
<1>2. Started = 1..0
  BY DEF Init, Started
<1>3. InOrder
  BY <1>2, LoginConstants, SMTT(30) DEF InOrder, Init
<1>4. Fresh /\ OnlyCurrent
  BY DEF Init, Fresh, OnlyCurrent, NoFlow
<1> QED BY <1>1, <1>3, <1>4 DEF FlowInv

(* Steps of the threads, and of the user, that leave the flow alone. *)
LEMMA Elsewhere ==
    ASSUME FlowInv, UNCHANGED <<flow, alive, listener, calls, cancelled>>,
           ui' = ui
    PROVE  FlowInv'
BY DEF FlowInv, Typed, InOrder, Fresh, OnlyCurrent, Started

(* A thread that goes on: which starts there have been does not change. *)
LEMMA ListenerGoesOn ==
    ASSUME FlowInv, NEW r \in Logins, NEW at \in Places \ {"none"}, NEW found \in Finds,
           listener[r].at # "none",
           NEW requests \in Nat,
           listener' = [listener EXCEPT ![r] = [at |-> at, found |-> found, requests |-> requests]],
           UNCHANGED <<ui, flow, alive, calls, cancelled>>
    PROVE  FlowInv'
<1>1. Typed'
  BY DEF FlowInv, Typed
<1>2. Started' = Started
  BY DEF FlowInv, Typed, Started
<1> QED BY <1>1, <1>2 DEF FlowInv, InOrder, Fresh, OnlyCurrent

(* The UI thread goes into a join: nothing that is posted counts any more. *)
LEMMA JoinBegins ==
    ASSUME FlowInv, Cancelling, ui' # "free",
           ui' = "start" => Cardinality(Started) < MaxLogins,
           UNCHANGED <<flow, listener, calls, cancelled>>
    PROVE  FlowInv'
<1>1. alive' = {}
  BY DEF FlowInv, OnlyCurrent, Cancelling
<1>2. Typed' /\ Fresh' /\ OnlyCurrent'
  BY <1>1 DEF FlowInv, Typed, Fresh, OnlyCurrent, Started
<1>3. InOrder'
  <2>1. PICK n \in 0..MaxLogins : Started = 1..n
    BY DEF FlowInv, InOrder
  <2>2. Cardinality(Started) = n
    BY <2>1, FS_Interval, LoginConstants
  <2> QED BY <2>1, <2>2 DEF InOrder, Started
<1> QED BY <1>2, <1>3 DEF FlowInv

(* finish() for a result that counts. *)
LEMMA FinishStep ==
    ASSUME FlowInv, NEW p, Wanted(p), Finish, UNCHANGED <<ui, listener, cancelled>>
    PROVE  FlowInv'
<1>1. /\ p.login \in Logins /\ flow.login = p.login /\ flow.done = p.login
      /\ flow.running /\ alive' = {}
  BY DEF FlowInv, OnlyCurrent, Typed, Wanted, Finish
<1>2. /\ flow' = [flow EXCEPT !.running = FALSE, !.verifier = None, !.done = None]
      /\ calls' = [calls EXCEPT ![p.login] = @ + 1]
  BY <1>1, LoginConstants DEF Finish, None, Logins
<1>3. Typed'
  <2>1. flow' \in [running : BOOLEAN, login : Logins \cup {None},
                   verifier : Logins \cup {None}, done : Logins \cup {None}]
    BY <1>2 DEF FlowInv, Typed
  <2>2. calls' \in [Logins -> Nat]
    BY <1>1, <1>2 DEF FlowInv, Typed
  <2> QED BY <1>1, <2>1, <2>2 DEF FlowInv, Typed
<1>4. Started' = Started /\ p.login \in Started
  BY <1>1 DEF FlowInv, Fresh, Started
<1>5. Fresh'
  BY <1>1, <1>2, <1>3, <1>4 DEF FlowInv, Fresh, Typed
<1> QED BY <1>1, <1>3, <1>4, <1>5 DEF FlowInv, InOrder, OnlyCurrent

(* start() takes the next number, which is fresh. *)
LEMMA StartStep ==
    ASSUME FlowInv, StartWaits
    PROVE  FlowInv'
<1>1. PICK n \in 0..MaxLogins : Started = 1..n /\ n < MaxLogins
  BY DEF FlowInv, InOrder, StartWaits
<1> DEFINE r == n + 1
<1>2. r \in Logins /\ r \notin Started /\ Started \cup {r} = 1..r
  BY <1>1, LoginConstants DEF Logins
<1>3. Cardinality({x \in Logins : listener[x].at # "none"}) + 1 = r
  <2>1. Cardinality(1..n) = n
    BY FS_Interval, LoginConstants
  <2> QED BY <1>1, <2>1 DEF Started
<1>4. /\ flow' = [running |-> TRUE, login |-> r, verifier |-> r, done |-> r]
      /\ alive' = alive \cup {r}
      /\ listener' = [listener EXCEPT ![r].at = "poll"]
      /\ ui = "start" /\ ui' = "free" /\ UNCHANGED <<calls, cancelled>>
  BY <1>3 DEF StartWaits, history
<1>5. alive' = {r}
  BY <1>4 DEF FlowInv, OnlyCurrent
<1> HIDE DEF r
<1>6. Typed'
  BY <1>2, <1>4, <1>5 DEF FlowInv, Typed, Places, Finds
<1>7. Started' = Started \cup {r}
  BY <1>2, <1>4 DEF FlowInv, Typed, Started
<1>8. InOrder'
  <2>1. r \in 0..MaxLogins /\ Started' = 1..r
    BY <1>1, <1>2, <1>7, LoginConstants DEF r
  <2> QED BY <2>1, <1>4 DEF InOrder
<1>9. Fresh' /\ OnlyCurrent'
  BY <1>2, <1>4, <1>5, <1>7 DEF FlowInv, Fresh, OnlyCurrent
<1> QED BY <1>6, <1>8, <1>9 DEF FlowInv

(* A call comes back from its join. *)
LEMMA JoinEnds ==
    ASSUME FlowInv, StartFails \/ CancelJoined
    PROVE  FlowInv'
<1>1. /\ ui # "free" /\ ui' = "free" /\ UNCHANGED <<alive, listener, calls>>
      /\ flow' \in {NoFlow, [NoFlow EXCEPT !.login = flow.login]}
      /\ cancelled' \in {cancelled, CancelledNow}
  BY DEF StartFails, CancelJoined, history
<1>2. alive' = {}
  BY <1>1 DEF FlowInv, OnlyCurrent
<1>3. Started' = Started
  BY <1>1 DEF Started
<1>4. flow.running => flow.login \in Started
  BY DEF FlowInv, Fresh
<1>5. CancelledNow \subseteq cancelled \cup Started
  BY <1>4 DEF CancelledNow
<1>6. Typed'
  <2>1. flow' \in [running : BOOLEAN, login : Logins \cup {None},
                   verifier : Logins \cup {None}, done : Logins \cup {None}]
    <3>1. flow.login \in Logins \cup {None}
      BY DEF FlowInv, Typed
    <3>2. flow' = [running |-> FALSE, login |-> None, verifier |-> None, done |-> None]
          \/ flow' = [running |-> FALSE, login |-> flow.login, verifier |-> None, done |-> None]
      BY <1>1 DEF NoFlow
    <3>3. \A l \in Logins \cup {None} :
             [running |-> FALSE, login |-> l, verifier |-> None, done |-> None]
               \in [running : BOOLEAN, login : Logins \cup {None},
                    verifier : Logins \cup {None}, done : Logins \cup {None}]
      OBVIOUS
    <3>4. None \in Logins \cup {None}
      OBVIOUS
    <3> QED BY <3>1, <3>2, <3>3, <3>4
  <2>2. cancelled' \subseteq Logins
    BY <1>1, <1>5 DEF FlowInv, Typed, Started
  <2> QED BY <1>1, <1>2, <2>1, <2>2 DEF FlowInv, Typed
<1>7. Fresh'
  BY <1>1, <1>3, <1>5 DEF FlowInv, Fresh, NoFlow
<1> QED BY <1>1, <1>2, <1>3, <1>6, <1>7 DEF FlowInv, InOrder, OnlyCurrent

-----------------------------------------------------------------------------
LEMMA FlowStep == FlowInv /\ [Next]_vars => FlowInv'
<1> SUFFICES ASSUME FlowInv, [Next]_vars PROVE FlowInv'
  OBVIOUS
<1>1. CASE LoginClicked
  BY <1>1, JoinBegins DEF LoginClicked, Started, history
<1>2. CASE CancelClicked \/ CloseDialog \/ Exit
  BY <1>2, JoinBegins DEF CancelClicked, CloseDialog, Exit, history
<1>3. CASE OpenDialog \/ ChangeKeySource \/ Import \/ Disconnect
  BY <1>3, Elsewhere DEF OpenDialog, ChangeKeySource, Import, Disconnect, history
<1>4. CASE StartFails \/ CancelJoined
  BY <1>4, JoinEnds
<1>5. CASE StartWaits
  BY <1>5, StartStep
<1>6. CASE ListenerDone
  <2> DEFINE p == Head(posts)
  <2>1. CASE ~Wanted(p)
    BY <1>6, <2>1, Elsewhere DEF ListenerDone
  <2>2. CASE Wanted(p) /\ p.found # "code"
    BY <1>6, <2>2, FinishStep DEF ListenerDone
  <2>3. CASE Wanted(p) /\ p.found = "code"
    <3>1. /\ flow' = [flow EXCEPT !.verifier = None]
          /\ UNCHANGED <<ui, alive, listener, calls, cancelled>>
      BY <1>6, <2>3 DEF ListenerDone
    <3> QED BY <3>1 DEF FlowInv, Typed, InOrder, Fresh, OnlyCurrent, Started
  <2> QED BY <2>1, <2>2, <2>3
<1>7. CASE ExchangeDone
  <2> DEFINE p == Head(posts)
  <2>1. CASE ~Wanted(p)
    BY <1>7, <2>1, Elsewhere DEF ExchangeDone
  <2>2. CASE Wanted(p)
    BY <1>7, <2>2, FinishStep DEF ExchangeDone
  <2> QED BY <2>1, <2>2
<1>8. CASE Exchange
  BY <1>8, Elsewhere DEF Exchange, history
<1>9. ASSUME NEW r \in Logins, Listener(r) PROVE FlowInv'
  <2>1. listener[r] \in [at : Places, found : Finds, requests : Nat]
    BY DEF FlowInv, Typed
  <2>2. /\ listener[r].at # "none"
        /\ UNCHANGED <<ui, flow, alive, calls, cancelled>>
        /\ \E at \in Places \ {"none"}, found \in Finds, requests \in Nat :
              listener' = [listener EXCEPT ![r] = [at |-> at, found |-> found, requests |-> requests]]
    <3>1. \A at, found : Advance(r, at, found) =>
             listener' = [listener EXCEPT ![r] = [at |-> at, found |-> found,
                                                  requests |-> listener[r].requests]]
      BY <2>1 DEF Advance, FlowInv, Typed
    <3>2. CASE ListenerLeaves(r) \/ ListenerGivesUp(r)
      BY <2>1, <3>1, <3>2 DEF ListenerLeaves, ListenerGivesUp, Places, Finds, history
    <3>3. CASE Accept(r)
      <4>1. listener' = [listener EXCEPT ![r] = [at |-> "reading", found |-> listener[r].found,
                                                 requests |-> listener[r].requests + 1]]
        BY <2>1, <3>3 DEF Accept, FlowInv, Typed
      <4>2. listener[r].found \in Finds /\ listener[r].requests + 1 \in Nat /\ "reading" \in Places \ {"none"}
        BY <2>1 DEF Places
      <4>3. listener[r].at # "none" /\ UNCHANGED <<ui, flow, alive, calls, cancelled>>
        BY <3>3 DEF Accept, history
      <4> QED BY <4>1, <4>2, <4>3
    <3>4. CASE Read(r)
      <4>1. \E at \in {"closing", "poll"}, found \in {"code", "failed", "nothing"} : Advance(r, at, found)
        BY <3>4 DEF Read
      <4> QED BY <2>1, <3>1, <3>4, <4>1 DEF Read, Places, Finds, history
    <3>5. CASE CloseSocket(r) \/ PostOutcome(r)
      <4>1. \E at \in {"posting", "ended"} : Advance(r, at, listener[r].found)
        BY <3>5 DEF CloseSocket, PostOutcome
      <4>2. listener[r].at # "none" /\ UNCHANGED <<ui, flow, alive, calls, cancelled>>
        BY <3>5 DEF CloseSocket, PostOutcome, history
      <4> QED BY <2>1, <3>1, <4>1, <4>2 DEF Places
    <3> QED BY <1>9, <3>2, <3>3, <3>4, <3>5 DEF Listener
  <2> QED BY <2>2, ListenerGoesOn
<1>10. CASE UNCHANGED vars
  BY <1>10, Elsewhere DEF vars, history
<1> QED BY <1>1, <1>2, <1>3, <1>4, <1>5, <1>6, <1>7, <1>8, <1>9, <1>10 DEF Next, UIGoesOn

LEMMA FlowInvCorrect == Spec => []FlowInv
BY InitFlow, FlowStep, PTL DEF Spec

-----------------------------------------------------------------------------
(* Only a result that counts makes done run, and it is the result of its start. *)
LEMMA ToldOnce ==
    ASSUME FlowInv, [Next]_vars, NEW r \in Logins, calls'[r] # calls[r]
    PROVE  calls[r] = 0 /\ r \notin cancelled /\ Head(posts).login = r
<1>1. CASE ListenerDone \/ ExchangeDone
  <2> DEFINE p == Head(posts)
  <2>1. Wanted(p) /\ Finish
    BY <1>1 DEF ListenerDone, ExchangeDone
  <2>2. /\ p.login \in Logins /\ flow.done = p.login
        /\ calls[p.login] = 0 /\ p.login \notin cancelled
    BY <2>1 DEF Wanted, FlowInv, OnlyCurrent, Typed
  <2>3. calls' = [calls EXCEPT ![p.login] = @ + 1]
    BY <2>1, <2>2, LoginConstants DEF Finish, None, Logins
  <2> QED BY <2>2, <2>3 DEF FlowInv, Typed
<1>2. CASE ~(ListenerDone \/ ExchangeDone)
  <2>1. UNCHANGED calls
    BY <1>2 DEF Next, vars, history, UIGoesOn, LoginClicked, CancelClicked, CloseDialog, OpenDialog, Exit,
                ChangeKeySource, Import, Disconnect, StartFails, StartWaits, CancelJoined, Exchange,
                Listener, ListenerLeaves, ListenerGivesUp, Accept, Read, CloseSocket, PostOutcome
  <2> QED BY <2>1
<1> QED BY <1>1, <1>2

(* "done runs exactly once unless cancel() comes first" (StreamlabsLoginFlow.hpp):
   for the result of its own start, once, and not after a cancel. *)
THEOREM DoneCorrect == Spec => OwnResultOnce
<1>1. FlowInv /\ [Next]_vars =>
        [\A r \in Logins : calls'[r] # calls[r] =>
            calls[r] = 0 /\ r \notin cancelled /\ Head(posts).login = r]_vars
  BY ToldOnce
<1> QED BY <1>1, FlowInvCorrect, PTL DEF Spec, OwnResultOnce

(* A token is stored only for the login that runs. *)
THEOREM SavedCorrect == Spec => SavedWhileRunning
<1>1. ASSUME FlowInv, [Next]_vars, token' \in Logins, token' # token
      PROVE  flow.running /\ flow.login = token'
  <2>1. CASE ExchangeDone
    <3> DEFINE p == Head(posts)
    <3>1. Wanted(p) /\ token' = p.login
      BY <1>1, <2>1 DEF ExchangeDone
    <3> QED BY <3>1, <1>1 DEF Wanted, FlowInv, OnlyCurrent
  <2>2. CASE Import \/ Disconnect
    BY <1>1, <2>2, LoginConstants DEF Import, Disconnect, Imported, None, Logins
  <2>3. CASE ~ExchangeDone /\ ~Import /\ ~Disconnect
    BY <1>1, <2>3 DEF Next, vars, history, UIGoesOn, LoginClicked, CancelClicked, CloseDialog, OpenDialog, Exit,
                ChangeKeySource, StartFails, StartWaits, CancelJoined, ListenerDone, Exchange,
                Listener, ListenerLeaves, ListenerGivesUp, Accept, Read, CloseSocket, PostOutcome
  <2> QED BY <2>1, <2>2, <2>3
<1>2. FlowInv /\ [Next]_vars =>
        [token' \in Logins /\ token' # token => flow.running /\ flow.login = token']_vars
  BY <1>1
<1> QED BY <1>2, FlowInvCorrect, PTL DEF Spec, SavedWhileRunning
-----------------------------------------------------------------------------
(* What the dialog shows, also while a call of the UI thread waits in a join: the buttons
   agree with the flow and with the vault until the client is shut down. *)
DialogShows ==
    /\ dialog \in [open : BOOLEAN, page : BOOLEAN, waiting : BOOLEAN, disconnect : BOOLEAN]
    /\ client = "up" =>
          /\ dialog.waiting = flow.running
          /\ dialog.disconnect => token # None
          /\ dialog.page /\ ~dialog.waiting => dialog.disconnect = (token # None)
    /\ ui = "start" => ~flow.running

(* A thread that runs belongs to the last start. *)
LastListener == \A r \in Logins : listener[r].at \notin {"none", "ended"} => flow.login = r

LEMMA InitDialog == Init => LastListener /\ DialogShows
BY DEF Init, LastListener, DialogShows, Closed, NoFlow

(* After a join no listener runs. *)
LEMMA NoneRuns ==
    ASSUME FlowInv, LastListener, Joined
    PROVE  \A r \in Logins : listener[r].at \in {"none", "ended"}
BY DEF LastListener, Joined, FlowInv, Typed

LEMMA LastListenerStep ==
    ASSUME FlowInv, FlowInv', LastListener, [Next]_vars
    PROVE  LastListener'
<1>1. CASE UNCHANGED listener /\ flow'.login = flow.login
  BY <1>1 DEF LastListener
<1>2. CASE StartWaits
  <2>1. PICK r \in Nat : /\ listener' = [listener EXCEPT ![r].at = "poll"]
                         /\ flow' = [running |-> TRUE, login |-> r, verifier |-> r, done |-> r]
    <3>1. PICK n \in 0..MaxLogins : Started = 1..n
      BY DEF FlowInv, InOrder
    <3>2. Cardinality(Started) = n
      BY <3>1, FS_Interval, LoginConstants
    <3>3. Cardinality({x \in Logins : listener[x].at # "none"}) + 1 = n + 1 /\ n + 1 \in Nat
      BY <3>2, LoginConstants DEF Started
    <3>4. /\ listener' = [listener EXCEPT ![n + 1].at = "poll"]
          /\ flow' = [running |-> TRUE, login |-> n + 1, verifier |-> n + 1, done |-> n + 1]
      BY <1>2, <3>3 DEF StartWaits
    <3> QED BY <3>3, <3>4
  <2>2. \A x \in Logins : listener[x].at \in {"none", "ended"}
    BY <1>2, NoneRuns DEF StartWaits
  <2> QED BY <2>1, <2>2 DEF LastListener, FlowInv, Typed
<1>3. CASE CancelJoined
  BY <1>3, NoneRuns DEF CancelJoined, LastListener
<1>4. ASSUME NEW r \in Logins, Listener(r) PROVE LastListener'
  <2>1. listener[r].at \notin {"none", "ended"} /\ UNCHANGED flow
    BY <1>4 DEF Listener, ListenerLeaves, ListenerGivesUp, Accept, Read, CloseSocket, PostOutcome
  <2>2. \A x \in Logins \ {r} : listener'[x] = listener[x]
    BY <1>4 DEF Listener, ListenerLeaves, ListenerGivesUp, Accept, Read, CloseSocket, PostOutcome, Advance,
                FlowInv, Typed
  <2> QED BY <2>1, <2>2 DEF LastListener
<1>5. CASE ListenerDone \/ ExchangeDone
  <2>1. UNCHANGED listener /\ (UNCHANGED flow \/ Finish \/ flow' = [flow EXCEPT !.verifier = None])
    BY <1>5 DEF ListenerDone, ExchangeDone
  <2> QED BY <1>1, <2>1 DEF Finish, FlowInv, Typed
<1>6. CASE StartFails
  BY <1>1, <1>6 DEF StartFails, NoFlow
<1>7. CASE LoginClicked \/ CancelClicked \/ CloseDialog \/ OpenDialog \/ Exit \/ ChangeKeySource
           \/ Import \/ Disconnect \/ Exchange \/ UNCHANGED vars
  BY <1>1, <1>7 DEF LoginClicked, CancelClicked, CloseDialog, OpenDialog, Exit, ChangeKeySource, Import,
                    Disconnect, Exchange, vars
<1> QED BY <1>2, <1>3, <1>4, <1>5, <1>6, <1>7 DEF Next, UIGoesOn

LEMMA DialogStep ==
    ASSUME FlowInv, FlowInv', DialogShows, [Next]_vars
    PROVE  DialogShows'
<1> USE DEF DialogShows
<1>1. CASE UNCHANGED <<dialog, flow, token, client>> /\ (ui' = ui \/ (ui' = "start" => ~flow.running))
  BY <1>1
<1>2. CASE Finish /\ UNCHANGED <<ui, client>>
  <2>1. flow'.running = FALSE
    BY <1>2 DEF Finish, FlowInv, Typed
  <2> QED BY <1>2, <2>1 DEF Finish, Waiting
<1>3. CASE StartWaits
  <2>1. dialog' = Waiting(dialog, TRUE, token) /\ flow'.running = TRUE /\ ui' = "free" /\ UNCHANGED token
    BY <1>3 DEF StartWaits
  <2> QED BY <2>1 DEF Waiting
<1>4. CASE StartFails
  <2>1. flow.running = FALSE
    BY <1>4 DEF StartFails, FlowInv, Typed
  <2> QED BY <1>4, <2>1 DEF StartFails, NoFlow
<1>5. CASE CancelJoined
  <2>1. flow'.running = FALSE /\ UNCHANGED token
    BY <1>5 DEF CancelJoined, NoFlow
  <2>2. CASE ui = "cancel"
    BY <1>5, <2>1, <2>2 DEF CancelJoined, Waiting
  <2>3. CASE ui = "close"
    BY <1>5, <2>1, <2>3 DEF CancelJoined, Closed
  <2>4. CASE ui = "exit"
    BY <1>5, <2>4 DEF CancelJoined
  <2> QED BY <1>5, <2>2, <2>3, <2>4 DEF CancelJoined
<1>6. ASSUME NEW page \in BOOLEAN, KeySource(page), UNCHANGED <<ui, flow, token, client>>
      PROVE  DialogShows'
  BY <1>6 DEF KeySource, Refreshed
<1>7. CASE OpenDialog \/ ChangeKeySource
  BY <1>6, <1>7 DEF OpenDialog, ChangeKeySource
<1>8. CASE Import \/ Disconnect
  BY <1>8 DEF Import, Disconnect, Refreshed
<1>9. CASE ListenerDone \/ ExchangeDone
  <2>1. CASE UNCHANGED <<ui, dialog, token, client>> /\ (UNCHANGED flow \/ flow' = [flow EXCEPT !.verifier = None])
    <3>1. flow'.running = flow.running
      BY <2>1 DEF FlowInv, Typed
    <3> QED BY <2>1, <3>1
  <2> QED BY <1>2, <1>9, <2>1 DEF ListenerDone, ExchangeDone
<1>10. CASE LoginClicked \/ CancelClicked \/ CloseDialog \/ Exit \/ Exchange \/ UNCHANGED vars
  BY <1>1, <1>10 DEF LoginClicked, CancelClicked, CloseDialog, Exit, Exchange, vars
<1>11. ASSUME NEW r \in Logins, Listener(r) PROVE DialogShows'
  BY <1>1, <1>11 DEF Listener, ListenerLeaves, ListenerGivesUp, Accept, Read, CloseSocket, PostOutcome
<1> QED BY <1>3, <1>4, <1>5, <1>7, <1>8, <1>9, <1>10, <1>11 DEF Next, UIGoesOn

(* No thread and no socket outlives its login, and the dialog offers Cancel and Disconnect
   exactly when there is something to cancel or to disconnect. *)
THEOREM ListenerCorrect == Spec => []OneListener
<1>1. LastListener /\ DialogShows => OneListener
  BY DEF LastListener, DialogShows, OneListener
<1>2. FlowInv /\ FlowInv' /\ LastListener /\ DialogShows /\ [Next]_vars => (LastListener /\ DialogShows)'
  BY LastListenerStep, DialogStep
<1> QED BY <1>1, <1>2, InitDialog, FlowInvCorrect, PTL DEF Spec
=================================================================================
