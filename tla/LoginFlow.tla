-------------------------------- MODULE LoginFlow --------------------------------
(***************************************************************************)
(* pipeline/StreamlabsLoginFlow.cpp, driven by ui/EndpointDialog.cpp: the  *)
(* login in the browser.  The listener thread of each start, the UI thread *)
(* with the results posted to it, the worker of StreamlabsClient that      *)
(* exchanges the code, and the exit of OBS.  A start has a number; its     *)
(* shared flags, its code and its verifier are known by that number.       *)
(*                                                                         *)
(* cancel() and start() join the listener: meanwhile the UI thread is in   *)
(* that call and runs nothing else.                                        *)
(***************************************************************************)
EXTENDS StreamlabsLogin, FiniteSets

CONSTANTS
    MaxLogins,      \* bound: starts
    MaxRequests     \* bound: connections a listener accepts

ASSUME LoginConstants == MaxLogins \in Nat /\ MaxRequests \in Nat \ {0}

Logins == 1..MaxLogins
None == 0
Imported == MaxLogins + 1

VARIABLES
    ui,          \* "free", or the call whose join the UI thread is in
    dialog,      \* the dialog: open, showing the Streamlabs page, Cancel instead of Log in
                 \* (waiting), Disconnect enabled
    flow,        \* m_running, the start of m_thread/m_alive/m_cancel, of m_verifier, of m_done
    alive, cancel,   \* starts whose m_alive is true, whose m_cancel is true
    listener,    \* per start: where its thread is, what it found, connections so far
    posts, jobs, \* posted to the UI thread; queued for the client's worker
    client,      \* "up", or "down" after shutdown_and_end_blocking()
    token,       \* what the vault holds: the token of a start, an imported one, or None
    calls,       \* history: per start, how often done ran
    cancelled    \* history: starts cancelled while they ran

history == <<calls, cancelled>>
vars == <<ui, dialog, flow, alive, cancel, listener, posts, jobs, client, token, history>>

Closed == [open |-> FALSE, page |-> FALSE, waiting |-> FALSE, disconnect |-> FALSE]

\* set_streamlabs_waiting(), and refresh_streamlabs_status(), with what the vault holds.
Waiting(d, on, stored) == [d EXCEPT !.waiting = on, !.disconnect = ~on /\ stored # None]
Refreshed(d, stored) == [d EXCEPT !.disconnect = stored # None]

NoFlow == [running |-> FALSE, login |-> None, verifier |-> None, done |-> None]

Init ==
    /\ ui = "free" /\ dialog = Closed
    /\ flow = NoFlow /\ alive = {} /\ cancel = {}
    /\ listener = [r \in Logins |-> [at |-> "none", found |-> "nothing", requests |-> 0]]
    /\ posts = <<>> /\ jobs = <<>> /\ client = "up" /\ token = None
    /\ calls = [r \in Logins |-> 0] /\ cancelled = {}

-------------------------------------------------------------------------------
(* The UI thread: the flow.                                                *)

\* Mutant: the flag of late results is not cleared.
Cancelling_KeepAlive == cancel' = cancel \cup ({flow.login} \ {None}) /\ UNCHANGED alive

\* cancel() until its join.
Cancelling ==
    /\ alive' = alive \ {flow.login}
    /\ cancel' = cancel \cup ({flow.login} \ {None})

Joined == flow.login \in Logins => listener[flow.login].at = "ended"

CancelledNow == IF flow.running THEN cancelled \cup {flow.login} ELSE cancelled

\* Mutant: the dialog keeps showing Cancel.
Finish_StillWaiting ==
    /\ flow' = [flow EXCEPT !.running = FALSE, !.verifier = None, !.done = None]
    /\ alive' = alive \ {flow.login}
    /\ calls' = IF flow.done = None THEN calls ELSE [calls EXCEPT ![flow.done] = @ + 1]
    /\ UNCHANGED dialog

\* finish() of the flow, which tells the dialog.
Finish ==
    /\ flow' = [flow EXCEPT !.running = FALSE, !.verifier = None, !.done = None]
    /\ alive' = alive \ {flow.login}
    /\ calls' = IF flow.done = None THEN calls ELSE [calls EXCEPT ![flow.done] = @ + 1]
    /\ dialog' = Waiting(dialog, FALSE, token')

\* The user, who is gone after the exit, asks for a login: start() refuses while one runs.
LoginClicked ==
    /\ ui = "free" /\ client = "up" /\ dialog.page /\ ~dialog.waiting /\ ~flow.running
    /\ Cardinality({r \in Logins : listener[r].at # "none"}) < MaxLogins
    /\ ui' = "start" /\ Cancelling
    /\ UNCHANGED <<dialog, flow, listener, posts, jobs, client, token, history>>

\* No client, no random source, no socket or port, no browser: start() fails, no callback runs.
StartFails ==
    /\ ui = "start" /\ Joined
    /\ ui' = "free"
    /\ flow' = [NoFlow EXCEPT !.login = flow.login]
    /\ UNCHANGED <<dialog, alive, cancel, listener, posts, jobs, client, token, history>>

StartWaits ==
    /\ ui = "start" /\ Joined
    /\ LET r == Cardinality({x \in Logins : listener[x].at # "none"}) + 1
       IN /\ flow' = [running |-> TRUE, login |-> r, verifier |-> r, done |-> r]
          /\ alive' = alive \cup {r}
          /\ listener' = [listener EXCEPT ![r].at = "poll"]
    /\ ui' = "free" /\ dialog' = Waiting(dialog, TRUE, token)
    /\ UNCHANGED <<cancel, posts, jobs, client, token, history>>

\* Cancel, a closed dialog, the exit: each cancels the flow.
CancelClicked ==
    /\ ui = "free" /\ dialog.page /\ dialog.waiting /\ flow.running
    /\ ui' = "cancel" /\ Cancelling
    /\ UNCHANGED <<dialog, flow, listener, posts, jobs, client, token, history>>

CloseDialog ==
    /\ ui = "free" /\ dialog.open
    /\ ui' = "close" /\ Cancelling
    /\ UNCHANGED <<dialog, flow, listener, posts, jobs, client, token, history>>

Exit ==
    /\ ui = "free" /\ client = "up"
    /\ ui' = "exit" /\ Cancelling
    /\ UNCHANGED <<dialog, flow, listener, posts, jobs, client, token, history>>

ClientPosts(kept) == SelectSeq(posts, LAMBDA p : (p.kind = "exchange") = kept)

\* cancel() after its join; what its caller does next.  A dialog that is destroyed takes the
\* listener's posts with it, a client that shuts down takes its own.
CancelJoined ==
    /\ ui \in {"cancel", "close", "exit"} /\ Joined
    /\ ui' = "free" /\ cancelled' = CancelledNow
    /\ flow' = IF ui = "close" THEN NoFlow ELSE [NoFlow EXCEPT !.login = flow.login]
    /\ dialog' = CASE ui = "cancel" -> Waiting(dialog, FALSE, token)
                   [] ui = "close" -> Closed
                   [] ui = "exit" -> dialog
    /\ posts' = CASE ui = "close" -> ClientPosts(TRUE)
                  [] ui = "exit" -> ClientPosts(FALSE)
                  [] OTHER -> posts
    /\ client' = IF ui = "exit" THEN "down" ELSE client
    /\ jobs' = IF ui = "exit" THEN <<>> ELSE jobs
    /\ UNCHANGED <<alive, cancel, listener, token, calls>>

\* For an endpoint with this key source, or a change of the key source: apply_key_source().
KeySource(page) ==
    dialog' = IF page THEN Refreshed([dialog EXCEPT !.open = TRUE, !.page = TRUE], token)
              ELSE [dialog EXCEPT !.open = TRUE, !.page = FALSE]

OpenDialog ==
    /\ ui = "free" /\ ~dialog.open /\ client = "up"
    /\ \E page \in BOOLEAN : KeySource(page)
    /\ UNCHANGED <<ui, flow, alive, cancel, listener, posts, jobs, client, token, history>>

ChangeKeySource ==
    /\ ui = "free" /\ dialog.open /\ client = "up"
    /\ KeySource(~dialog.page)
    /\ UNCHANGED <<ui, flow, alive, cancel, listener, posts, jobs, client, token, history>>

\* The stored token is replaced by the one of Streamlabs Desktop, or of a file of the generator.
Import ==
    /\ ui = "free" /\ dialog.page /\ ~dialog.waiting /\ client = "up"
    /\ token' = Imported /\ dialog' = Refreshed(dialog, token')
    /\ UNCHANGED <<ui, flow, alive, cancel, listener, posts, jobs, client, history>>

Disconnect ==
    /\ ui = "free" /\ dialog.page /\ dialog.disconnect /\ client = "up"
    /\ token' = None /\ dialog' = Refreshed(dialog, token')
    /\ UNCHANGED <<ui, flow, alive, cancel, listener, posts, jobs, client, history>>

\* A posted result counts while the flag it captured is true.
Wanted(p) == p.login \in alive

\* on_listener_done(): no code is the end of it, a code is exchanged with the verifier.
ListenerDone ==
    /\ ui = "free" /\ posts # <<>> /\ Head(posts).kind = "listener"
    /\ posts' = Tail(posts) /\ UNCHANGED token
    /\ LET p == Head(posts)
       IN \/ /\ ~Wanted(p)
             /\ UNCHANGED <<dialog, flow, alive, jobs, calls>>
          \/ /\ Wanted(p) /\ p.found # "code"
             /\ Finish /\ UNCHANGED jobs
          \/ /\ Wanted(p) /\ p.found = "code"
             /\ jobs' = Append(jobs, [code |-> p.login, verifier |-> flow.verifier, login |-> flow.login])
             /\ flow' = [flow EXCEPT !.verifier = None]
             /\ UNCHANGED <<dialog, alive, calls>>
    /\ UNCHANGED <<ui, cancel, listener, client, cancelled>>

\* The exchange came back; saving the token may fail.
ExchangeDone ==
    /\ ui = "free" /\ posts # <<>> /\ Head(posts).kind = "exchange"
    /\ posts' = Tail(posts)
    /\ LET p == Head(posts)
       IN IF Wanted(p)
          THEN token' \in (IF p.ok THEN {token, p.login} ELSE {token}) /\ Finish
          ELSE UNCHANGED <<dialog, flow, alive, calls, token>>
    /\ UNCHANGED <<ui, cancel, listener, jobs, client, cancelled>>

-------------------------------------------------------------------------------
(* The listener thread of a start, and the client's worker.                *)

Advance(r, at, found) == listener' = [listener EXCEPT ![r].at = at, ![r].found = found]

\* Cancelled: nobody is told.
ListenerLeaves(r) ==
    /\ listener[r].at = "poll" /\ r \in cancel
    /\ Advance(r, "ended", "nothing")
    /\ UNCHANGED <<ui, dialog, flow, alive, cancel, posts, jobs, client, token, history>>

\* After 300 s, or select() fails.
ListenerGivesUp(r) ==
    /\ listener[r].at = "poll" /\ r \notin cancel
    /\ Advance(r, "closing", "failed")
    /\ UNCHANGED <<ui, dialog, flow, alive, cancel, posts, jobs, client, token, history>>

Accept(r) ==
    /\ listener[r].at = "poll" /\ r \notin cancel /\ listener[r].requests < MaxRequests
    /\ listener' = [listener EXCEPT ![r].at = "reading", ![r].requests = @ + 1]
    /\ UNCHANGED <<ui, dialog, flow, alive, cancel, posts, jobs, client, token, history>>

\* What may arrive: nothing whole, something else, a refusal, a code that is not usable, a callback.
Requests(r) ==
    LET p(n, v) == [name |-> n, value |-> v, decodes |-> TRUE]
        q(params) == [line |-> "query", params |-> params]
    IN {[line |-> l, params |-> <<>>] : l \in {"open", "long", "other"}}
       \cup {q(<<>>), q(<<p("success", "false"), p("code", r)>>), q(<<p("code", r)>>),
             q(<<p("success", "true"), p("code", Unusable)>>),
             q(<<p("success", "true"), [p("code", r) EXCEPT !.decodes = FALSE]>>),
             q(<<p("success", "true"), p("code", r)>>)}

\* read_callback() until it decides, the cap, 5 s or the cancel; else 404 and keep waiting.
Read(r) ==
    /\ listener[r].at = "reading"
    /\ \E request \in Requests(r) :
          CASE ParseCallback(request) = "Code" -> Advance(r, "closing", "code")
            [] ParseCallback(request) = "Failed" -> Advance(r, "closing", "failed")
            [] OTHER -> Advance(r, "poll", "nothing")
    /\ UNCHANGED <<ui, dialog, flow, alive, cancel, posts, jobs, client, token, history>>

\* Mutant: an outcome without a code is not posted.
CloseSocket_CodeOnly(r) ==
    /\ listener[r].at = "closing"
    /\ Advance(r, IF listener[r].found = "code" THEN "posting" ELSE "ended", listener[r].found)
    /\ UNCHANGED <<ui, dialog, flow, alive, cancel, posts, jobs, client, token, history>>

\* The socket is closed, the flag read; the post is the thread's last step.
CloseSocket(r) ==
    /\ listener[r].at = "closing"
    /\ Advance(r, IF r \in alive THEN "posting" ELSE "ended", listener[r].found)
    /\ UNCHANGED <<ui, dialog, flow, alive, cancel, posts, jobs, client, token, history>>

PostOutcome(r) ==
    /\ listener[r].at = "posting"
    /\ Advance(r, "ended", listener[r].found)
    /\ posts' = Append(posts, [kind |-> "listener", login |-> r, found |-> listener[r].found, ok |-> FALSE])
    /\ UNCHANGED <<ui, dialog, flow, alive, cancel, jobs, client, token, history>>

Listener(r) == \/ ListenerLeaves(r) \/ ListenerGivesUp(r) \/ Accept(r) \/ Read(r)
               \/ CloseSocket(r) \/ PostOutcome(r)

\* The server knows a code with its own verifier only; a result of a client that is down is dropped.
Exchange ==
    /\ jobs # <<>>
    /\ LET j == Head(jobs)
           full == IF j.code = j.verifier THEN {{"success", "oauth_token"}, {"success"}} ELSE {{"success"}}
       IN \E reached \in BOOLEAN : \E http \in Perform(FALSE, reached, full) :
             posts' = Append(posts, [kind |-> "exchange", login |-> j.login, found |-> "nothing",
                                     ok |-> ParseExchange(http)])
    /\ jobs' = Tail(jobs)
    /\ UNCHANGED <<ui, dialog, flow, alive, cancel, listener, client, token, history>>

UIGoesOn == StartFails \/ StartWaits \/ CancelJoined \/ ListenerDone \/ ExchangeDone

Next ==
    \/ LoginClicked \/ CancelClicked \/ CloseDialog \/ OpenDialog \/ Exit
    \/ ChangeKeySource \/ Import \/ Disconnect
    \/ UIGoesOn \/ Exchange
    \/ \E r \in Logins : Listener(r)

\* The scheduler runs every thread; requests have time-outs; the listener's wait ends after 300 s.
Fairness == WF_vars(UIGoesOn) /\ WF_vars(Exchange) /\ \A r \in Logins : WF_vars(Listener(r))

Spec == Init /\ [][Next]_vars /\ Fairness

-------------------------------------------------------------------------------
\* "done runs exactly once unless cancel() comes first" (StreamlabsLoginFlow.hpp): for the result of
\* its own start, once, and not after a cancel, whatever was posted before it.
OwnResultOnce ==
    [][\A r \in Logins : calls'[r] # calls[r] =>
          calls[r] = 0 /\ r \notin cancelled /\ Head(posts).login = r]_vars

\* No socket and no thread outlives its flow: a listener that still runs is the one of the last
\* start.  The dialog offers Cancel exactly while that start runs, and Disconnect only for a token
\* that is stored.
OneListener ==
    /\ \A r \in Logins : listener[r].at \notin {"none", "ended"} => flow.login = r
    /\ ui = "free" /\ client = "up" =>
          /\ dialog.waiting = flow.running
          /\ dialog.disconnect => token # None
          /\ dialog.page /\ ~dialog.waiting => dialog.disconnect = (token # None)

\* A token is stored only for the login that runs: not for a cancelled or a replaced one whose
\* exchange was under way.
SavedWhileRunning == [][token' \in Logins /\ token' # token => flow.running /\ flow.login = token']_vars

\* A login does not wait for ever: 300 s for the browser, 15 s for the exchange, and a result that
\* is not posted only when the login was cancelled.
LoginEnds == flow.running ~> ~flow.running
================================================================================
