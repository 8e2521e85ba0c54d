--------------------------- MODULE StreamlabsSessions ---------------------------
(***************************************************************************)
(* pipeline/StreamlabsClient.cpp with the key provider path of             *)
(* pipeline/OutputController.cpp: an endpoint whose key is fetched from    *)
(* Streamlabs when it starts.  UI events (starts, stops, results posted to *)
(* the UI thread, the exit), the client's worker thread with its FIFO of   *)
(* jobs, the server, the session file that outlives the plugin, crashes.   *)
(*                                                                         *)
(* The server has at most one live session of the account (hpp:45).  What  *)
(* it answers, whether an answer arrives, and what a request that was cut  *)
(* off did, are choices.  Removing or editing an endpoint is a stop of its *)
(* controller, and a start.  What an output reports until a stop detaches  *)
(* it is that of module OutputController in short: its reconnect thread is *)
(* one state of the output ("trying").  The jobs info, search              *)
(* and exchange_login only take the worker's time; HTTP, JSON and texts    *)
(* are left out.                                                           *)
(***************************************************************************)
EXTENDS SessionBook, StreamlabsApi, Sequences, FiniteSets, SequencesExt

CONSTANTS
    Endpoints,
    MaxStarts,       \* bound: starts of each endpoint, over all runs
    MaxRuns          \* bound: runs of the plugin

ASSUME SessionConstants == NoSession \notin Endpoints /\ MaxStarts \in [Endpoints -> Nat] /\ MaxRuns \in Nat

VARIABLES
    phase,           \* "up", "waiting", "joining", "ending" (shutdown), "down", "crashed"
    runs, starts,
    token,           \* the vault holds a token
    ctl,             \* per endpoint: m_state, m_key_fetch_gen, m_key_fetch_pending,
                     \* m_provider_session, and the id behind m_session_key; output: no
                     \* m_output, one nothing comes from, one that connects or that a
                     \* reconnect thread tries again, one that runs; key: the id behind the
                     \* key in its service; history: reused, the last start found an output
                     \* of an earlier one; adopted, its answer was adopted by the controller
    book,            \* m_book
    jobs, thread,    \* m_jobs, and the thread that talks to the server
    cancelled,       \* m_worker_slot.cancelled
    posts,           \* results posted to the UI thread
    file,            \* the session file
    live, created,   \* the server: its live session, how many it has created
    owed,            \* history: the live session, from the time this run read its start reply
                     \* until an end was sent, or given up for want of a token
    filed            \* history: the live session was written to the session file

server == <<live, created>>
history == <<owed, filed>>
vars == <<phase, runs, starts, token, ctl, book, jobs, thread, cancelled, posts, file, server, history>>

FreshController == [state |-> "Idle", gen |-> 0, pending |-> FALSE, session |-> FALSE, id |-> NoSession,
                    output |-> "none", key |-> NoSession, reused |-> FALSE, adopted |-> FALSE]
IdleThread == [at |-> "idle", job |-> "none", ep |-> NoSession, gen |-> 0, todo |-> <<>>, id |-> NoSession,
               outcome |-> "Ended"]

Init ==
    /\ phase = "up" /\ runs = 1 /\ starts = [e \in Endpoints |-> 0] /\ token \in BOOLEAN
    /\ ctl = [e \in Endpoints |-> FreshController]
    /\ book = EmptyBook /\ jobs = <<>> /\ thread = IdleThread /\ cancelled = FALSE
    /\ posts = <<>> /\ file = NoSession /\ live = NoSession /\ created = 0
    /\ owed = NoSession /\ filed = FALSE

\* streamlabs_vault::load(): the file is there and decrypts.
LoadToken == token

Posted(e, gen, id) == Append(posts, [ep |-> e, gen |-> gen, id |-> id])

-------------------------------------------------------------------------------
(* The UI thread.                                                          *)

\* enqueue_end() of an id that was claimed in b.
EnqueueEnd(b, id) ==
    /\ book' = IF LoadToken THEN b ELSE FinishEnd(b, id, "Failed")
    /\ jobs' = IF LoadToken THEN Append(jobs, [kind |-> "end", id |-> id]) ELSE jobs
    /\ owed' = IF LoadToken \/ owed # id THEN owed ELSE NoSession

\* stop(): with end_provider_session() a late fetch result is no longer adopted; the output is
\* detached, and its signals are no longer heard.
Stopped(c) == [FreshController EXCEPT !.gen = IF c.pending THEN c.gen + 1 ELSE c.gen]

EndSession(e) ==
    IF ctl[e].session /\ Owned(book, e) # NoSession
    THEN EnqueueEnd(ReleaseOwner(book, e), Owned(book, e))
    ELSE UNCHANGED <<book, jobs, owed>>

\* start() of an endpoint with this provider: request_provider_target() and start_session().
\* The session, the output and the reconnect thread of an earlier start are left as they are.
StartEndpoint(e) ==
    /\ phase = "up" /\ starts[e] < MaxStarts[e]
    /\ ctl[e].state \notin {"Live", "Starting"}
    /\ starts' = [starts EXCEPT ![e] = @ + 1]
    /\ ctl' = [ctl EXCEPT ![e].state = "Starting", ![e].gen = @ + 1, ![e].pending = TRUE,
                          ![e].reused = ctl[e].output # "none", ![e].adopted = FALSE]
    /\ IF Busy(book, e) \/ ~LoadToken
       THEN posts' = Posted(e, ctl[e].gen + 1, NoSession) /\ UNCHANGED jobs
       ELSE jobs' = Append(jobs, [kind |-> "start", ep |-> e, gen |-> ctl[e].gen + 1]) /\ UNCHANGED posts
    /\ UNCHANGED <<phase, runs, token, book, thread, cancelled, file, server, history>>

StopEndpoint(e) ==
    /\ phase = "up"
    /\ ctl[e].state # "Idle" \/ ctl[e].output # "none"
    /\ ctl' = [ctl EXCEPT ![e] = Stopped(ctl[e])]
    /\ EndSession(e)
    /\ UNCHANGED <<phase, runs, starts, token, thread, cancelled, posts, file, server, filed>>

\* What an output reports; the provider session is left as it is.  The reports come also after a
\* start() that overtook them: an output that failed may then go on, with the reconnect thread
\* of the earlier start, and that thread may give up while the output runs.
OutputReports(e) ==
    /\ phase = "up"
    /\ \/ /\ ctl[e].output = "trying"                             \* on_start_signal()
          /\ ctl' = [ctl EXCEPT ![e].state = "Live", ![e].output = "on"]
       \/ /\ ctl[e].output \in {"trying", "on"}                    \* handle_stop(): it is tried again
          /\ ctl' = [ctl EXCEPT ![e].state = "Reconnecting", ![e].output = "trying"]
       \/ /\ ctl[e].output \in {"trying", "on"}                    \* it fails for good or ends
          /\ \E s \in {"FailedHard"} \cup IF ctl[e].output = "on" THEN {"Idle"} ELSE {},
                o \in {"off"} \cup IF ctl[e].reused THEN {"trying", ctl[e].output} ELSE {} :
                ctl' = [ctl EXCEPT ![e].state = s, ![e].output = o]
    /\ UNCHANGED <<phase, runs, starts, token, book, jobs, thread, cancelled, posts, file, server, history>>

\* streamlabs_vault::remove(), when the user disconnects the account.
RemoveToken ==
    /\ phase = "up" /\ token /\ token' = FALSE
    /\ UNCHANGED <<phase, runs, starts, ctl, book, jobs, thread, cancelled, posts, file, server, history>>

\* streamlabs_vault::save(), after a login or an import; when it fails there is no token yet.
SaveToken ==
    /\ phase = "up" /\ ~token /\ token' = TRUE
    /\ UNCHANGED <<phase, runs, starts, ctl, book, jobs, thread, cancelled, posts, file, server, history>>

\* on_provider_target(): stopped, removed or started again meanwhile means not adopted.
Wanted(e, gen) == ctl[e].pending /\ ctl[e].gen = gen /\ ctl[e].state = "Starting"

\* do_create_output(), when there is no output yet: its service gets the target fetched now.
\* Another output keeps the service it has.
WithOutput(c, id) == IF c.output = "none" THEN [c EXCEPT !.output = "off", !.key = id] ELSE c

\* What a start_output() that fails leaves of the output: none or a new one nothing comes from;
\* one that was tried again may be left alone, may connect meanwhile, or goes on.
Refused(c, id) ==
    IF c.output = "none" THEN {c, WithOutput(c, id)}
    ELSE {[c EXCEPT !.output = o] : o \in {x \in {"off", "trying", "on"} : c.output \in {x, "trying"}}}

\* A posted result runs: adopted and start_output() succeeds, or adopted and it fails (always on
\* an output that runs), or not adopted; a session nobody adopted is ended, exactly that id.
\* A start_output() that joins a reconnect thread is one step with what the thread reports.
Deliver ==
    /\ phase = "up" /\ posts # <<>>
    /\ LET r == Head(posts)
           adopted == Wanted(r.ep, r.gen) /\ r.id # NoSession
       IN \/ /\ adopted /\ ctl[r.ep].output # "on"
             /\ ctl' = [ctl EXCEPT ![r.ep] = [WithOutput(@, r.id) EXCEPT
                           !.output = "trying", !.pending = FALSE, !.session = TRUE, !.id = r.id,
                           !.adopted = TRUE]]
             /\ UNCHANGED <<book, jobs, owed>>
          \/ /\ adopted
             /\ \E c \in Refused(ctl[r.ep], r.id) :
                   ctl' = [ctl EXCEPT ![r.ep] = [c EXCEPT !.state = "FailedHard", !.pending = FALSE,
                                                          !.session = FALSE, !.id = NoSession]]
             /\ IF Owned(book, r.ep) = NoSession THEN UNCHANGED <<book, jobs, owed>>
                ELSE EnqueueEnd(ReleaseOwner(book, r.ep), Owned(book, r.ep))
          \/ /\ ~adopted
             /\ ctl' = IF Wanted(r.ep, r.gen)
                       THEN [ctl EXCEPT ![r.ep].state = "FailedHard", ![r.ep].pending = FALSE]
                       ELSE ctl
             /\ IF Unadopted(book, r.id)
                THEN EnqueueEnd(BeginEnd(Closed(book), book.open), book.open)
                ELSE UNCHANGED <<book, jobs, owed>>
    /\ posts' = Tail(posts)
    /\ UNCHANGED <<phase, runs, starts, token, thread, cancelled, file, server, filed>>

-------------------------------------------------------------------------------
(* The thread that talks to the server: the worker, and in the last part   *)
(* of a shutdown the thread of end_blocking_bounded().                     *)

Goto(at) == thread' = [thread EXCEPT !.at = at]

TakeJob ==
    /\ phase = "up" /\ thread.at = "idle" /\ jobs # <<>>
    /\ LET j == Head(jobs)
       IN thread' = IF j.kind = "end"
                    THEN [IdleThread EXCEPT !.at = "send", !.job = "end", !.id = j.id]
                    ELSE [IdleThread EXCEPT !.at = "claim", !.job = "start", !.ep = j.ep, !.gen = j.gen]
    /\ jobs' = Tail(jobs)
    /\ UNCHANGED <<phase, runs, starts, token, ctl, book, cancelled, posts, file, server, history>>

\* Mutant: a start that another endpoint's session refuses is dropped without a result.
Claim_Silent ==
    /\ thread.at = "claim"
    /\ IF Busy(book, thread.ep)
       THEN thread' = IdleThread /\ UNCHANGED <<posts, book>>
       ELSE /\ book' = Closed(book)
            /\ thread' = [thread EXCEPT !.at = "stale",
                             !.todo = SetToSeq({Stale(book), file} \ {NoSession})]
            /\ UNCHANGED posts
    /\ UNCHANGED <<phase, runs, starts, token, ctl, jobs, cancelled, file, server, history>>

\* Part 1 of the start job: what has to be ended first, the session file included.
Claim ==
    /\ thread.at = "claim"
    /\ IF Busy(book, thread.ep)
       THEN /\ posts' = Posted(thread.ep, thread.gen, NoSession)
            /\ thread' = IdleThread /\ UNCHANGED book
       ELSE /\ book' = Closed(book)
            /\ thread' = [thread EXCEPT !.at = "stale",
                             !.todo = SetToSeq({Stale(book), file} \ {NoSession})]
            /\ UNCHANGED posts
    /\ UNCHANGED <<phase, runs, starts, token, ctl, jobs, cancelled, file, server, history>>

NextStale ==
    /\ thread.at = "stale"
    /\ IF thread.todo = <<>> THEN Goto("request") /\ UNCHANGED book
       ELSE LET id == Head(thread.todo)
            IN IF MayEnd(book, id)
               THEN /\ book' = BeginEnd(book, id)
                    /\ thread' = [thread EXCEPT !.at = "send", !.id = id, !.todo = Tail(@)]
               ELSE thread' = [thread EXCEPT !.todo = Tail(@)] /\ UNCHANGED book
    /\ UNCHANGED <<phase, runs, starts, token, ctl, jobs, cancelled, posts, file, server, history>>

\* end_now(): the request reaches the server or not, and what comes back is read.
SendEnd ==
    /\ thread.at = "send"
    /\ \E reached \in BOOLEAN : \E http \in Perform(cancelled, reached, {{"success"}}) :
          /\ live' = IF reached /\ live = thread.id THEN NoSession ELSE live
          /\ thread' = [thread EXCEPT !.at = "settle",
                           !.outcome = IF ParseEnd(http) = "None" THEN "Ended"
                                       ELSE IF http.cancelled THEN "Cancelled" ELSE "Failed"]
          /\ filed' = (filed /\ live' = live)
    /\ owed' = IF owed = thread.id THEN NoSession ELSE owed
    /\ UNCHANGED <<phase, runs, starts, token, ctl, book, jobs, cancelled, posts, file, created>>

\* Mutant: the file is cleared whatever the server answered.
Cleared_Always(id, outcome) == IF file = id THEN {NoSession} ELSE {file}

\* clear_session_file_if(), when the end was confirmed; os_unlink may fail.
Cleared(id, outcome) == IF outcome = "Ended" /\ file = id THEN {NoSession, file} ELSE {file}

SettleEnd ==
    /\ thread.at = "settle"
    /\ file' \in Cleared(thread.id, thread.outcome)
    /\ book' = FinishEnd(book, thread.id, thread.outcome)
    /\ thread' = CASE thread.job = "start" -> [thread EXCEPT !.at = "stale"]
                   [] thread.job = "end" -> IdleThread
                   [] thread.job = "shutdown" -> [thread EXCEPT !.at = "next"]
    /\ UNCHANGED <<phase, runs, starts, token, ctl, jobs, cancelled, posts, server, history>>

\* What comes back of a start: all of its fields only when a session was created, replacing
\* the one that was live.
Replies(reached, creates) ==
    Perform(cancelled, reached, {{"id"}} \cup IF creates THEN {StartFields} ELSE {})

\* Part 2 of the start job.
RequestStart ==
    /\ thread.at = "request"
    /\ \E reached, creates \in BOOLEAN : \E http \in Replies(reached, creates) :
          /\ creates => reached
          /\ IF creates THEN created' = created + 1 /\ live' = created' /\ filed' = FALSE
             ELSE UNCHANGED <<server, filed>>
          /\ IF ParseStart(http) = "None"
             THEN /\ thread' = [thread EXCEPT !.at = "started", !.id = created']
                  /\ owed' = created' /\ UNCHANGED posts
             ELSE /\ thread' = IdleThread
                  /\ posts' = Posted(thread.ep, thread.gen, NoSession)
                  /\ owed' = IF creates THEN NoSession ELSE owed
    /\ UNCHANGED <<phase, runs, starts, token, ctl, book, jobs, cancelled, file>>

Started ==
    /\ thread.at = "started"
    /\ book' = OnStarted(book, thread.id, thread.ep)
    /\ Goto("write")
    /\ UNCHANGED <<phase, runs, starts, token, ctl, jobs, cancelled, posts, file, server, history>>

\* write_session_file(), a safe write that may fail; then part 3: the result is posted.
WriteFile ==
    /\ thread.at = "write"
    /\ file' \in {file, thread.id}
    /\ filed' = (filed \/ (file' = thread.id /\ live = thread.id))
    /\ posts' = Posted(thread.ep, thread.gen, thread.id)
    /\ thread' = IdleThread
    /\ UNCHANGED <<phase, runs, starts, token, ctl, book, jobs, cancelled, server, owed>>

Worker == \/ TakeJob \/ Claim \/ NextStale \/ SendEnd \/ SettleEnd \/ RequestStart \/ Started \/ WriteFile

-------------------------------------------------------------------------------
(* Exit and unload: endpoints with provider work are stopped, then         *)
(* shutdown_and_end_blocking().                                            *)

Exit ==
    /\ phase = "up" /\ phase' = "waiting"
    /\ ctl' = [e \in Endpoints |-> Stopped(ctl[e])]
    /\ LET owners == {e \in Endpoints : ctl[e].session /\ Owned(book, e) # NoSession}
       IN IF owners = {} THEN UNCHANGED <<book, owed>>
          ELSE IF LoadToken
          THEN book' = ReleaseOwner(book, book.owner) /\ UNCHANGED owed
          ELSE book' = FinishEnd(ReleaseOwner(book, book.owner), book.open, "Failed")
               /\ owed' = IF owed = book.open THEN NoSession ELSE owed
    /\ jobs' = <<>>          \* a dropped end keeps its id claimed in the book
    /\ posts' = <<>>         \* the alive flag
    /\ UNCHANGED <<runs, starts, token, thread, cancelled, file, server, filed>>

\* The job in flight may finish; after kEndTimeoutMs it is cut off.
StopWaiting ==
    /\ phase = "waiting" /\ phase' = "joining"
    /\ cancelled' = TRUE
    /\ UNCHANGED <<runs, starts, token, ctl, book, jobs, thread, posts, file, server, history>>

JoinWorker ==
    /\ phase = "joining" /\ thread.at = "idle"
    /\ phase' = "ending"
    /\ cancelled' = FALSE    \* every synchronous end has a slot of its own
    /\ posts' = <<>>
    /\ book' = IF LoadToken THEN TakeForShutdown(book)
               ELSE GiveUp(TakeForShutdown(book), ForShutdown(book))
    /\ thread' = IF LoadToken THEN [IdleThread EXCEPT !.at = "next", !.job = "shutdown",
                                                  !.todo = SetToSeq(ForShutdown(book))]
                 ELSE [IdleThread EXCEPT !.at = "next", !.job = "shutdown"]
    /\ owed' = IF LoadToken \/ owed \notin ForShutdown(book) THEN owed ELSE NoSession
    /\ UNCHANGED <<runs, starts, token, ctl, jobs, file, server, filed>>

\* end_blocking_bounded() of one id after the other; each may be cut off after 5 s.
EndNext ==
    /\ thread.at = "next" /\ thread.todo # <<>>
    /\ thread' = [thread EXCEPT !.at = "send", !.id = Head(thread.todo), !.todo = Tail(@)]
    /\ cancelled' \in BOOLEAN
    /\ UNCHANGED <<phase, runs, starts, token, ctl, book, jobs, posts, file, server, history>>

\* What a process leaves behind: the vault, the server and the session file.
Gone ==
    /\ ctl' = [e \in Endpoints |-> FreshController]
    /\ book' = EmptyBook /\ jobs' = <<>> /\ thread' = IdleThread
    /\ cancelled' = FALSE /\ posts' = <<>>
    /\ UNCHANGED <<starts, token, file, server, filed>>

Down ==
    /\ thread.at = "next" /\ thread.todo = <<>>
    /\ phase' = "down" /\ Gone
    /\ UNCHANGED <<runs, owed>>

Crash ==
    /\ phase \notin {"down", "crashed"} /\ runs < MaxRuns
    /\ phase' = "crashed" /\ Gone
    /\ owed' = NoSession /\ UNCHANGED runs

Restart ==
    /\ phase \in {"down", "crashed"} /\ runs < MaxRuns
    /\ phase' = "up" /\ runs' = runs + 1
    /\ owed' = NoSession
    /\ UNCHANGED <<starts, token, ctl, book, jobs, thread, cancelled, posts, file, server, filed>>

Shutdown == StopWaiting \/ JoinWorker \/ EndNext \/ Down

Next ==
    \/ \E e \in Endpoints : StartEndpoint(e) \/ StopEndpoint(e) \/ OutputReports(e)
    \/ RemoveToken \/ SaveToken \/ Deliver \/ Worker \/ Exit \/ Shutdown \/ Crash \/ Restart
    \/ phase = "down" /\ runs = MaxRuns /\ UNCHANGED vars

\* Requests have time-outs, the UI thread runs what is posted to it.
Fairness == WF_vars(Worker) /\ WF_vars(Deliver) /\ WF_vars(Shutdown)

Spec == Init /\ [][Next]_vars /\ Fairness

-------------------------------------------------------------------------------
\* "an id is ended successfully at most once" (StreamlabsTikTok.hpp:134): no end is sent for an
\* id whose end was confirmed in this run, also not for one that is still in the session file.
EndedOnce == thread.at = "send" => thread.id \notin book.ended

\* The session an endpoint got for its last start is the open one, its own, and nobody is about
\* to end it: no late result, no end of an unadopted start, no other endpoint's start, whatever
\* was stopped or started meanwhile.  An endpoint on the air streams to the session it got
\* ("the target fetched for this session only", OutputController.cpp:324), unless its output is
\* one an earlier start had left: that one may stream to a session the new start has ended.
AirOwnsSession ==
    phase = "up" => \A e \in Endpoints :
        /\ ctl[e].adopted =>
              /\ book.open = ctl[e].id /\ book.owner = e
              /\ ~(thread.at \in {"send", "settle"} /\ thread.id = ctl[e].id)
              /\ \A i \in DOMAIN jobs : jobs[i].kind = "end" => jobs[i].id # ctl[e].id
        /\ ctl[e].state = "Live" /\ ~ctl[e].reused => ctl[e].adopted /\ ctl[e].key = ctl[e].id

\* "a session left open by a crash is ended before the next start" (StreamlabsClient.hpp): a
\* live session that was once written to the session file is still there, over crashes and
\* restarts, whatever ends failed, were cut off or were refused.
OpenIsFiled == filed /\ live # NoSession => file = live

\* take_for_shutdown(): after an orderly shutdown no session of this run is live without an end
\* having been tried, or given up for want of a token: queued ends that were dropped, results
\* nobody adopted and a start that was still in flight included.
ShutdownEndsAll == phase = "down" => owed = NoSession

\* No session that is live on the server is forgotten: a crash leaves it in the file, an orderly
\* shutdown tries to end it.
NoSessionForgotten == OpenIsFiled /\ ShutdownEndsAll

\* No endpoint waits for its key for ever: the answer comes, or the endpoint is stopped or put
\* back on the air by its earlier output, or the plugin ends.
AwaitsKey(e) == ctl[e].pending /\ ctl[e].state = "Starting"
FetchEnds == \A e \in Endpoints : AwaitsKey(e) ~> ~AwaitsKey(e) \/ phase # "up"

================================================================================
