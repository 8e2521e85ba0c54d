------------------------ MODULE StreamlabsSessions_proofs ------------------------
(***************************************************************************)
(* The sessions of the Streamlabs account, for any number of endpoints,    *)
(* starts and runs of the plugin: no end is sent twice, an endpoint keeps  *)
(* the session it got, streams to it when its output is a fresh one, and   *)
(* no session that is live on the server is forgotten.  The ids are        *)
(* numbered in the order the server creates them, so that a new one is     *)
(* larger than every id the plugin knows.                                  *)
(***************************************************************************)
EXTENDS StreamlabsSessions, FiniteSetTheorems, SequenceTheorems, TLAPS

Controllers ==
    [state : {"Idle", "Starting", "Live", "Reconnecting", "FailedHard"}, gen : Nat, pending : BOOLEAN,
     session : BOOLEAN, id : Nat, output : {"none", "off", "trying", "on"}, key : Nat, reused : BOOLEAN,
     adopted : BOOLEAN]
Books ==
    [open : Nat, owner : Endpoints \cup {NoSession}, ending : SUBSET Nat, retry : SUBSET Nat, ended : SUBSET Nat,
     handed : SUBSET Nat]
EndJobs == [kind : {"end"}, id : Nat]
StartJobs == [kind : {"start"}, ep : Endpoints, gen : Nat]
Results == [ep : Endpoints, gen : Nat, id : Nat]
Threads ==
    [at : {"idle", "claim", "stale", "send", "settle", "request", "started", "write", "next"},
     job : {"none", "start", "end", "shutdown"}, ep : Endpoints \cup {NoSession}, gen : Nat, todo : Seq(Nat), id : Nat,
     outcome : {"Ended", "Cancelled", "Failed"}]

Typed ==
    /\ ctl \in [Endpoints -> Controllers] /\ book \in Books
    /\ jobs \in Seq(EndJobs \cup StartJobs) /\ posts \in Seq(Results) /\ thread \in Threads
    /\ file \in Nat /\ live \in Nat /\ created \in Nat /\ owed \in Nat /\ filed \in BOOLEAN

(* What the thread is doing, and when. *)
Control ==
    /\ thread.at = "idle" <=> thread.job = "none"
    /\ thread.at \in {"claim", "stale", "request", "started", "write"} => thread.job = "start"
    /\ thread.at = "next" => thread.job = "shutdown"
    /\ thread.job = "shutdown" <=> phase = "ending"
    /\ thread.job = "start" => thread.ep \in Endpoints
    /\ phase \in {"down", "crashed"} => thread.at = "idle"
    /\ phase # "up" => jobs = <<>>

(* No id is larger than the last one created. *)
Known ==
    /\ book.ending \cup book.ended \cup book.retry \cup book.handed \cup {book.open, thread.id, file} \subseteq 0..created
    /\ \A i \in DOMAIN thread.todo : thread.todo[i] \in 0..created
    /\ \A i \in DOMAIN posts : posts[i].id \in 0..created

(* An end that is queued or in progress is claimed in the book, once; the open id is not. *)
EndsNow == thread.at \in {"send", "settle"}

Claimed ==
    /\ book.ending \cap book.ended = {} /\ NoSession \notin book.ending
    /\ book.open # NoSession => book.open \notin book.ending \cup book.ended \cup book.handed
    /\ \A i \in DOMAIN jobs : jobs[i].kind = "end" => jobs[i].id \in book.ending
    /\ \A i, j \in DOMAIN jobs :
          jobs[i].kind = "end" /\ jobs[j].kind = "end" /\ jobs[i].id = jobs[j].id => i = j
    /\ EndsNow => /\ thread.id \in book.ending
                  /\ \A i \in DOMAIN jobs : jobs[i].kind = "end" => jobs[i].id # thread.id

(* The ids a shutdown ends are all claimed, and listed once. *)
HandedOut ==
    /\ phase = "ending" => book.open = NoSession
    /\ phase # "ending" => book.handed = {}
    /\ thread.job = "shutdown" =>
          /\ \A i \in DOMAIN thread.todo : thread.todo[i] \in book.ending
          /\ \A i, j \in DOMAIN thread.todo : thread.todo[i] = thread.todo[j] => i = j
          /\ EndsNow => \A i \in DOMAIN thread.todo : thread.todo[i] # thread.id

(* While a start job is busy, no session is open; the one it creates is new. *)
StartJob ==
    /\ thread.job = "start" /\ thread.at \in {"stale", "send", "settle", "request", "started"} =>
          book.open = NoSession
    /\ thread.at = "request" => thread.todo = <<>>
    /\ thread.at \in {"started", "write"} =>
          /\ thread.id = created /\ live = created /\ thread.id # NoSession
          /\ \A i \in DOMAIN posts : posts[i].id # thread.id
    /\ thread.at = "started" => thread.id \notin book.ending \cup book.ended \cup book.handed

(* The starts of an endpoint are numbered, and its results come in their order. *)
Starting(e) == thread.job = "start" /\ thread.ep = e

Numbered ==
    /\ \A i \in DOMAIN jobs : jobs[i].kind = "start" => jobs[i].gen <= ctl[jobs[i].ep].gen
    /\ \A i, j \in DOMAIN jobs :
          jobs[i].kind = "start" /\ jobs[j].kind = "start" /\ jobs[i].ep = jobs[j].ep /\ i < j =>
             jobs[i].gen < jobs[j].gen
    /\ thread.job = "start" =>
          /\ thread.gen <= ctl[thread.ep].gen
          /\ \A i \in DOMAIN jobs : jobs[i].kind = "start" /\ jobs[i].ep = thread.ep => thread.gen < jobs[i].gen
    /\ \A p \in DOMAIN posts :
          /\ posts[p].gen <= ctl[posts[p].ep].gen
          /\ posts[p].id # NoSession =>
                /\ Starting(posts[p].ep) => posts[p].gen < thread.gen
                /\ \A i \in DOMAIN jobs :
                      jobs[i].kind = "start" /\ jobs[i].ep = posts[p].ep => posts[p].gen < jobs[i].gen

(* The results that are posted carry different ids; one that is still wanted is the open session. *)
Adoptable ==
    /\ \A p, q \in DOMAIN posts : posts[p].id # NoSession /\ posts[p].id = posts[q].id => p = q
    /\ \A p \in DOMAIN posts :
          posts[p].id # NoSession /\ Wanted(posts[p].ep, posts[p].gen) =>
             book.open = posts[p].id /\ book.owner = posts[p].ep
    /\ thread.at = "write" =>
          /\ Wanted(thread.ep, thread.gen) => book.open = thread.id /\ book.owner = thread.ep
          /\ book.open = thread.id => book.owner = thread.ep

(* An endpoint that got a session owns the open one, and has no start of its own to come. *)
Holding ==
    \A e \in Endpoints : ctl[e].adopted =>
        /\ phase = "up"
        /\ book.open = ctl[e].id /\ book.owner = e /\ ctl[e].id # NoSession
        /\ ~ctl[e].pending
        /\ ~Starting(e)
        /\ \A i \in DOMAIN jobs : jobs[i].kind = "start" => jobs[i].ep # e
        /\ \A p \in DOMAIN posts : posts[p].id # ctl[e].id

(* A live session that was filed is in the file: an end that is confirmed is of another one. *)
Filed ==
    /\ OpenIsFiled
    /\ thread.at = "settle" /\ thread.outcome = "Ended" => live # thread.id

(* The session that is owed an end is known to whoever will end it. *)
InTodo(id) == \E i \in DOMAIN thread.todo : thread.todo[i] = id

Owing ==
    owed # NoSession =>
        /\ owed \notin book.ended
        /\ thread.at = "settle" => owed # thread.id
        /\ phase \notin {"down", "crashed"}
        /\ phase # "ending" =>
              \/ owed = book.open
              \/ owed \in book.ending
              \/ thread.at = "started" /\ owed = thread.id
              \/ thread.job = "start" /\ thread.at \in {"stale", "send", "settle"} /\ InTodo(owed)
        /\ phase = "ending" => InTodo(owed) \/ (thread.at = "send" /\ owed = thread.id)

SessionInv ==
    /\ Typed /\ Control /\ Known /\ Claimed /\ HandedOut /\ StartJob /\ Numbered /\ Adoptable /\ Holding
    /\ Filed /\ Owing

-----------------------------------------------------------------------------
(* Queues, and the sequence of a set.                                      *)

LEMMA AppendAt ==
    ASSUME NEW S, NEW s \in Seq(S), NEW x \in S, NEW t, t = Append(s, x)
    PROVE  /\ t \in Seq(S)
           /\ \A i \in DOMAIN t : (i \in DOMAIN s /\ t[i] = s[i]) \/ (i = Len(s) + 1 /\ t[i] = x)
           /\ \A i \in DOMAIN s : i \in Nat /\ i < Len(s) + 1
           /\ Len(s) \in Nat
OBVIOUS

LEMMA TailAt ==
    ASSUME NEW S, NEW s \in Seq(S), s # <<>>, NEW t, t = Tail(s)
    PROVE  /\ t \in Seq(S)
           /\ 1 \in DOMAIN s /\ s[1] = Head(s) /\ Head(s) \in S
           /\ \A i \in DOMAIN t : i \in Nat /\ 0 < i /\ i + 1 \in DOMAIN s /\ t[i] = s[i + 1]
           /\ \A i \in DOMAIN s : i = 1 \/ (i - 1 \in DOMAIN t /\ t[i - 1] = s[i])
<1>1. Len(s) \in Nat \ {0} /\ DOMAIN s = 1..Len(s)
  BY EmptySeq, LenProperties
<1>2. t \in Seq(S) /\ Len(t) = Len(s) - 1 /\ Head(s) \in S /\ \A i \in 1..Len(t) : t[i] = s[i + 1]
  BY HeadTailProperties
<1>3. s[1] = Head(s) /\ DOMAIN t = 1..Len(t)
  BY <1>2
<1> QED BY <1>1, <1>2, <1>3

LEMMA SetToSeqAt ==
    ASSUME NEW S, IsFiniteSet(S), NEW T, S \subseteq T
    PROVE  /\ SetToSeq(S) \in Seq(T)
           /\ \A i \in DOMAIN SetToSeq(S) : SetToSeq(S)[i] \in S
           /\ \A i, j \in DOMAIN SetToSeq(S) : SetToSeq(S)[i] = SetToSeq(S)[j] => i = j
           /\ \A x \in S : \E i \in DOMAIN SetToSeq(S) : SetToSeq(S)[i] = x
<1> DEFINE n == Cardinality(S)
           f == SetToSeq(S)
<1>1. n \in Nat /\ ExistsBijection(1..n, S)
  BY FS_CardinalityType
<1>2. f \in [1..n -> S] /\ IsInjective(f)
  BY <1>1 DEF SetToSeq, ExistsBijection, Bijection, Injection
<1> HIDE DEF f
<1>3. f \in Injection(1..n, S)
  BY <1>2 DEF Injection
<1>4. Cardinality(1..n) = n
  BY <1>1, FS_Interval
<1>5. f \in Surjection(1..n, S)
  BY <1>1, <1>3, <1>4, FS_Injection
<1>6. f \in [1..n -> T]
  BY <1>2
<1>7. f \in Seq(T)
  <2> HIDE DEF n
  <2> QED BY <1>1, <1>6, SeqDef
<1>8. DOMAIN f = 1..n
  BY <1>2
<1> HIDE DEF n
<1>9. \A i \in 1..n : f[i] \in S
  BY <1>2
<1>10. \A x \in S : \E i \in 1..n : f[i] = x
  BY <1>5 DEF Surjection
<1> QED BY <1>2, <1>7, <1>8, <1>9, <1>10 DEF IsInjective, f

LEMMA KnownFinite ==
    ASSUME NEW n \in Nat, NEW S, S \subseteq 0..n
    PROVE  IsFiniteSet(S)
<1>1. IsFiniteSet(0..n)
  BY FS_Interval
<1> QED BY <1>1, FS_Subset

-----------------------------------------------------------------------------
(* What a call does to the book.                                           *)

LEMMA BookClosed ==
    ASSUME NEW b \in Books
    PROVE  /\ Closed(b) \in Books /\ Closed(b).open = NoSession /\ Closed(b).owner = NoSession
           /\ Closed(b).ending = b.ending /\ Closed(b).retry = b.retry /\ Closed(b).ended = b.ended
           /\ Closed(b).handed = b.handed
BY DEF Books, Closed, NoSession

LEMMA BookReleased ==
    ASSUME NEW b \in Books, NEW e \in Endpoints, Owned(b, e) # NoSession
    PROVE  LET r == ReleaseOwner(b, e)
           IN /\ Owned(b, e) = b.open /\ b.open # NoSession /\ b.owner = e
              /\ r \in Books /\ r.open = NoSession /\ r.owner = NoSession
              /\ r.ending = b.ending \cup {b.open} /\ r.retry = b.retry /\ r.ended = b.ended /\ r.handed = b.handed
<1>1. Owned(b, e) = b.open /\ b.owner = e /\ b.open \in Nat
  BY DEF Owned, Books
<1>2. ReleaseOwner(b, e) = [Closed(b) EXCEPT !.ending = @ \cup {b.open}]
  BY DEF ReleaseOwner
<1> QED BY <1>1, <1>2, BookClosed DEF Books

LEMMA BookBegun ==
    ASSUME NEW b \in Books, NEW id \in Nat
    PROVE  LET r == BeginEnd(b, id)
           IN /\ r \in Books /\ r.open = b.open /\ r.owner = b.owner /\ r.ending = b.ending \cup {id}
              /\ r.retry = b.retry \ {id} /\ r.ended = b.ended /\ r.handed = b.handed
BY DEF Books, BeginEnd

LEMMA BookFinished ==
    ASSUME NEW b \in Books, NEW id \in Nat, NEW outcome, NEW r, r = FinishEnd(b, id, outcome)
    PROVE  /\ r \in Books /\ r.open = b.open /\ r.owner = b.owner /\ r.ending = b.ending \ {id}
           /\ r.ended \in {b.ended, b.ended \cup {id}}
           /\ r.retry \subseteq b.retry \cup {id} /\ r.handed = b.handed
BY DEF Books, FinishEnd

LEMMA BookGivenUp ==
    ASSUME NEW b \in Books, NEW id \in Nat, NEW r, r = FinishEnd(b, id, "Failed")
    PROVE  /\ r \in Books /\ r.open = b.open /\ r.owner = b.owner /\ r.ending = b.ending \ {id}
           /\ r.ended = b.ended /\ r.retry = b.retry /\ r.handed = b.handed
BY DEF Books, FinishEnd

LEMMA BookHanded ==
    ASSUME NEW b \in Books
    PROVE  LET ids == ForShutdown(b)
               r == TakeForShutdown(b)
               g == GiveUp(r, ids)
           IN /\ ids \subseteq Nat
              /\ r \in Books /\ r.open = NoSession /\ r.owner = NoSession /\ r.ending = b.ending \cup ids
              /\ r.retry = {} /\ r.ended = b.ended /\ r.handed = b.handed \cup ids
              /\ g \in Books /\ g.open = NoSession /\ g.owner = NoSession /\ g.ending = r.ending \ ids
              /\ g.retry = {} /\ g.ended = b.ended /\ g.handed = r.handed
<1>1. ForShutdown(b) \subseteq Nat
  BY DEF ForShutdown, Books
<1> HIDE DEF ForShutdown
<1>2. /\ TakeForShutdown(b) \in Books /\ TakeForShutdown(b).open = NoSession /\ TakeForShutdown(b).owner = NoSession
      /\ TakeForShutdown(b).ending = b.ending \cup ForShutdown(b) /\ TakeForShutdown(b).retry = {}
      /\ TakeForShutdown(b).ended = b.ended /\ TakeForShutdown(b).handed = b.handed \cup ForShutdown(b)
  BY <1>1, BookClosed DEF TakeForShutdown, Books
<1> HIDE DEF TakeForShutdown
<1> QED BY <1>1, <1>2 DEF GiveUp, Books

LEMMA BookStarted ==
    ASSUME NEW b \in Books, NEW id \in Nat, NEW e \in Endpoints
    PROVE  LET r == OnStarted(b, id, e)
           IN /\ r \in Books /\ r.open = id /\ r.owner = e /\ r.ending = b.ending /\ r.retry = b.retry
              /\ r.ended = b.ended /\ r.handed = b.handed
BY DEF Books, OnStarted

LEMMA BookEmpty ==
    /\ EmptyBook \in Books /\ EmptyBook.open = NoSession /\ EmptyBook.owner = NoSession /\ EmptyBook.ending = {}
    /\ EmptyBook.retry = {} /\ EmptyBook.ended = {} /\ EmptyBook.handed = {}
BY DEF Books, EmptyBook, NoSession

-----------------------------------------------------------------------------
(* What the steps do, field by field.                                      *)

(* The open session is closed, and its end tried (kept) or given up. *)
Closing(kept) ==
    /\ book.open # NoSession
    /\ book' \in Books /\ book'.open = NoSession /\ book'.owner = NoSession
    /\ book'.ended = book.ended /\ book'.handed = book.handed
    /\ book'.retry \subseteq book.retry \cup {book.open}
    /\ IF kept THEN book'.ending = book.ending \cup {book.open} /\ owed' = owed
       ELSE /\ book'.ending = (book.ending \cup {book.open}) \ {book.open}
            /\ owed' = IF owed = book.open THEN NoSession ELSE owed

CloseOpen ==
    \/ Closing(TRUE) /\ jobs' = Append(jobs, [kind |-> "end", id |-> book.open])
    \/ Closing(FALSE) /\ jobs' = jobs

LEMMA OwnedEnds ==
    ASSUME Typed, NEW e \in Endpoints, Owned(book, e) # NoSession, EnqueueEnd(ReleaseOwner(book, e), Owned(book, e))
    PROVE  CloseOpen /\ book.owner = e
<1> DEFINE r == ReleaseOwner(book, e)
<1>1. /\ Owned(book, e) = book.open /\ book.open # NoSession /\ book.owner = e
      /\ r \in Books /\ r.open = NoSession /\ r.owner = NoSession
      /\ r.ending = book.ending \cup {book.open} /\ r.retry = book.retry /\ r.ended = book.ended
      /\ r.handed = book.handed
  BY BookReleased DEF Typed
<1>2. book.open \in Nat
  BY DEF Typed, Books
<1> HIDE DEF r
<1>3. EnqueueEnd(r, book.open)
  BY <1>1 DEF r
<1>4. CASE LoadToken
  BY <1>1, <1>3, <1>4 DEF EnqueueEnd, CloseOpen, Closing
<1>5. CASE ~LoadToken
  <2> DEFINE f == FinishEnd(r, book.open, "Failed")
  <2>1. /\ f \in Books /\ f.open = r.open /\ f.owner = r.owner /\ f.ending = r.ending \ {book.open}
        /\ f.ended = r.ended /\ f.retry = r.retry /\ f.handed = r.handed
    BY <1>1, <1>2, BookGivenUp
  <2>2. book' = f /\ jobs' = jobs /\ owed' = IF owed = book.open THEN NoSession ELSE owed
    BY <1>3, <1>5 DEF EnqueueEnd
  <2> HIDE DEF f
  <2> QED BY <1>1, <2>1, <2>2 DEF CloseOpen, Closing
<1> QED BY <1>1, <1>4, <1>5

LEMMA UnadoptedEnds ==
    ASSUME Typed, book.open # NoSession, EnqueueEnd(BeginEnd(Closed(book), book.open), book.open)
    PROVE  CloseOpen
<1> DEFINE r == BeginEnd(Closed(book), book.open)
<1>1. book.open \in Nat
  BY DEF Typed, Books
<1>2. /\ r \in Books /\ r.open = NoSession /\ r.owner = NoSession
      /\ r.ending = book.ending \cup {book.open} /\ r.retry = book.retry \ {book.open} /\ r.ended = book.ended
      /\ r.handed = book.handed
  <2>1. /\ Closed(book) \in Books /\ Closed(book).open = NoSession /\ Closed(book).owner = NoSession
        /\ Closed(book).ending = book.ending /\ Closed(book).retry = book.retry
        /\ Closed(book).ended = book.ended /\ Closed(book).handed = book.handed
    BY BookClosed DEF Typed
  <2> QED BY <1>1, <2>1, BookBegun
<1> HIDE DEF r
<1>3. EnqueueEnd(r, book.open)
  BY DEF r
<1>4. CASE LoadToken
  BY <1>2, <1>3, <1>4 DEF EnqueueEnd, CloseOpen, Closing
<1>5. CASE ~LoadToken
  <2> DEFINE f == FinishEnd(r, book.open, "Failed")
  <2>1. /\ f \in Books /\ f.open = r.open /\ f.owner = r.owner /\ f.ending = r.ending \ {book.open}
        /\ f.ended = r.ended /\ f.retry = r.retry /\ f.handed = r.handed
    BY <1>1, <1>2, BookGivenUp
  <2>2. book' = f /\ jobs' = jobs /\ owed' = IF owed = book.open THEN NoSession ELSE owed
    BY <1>3, <1>5 DEF EnqueueEnd
  <2> HIDE DEF f
  <2> QED BY <1>2, <2>1, <2>2 DEF CloseOpen, Closing
<1> QED BY <1>4, <1>5

(* A controller comes to want no other result and gets no session. *)
Quieter(k, c) ==
    /\ c.gen >= k.gen
    /\ c.pending => k.pending
    /\ c.pending /\ c.state = "Starting" => c = k
    /\ c.adopted => k.adopted /\ c.id = k.id

Calmer == ctl' \in [Endpoints -> Controllers] /\ \A e \in Endpoints : Quieter(ctl[e], ctl'[e])

(* An event that calms: a stop, what an output reports, a result that is not adopted. *)
UiStep ==
    /\ phase = "up" /\ Calmer
    /\ posts' = posts \/ (posts # <<>> /\ posts' = Tail(posts))
    /\ UNCHANGED <<phase, thread, file, live, created, filed>>
    /\ \/ UNCHANGED <<book, jobs, owed>>
       \/ CloseOpen /\ book.owner \in Endpoints /\ ~ctl'[book.owner].adopted /\ ~ctl'[book.owner].pending
       \/ CloseOpen /\ posts # <<>> /\ posts' = Tail(posts) /\ Head(posts).id = book.open

(* A result is adopted. *)
Adopt ==
    /\ phase = "up" /\ posts # <<>> /\ posts' = Tail(posts)
    /\ UNCHANGED <<phase, thread, file, live, created, filed, book, jobs, owed>>
    /\ LET r == Head(posts)
       IN /\ r.id # NoSession /\ Wanted(r.ep, r.gen)
          /\ ctl' \in [Endpoints -> Controllers]
          /\ \A e \in Endpoints \ {r.ep} : ctl'[e] = ctl[e]
          /\ ~ctl'[r.ep].pending /\ ctl'[r.ep].id = r.id /\ ctl'[r.ep].gen = ctl[r.ep].gen

LEMMA StoppedCalm ==
    ASSUME NEW c \in Controllers
    PROVE  /\ Stopped(c) \in Controllers /\ Quieter(c, Stopped(c))
           /\ ~Stopped(c).adopted /\ ~Stopped(c).pending
<1> DEFINE g == IF c.pending THEN c.gen + 1 ELSE c.gen
           s == [state |-> "Idle", gen |-> g, pending |-> FALSE, session |-> FALSE, id |-> NoSession,
                 output |-> "none", key |-> NoSession, reused |-> FALSE, adopted |-> FALSE]
<1>1. g \in Nat /\ g >= c.gen
  BY DEF Controllers
<1>5. Stopped(c) = [FreshController EXCEPT !.gen = g]
  BY DEF Stopped
<1> HIDE DEF g
<1>2. Stopped(c) = s
  BY <1>5 DEF FreshController
<1>3. s \in Controllers
  BY <1>1 DEF Controllers, NoSession
<1>4. s.gen = g /\ s.pending = FALSE /\ s.adopted = FALSE
  OBVIOUS
<1> HIDE DEF s
<1> QED BY <1>1, <1>2, <1>3, <1>4 DEF Quieter

LEMMA CalmOne ==
    ASSUME Typed, NEW e \in Endpoints, NEW c \in Controllers, ctl' = [ctl EXCEPT ![e] = c], Quieter(ctl[e], c)
    PROVE  Calmer /\ ctl'[e] = c
<1>1. ctl' \in [Endpoints -> Controllers] /\ ctl'[e] = c /\ \A d \in Endpoints \ {e} : ctl'[d] = ctl[d]
  BY DEF Typed
<1>2. \A d \in Endpoints : Quieter(ctl[d], ctl[d])
  BY DEF Typed, Controllers, Quieter
<1>3. ASSUME NEW d \in Endpoints
      PROVE  Quieter(ctl[d], ctl'[d])
  <2>1. CASE d = e
    BY <1>1, <2>1
  <2>2. CASE d # e
    BY <1>1, <1>2, <2>2
  <2> QED BY <2>1, <2>2
<1> QED BY <1>1, <1>3 DEF Calmer

(* A start_output() changes the output of a controller, and the key of a new one. *)
SameButOutput(k, c) ==
    /\ c.state = k.state /\ c.gen = k.gen /\ c.pending = k.pending /\ c.session = k.session
    /\ c.id = k.id /\ c.reused = k.reused /\ c.adopted = k.adopted

LEMMA OutputChanged ==
    ASSUME NEW k \in Controllers, NEW id \in Nat, NEW c \in Refused(k, id) \cup {WithOutput(k, id)}
    PROVE  c \in Controllers /\ SameButOutput(k, c)
<1>1. CASE c = k
  BY <1>1 DEF SameButOutput
<1>2. CASE c = [k EXCEPT !.output = "off", !.key = id]
  <2>1. c \in Controllers
    BY <1>2 DEF Controllers
  <2> QED BY <1>2, <2>1 DEF SameButOutput, Controllers
<1>3. ASSUME NEW o \in {"off", "trying", "on"}, c = [k EXCEPT !.output = o]
      PROVE  c \in Controllers /\ SameButOutput(k, c)
  <2>1. c \in Controllers
    BY <1>3 DEF Controllers
  <2> QED BY <1>3, <2>1 DEF SameButOutput, Controllers
<1> QED BY <1>1, <1>2, <1>3 DEF Refused, WithOutput

LEMMA StartedCalm ==
    ASSUME NEW k \in Controllers, NEW b \in BOOLEAN, NEW c,
           c = [k EXCEPT !.state = "Starting", !.gen = k.gen + 1, !.pending = TRUE, !.reused = b, !.adopted = FALSE]
    PROVE  c \in Controllers /\ c.gen = k.gen + 1 /\ c.adopted = FALSE
<1>1. k.gen + 1 \in Nat
  BY DEF Controllers
<1>2. c \in Controllers
  BY <1>1 DEF Controllers
<1> QED BY <1>2 DEF Controllers

LEMMA StopStep ==
    ASSUME Typed, NEW e \in Endpoints, StopEndpoint(e)
    PROVE  UiStep
<1>1. /\ ctl' = [ctl EXCEPT ![e] = Stopped(ctl[e])] /\ EndSession(e) /\ phase = "up"
      /\ UNCHANGED <<phase, thread, posts, file, live, created, filed>>
  BY DEF StopEndpoint, server
<1>2. /\ Stopped(ctl[e]) \in Controllers /\ Quieter(ctl[e], Stopped(ctl[e]))
      /\ ~Stopped(ctl[e]).adopted /\ ~Stopped(ctl[e]).pending
  BY StoppedCalm DEF Typed
<1>3. Calmer /\ ctl'[e] = Stopped(ctl[e])
  BY <1>1, <1>2, CalmOne
<1>4. UNCHANGED <<book, jobs, owed>> \/ (CloseOpen /\ book.owner = e)
  BY <1>1, OwnedEnds DEF EndSession
<1> QED BY <1>1, <1>2, <1>3, <1>4 DEF UiStep

LEMMA ReportStep ==
    ASSUME Typed, NEW e \in Endpoints, OutputReports(e)
    PROVE  UiStep
<1>1. phase = "up" /\ UNCHANGED <<phase, thread, posts, file, live, created, filed, book, jobs, owed>>
  BY DEF OutputReports, server, history
<1>2. PICK s \in {"Live", "Reconnecting", "FailedHard", "Idle"}, o \in {"off", "trying", "on"} :
         ctl' = [ctl EXCEPT ![e].state = s, ![e].output = o]
  BY DEF OutputReports
<1> DEFINE c == [ctl[e] EXCEPT !.state = s, !.output = o]
<1>3. ctl[e] \in Controllers /\ ctl' = [ctl EXCEPT ![e] = c]
  BY <1>2 DEF Typed
<1>4. c \in Controllers
  BY <1>3 DEF Controllers
<1>5. c.state = s /\ c.gen = ctl[e].gen /\ c.pending = ctl[e].pending /\ c.adopted = ctl[e].adopted /\ c.id = ctl[e].id
  BY <1>3 DEF Controllers
<1>6. ctl[e].gen \in Nat
  BY <1>3 DEF Controllers
<1> HIDE DEF c
<1>7. Quieter(ctl[e], c)
  BY <1>5, <1>6 DEF Quieter
<1>8. Calmer
  BY <1>3, <1>4, <1>7, CalmOne
<1> QED BY <1>1, <1>8 DEF UiStep

LEMMA DeliverStep ==
    ASSUME Typed, Holding, Deliver
    PROVE  UiStep \/ Adopt
<1> DEFINE r == Head(posts)
<1>1. /\ phase = "up" /\ posts # <<>> /\ posts' = Tail(posts)
      /\ UNCHANGED <<phase, thread, file, live, created, filed>>
  BY DEF Deliver, server
<1>2. r \in Results
  BY <1>1, TailAt DEF Typed
<1>3. r.ep \in Endpoints /\ r.id \in Nat
  BY <1>2 DEF Results
<1> HIDE DEF r
<1>7. ctl[r.ep] \in Controllers
  BY <1>3 DEF Typed
<1>8. Wanted(r.ep, r.gen) => ~ctl[r.ep].adopted
  BY <1>3 DEF Wanted, Holding
<1>4. CASE /\ Wanted(r.ep, r.gen) /\ r.id # NoSession
           /\ ctl' = [ctl EXCEPT ![r.ep] = [WithOutput(@, r.id) EXCEPT
                         !.output = "trying", !.pending = FALSE, !.session = TRUE, !.id = r.id, !.adopted = TRUE]]
           /\ UNCHANGED <<book, jobs, owed>>
  <2> DEFINE k == WithOutput(ctl[r.ep], r.id)
             c == [k EXCEPT !.output = "trying", !.pending = FALSE, !.session = TRUE, !.id = r.id, !.adopted = TRUE]
  <2>1. ctl' = [ctl EXCEPT ![r.ep] = c]
    BY <1>4
  <2>2. k \in Controllers /\ k.gen = ctl[r.ep].gen
    BY <1>3, <1>7, OutputChanged DEF SameButOutput
  <2> HIDE DEF k
  <2>3. c \in Controllers
    BY <1>3, <2>2 DEF Controllers
  <2>4. c.gen = ctl[r.ep].gen /\ ~c.pending /\ c.id = r.id
    BY <2>2 DEF Controllers
  <2> HIDE DEF c
  <2>5. ctl' \in [Endpoints -> Controllers] /\ ctl'[r.ep] = c /\ \A e \in Endpoints \ {r.ep} : ctl'[e] = ctl[e]
    BY <1>3, <2>1, <2>3 DEF Typed
  <2> QED BY <1>1, <1>4, <2>4, <2>5 DEF Adopt, r
<1>5. CASE /\ Wanted(r.ep, r.gen)
           /\ \E k \in Refused(ctl[r.ep], r.id) :
                 ctl' = [ctl EXCEPT ![r.ep] = [k EXCEPT !.state = "FailedHard", !.pending = FALSE,
                                                        !.session = FALSE, !.id = NoSession]]
           /\ IF Owned(book, r.ep) = NoSession THEN UNCHANGED <<book, jobs, owed>>
              ELSE EnqueueEnd(ReleaseOwner(book, r.ep), Owned(book, r.ep))
  <2>1. PICK k \in Refused(ctl[r.ep], r.id) :
           ctl' = [ctl EXCEPT ![r.ep] = [k EXCEPT !.state = "FailedHard", !.pending = FALSE,
                                                  !.session = FALSE, !.id = NoSession]]
    BY <1>5
  <2> DEFINE c == [k EXCEPT !.state = "FailedHard", !.pending = FALSE, !.session = FALSE, !.id = NoSession]
  <2>2. k \in Controllers /\ SameButOutput(ctl[r.ep], k)
    BY <1>3, <1>7, <2>1, OutputChanged
  <2>3. c \in Controllers /\ c.gen = k.gen /\ c.adopted = k.adopted /\ c.pending = FALSE
    <3>1. c \in Controllers
      BY <2>2 DEF Controllers, NoSession
    <3> QED BY <2>2, <3>1 DEF Controllers
  <2>4. ctl' = [ctl EXCEPT ![r.ep] = c]
    BY <2>1
  <2> HIDE DEF c
  <2>5. c.gen = ctl[r.ep].gen /\ ctl[r.ep].gen \in Nat /\ ~c.adopted /\ ~c.pending
    BY <1>5, <1>7, <1>8, <2>2, <2>3 DEF SameButOutput, Controllers
  <2>6. Quieter(ctl[r.ep], c)
    BY <2>5 DEF Quieter
  <2>7. Calmer /\ ~ctl'[r.ep].adopted /\ ~ctl'[r.ep].pending
    BY <1>3, <2>3, <2>4, <2>5, <2>6, CalmOne
  <2>8. UNCHANGED <<book, jobs, owed>> \/ (CloseOpen /\ book.owner = r.ep)
    BY <1>3, <1>5, OwnedEnds
  <2> QED BY <1>1, <1>3, <2>7, <2>8 DEF UiStep
<1>6. CASE /\ ctl' = IF Wanted(r.ep, r.gen)
                     THEN [ctl EXCEPT ![r.ep].state = "FailedHard", ![r.ep].pending = FALSE]
                     ELSE ctl
           /\ IF Unadopted(book, r.id) THEN EnqueueEnd(BeginEnd(Closed(book), book.open), book.open)
              ELSE UNCHANGED <<book, jobs, owed>>
  <2>3. ASSUME ctl' = ctl PROVE Calmer
    BY <2>3 DEF Calmer, Typed, Quieter, Controllers
  <2>4. ASSUME ctl' = [ctl EXCEPT ![r.ep].state = "FailedHard", ![r.ep].pending = FALSE] PROVE Calmer
    <3> DEFINE c == [ctl[r.ep] EXCEPT !.state = "FailedHard", !.pending = FALSE]
    <3>1. c \in Controllers
      BY <1>7 DEF Controllers
    <3>2. c.gen = ctl[r.ep].gen /\ c.adopted = ctl[r.ep].adopted /\ c.id = ctl[r.ep].id /\ ~c.pending
      BY <1>7 DEF Controllers
    <3>3. ctl' = [ctl EXCEPT ![r.ep] = c] /\ ctl[r.ep].gen \in Nat
      BY <1>7, <2>4 DEF Controllers
    <3> HIDE DEF c
    <3>4. Quieter(ctl[r.ep], c)
      BY <3>2, <3>3 DEF Quieter
    <3> QED BY <1>3, <3>1, <3>3, <3>4, CalmOne
  <2>1. Calmer
    BY <1>6, <2>3, <2>4
  <2>2. UNCHANGED <<book, jobs, owed>> \/ (CloseOpen /\ r.id = book.open)
    BY <1>6, UnadoptedEnds DEF Unadopted
  <2> QED BY <1>1, <2>1, <2>2 DEF UiStep, r
<1> QED BY <1>4, <1>5, <1>6 DEF Deliver, r

StartStep(e) ==
    /\ phase = "up" /\ e \in Endpoints
    /\ ctl' \in [Endpoints -> Controllers] /\ \A d \in Endpoints \ {e} : ctl'[d] = ctl[d]
    /\ ctl'[e].gen = ctl[e].gen + 1 /\ ~ctl'[e].adopted
    /\ UNCHANGED <<phase, book, thread, file, live, created, filed, owed>>
    /\ \/ posts' = Append(posts, [ep |-> e, gen |-> ctl[e].gen + 1, id |-> NoSession]) /\ jobs' = jobs
       \/ jobs' = Append(jobs, [kind |-> "start", ep |-> e, gen |-> ctl[e].gen + 1]) /\ posts' = posts

LEMMA StartsStep ==
    ASSUME Typed, NEW e \in Endpoints, StartEndpoint(e)
    PROVE  StartStep(e)
<1> DEFINE b == ctl[e].output # "none"
           c == [ctl[e] EXCEPT !.state = "Starting", !.gen = ctl[e].gen + 1, !.pending = TRUE, !.reused = b,
                               !.adopted = FALSE]
<1>1. /\ phase = "up" /\ ctl' = [ctl EXCEPT ![e] = c]
      /\ UNCHANGED <<phase, book, thread, file, live, created, filed, owed>>
      /\ \/ posts' = Append(posts, [ep |-> e, gen |-> ctl[e].gen + 1, id |-> NoSession]) /\ jobs' = jobs
         \/ jobs' = Append(jobs, [kind |-> "start", ep |-> e, gen |-> ctl[e].gen + 1]) /\ posts' = posts
  BY DEF StartEndpoint, Posted, server, history
<1>2. ctl[e] \in Controllers
  BY DEF Typed
<1>4. c \in Controllers /\ c.gen = ctl[e].gen + 1 /\ c.adopted = FALSE
  BY <1>2, StartedCalm
<1> HIDE DEF c
<1>6. ctl' \in [Endpoints -> Controllers] /\ ctl'[e] = c /\ \A d \in Endpoints \ {e} : ctl'[d] = ctl[d]
  BY <1>1, <1>4 DEF Typed
<1> QED BY <1>1, <1>4, <1>6 DEF StartStep

(* The thread: which job it is at does not change but where the job begins or ends. *)
SameJob == thread'.job = thread.job /\ thread'.ep = thread.ep /\ thread'.gen = thread.gen

LEMMA IdleTyped ==
    /\ IdleThread \in Threads /\ IdleThread.at = "idle" /\ IdleThread.job = "none" /\ IdleThread.todo = <<>>
    /\ IdleThread.id = NoSession
BY DEF IdleThread, Threads, NoSession

TakeStep ==
    /\ phase = "up" /\ thread.at = "idle" /\ jobs # <<>> /\ jobs' = Tail(jobs)
    /\ UNCHANGED <<phase, ctl, book, posts, file, live, created, owed, filed>>
    /\ thread' \in Threads /\ thread'.todo = <<>>
    /\ LET j == Head(jobs)
       IN \/ j.kind = "end" /\ thread'.at = "send" /\ thread'.job = "end" /\ thread'.id = j.id /\ j.id \in Nat
          \/ j.kind = "start" /\ thread'.at = "claim" /\ thread'.job = "start" /\ thread'.id = NoSession
             /\ thread'.ep = j.ep /\ thread'.gen = j.gen /\ j.ep \in Endpoints /\ j.gen \in Nat

LEMMA TakesStep ==
    ASSUME Typed, TakeJob
    PROVE  TakeStep
<1> DEFINE j == Head(jobs)
<1>1. /\ phase = "up" /\ thread.at = "idle" /\ jobs # <<>> /\ jobs' = Tail(jobs)
      /\ UNCHANGED <<phase, ctl, book, posts, file, live, created, owed, filed>>
      /\ thread' = IF j.kind = "end"
                   THEN [IdleThread EXCEPT !.at = "send", !.job = "end", !.id = j.id]
                   ELSE [IdleThread EXCEPT !.at = "claim", !.job = "start", !.ep = j.ep, !.gen = j.gen]
  BY DEF TakeJob, server, history
<1>2. j \in EndJobs \cup StartJobs
  BY <1>1, TailAt DEF Typed
<1> HIDE DEF j
<1>3. CASE j.kind = "end"
  <2>1. j.id \in Nat
    BY <1>2, <1>3 DEF EndJobs, StartJobs
  <2>2. thread' = [at |-> "send", job |-> "end", ep |-> NoSession, gen |-> 0, todo |-> <<>>, id |-> j.id,
                   outcome |-> "Ended"]
    BY <1>1, <1>3 DEF IdleThread
  <2>3. thread' \in Threads
    BY <2>1, <2>2 DEF Threads
  <2>4. thread'.todo = <<>> /\ thread'.at = "send" /\ thread'.job = "end" /\ thread'.id = j.id
    BY <2>2
  <2> QED BY <1>1, <1>3, <2>1, <2>3, <2>4 DEF TakeStep, j
<1>4. CASE j.kind = "start"
  <2>1. j.ep \in Endpoints /\ j.gen \in Nat
    BY <1>2, <1>4 DEF EndJobs, StartJobs
  <2>2. thread' = [at |-> "claim", job |-> "start", ep |-> j.ep, gen |-> j.gen, todo |-> <<>>, id |-> NoSession,
                   outcome |-> "Ended"]
    BY <1>1, <1>4 DEF IdleThread
  <2>3. thread' \in Threads
    BY <2>1, <2>2 DEF Threads, NoSession
  <2>4. /\ thread'.todo = <<>> /\ thread'.at = "claim" /\ thread'.job = "start" /\ thread'.id = NoSession
        /\ thread'.ep = j.ep /\ thread'.gen = j.gen
    BY <2>2
  <2> QED BY <1>1, <1>4, <2>1, <2>3, <2>4 DEF TakeStep, j
<1> QED BY <1>2, <1>3, <1>4 DEF EndJobs, StartJobs

ClaimStep ==
    /\ thread.at = "claim"
    /\ UNCHANGED <<phase, ctl, jobs, file, live, created, owed, filed>>
    /\ \/ /\ thread' = IdleThread /\ book' = book
          /\ posts' = Append(posts, [ep |-> thread.ep, gen |-> thread.gen, id |-> NoSession])
       \/ /\ book.open = NoSession \/ book.owner = thread.ep
          /\ book' \in Books /\ book'.open = NoSession /\ book'.owner = NoSession
          /\ book'.ending = book.ending /\ book'.retry = book.retry /\ book'.ended = book.ended
          /\ book'.handed = book.handed
          /\ thread' \in Threads /\ thread'.at = "stale" /\ SameJob /\ thread'.id = thread.id /\ posts' = posts
          /\ \A i \in DOMAIN thread'.todo : thread'.todo[i] \in {book.open, file}
          /\ book.open # NoSession => \E i \in DOMAIN thread'.todo : thread'.todo[i] = book.open

LEMMA ClaimsStep ==
    ASSUME Typed, Claim
    PROVE  ClaimStep
<1>1. thread.at = "claim" /\ UNCHANGED <<phase, ctl, jobs, file, live, created, owed, filed>>
  BY DEF Claim, server, history
<1>2. CASE Busy(book, thread.ep)
  BY <1>1, <1>2 DEF Claim, Posted, ClaimStep
<1>3. CASE ~Busy(book, thread.ep)
  <2> DEFINE ids == {Stale(book), file} \ {NoSession}
             todo == SetToSeq(ids)
  <2>1. Stale(book) = book.open /\ book.open \in Nat /\ file \in Nat
    BY DEF Stale, Typed, Books
  <2>2. IsFiniteSet(ids) /\ ids \subseteq Nat
    <3>1. IsFiniteSet({}) /\ IsFiniteSet({} \cup {Stale(book)}) /\ IsFiniteSet({} \cup {Stale(book)} \cup {file})
      BY FS_EmptySet, FS_AddElement
    <3>2. ids \subseteq {} \cup {Stale(book)} \cup {file}
      OBVIOUS
    <3> QED BY <2>1, <3>1, <3>2, FS_Subset
  <2>3. /\ todo \in Seq(Nat) /\ \A i \in DOMAIN todo : todo[i] \in ids
        /\ \A x \in ids : \E i \in DOMAIN todo : todo[i] = x
    BY <2>2, SetToSeqAt
  <2>4. book' = Closed(book) /\ posts' = posts /\ thread' = [thread EXCEPT !.at = "stale", !.todo = todo]
    BY <1>3 DEF Claim
  <2> HIDE DEF todo
  <2>5. /\ thread' \in Threads /\ thread'.at = "stale" /\ SameJob /\ thread'.id = thread.id /\ thread'.todo = todo
    BY <2>3, <2>4 DEF Typed, Threads, SameJob
  <2>6. /\ book' \in Books /\ book'.open = NoSession /\ book'.owner = NoSession
        /\ book'.ending = book.ending /\ book'.retry = book.retry /\ book'.ended = book.ended
        /\ book'.handed = book.handed
    BY <2>4, BookClosed DEF Typed
  <2>7. book.open = NoSession \/ book.owner = thread.ep
    BY <1>3 DEF Busy
  <2>8. /\ \A i \in DOMAIN todo : todo[i] \in {book.open, file}
        /\ book.open # NoSession => \E i \in DOMAIN todo : todo[i] = book.open
    BY <2>1, <2>3
  <2> QED BY <1>1, <2>4, <2>5, <2>6, <2>7, <2>8 DEF ClaimStep
<1> QED BY <1>2, <1>3

StaleStep ==
    /\ thread.at = "stale" /\ thread' \in Threads /\ SameJob
    /\ UNCHANGED <<phase, ctl, jobs, posts, file, live, created, owed, filed>>
    /\ \/ thread.todo = <<>> /\ thread'.at = "request" /\ thread'.todo = <<>> /\ thread'.id = thread.id /\ book' = book
       \/ /\ thread.todo # <<>> /\ thread'.todo = Tail(thread.todo)
          /\ thread'.at = "send" /\ thread'.id = Head(thread.todo) /\ thread'.id # NoSession
          /\ thread'.id \notin book.ending \cup book.ended
          /\ book' \in Books /\ book'.open = book.open /\ book'.owner = book.owner
          /\ book'.ending = book.ending \cup {thread'.id} /\ book'.retry \subseteq book.retry
          /\ book'.ended = book.ended /\ book'.handed = book.handed
       \/ /\ thread.todo # <<>> /\ thread'.todo = Tail(thread.todo)
          /\ thread'.at = "stale" /\ thread'.id = thread.id /\ book' = book
          /\ Head(thread.todo) = NoSession \/ Head(thread.todo) \in book.ending \cup book.ended

LEMMA StalesStep ==
    ASSUME Typed, NextStale
    PROVE  StaleStep
<1>1. thread.at = "stale" /\ UNCHANGED <<phase, ctl, jobs, posts, file, live, created, owed, filed>>
  BY DEF NextStale, server, history
<1>2. thread \in Threads /\ thread.todo \in Seq(Nat)
  BY DEF Typed, Threads
<1>3. CASE thread.todo = <<>>
  <2>1. thread' = [thread EXCEPT !.at = "request"] /\ book' = book
    BY <1>3 DEF NextStale, Goto
  <2>2. thread' \in Threads /\ SameJob /\ thread'.at = "request" /\ thread'.todo = thread.todo /\ thread'.id = thread.id
    BY <1>2, <2>1 DEF Threads, SameJob
  <2> QED BY <1>1, <1>3, <2>1, <2>2 DEF StaleStep
<1>4. CASE thread.todo # <<>>
  <2> DEFINE id == Head(thread.todo)
             rest == Tail(thread.todo)
  <2>1. id \in Nat /\ rest \in Seq(Nat)
    BY <1>2, <1>4, HeadTailProperties
  <2>2. CASE MayEnd(book, id)
    <3>1. book' = BeginEnd(book, id) /\ thread' = [thread EXCEPT !.at = "send", !.id = id, !.todo = rest]
      BY <1>4, <2>2 DEF NextStale
    <3> HIDE DEF id, rest
    <3>2. /\ thread' \in Threads /\ SameJob /\ thread'.at = "send" /\ thread'.todo = rest /\ thread'.id = id
      BY <1>2, <2>1, <3>1 DEF Threads, SameJob
    <3>3. /\ book' \in Books /\ book'.open = book.open /\ book'.owner = book.owner
          /\ book'.ending = book.ending \cup {id} /\ book'.retry = book.retry \ {id}
          /\ book'.ended = book.ended /\ book'.handed = book.handed
      BY <2>1, <3>1, BookBegun DEF Typed
    <3> QED BY <1>1, <1>4, <2>2, <3>2, <3>3 DEF StaleStep, MayEnd, id, rest
  <2>3. CASE ~MayEnd(book, id)
    <3>1. book' = book /\ thread' = [thread EXCEPT !.todo = rest]
      BY <1>4, <2>3 DEF NextStale
    <3> HIDE DEF id, rest
    <3>2. /\ thread' \in Threads /\ SameJob /\ thread'.at = thread.at /\ thread'.todo = rest /\ thread'.id = thread.id
      BY <1>2, <2>1, <3>1 DEF Threads, SameJob
    <3> QED BY <1>1, <1>4, <2>3, <3>1, <3>2 DEF StaleStep, MayEnd, id, rest
  <2> QED BY <2>2, <2>3
<1> QED BY <1>3, <1>4

SendStep ==
    /\ thread.at = "send" /\ thread' \in Threads /\ SameJob
    /\ thread'.at = "settle" /\ thread'.id = thread.id /\ thread'.todo = thread.todo
    /\ UNCHANGED <<phase, ctl, book, jobs, posts, file, created>>
    /\ live' \in {live, NoSession} /\ filed' = (filed /\ live' = live)
    /\ thread'.outcome = "Ended" /\ thread.id # NoSession => live' # thread.id
    /\ owed' = IF owed = thread.id THEN NoSession ELSE owed

(* An end is confirmed only when the request has reached the server. *)
LEMMA ConfirmedReached ==
    ASSUME NEW reached \in BOOLEAN, NEW http \in Perform(cancelled, reached, {{"success"}}), ParseEnd(http) = "None"
    PROVE  reached
<1> SUFFICES ASSUME ~reached PROVE FALSE
  OBVIOUS
<1>1. http = Transport(cancelled)
  BY DEF Perform
<1>2. ~http.transport_ok
  BY <1>1 DEF Transport
<1>3. CallError(http) = "Transport"
  BY <1>2 DEF CallError
<1> QED BY <1>3 DEF ParseEnd

LEMMA SendsStep ==
    ASSUME Typed, SendEnd
    PROVE  SendStep
<1>1. /\ thread.at = "send" /\ UNCHANGED <<phase, ctl, book, jobs, posts, file, created>>
      /\ owed' = IF owed = thread.id THEN NoSession ELSE owed
  BY DEF SendEnd
<1> DEFINE Effect(reached, http) ==
          /\ live' = IF reached /\ live = thread.id THEN NoSession ELSE live
          /\ thread' = [thread EXCEPT !.at = "settle",
                           !.outcome = IF ParseEnd(http) = "None" THEN "Ended"
                                       ELSE IF http.cancelled THEN "Cancelled" ELSE "Failed"]
          /\ filed' = (filed /\ live' = live)
<1>0. PICK reached \in BOOLEAN : \E http \in Perform(cancelled, reached, {{"success"}}) : Effect(reached, http)
  BY DEF SendEnd
<1>2. PICK http \in Perform(cancelled, reached, {{"success"}}) : Effect(reached, http)
  BY <1>0
<1> DEFINE o == IF ParseEnd(http) = "None" THEN "Ended" ELSE IF http.cancelled THEN "Cancelled" ELSE "Failed"
<1>3. o \in {"Ended", "Cancelled", "Failed"} /\ (o = "Ended" => reached)
  BY ConfirmedReached
<1>4. thread' = [thread EXCEPT !.at = "settle", !.outcome = o]
  BY <1>2
<1> HIDE DEF o
<1>5. /\ thread' \in Threads /\ SameJob /\ thread'.outcome = o
      /\ thread'.at = "settle" /\ thread'.id = thread.id /\ thread'.todo = thread.todo
  BY <1>3, <1>4 DEF Typed, Threads, SameJob
<1>6. live' \in {live, NoSession}
  BY <1>2
<1>7. thread'.outcome = "Ended" /\ thread.id # NoSession => live' # thread.id
  BY <1>2, <1>3, <1>5
<1> QED BY <1>1, <1>2, <1>5, <1>6, <1>7 DEF SendStep

SettleStep ==
    /\ thread.at = "settle" /\ UNCHANGED <<phase, ctl, jobs, posts, live, created, owed, filed>>
    /\ file' = file \/ (file' = NoSession /\ thread.outcome = "Ended" /\ file = thread.id)
    /\ book' \in Books /\ book'.open = book.open /\ book'.owner = book.owner
    /\ book'.ending = book.ending \ {thread.id} /\ book'.retry \subseteq book.retry \cup {thread.id}
    /\ book'.ended \in {book.ended, book.ended \cup {thread.id}} /\ book'.handed = book.handed
    /\ thread' \in Threads
    /\ \/ thread.job = "end" /\ thread' = IdleThread
       \/ /\ SameJob /\ thread'.id = thread.id /\ thread'.todo = thread.todo
          /\ \/ thread.job = "start" /\ thread'.at = "stale"
             \/ thread.job = "shutdown" /\ thread'.at = "next"

LEMMA SettlesStep ==
    ASSUME Typed, Control, SettleEnd
    PROVE  SettleStep
<1>1. /\ thread.at = "settle" /\ UNCHANGED <<phase, ctl, jobs, posts, live, created, owed, filed>>
      /\ file' = file \/ (file' = NoSession /\ thread.outcome = "Ended" /\ file = thread.id)
  BY DEF SettleEnd, Cleared, server, history
<1>2. thread \in Threads /\ thread.id \in Nat
  BY DEF Typed, Threads
<1>3. /\ book' \in Books /\ book'.open = book.open /\ book'.owner = book.owner
      /\ book'.ending = book.ending \ {thread.id} /\ book'.retry \subseteq book.retry \cup {thread.id}
      /\ book'.ended \in {book.ended, book.ended \cup {thread.id}} /\ book'.handed = book.handed
  <2>1. book' = FinishEnd(book, thread.id, thread.outcome) /\ book \in Books
    BY DEF SettleEnd, Typed
  <2> QED BY <1>2, <2>1, BookFinished
<1>4. thread.job \in {"start", "end", "shutdown"}
  BY <1>1, <1>2 DEF Control, Threads
<1>5. CASE thread.job = "end"
  <2>1. thread' = IdleThread
    BY <1>5 DEF SettleEnd
  <2> QED BY <1>1, <1>3, <1>5, <2>1, IdleTyped DEF SettleStep
<1>6. CASE thread.job = "start"
  <2>1. thread' = [thread EXCEPT !.at = "stale"]
    BY <1>6 DEF SettleEnd
  <2>2. thread' \in Threads /\ SameJob /\ thread'.at = "stale" /\ thread'.id = thread.id /\ thread'.todo = thread.todo
    BY <1>2, <2>1 DEF Threads, SameJob
  <2> QED BY <1>1, <1>3, <1>6, <2>2 DEF SettleStep
<1>7. CASE thread.job = "shutdown"
  <2>1. thread' = [thread EXCEPT !.at = "next"]
    BY <1>7 DEF SettleEnd
  <2>2. thread' \in Threads /\ SameJob /\ thread'.at = "next" /\ thread'.id = thread.id /\ thread'.todo = thread.todo
    BY <1>2, <2>1 DEF Threads, SameJob
  <2> QED BY <1>1, <1>3, <1>7, <2>2 DEF SettleStep
<1> QED BY <1>4, <1>5, <1>6, <1>7

RequestStep ==
    /\ thread.at = "request" /\ UNCHANGED <<phase, ctl, book, jobs, file>>
    /\ thread' \in Threads
    /\ \/ /\ created' = created + 1 /\ live' = created' /\ filed' = FALSE /\ owed' = created' /\ posts' = posts
          /\ SameJob /\ thread'.at = "started" /\ thread'.id = created' /\ thread'.todo = thread.todo
       \/ /\ thread' = IdleThread
          /\ posts' = Append(posts, [ep |-> thread.ep, gen |-> thread.gen, id |-> NoSession])
          /\ \/ created' = created + 1 /\ live' = created' /\ filed' = FALSE /\ owed' = NoSession
             \/ UNCHANGED <<created, live, filed, owed>>

(* A reply with all of its fields comes only when a session was created. *)
LEMMA CompleteCreated ==
    ASSUME NEW reached \in BOOLEAN, NEW creates \in BOOLEAN, NEW http \in Replies(reached, creates),
           ParseStart(http) = "None"
    PROVE  creates
<1> SUFFICES ASSUME ~creates PROVE FALSE
  OBVIOUS
<1>1. StartFields \subseteq http.body /\ CallError(http) = "None"
  BY DEF ParseStart
<1>2. http \in Perform(cancelled, reached, {{"id"}})
  BY DEF Replies
<1>3. http \in {Transport(cancelled)} \cup {Answer(s, b) : s \in {200, 401, 500}, b \in {{"id"}, NoBody, {}}}
  BY <1>2 DEF Perform
<1>4. http.body \in {{"id"}, NoBody, {}}
  BY <1>3 DEF Transport, Answer
<1>5. "rtmp" \in http.body
  BY <1>1 DEF StartFields
<1> QED BY <1>4, <1>5 DEF NoBody

LEMMA RequestsStep ==
    ASSUME Typed, RequestStart
    PROVE  RequestStep
<1>1. thread.at = "request" /\ UNCHANGED <<phase, ctl, book, jobs, file>>
  BY DEF RequestStart
<1> DEFINE Effect(creates, http) ==
          /\ IF creates THEN created' = created + 1 /\ live' = created' /\ filed' = FALSE
             ELSE UNCHANGED <<server, filed>>
          /\ IF ParseStart(http) = "None"
             THEN /\ thread' = [thread EXCEPT !.at = "started", !.id = created']
                  /\ owed' = created' /\ UNCHANGED posts
             ELSE /\ thread' = IdleThread
                  /\ posts' = Posted(thread.ep, thread.gen, NoSession)
                  /\ owed' = IF creates THEN NoSession ELSE owed
<1>0. PICK reached \in BOOLEAN, creates \in BOOLEAN : \E http \in Replies(reached, creates) : Effect(creates, http)
  BY DEF RequestStart
<1>2. PICK http \in Replies(reached, creates) : Effect(creates, http)
  BY <1>0
<1>3. CASE ParseStart(http) = "None"
  <2>1. creates
    BY <1>3, CompleteCreated
  <2>2. created' = created + 1 /\ live' = created' /\ filed' = FALSE /\ owed' = created' /\ posts' = posts /\ created' \in Nat
    BY <1>2, <1>3, <2>1 DEF Typed
  <2>3. thread' = [thread EXCEPT !.at = "started", !.id = created']
    BY <1>2, <1>3
  <2>4. thread' \in Threads /\ SameJob /\ thread'.at = "started" /\ thread'.id = created' /\ thread'.todo = thread.todo
    BY <2>2, <2>3 DEF Typed, Threads, SameJob
  <2> QED BY <1>1, <2>2, <2>4 DEF RequestStep
<1>4. CASE ParseStart(http) # "None"
  BY <1>1, <1>2, <1>4, IdleTyped DEF RequestStep, Posted, server
<1> QED BY <1>3, <1>4

StartedStep ==
    /\ thread.at = "started" /\ UNCHANGED <<phase, ctl, jobs, posts, file, live, created, owed, filed>>
    /\ thread' \in Threads /\ SameJob /\ thread'.at = "write" /\ thread'.id = thread.id /\ thread'.todo = thread.todo
    /\ book' \in Books /\ book'.open = thread.id /\ book'.owner = thread.ep /\ book'.ending = book.ending
    /\ book'.retry = book.retry /\ book'.ended = book.ended /\ book'.handed = book.handed

LEMMA StartedsStep ==
    ASSUME Typed, Control, Started
    PROVE  StartedStep
<1>1. /\ thread.at = "started" /\ UNCHANGED <<phase, ctl, jobs, posts, file, live, created, owed, filed>>
      /\ book' = OnStarted(book, thread.id, thread.ep) /\ thread' = [thread EXCEPT !.at = "write"]
  BY DEF Started, Goto, server, history
<1>2. thread.id \in Nat /\ thread.ep \in Endpoints
  BY <1>1 DEF Typed, Threads, Control
<1>3. thread' \in Threads /\ SameJob /\ thread'.at = "write" /\ thread'.id = thread.id /\ thread'.todo = thread.todo
  <2>1. thread \in Threads BY DEF Typed
  <2>2. thread' \in Threads BY <1>1, <2>1 DEF Threads
  <2>3. thread'.at = "write" /\ thread'.id = thread.id /\ thread'.todo = thread.todo /\ SameJob
    BY <1>1, <2>1 DEF Threads, SameJob
  <2> QED BY <2>2, <2>3
<1> QED BY <1>1, <1>2, <1>3, BookStarted DEF StartedStep, Typed

WriteStep ==
    /\ thread.at = "write" /\ UNCHANGED <<phase, ctl, book, jobs, live, created, owed>>
    /\ file' \in {file, thread.id} /\ filed' = (filed \/ (file' = thread.id /\ live = thread.id))
    /\ posts' = Append(posts, [ep |-> thread.ep, gen |-> thread.gen, id |-> thread.id])
    /\ thread' = IdleThread

LEMMA WritesStep ==
    ASSUME WriteFile
    PROVE  WriteStep
BY DEF WriteFile, WriteStep, Posted, server

ExitStep ==
    /\ phase = "up" /\ phase' = "waiting" /\ Calmer
    /\ \A e \in Endpoints : ~ctl'[e].adopted /\ ~ctl'[e].pending
    /\ jobs' = <<>> /\ posts' = <<>>
    /\ UNCHANGED <<thread, file, live, created, filed>>
    /\ UNCHANGED <<book, owed>> \/ Closing(TRUE) \/ Closing(FALSE)

LEMMA ExitsStep ==
    ASSUME Typed, Exit
    PROVE  ExitStep
<1> DEFINE owners == {e \in Endpoints : ctl[e].session /\ Owned(book, e) # NoSession}
           r == ReleaseOwner(book, book.owner)
           f == FinishEnd(r, book.open, "Failed")
<1>1. /\ phase = "up" /\ phase' = "waiting" /\ jobs' = <<>> /\ posts' = <<>>
      /\ ctl' = [e \in Endpoints |-> Stopped(ctl[e])]
      /\ UNCHANGED <<thread, file, live, created, filed>>
  BY DEF Exit, server
<1>2. \A e \in Endpoints : /\ Stopped(ctl[e]) \in Controllers /\ Quieter(ctl[e], Stopped(ctl[e]))
                           /\ ~Stopped(ctl[e]).adopted /\ ~Stopped(ctl[e]).pending
  BY StoppedCalm DEF Typed
<1>3. Calmer /\ \A e \in Endpoints : ~ctl'[e].adopted /\ ~ctl'[e].pending
  BY <1>1, <1>2 DEF Calmer
<1>4. CASE owners = {}
  BY <1>1, <1>3, <1>4 DEF Exit, ExitStep
<1>5. CASE owners # {}
  <2>1. PICK e \in Endpoints : Owned(book, e) # NoSession
    BY <1>5
  <2>2. /\ book.open # NoSession /\ book.owner = e
        /\ r \in Books /\ r.open = NoSession /\ r.owner = NoSession
        /\ r.ending = book.ending \cup {book.open} /\ r.retry = book.retry /\ r.ended = book.ended
        /\ r.handed = book.handed
    <3>1. /\ book.open # NoSession /\ book.owner = e
          /\ ReleaseOwner(book, e) \in Books /\ ReleaseOwner(book, e).open = NoSession
          /\ ReleaseOwner(book, e).owner = NoSession
          /\ ReleaseOwner(book, e).ending = book.ending \cup {book.open} /\ ReleaseOwner(book, e).retry = book.retry
          /\ ReleaseOwner(book, e).ended = book.ended /\ ReleaseOwner(book, e).handed = book.handed
      BY <2>1, BookReleased DEF Typed
    <3> QED BY <3>1
  <2> HIDE DEF r
  <2>3. CASE LoadToken
    <3>1. book' = r /\ owed' = owed
      BY <1>5, <2>3 DEF Exit, r
    <3>2. Closing(TRUE)
      BY <2>2, <3>1 DEF Closing
    <3> QED BY <1>1, <1>3, <3>2 DEF ExitStep
  <2>4. CASE ~LoadToken
    <3>1. book' = f /\ owed' = IF owed = book.open THEN NoSession ELSE owed
      BY <1>5, <2>4 DEF Exit, r
    <3>2. book.open \in Nat
      BY DEF Typed, Books
    <3>3. /\ f \in Books /\ f.open = r.open /\ f.owner = r.owner /\ f.ending = r.ending \ {book.open}
          /\ f.ended = r.ended /\ f.retry = r.retry /\ f.handed = r.handed
      BY <2>2, <3>2, BookGivenUp
    <3> HIDE DEF f
    <3>4. Closing(FALSE)
      BY <2>2, <3>1, <3>3 DEF Closing
    <3> QED BY <1>1, <1>3, <3>4 DEF ExitStep
  <2> QED BY <2>3, <2>4
<1> QED BY <1>4, <1>5

JoinStep ==
    /\ phase = "joining" /\ thread.at = "idle" /\ phase' = "ending" /\ posts' = <<>>
    /\ UNCHANGED <<ctl, jobs, file, live, created, filed>>
    /\ thread' \in Threads /\ thread'.at = "next" /\ thread'.job = "shutdown" /\ thread'.id = NoSession
    /\ book' \in Books /\ book'.open = NoSession /\ book'.owner = NoSession /\ book'.retry = {}
    /\ book'.ended = book.ended /\ book'.handed = book.handed \cup ForShutdown(book)
    /\ \/ /\ book'.ending = book.ending \cup ForShutdown(book) /\ owed' = owed
          /\ \A i \in DOMAIN thread'.todo : thread'.todo[i] \in ForShutdown(book)
          /\ \A i, j \in DOMAIN thread'.todo : thread'.todo[i] = thread'.todo[j] => i = j
          /\ \A id \in ForShutdown(book) : \E i \in DOMAIN thread'.todo : thread'.todo[i] = id
       \/ /\ book'.ending = (book.ending \cup ForShutdown(book)) \ ForShutdown(book)
          /\ owed' = IF owed \in ForShutdown(book) THEN NoSession ELSE owed
          /\ thread'.todo = <<>>

LEMMA JoinsStep ==
    ASSUME Typed, Known, JoinWorker
    PROVE  JoinStep
<1> DEFINE ids == ForShutdown(book)
           todo == SetToSeq(ids)
<1>1. /\ phase = "joining" /\ thread.at = "idle" /\ phase' = "ending" /\ posts' = <<>>
      /\ UNCHANGED <<ctl, jobs, file, live, created, filed>>
      /\ book' = IF LoadToken THEN TakeForShutdown(book) ELSE GiveUp(TakeForShutdown(book), ids)
      /\ thread' = IF LoadToken THEN [IdleThread EXCEPT !.at = "next", !.job = "shutdown", !.todo = todo]
                   ELSE [IdleThread EXCEPT !.at = "next", !.job = "shutdown"]
      /\ owed' = IF LoadToken \/ owed \notin ids THEN owed ELSE NoSession
  BY DEF JoinWorker, server
<1>2. IsFiniteSet(ids)
  <2>1. ids \subseteq 0..created
    BY DEF Known, ForShutdown
  <2>2. created \in Nat
    BY DEF Typed
  <2> QED BY <2>1, <2>2, KnownFinite
<1>3. /\ ids \subseteq Nat
      /\ LET r == TakeForShutdown(book)
             g == GiveUp(r, ids)
         IN /\ r \in Books /\ r.open = NoSession /\ r.owner = NoSession /\ r.ending = book.ending \cup ids
            /\ r.retry = {} /\ r.ended = book.ended /\ r.handed = book.handed \cup ids
            /\ g \in Books /\ g.open = NoSession /\ g.owner = NoSession /\ g.ending = r.ending \ ids
            /\ g.retry = {} /\ g.ended = book.ended /\ g.handed = r.handed
  BY BookHanded DEF Typed
<1>4. /\ todo \in Seq(Nat) /\ \A i \in DOMAIN todo : todo[i] \in ids
      /\ \A i, j \in DOMAIN todo : todo[i] = todo[j] => i = j
      /\ \A x \in ids : \E i \in DOMAIN todo : todo[i] = x
  BY <1>2, <1>3, SetToSeqAt
<1> HIDE DEF ids, todo
<1>5. CASE LoadToken
  <2>1. thread' = [at |-> "next", job |-> "shutdown", ep |-> NoSession, gen |-> 0, todo |-> todo, id |-> NoSession,
                   outcome |-> "Ended"]
    BY <1>1, <1>5 DEF IdleThread
  <2>2. thread' \in Threads
    BY <1>4, <2>1 DEF Threads, NoSession
  <2>3. thread'.at = "next" /\ thread'.job = "shutdown" /\ thread'.id = NoSession /\ thread'.todo = todo
    BY <2>1
  <2>4. /\ book' \in Books /\ book'.open = NoSession /\ book'.owner = NoSession /\ book'.retry = {}
        /\ book'.ended = book.ended /\ book'.handed = book.handed \cup ids /\ book'.ending = book.ending \cup ids
    BY <1>1, <1>3, <1>5
  <2> QED BY <1>1, <1>4, <1>5, <2>2, <2>3, <2>4 DEF JoinStep, ids
<1>6. CASE ~LoadToken
  <2>1. thread' = [at |-> "next", job |-> "shutdown", ep |-> NoSession, gen |-> 0, todo |-> <<>>, id |-> NoSession,
                   outcome |-> "Ended"]
    BY <1>1, <1>6 DEF IdleThread
  <2>2. thread' \in Threads
    BY <2>1 DEF Threads, NoSession
  <2>3. thread'.at = "next" /\ thread'.job = "shutdown" /\ thread'.id = NoSession /\ thread'.todo = <<>>
    BY <2>1
  <2>4. /\ book' \in Books /\ book'.open = NoSession /\ book'.owner = NoSession /\ book'.retry = {}
        /\ book'.ended = book.ended /\ book'.handed = book.handed \cup ids
        /\ book'.ending = (book.ending \cup ids) \ ids
    BY <1>1, <1>3, <1>6
  <2> QED BY <1>1, <1>6, <2>2, <2>3, <2>4 DEF JoinStep, ids
<1> QED BY <1>5, <1>6

EndNextStep ==
    /\ thread.at = "next" /\ thread.todo # <<>>
    /\ thread' \in Threads /\ SameJob /\ thread'.at = "send" /\ thread'.id = Head(thread.todo)
    /\ thread'.todo = Tail(thread.todo)
    /\ UNCHANGED <<phase, ctl, book, jobs, posts, file, live, created, owed, filed>>

LEMMA EndsNextStep ==
    ASSUME Typed, EndNext
    PROVE  EndNextStep
<1> DEFINE id == Head(thread.todo)
           rest == Tail(thread.todo)
<1>1. /\ thread.at = "next" /\ thread.todo # <<>>
      /\ thread' = [thread EXCEPT !.at = "send", !.id = id, !.todo = rest]
      /\ UNCHANGED <<phase, ctl, book, jobs, posts, file, live, created, owed, filed>>
  BY DEF EndNext, server, history
<1>2. id \in Nat /\ rest \in Seq(Nat)
  BY <1>1, HeadTailProperties DEF Typed, Threads
<1> HIDE DEF id, rest
<1>3. thread' \in Threads /\ SameJob /\ thread'.at = "send" /\ thread'.id = id /\ thread'.todo = rest
  BY <1>1, <1>2 DEF Typed, Threads, SameJob
<1> QED BY <1>1, <1>3 DEF EndNextStep, id, rest

(* The process is gone, and with it all that it knew but the session file. *)
GoneStep ==
    /\ Gone /\ phase' \in {"down", "crashed"}
    /\ owed' = NoSession \/ (owed' = owed /\ thread.at = "next" /\ thread.todo = <<>>)

LEMMA GonesStep ==
    ASSUME Down \/ Crash
    PROVE  GoneStep
BY DEF Down, Crash, GoneStep

(* The phase moves on, and nothing else that the sessions depend on. *)
PhaseStep ==
    /\ UNCHANGED <<ctl, book, jobs, posts, thread, file, live, created, filed>>
    /\ \/ phase = "waiting" /\ phase' = "joining" /\ owed' = owed
       \/ phase \in {"down", "crashed"} /\ phase' = "up" /\ owed' = NoSession

LEMMA PhasesStep ==
    ASSUME StopWaiting \/ Restart
    PROVE  PhaseStep
BY DEF StopWaiting, Restart, PhaseStep, server, history

LEMMA TokenStep ==
    ASSUME Typed, RemoveToken \/ SaveToken
    PROVE  UiStep
<1>1. \A e \in Endpoints : ctl[e].gen \in Nat
  BY DEF Typed, Controllers
<1>2. phase = "up" /\ UNCHANGED <<phase, ctl, book, jobs, posts, thread, file, live, created, owed, filed>>
  BY DEF RemoveToken, SaveToken, server, history
<1>3. Calmer
  BY <1>1, <1>2 DEF Typed, Calmer, Quieter
<1> QED BY <1>2, <1>3 DEF UiStep

(* Every step of the specification is one of these. *)
Stays == UNCHANGED <<phase, ctl, book, jobs, posts, thread, file, live, created, owed, filed>>

LEMMA StepsSplit ==
    ASSUME SessionInv, [Next]_vars
    PROVE  \/ UiStep \/ Adopt \/ (\E e \in Endpoints : StartStep(e))
           \/ TakeStep \/ ClaimStep \/ StaleStep \/ SendStep \/ SettleStep \/ RequestStep \/ StartedStep \/ WriteStep
           \/ ExitStep \/ JoinStep \/ EndNextStep \/ GoneStep \/ PhaseStep \/ Stays
<1>1. Typed /\ Control /\ Known /\ Holding
  BY DEF SessionInv
<1>2. CASE \E e \in Endpoints : StartEndpoint(e) \/ StopEndpoint(e) \/ OutputReports(e)
  BY <1>1, <1>2, StartsStep, StopStep, ReportStep
<1>3. CASE RemoveToken \/ SaveToken \/ Deliver
  BY <1>1, <1>3, TokenStep, DeliverStep
<1>4. CASE Worker
  BY <1>1, <1>4, TakesStep, ClaimsStep, StalesStep, SendsStep, SettlesStep, RequestsStep, StartedsStep, WritesStep
     DEF Worker
<1>5. CASE Exit \/ Shutdown \/ Crash \/ Restart
  BY <1>1, <1>5, ExitsStep, PhasesStep, JoinsStep, EndsNextStep, GonesStep DEF Shutdown
<1>6. CASE UNCHANGED vars
  BY <1>6 DEF vars, Stays, server, history
<1> QED BY <1>2, <1>3, <1>4, <1>5, <1>6 DEF Next

-----------------------------------------------------------------------------
(* The invariant, one step at a time.                                      *)

LEMMA InitHolds == Init => SessionInv
<1> SUFFICES ASSUME Init PROVE SessionInv
  OBVIOUS
<1>1. FreshController \in Controllers /\ FreshController.adopted = FALSE
  BY DEF FreshController, Controllers, NoSession
<1>2. ctl \in [Endpoints -> Controllers] /\ \A e \in Endpoints : ~ctl[e].adopted
  BY <1>1 DEF Init
<1>3. /\ phase = "up" /\ book = EmptyBook /\ jobs = <<>> /\ thread = IdleThread /\ posts = <<>> /\ file = NoSession
      /\ live = NoSession /\ created = 0 /\ owed = NoSession /\ filed = FALSE
  BY DEF Init
<1>4. Typed
  BY <1>2, <1>3, BookEmpty, IdleTyped, EmptySeq DEF Typed, NoSession
<1>5. Control /\ Known /\ Claimed /\ HandedOut
  BY <1>3, BookEmpty, IdleTyped DEF Control, Known, Claimed, HandedOut, EndsNow, NoSession
<1>6. StartJob /\ Numbered /\ Adoptable
  BY <1>3, BookEmpty, IdleTyped DEF StartJob, Numbered, Adoptable
<1>7. Holding /\ Filed /\ Owing
  BY <1>2, <1>3, IdleTyped DEF Holding, Filed, OpenIsFiled, Owing
<1> QED BY <1>4, <1>5, <1>6, <1>7 DEF SessionInv

LEMMA StaysKeeps ==
    ASSUME SessionInv, Stays
    PROVE  SessionInv'
<1>1. (Typed /\ Control /\ Known /\ Claimed)'
  BY DEF SessionInv, Stays, Typed, Control, Known, Claimed, EndsNow
<1>2. (HandedOut /\ StartJob /\ Numbered)'
  BY DEF SessionInv, Stays, HandedOut, StartJob, Numbered, EndsNow, Starting
<1>3. (Adoptable /\ Holding /\ Filed /\ Owing)'
  BY DEF SessionInv, Stays, Adoptable, Holding, Filed, OpenIsFiled, Owing, Wanted, Starting, InTodo
<1> QED BY <1>1, <1>2, <1>3 DEF SessionInv

LEMMA PhaseKeeps ==
    ASSUME SessionInv, PhaseStep
    PROVE  SessionInv'
<1>1. Typed'
  BY DEF SessionInv, PhaseStep, Typed, NoSession
<1>2. (Control /\ HandedOut)'
  BY DEF SessionInv, PhaseStep, Control, HandedOut, EndsNow
<1>3. (Known /\ Claimed)'
  BY DEF SessionInv, PhaseStep, Known, Claimed, EndsNow
<1>4. (StartJob /\ Numbered)'
  BY DEF SessionInv, PhaseStep, StartJob, Numbered, Starting
<1>5. (Adoptable /\ Holding /\ Filed)'
  BY DEF SessionInv, PhaseStep, Adoptable, Holding, Filed, OpenIsFiled, Wanted, Starting
<1>6. Owing'
  BY DEF SessionInv, PhaseStep, Owing, InTodo
<1> QED BY <1>1, <1>2, <1>3, <1>4, <1>5, <1>6 DEF SessionInv

(* What a calm event does to the two queues. *)
LEMMA UiQueues ==
    ASSUME Typed, UiStep
    PROVE  /\ jobs' \in Seq(EndJobs \cup StartJobs) /\ posts' \in Seq(Results)
           /\ \A i \in DOMAIN jobs' :
                 \/ i \in DOMAIN jobs /\ jobs'[i] = jobs[i]
                 \/ /\ Closing(TRUE) /\ i = Len(jobs) + 1 /\ i \notin DOMAIN jobs
                    /\ jobs'[i].kind = "end" /\ jobs'[i].id = book.open
           /\ \/ \A p \in DOMAIN posts' : p \in DOMAIN posts /\ posts'[p] = posts[p]
              \/ \A p \in DOMAIN posts' :
                    p \in Nat /\ 0 < p /\ p + 1 \in DOMAIN posts /\ posts'[p] = posts[p + 1]
<1>1. jobs \in Seq(EndJobs \cup StartJobs) /\ posts \in Seq(Results) /\ book.open \in Nat
  BY DEF Typed, Books
<1>2. /\ posts' \in Seq(Results)
      /\ \/ \A p \in DOMAIN posts' : p \in DOMAIN posts /\ posts'[p] = posts[p]
         \/ \A p \in DOMAIN posts' : p \in Nat /\ 0 < p /\ p + 1 \in DOMAIN posts /\ posts'[p] = posts[p + 1]
  <2>1. CASE posts' = posts
    BY <1>1, <2>1
  <2>2. CASE posts # <<>> /\ posts' = Tail(posts)
    BY <1>1, <2>2, TailAt
  <2> QED BY <2>1, <2>2 DEF UiStep
<1> DEFINE j == [kind |-> "end", id |-> book.open]
<1>3. j \in EndJobs \cup StartJobs
  BY <1>1 DEF EndJobs
<1>4. jobs' = jobs \/ (Closing(TRUE) /\ jobs' = Append(jobs, j))
  BY DEF UiStep, CloseOpen
<1>7. j.kind = "end" /\ j.id = book.open
  OBVIOUS
<1> HIDE DEF j
<1>5. Len(jobs) + 1 \notin DOMAIN jobs
  <2>1. Len(jobs) \in Nat /\ \A i \in DOMAIN jobs : i \in Nat /\ i < Len(jobs) + 1
    BY <1>1, <1>3, AppendAt
  <2> QED BY <2>1
<1>6. /\ jobs' \in Seq(EndJobs \cup StartJobs)
      /\ \A i \in DOMAIN jobs' : \/ i \in DOMAIN jobs /\ jobs'[i] = jobs[i]
                                 \/ Closing(TRUE) /\ i = Len(jobs) + 1 /\ jobs'[i] = j
  <2>1. CASE jobs' = jobs
    BY <1>1, <2>1
  <2>2. CASE Closing(TRUE) /\ jobs' = Append(jobs, j)
    <3>1. /\ jobs' \in Seq(EndJobs \cup StartJobs)
          /\ \A i \in DOMAIN jobs' : (i \in DOMAIN jobs /\ jobs'[i] = jobs[i]) \/ (i = Len(jobs) + 1 /\ jobs'[i] = j)
      BY <1>1, <1>3, <2>2, AppendAt
    <3> QED BY <2>2, <3>1
  <2> QED BY <1>4, <2>1, <2>2
<1> QED BY <1>2, <1>5, <1>6, <1>7

(* The open session is closed, or the book is left alone. *)
Shut == (Closing(TRUE) \/ Closing(FALSE)) \/ UNCHANGED <<book, owed>>

(* The result of a start is wanted after the step. *)
WantedNext(e, gen) == ctl'[e].pending /\ ctl'[e].gen = gen /\ ctl'[e].state = "Starting"

LEMMA UiKeeps ==
    ASSUME SessionInv, UiStep
    PROVE  SessionInv'
<1> DEFINE Kept == \A p \in DOMAIN posts' : p \in DOMAIN posts /\ posts'[p] = posts[p]
           Shifted == \A p \in DOMAIN posts' :
                         p \in Nat /\ 0 < p /\ p + 1 \in DOMAIN posts /\ posts'[p] = posts[p + 1]
<1>0. Typed /\ Control /\ Known /\ Claimed /\ HandedOut /\ StartJob /\ Numbered /\ Adoptable /\ Holding /\ Filed /\ Owing
  BY DEF SessionInv
<1>1. /\ jobs' \in Seq(EndJobs \cup StartJobs) /\ posts' \in Seq(Results)
      /\ \A i \in DOMAIN jobs' :
            \/ i \in DOMAIN jobs /\ jobs'[i] = jobs[i]
            \/ /\ Closing(TRUE) /\ i = Len(jobs) + 1 /\ i \notin DOMAIN jobs
               /\ jobs'[i].kind = "end" /\ jobs'[i].id = book.open
      /\ Kept \/ Shifted
  BY <1>0, UiQueues
<1>2. \A p \in DOMAIN posts' : \E q \in DOMAIN posts : posts'[p] = posts[q]
  BY <1>1
<1>3. \A p, q \in DOMAIN posts' : posts'[p].id # NoSession /\ posts'[p].id = posts'[q].id => p = q
  <2>1. CASE Kept
    BY <1>0, <2>1 DEF Adoptable
  <2>2. CASE Shifted
    <3>1. SUFFICES ASSUME NEW p \in DOMAIN posts', NEW q \in DOMAIN posts',
                          posts'[p].id # NoSession, posts'[p].id = posts'[q].id
                   PROVE  p = q
      OBVIOUS
    <3>2. /\ p \in Nat /\ p + 1 \in DOMAIN posts /\ posts'[p] = posts[p + 1]
          /\ q \in Nat /\ q + 1 \in DOMAIN posts /\ posts'[q] = posts[q + 1]
      BY <2>2
    <3>3. p + 1 = q + 1
      BY <1>0, <3>1, <3>2 DEF Adoptable
    <3>4. QED
      BY <3>2, <3>3
  <2>3. QED
    BY <1>1, <2>1, <2>2
<1> HIDE DEF Kept, Shifted
<1>22. \A i \in DOMAIN jobs' : jobs'[i].kind = "start" => i \in DOMAIN jobs /\ jobs'[i] = jobs[i]
  BY <1>1
<1>4. ASSUME posts # <<>>, posts' = Tail(posts)
      PROVE  /\ 1 \in DOMAIN posts /\ posts[1] = Head(posts)
             /\ \A p \in DOMAIN posts' : \E q \in DOMAIN posts : q # 1 /\ posts'[p] = posts[q]
  <2>1. /\ 1 \in DOMAIN posts /\ posts[1] = Head(posts)
        /\ \A p \in DOMAIN posts' : p \in Nat /\ 0 < p /\ p + 1 \in DOMAIN posts /\ posts'[p] = posts[p + 1]
    BY <1>0, <1>4, TailAt DEF Typed
  <2> QED BY <2>1
<1>5. Shut /\ (Closing(TRUE) \/ jobs' = jobs)
  BY DEF UiStep, CloseOpen, Shut
<1>6. /\ phase = "up" /\ Calmer /\ UNCHANGED <<phase, thread, file, live, created, filed>>
  BY DEF UiStep
<1>7. Typed'
  <2>1. book' \in Books /\ owed' \in Nat
    BY <1>0, <1>5 DEF Shut, Closing, Typed, NoSession
  <2> QED BY <1>0, <1>1, <1>6, <2>1 DEF Typed, Calmer
<1>8. Control'
  BY <1>0, <1>6 DEF Control
<1>9. Known'
  <2>1. book'.ending \cup book'.ended \cup book'.retry \cup book'.handed \cup {book'.open} \subseteq 0..created
    BY <1>0, <1>5 DEF Shut, Closing, Known, Typed, NoSession
  <2> QED BY <1>0, <1>2, <1>6, <2>1 DEF Known
<1>10. /\ book'.ended = book.ended /\ book'.handed = book.handed /\ book.ending \subseteq book'.ending
       /\ book'.ending \subseteq book.ending \cup {book.open}
       /\ book'.open \in {NoSession, book.open}
       /\ book' # book => book.open # NoSession
       /\ Closing(TRUE) => book.open \in book'.ending /\ book.open # NoSession
  BY <1>0, <1>5 DEF Shut, Closing, Claimed
<1>11. book' # book => book'.open = NoSession
  BY <1>5 DEF Shut, Closing
<1>12. Claimed'
  <2>1. (book.ending \cap book.ended = {})' /\ (NoSession \notin book.ending)'
    BY <1>0, <1>5 DEF Shut, Closing, Claimed
  <2>2. (book.open # NoSession => book.open \notin book.ending \cup book.ended \cup book.handed)'
    BY <1>0, <1>10, <1>11 DEF Claimed
  <2>3. \A i \in DOMAIN jobs' : jobs'[i].kind = "end" => jobs'[i].id \in book'.ending
    BY <1>0, <1>1, <1>10 DEF Claimed
  <2>6. \A i \in DOMAIN jobs' \ DOMAIN jobs : jobs'[i].id = book.open /\ book.open \notin book.ending /\ i = Len(jobs) + 1
    BY <1>0, <1>1, <1>10 DEF Claimed
  <2>7. \A i \in DOMAIN jobs' \cap DOMAIN jobs : jobs'[i] = jobs[i]
    BY <1>1
  <2>4. \A i, j \in DOMAIN jobs' :
           jobs'[i].kind = "end" /\ jobs'[j].kind = "end" /\ jobs'[i].id = jobs'[j].id => i = j
    BY <1>0, <2>6, <2>7 DEF Claimed
  <2>5. ASSUME EndsNow' PROVE thread.id \in book'.ending
                              /\ \A i \in DOMAIN jobs' : jobs'[i].kind = "end" => jobs'[i].id # thread.id
    <3>1. EndsNow
      BY <1>6, <2>5 DEF EndsNow
    <3>2. thread.id \in book.ending /\ \A i \in DOMAIN jobs : jobs[i].kind = "end" => jobs[i].id # thread.id
      BY <1>0, <3>1 DEF Claimed
    <3> QED BY <1>10, <2>6, <2>7, <3>2
  <2> QED BY <1>6, <2>1, <2>2, <2>3, <2>4, <2>5 DEF Claimed
<1>13. HandedOut'
  BY <1>0, <1>6, <1>10 DEF HandedOut, Control, EndsNow
<1>14. StartJob'
  <2>1. thread.at = "started" => book' = book
    BY <1>0, <1>10 DEF StartJob, Control
  <2> QED BY <1>0, <1>2, <1>6, <1>10, <2>1 DEF StartJob
<1>15. Numbered'
  <2>1. \A e \in Endpoints : ctl'[e].gen \in Nat /\ ctl[e].gen \in Nat /\ ctl'[e].gen >= ctl[e].gen
    BY <1>0, <1>6 DEF Calmer, Quieter, Typed, Controllers
  <2>2. \A i \in DOMAIN jobs' : jobs'[i].kind = "start" =>
           i \in DOMAIN jobs /\ jobs'[i] = jobs[i] /\ jobs[i].ep \in Endpoints /\ jobs[i].gen \in Nat
    <3>1. \A i \in DOMAIN jobs : jobs[i] \in EndJobs \cup StartJobs
      BY <1>0, ElementOfSeq DEF Typed
    <3> QED BY <1>22, <3>1 DEF EndJobs, StartJobs
  <2>3. \A p \in DOMAIN posts : posts[p].ep \in Endpoints /\ posts[p].gen \in Nat
    <3>1. \A p \in DOMAIN posts : posts[p] \in Results
      BY <1>0, ElementOfSeq DEF Typed
    <3> QED BY <3>1 DEF Results
  <2>4. thread.gen \in Nat
    BY <1>0 DEF Typed, Threads
  <2>5. \A i \in DOMAIN jobs' : jobs'[i].kind = "start" => jobs'[i].gen <= ctl'[jobs'[i].ep].gen
    BY <1>0, <2>1, <2>2 DEF Numbered
  <2>6. \A i, j \in DOMAIN jobs' :
          jobs'[i].kind = "start" /\ jobs'[j].kind = "start" /\ jobs'[i].ep = jobs'[j].ep /\ i < j =>
             jobs'[i].gen < jobs'[j].gen
    BY <1>0, <2>2 DEF Numbered
  <2>7. thread.job = "start" =>
          /\ thread.gen <= ctl'[thread.ep].gen
          /\ \A i \in DOMAIN jobs' : jobs'[i].kind = "start" /\ jobs'[i].ep = thread.ep => thread.gen < jobs'[i].gen
    BY <1>0, <2>1, <2>2, <2>4 DEF Numbered, Control
  <2>8. ASSUME NEW p \in DOMAIN posts'
        PROVE  /\ posts'[p].gen <= ctl'[posts'[p].ep].gen
               /\ posts'[p].id # NoSession =>
                     /\ Starting(posts'[p].ep) => posts'[p].gen < thread.gen
                     /\ \A i \in DOMAIN jobs' :
                           jobs'[i].kind = "start" /\ jobs'[i].ep = posts'[p].ep => posts'[p].gen < jobs'[i].gen
    <3>1. PICK q \in DOMAIN posts : posts'[p] = posts[q]
      BY <1>2
    <3> QED BY <1>0, <2>1, <2>2, <2>3, <3>1 DEF Numbered
  <2> QED BY <1>6, <2>5, <2>6, <2>7, <2>8 DEF Numbered, Starting
<1>16. \A e \in Endpoints : \A gen : WantedNext(e, gen) => Wanted(e, gen) /\ ctl'[e].pending
  BY <1>6 DEF Wanted, WantedNext, Calmer, Quieter
<1>17. \/ book' = book
       \/ book.owner \in Endpoints /\ ~ctl'[book.owner].adopted /\ ~ctl'[book.owner].pending
       \/ posts # <<>> /\ posts' = Tail(posts) /\ Head(posts).id = book.open /\ book.open # NoSession
  BY DEF UiStep, CloseOpen, Closing
<1>18. Adoptable'
  <2>1. ASSUME NEW p \in DOMAIN posts', posts'[p].id # NoSession, WantedNext(posts'[p].ep, posts'[p].gen)
        PROVE  book'.open = posts'[p].id /\ book'.owner = posts'[p].ep
    <3>1. posts'[p].ep \in Endpoints
      <4>1. posts'[p] \in Results
        BY <1>1, ElementOfSeq
      <4> QED BY <4>1 DEF Results
    <3>2. Wanted(posts'[p].ep, posts'[p].gen) /\ ctl'[posts'[p].ep].pending
      BY <1>16, <2>1, <3>1
    <3>3. book.open = posts'[p].id /\ book.owner = posts'[p].ep
      BY <1>0, <1>2, <2>1, <3>2 DEF Adoptable
    <3>4. CASE posts # <<>> /\ posts' = Tail(posts) /\ Head(posts).id = book.open
      <4>1. PICK q \in DOMAIN posts : q # 1 /\ posts'[p] = posts[q]
        BY <1>4, <3>4
      <4> QED BY <1>0, <1>4, <2>1, <3>3, <3>4, <4>1 DEF Adoptable
    <3> QED BY <1>17, <3>2, <3>3, <3>4
  <2>2. ASSUME thread.at = "write"
        PROVE  /\ WantedNext(thread.ep, thread.gen) => book'.open = thread.id /\ book'.owner = thread.ep
               /\ book'.open = thread.id => book'.owner = thread.ep
    <3>1. thread.ep \in Endpoints /\ thread.id # NoSession /\ \A p \in DOMAIN posts : posts[p].id # thread.id
      BY <1>0, <2>2 DEF Control, StartJob
    <3>2. ASSUME WantedNext(thread.ep, thread.gen) PROVE book'.open = thread.id /\ book'.owner = thread.ep
      <4>1. Wanted(thread.ep, thread.gen) /\ ctl'[thread.ep].pending
        BY <1>16, <3>1, <3>2
      <4>2. book.open = thread.id /\ book.owner = thread.ep
        BY <1>0, <2>2, <4>1 DEF Adoptable
      <4> QED BY <1>4, <1>17, <3>1, <4>1, <4>2
    <3>3. book'.open = thread.id => book'.owner = thread.ep
      BY <1>0, <1>11, <2>2, <3>1 DEF Adoptable
    <3> QED BY <3>2, <3>3
  <2> QED BY <1>3, <1>6, <2>1, <2>2 DEF Adoptable, Wanted, WantedNext
<1>19. Holding'
  <2>1. ASSUME NEW e \in Endpoints, ctl'[e].adopted
        PROVE  /\ book'.open = ctl'[e].id /\ book'.owner = e /\ ctl'[e].id # NoSession
               /\ ~ctl'[e].pending
               /\ ~Starting(e)
               /\ \A i \in DOMAIN jobs' : jobs'[i].kind = "start" => jobs'[i].ep # e
               /\ \A p \in DOMAIN posts' : posts'[p].id # ctl'[e].id
    <3>1. ctl[e].adopted /\ ctl'[e].id = ctl[e].id /\ (ctl'[e].pending => ctl[e].pending)
      BY <1>6, <2>1 DEF Calmer, Quieter
    <3>2. /\ book.open = ctl[e].id /\ book.owner = e /\ ctl[e].id # NoSession /\ ~ctl[e].pending /\ ~Starting(e)
          /\ \A i \in DOMAIN jobs : jobs[i].kind = "start" => jobs[i].ep # e
          /\ \A p \in DOMAIN posts : posts[p].id # ctl[e].id
      BY <1>0, <2>1, <3>1 DEF Holding
    <3>3. book' = book
      BY <1>4, <1>17, <2>1, <3>1, <3>2
    <3> QED BY <1>2, <1>22, <3>1, <3>2, <3>3
  <2> QED BY <1>6, <2>1 DEF Holding, Starting
<1>20. Filed'
  BY <1>0, <1>6 DEF Filed, OpenIsFiled
<1>21. Owing'
  <2>1. owed' # NoSession => owed' = owed /\ (owed = book.open => book' = book \/ owed \in book'.ending)
    BY <1>5, <1>10 DEF Shut, Closing
  <2> QED BY <1>0, <1>6, <1>10, <2>1 DEF Owing, InTodo
<1> QED BY <1>7, <1>8, <1>9, <1>12, <1>13, <1>14, <1>15, <1>18, <1>19, <1>20, <1>21 DEF SessionInv

LEMMA Elements ==
    ASSUME Typed
    PROVE  /\ \A i \in DOMAIN jobs : \/ jobs[i].kind = "end" /\ jobs[i].id \in Nat
                                     \/ jobs[i].kind = "start" /\ jobs[i].ep \in Endpoints /\ jobs[i].gen \in Nat
           /\ \A p \in DOMAIN posts : posts[p].ep \in Endpoints /\ posts[p].gen \in Nat /\ posts[p].id \in Nat
           /\ \A e \in Endpoints : ctl[e].gen \in Nat /\ ctl[e].id \in Nat
           /\ thread.gen \in Nat /\ thread.id \in Nat /\ thread.todo \in Seq(Nat)
           /\ thread.ep \in Endpoints \cup {NoSession} /\ book.open \in Nat
<1>1. \A i \in DOMAIN jobs : jobs[i] \in EndJobs \cup StartJobs
  BY ElementOfSeq DEF Typed
<1>2. \A p \in DOMAIN posts : posts[p] \in Results
  BY ElementOfSeq DEF Typed
<1>3. \A i \in DOMAIN jobs : \/ jobs[i].kind = "end" /\ jobs[i].id \in Nat
                             \/ jobs[i].kind = "start" /\ jobs[i].ep \in Endpoints /\ jobs[i].gen \in Nat
  BY <1>1 DEF EndJobs, StartJobs
<1>4. \A p \in DOMAIN posts : posts[p].ep \in Endpoints /\ posts[p].gen \in Nat /\ posts[p].id \in Nat
  BY <1>2 DEF Results
<1>5. \A e \in Endpoints : ctl[e].gen \in Nat /\ ctl[e].id \in Nat
  BY DEF Typed, Controllers
<1> QED BY <1>3, <1>4, <1>5 DEF Typed, Threads, Books

LEMMA AdoptKeeps ==
    ASSUME SessionInv, Adopt
    PROVE  SessionInv'
<1> DEFINE r == Head(posts)
<1>0. Typed /\ Control /\ Known /\ Claimed /\ HandedOut /\ StartJob /\ Numbered /\ Adoptable /\ Holding /\ Filed /\ Owing
  BY DEF SessionInv
<1>1. phase = "up" /\ UNCHANGED <<phase, thread, file, live, created, filed, book, jobs, owed>>
  BY DEF Adopt
<1>2. /\ posts' \in Seq(Results) /\ 1 \in DOMAIN posts /\ posts[1] = r
      /\ \A p \in DOMAIN posts' : p \in Nat /\ 0 < p /\ p + 1 \in DOMAIN posts /\ posts'[p] = posts[p + 1]
  BY <1>0, TailAt DEF Adopt, Typed
<1>3. /\ \A p \in DOMAIN posts : posts[p].ep \in Endpoints /\ posts[p].gen \in Nat /\ posts[p].id \in Nat
      /\ \A e \in Endpoints : ctl[e].gen \in Nat
      /\ \A i \in DOMAIN jobs : jobs[i].kind = "start" => jobs[i].ep \in Endpoints /\ jobs[i].gen \in Nat
      /\ thread.gen \in Nat
  BY <1>0, Elements
<1>4. /\ r.id # NoSession /\ Wanted(r.ep, r.gen) /\ r.ep \in Endpoints
      /\ ctl' \in [Endpoints -> Controllers] /\ \A e \in Endpoints \ {r.ep} : ctl'[e] = ctl[e]
      /\ ~ctl'[r.ep].pending /\ ctl'[r.ep].id = r.id /\ ctl'[r.ep].gen = ctl[r.ep].gen
  BY <1>2, <1>3 DEF Adopt
<1> HIDE DEF r
<1>5. book.open = r.id /\ book.owner = r.ep
  BY <1>0, <1>2, <1>4 DEF Adoptable
<1>6. \A p \in DOMAIN posts' : \E q \in DOMAIN posts : q # 1 /\ posts'[p] = posts[q]
  BY <1>2
<1>7. \A e \in Endpoints : ctl'[e].gen = ctl[e].gen
  BY <1>4
<1>8. Typed'
  BY <1>0, <1>1, <1>2, <1>4 DEF Typed
<1>9. (Control /\ Known /\ Claimed /\ HandedOut)'
  BY <1>0, <1>1, <1>6 DEF Control, Known, Claimed, HandedOut, EndsNow
<1>10. StartJob'
  BY <1>0, <1>1, <1>6 DEF StartJob
<1>11. Numbered'
  <2>1. ASSUME NEW p \in DOMAIN posts'
        PROVE  /\ posts'[p].gen <= ctl'[posts'[p].ep].gen
               /\ posts'[p].id # NoSession =>
                     /\ Starting(posts'[p].ep) => posts'[p].gen < thread.gen
                     /\ \A i \in DOMAIN jobs :
                           jobs[i].kind = "start" /\ jobs[i].ep = posts'[p].ep => posts'[p].gen < jobs[i].gen
    <3>1. PICK q \in DOMAIN posts : posts'[p] = posts[q]
      BY <1>6
    <3> QED BY <1>0, <1>3, <1>7, <3>1 DEF Numbered
  <2>2. \A i \in DOMAIN jobs : jobs[i].kind = "start" => jobs[i].gen <= ctl'[jobs[i].ep].gen
    BY <1>0, <1>3, <1>7 DEF Numbered
  <2>3. thread.job = "start" => thread.gen <= ctl'[thread.ep].gen
    BY <1>0, <1>7 DEF Numbered, Control
  <2> QED BY <1>0, <1>1, <2>1, <2>2, <2>3 DEF Numbered, Starting
<1>12. \A e \in Endpoints : \A gen : WantedNext(e, gen) => Wanted(e, gen)
  BY <1>4 DEF Wanted, WantedNext
<1>13. Adoptable'
  <2>1. ASSUME NEW p \in DOMAIN posts', NEW q \in DOMAIN posts', posts'[p].id # NoSession, posts'[p].id = posts'[q].id
        PROVE  p = q
    <3>1. p + 1 = q + 1
      BY <1>0, <1>2, <2>1 DEF Adoptable
    <3> QED BY <1>2, <3>1
  <2>2. ASSUME NEW p \in DOMAIN posts', posts'[p].id # NoSession, WantedNext(posts'[p].ep, posts'[p].gen)
        PROVE  book.open = posts'[p].id /\ book.owner = posts'[p].ep
    <3>1. PICK q \in DOMAIN posts : posts'[p] = posts[q]
      BY <1>6
    <3>2. Wanted(posts[q].ep, posts[q].gen)
      BY <1>3, <1>12, <2>2, <3>1
    <3> QED BY <1>0, <2>2, <3>1, <3>2 DEF Adoptable
  <2>3. ASSUME thread.at = "write", WantedNext(thread.ep, thread.gen)
        PROVE  Wanted(thread.ep, thread.gen)
    BY <1>0, <1>12, <2>3 DEF Control
  <2> QED BY <1>0, <1>1, <2>1, <2>2, <2>3 DEF Adoptable, Wanted, WantedNext
<1>14. Holding'
  <2>1. ASSUME NEW e \in Endpoints, ctl'[e].adopted
        PROVE  /\ book.open = ctl'[e].id /\ book.owner = e /\ ctl'[e].id # NoSession /\ ~ctl'[e].pending
               /\ ~Starting(e)
               /\ \A i \in DOMAIN jobs : jobs[i].kind = "start" => jobs[i].ep # e
               /\ \A p \in DOMAIN posts' : posts'[p].id # ctl'[e].id
    <3>1. e = r.ep
      BY <1>0, <1>4, <1>5, <2>1 DEF Holding
    <3>2. r.gen = ctl[e].gen /\ r.gen \in Nat
      BY <1>2, <1>3, <1>4, <3>1 DEF Wanted
    <3>3. ~Starting(e)
      <4>1. Starting(e) => r.gen < thread.gen /\ thread.gen <= ctl[e].gen
        BY <1>0, <1>2, <1>4, <3>1 DEF Numbered, Starting
      <4> QED BY <1>3, <3>2, <4>1
    <3>4. \A i \in DOMAIN jobs : jobs[i].kind = "start" => jobs[i].ep # e
      <4>1. \A i \in DOMAIN jobs : jobs[i].kind = "start" /\ jobs[i].ep = e =>
               r.gen < jobs[i].gen /\ jobs[i].gen <= ctl[e].gen
        BY <1>0, <1>2, <1>4, <3>1 DEF Numbered
      <4> QED BY <1>3, <3>2, <4>1
    <3>5. \A p \in DOMAIN posts' : posts'[p].id # r.id
      BY <1>0, <1>2, <1>4, <1>6 DEF Adoptable
    <3> QED BY <1>4, <1>5, <3>1, <3>3, <3>4, <3>5
  <2> QED BY <1>1, <2>1 DEF Holding, Starting
<1>15. (Filed /\ Owing)'
  BY <1>0, <1>1 DEF Filed, OpenIsFiled, Owing, InTodo
<1> QED BY <1>8, <1>9, <1>10, <1>11, <1>13, <1>14, <1>15 DEF SessionInv

LEMMA StartKeeps ==
    ASSUME SessionInv, NEW e \in Endpoints, StartStep(e)
    PROVE  SessionInv'
<1> DEFINE g == ctl[e].gen + 1
           n == [ep |-> e, gen |-> g, id |-> NoSession]
           j == [kind |-> "start", ep |-> e, gen |-> g]
<1>0. Typed /\ Control /\ Known /\ Claimed /\ HandedOut /\ StartJob /\ Numbered /\ Adoptable /\ Holding /\ Filed /\ Owing
  BY DEF SessionInv
<1>1. UNCHANGED <<phase, book, thread, file, live, created, filed, owed>> /\ phase = "up"
  BY DEF StartStep
<1>2. /\ \A i \in DOMAIN jobs : \/ jobs[i].kind = "end" /\ jobs[i].id \in Nat
                                \/ jobs[i].kind = "start" /\ jobs[i].ep \in Endpoints /\ jobs[i].gen \in Nat
      /\ \A p \in DOMAIN posts : posts[p].ep \in Endpoints /\ posts[p].gen \in Nat /\ posts[p].id \in Nat
      /\ \A d \in Endpoints : ctl[d].gen \in Nat /\ ctl[d].id \in Nat
      /\ thread.gen \in Nat
  BY <1>0, Elements
<1>3. g \in Nat /\ n \in Results /\ j \in EndJobs \cup StartJobs
  BY <1>2 DEF Results, StartJobs, NoSession
<1>4. n.ep = e /\ n.gen = g /\ n.id = NoSession /\ j.kind = "start" /\ j.ep = e /\ j.gen = g
  OBVIOUS
<1>5. /\ ctl' \in [Endpoints -> Controllers] /\ \A d \in Endpoints \ {e} : ctl'[d] = ctl[d]
      /\ ctl'[e].gen = g /\ ~ctl'[e].adopted
      /\ (posts' = Append(posts, n) /\ jobs' = jobs) \/ (jobs' = Append(jobs, j) /\ posts' = posts)
  BY DEF StartStep
<1>6. \A d \in Endpoints : ctl'[d].gen >= ctl[d].gen /\ ctl'[d].gen \in Nat
  <2>1. ctl'[e].gen >= ctl[e].gen
    BY <1>2, <1>5
  <2> QED BY <1>2, <1>3, <1>5, <2>1
<1>7. ctl[e].gen < g
  BY <1>2
<1> HIDE DEF g, n, j
<1>8. /\ posts' \in Seq(Results)
      /\ \A p \in DOMAIN posts' : \/ p \in DOMAIN posts /\ posts'[p] = posts[p]
                                  \/ posts'[p] = n
  BY <1>0, <1>3, <1>5, AppendAt DEF Typed
<1>9. /\ jobs' \in Seq(EndJobs \cup StartJobs)
      /\ \A i \in DOMAIN jobs' : \/ i \in DOMAIN jobs /\ jobs'[i] = jobs[i]
                                 \/ i = Len(jobs) + 1 /\ jobs'[i] = j
      /\ \A i \in DOMAIN jobs : i \in Nat /\ i < Len(jobs) + 1
      /\ Len(jobs) \in Nat
  <2>1. jobs \in Seq(EndJobs \cup StartJobs)
    BY <1>0 DEF Typed
  <2>2. /\ \A i \in DOMAIN jobs : i \in Nat /\ i < Len(jobs) + 1
        /\ Len(jobs) \in Nat
    BY <1>3, <2>1, AppendAt
  <2>3. CASE jobs' = jobs
    BY <2>1, <2>2, <2>3
  <2>4. CASE jobs' = Append(jobs, j)
    BY <1>3, <2>1, <2>4, AppendAt
  <2> QED BY <1>5, <2>3, <2>4
<1>10. \A i \in DOMAIN jobs' : jobs'[i].kind = "end" => i \in DOMAIN jobs /\ jobs'[i] = jobs[i]
  BY <1>4, <1>9
<1>11. \A p \in DOMAIN posts' : posts'[p].id # NoSession => p \in DOMAIN posts /\ posts'[p] = posts[p]
  BY <1>4, <1>8
<1>12. Typed'
  BY <1>0, <1>1, <1>5, <1>8, <1>9 DEF Typed
<1>13. Control'
  BY <1>0, <1>1 DEF Control
<1>14. Known'
  <2>1. \A p \in DOMAIN posts' : posts'[p].id \in 0..created
    BY <1>0, <1>11 DEF Known, Typed, NoSession
  <2> QED BY <1>0, <1>1, <2>1 DEF Known
<1>15. (Claimed /\ HandedOut)'
  BY <1>0, <1>1, <1>10 DEF Claimed, HandedOut, EndsNow
<1>16. StartJob'
  BY <1>0, <1>1, <1>11 DEF StartJob
<1>17. Numbered'
  <2>1. ASSUME NEW i \in DOMAIN jobs', jobs'[i].kind = "start"
        PROVE  \/ /\ i \in DOMAIN jobs /\ jobs'[i] = jobs[i]
                  /\ jobs[i].gen <= ctl[jobs[i].ep].gen
               \/ jobs'[i] = j /\ i = Len(jobs) + 1
    BY <1>0, <1>9, <2>1 DEF Numbered
  <2>2. ASSUME NEW i \in DOMAIN jobs', jobs'[i].kind = "start"
        PROVE  jobs'[i].gen <= ctl'[jobs'[i].ep].gen
    <3>1. CASE i \in DOMAIN jobs /\ jobs'[i] = jobs[i]
      <4>1. jobs[i].gen <= ctl[jobs[i].ep].gen /\ jobs[i].ep \in Endpoints /\ jobs[i].gen \in Nat
        BY <1>0, <1>2, <2>2, <3>1 DEF Numbered
      <4> QED BY <1>2, <1>6, <3>1, <4>1
    <3>2. CASE jobs'[i] = j
      BY <1>3, <1>4, <1>5, <3>2
    <3> QED BY <2>1, <2>2, <3>1, <3>2
  <2>3. ASSUME NEW i \in DOMAIN jobs', NEW k \in DOMAIN jobs', jobs'[i].kind = "start", jobs'[k].kind = "start",
               jobs'[i].ep = jobs'[k].ep, i < k
        PROVE  jobs'[i].gen < jobs'[k].gen
    <3>1. i \in DOMAIN jobs /\ jobs'[i] = jobs[i]
      BY <1>9, <2>3
    <3>2. CASE k \in DOMAIN jobs /\ jobs'[k] = jobs[k]
      BY <1>0, <2>3, <3>1, <3>2 DEF Numbered
    <3>3. CASE jobs'[k] = j
      <4>1. jobs[i].ep = e /\ jobs[i].gen <= ctl[e].gen /\ jobs[i].gen \in Nat /\ jobs'[k].gen = g
        BY <1>0, <1>2, <1>4, <2>3, <3>1, <3>3 DEF Numbered
      <4> QED BY <1>2, <1>3, <1>7, <3>1, <4>1
    <3> QED BY <1>9, <3>2, <3>3
  <2>4. ASSUME thread.job = "start"
        PROVE  /\ thread.gen <= ctl'[thread.ep].gen
               /\ \A i \in DOMAIN jobs' : jobs'[i].kind = "start" /\ jobs'[i].ep = thread.ep => thread.gen < jobs'[i].gen
    <3>1. thread.ep \in Endpoints /\ thread.gen <= ctl[thread.ep].gen
      BY <1>0, <2>4 DEF Numbered, Control
    <3>2. thread.gen <= ctl'[thread.ep].gen
      BY <1>2, <1>6, <3>1
    <3>3. ASSUME NEW i \in DOMAIN jobs', jobs'[i].kind = "start", jobs'[i].ep = thread.ep
          PROVE  thread.gen < jobs'[i].gen
      <4>1. CASE i \in DOMAIN jobs /\ jobs'[i] = jobs[i]
        BY <1>0, <2>4, <3>3, <4>1 DEF Numbered
      <4>2. CASE jobs'[i] = j
        <5>1. thread.gen <= ctl[e].gen /\ jobs'[i].gen = g
          BY <1>4, <3>1, <3>3, <4>2
        <5> QED BY <1>2, <1>3, <1>7, <5>1
      <4> QED BY <1>9, <4>1, <4>2
    <3> QED BY <3>2, <3>3
  <2>5. ASSUME NEW p \in DOMAIN posts'
        PROVE  posts'[p].gen <= ctl'[posts'[p].ep].gen
    <3>1. CASE p \in DOMAIN posts /\ posts'[p] = posts[p]
      <4>1. posts[p].gen <= ctl[posts[p].ep].gen /\ posts[p].ep \in Endpoints
        BY <1>0, <1>2, <3>1 DEF Numbered
      <4> QED BY <1>2, <1>6, <3>1, <4>1
    <3>2. CASE posts'[p] = n
      BY <1>3, <1>4, <1>5, <3>2
    <3> QED BY <1>8, <3>1, <3>2
  <2>6. ASSUME NEW p \in DOMAIN posts', posts'[p].id # NoSession, Starting(posts'[p].ep)
        PROVE  posts'[p].gen < thread.gen
    BY <1>0, <1>11, <2>6 DEF Numbered
  <2>7. ASSUME NEW p \in DOMAIN posts', posts'[p].id # NoSession,
               NEW i \in DOMAIN jobs', jobs'[i].kind = "start", jobs'[i].ep = posts'[p].ep
        PROVE  posts'[p].gen < jobs'[i].gen
    <3>1. p \in DOMAIN posts /\ posts'[p] = posts[p]
      BY <1>11, <2>7
    <3>2. CASE i \in DOMAIN jobs /\ jobs'[i] = jobs[i]
      BY <1>0, <2>7, <3>1, <3>2 DEF Numbered
    <3>3. CASE jobs'[i] = j
      <4>1. posts[p].ep = e /\ posts[p].gen <= ctl[e].gen /\ posts[p].gen \in Nat /\ jobs'[i].gen = g
        BY <1>0, <1>2, <1>4, <2>7, <3>1, <3>3 DEF Numbered
      <4> QED BY <1>2, <1>3, <1>7, <3>1, <4>1
    <3> QED BY <1>9, <3>2, <3>3
  <2> QED BY <1>1, <2>2, <2>3, <2>4, <2>5, <2>6, <2>7 DEF Numbered, Starting
<1>18. Adoptable'
  <2>1. ASSUME NEW d \in Endpoints, NEW gen \in Nat, gen <= ctl[d].gen, WantedNext(d, gen)
        PROVE  Wanted(d, gen)
    <3>1. d # e
      BY <1>2, <1>5, <1>7, <2>1 DEF WantedNext
    <3> QED BY <1>5, <2>1, <3>1 DEF Wanted, WantedNext
  <2>2. ASSUME NEW p \in DOMAIN posts', posts'[p].id # NoSession, WantedNext(posts'[p].ep, posts'[p].gen)
        PROVE  book.open = posts'[p].id /\ book.owner = posts'[p].ep
    <3>1. p \in DOMAIN posts /\ posts'[p] = posts[p]
      BY <1>11, <2>2
    <3>2. posts[p].ep \in Endpoints /\ posts[p].gen \in Nat /\ posts[p].gen <= ctl[posts[p].ep].gen
      BY <1>0, <1>2, <3>1 DEF Numbered
    <3>3. Wanted(posts[p].ep, posts[p].gen)
      BY <2>1, <2>2, <3>1, <3>2
    <3> QED BY <1>0, <2>2, <3>1, <3>3 DEF Adoptable
  <2>3. ASSUME thread.at = "write", WantedNext(thread.ep, thread.gen)
        PROVE  Wanted(thread.ep, thread.gen)
    <3>1. thread.ep \in Endpoints /\ thread.gen <= ctl[thread.ep].gen
      BY <1>0, <2>3 DEF Control, Numbered
    <3> QED BY <1>2, <2>1, <2>3, <3>1
  <2>4. \A p, q \in DOMAIN posts' : posts'[p].id # NoSession /\ posts'[p].id = posts'[q].id => p = q
    BY <1>0, <1>11 DEF Adoptable
  <2> QED BY <1>0, <1>1, <2>2, <2>3, <2>4 DEF Adoptable, Wanted, WantedNext
<1>19. Holding'
  <2>1. ASSUME NEW d \in Endpoints, ctl'[d].adopted
        PROVE  /\ book.open = ctl'[d].id /\ book.owner = d /\ ctl'[d].id # NoSession /\ ~ctl'[d].pending
               /\ ~Starting(d)
               /\ \A i \in DOMAIN jobs' : jobs'[i].kind = "start" => jobs'[i].ep # d
               /\ \A p \in DOMAIN posts' : posts'[p].id # ctl'[d].id
    <3>1. d # e /\ ctl'[d] = ctl[d]
      BY <1>5, <2>1
    <3>2. /\ book.open = ctl[d].id /\ book.owner = d /\ ctl[d].id # NoSession /\ ~ctl[d].pending /\ ~Starting(d)
          /\ \A i \in DOMAIN jobs : jobs[i].kind = "start" => jobs[i].ep # d
          /\ \A p \in DOMAIN posts : posts[p].id # ctl[d].id
      BY <1>0, <2>1, <3>1 DEF Holding
    <3>3. \A i \in DOMAIN jobs' : jobs'[i].kind = "start" => jobs'[i].ep # d
      BY <1>4, <1>9, <3>1, <3>2
    <3>4. \A p \in DOMAIN posts' : posts'[p].id # ctl[d].id
      BY <1>11, <3>2
    <3> QED BY <3>1, <3>2, <3>3, <3>4
  <2> QED BY <1>1, <2>1 DEF Holding, Starting
<1>20. (Filed /\ Owing)'
  BY <1>0, <1>1 DEF Filed, OpenIsFiled, Owing, InTodo
<1> QED BY <1>12, <1>13, <1>14, <1>15, <1>16, <1>17, <1>18, <1>19, <1>20 DEF SessionInv

LEMMA TakeKeeps ==
    ASSUME SessionInv, TakeStep
    PROVE  SessionInv'
<1> DEFINE j == Head(jobs)
<1>0. Typed /\ Control /\ Known /\ Claimed /\ HandedOut /\ StartJob /\ Numbered /\ Adoptable /\ Holding /\ Filed /\ Owing
  BY DEF SessionInv
<1>1. /\ phase = "up" /\ thread.at = "idle" /\ thread' \in Threads /\ thread'.todo = <<>>
      /\ UNCHANGED <<phase, ctl, book, posts, file, live, created, owed, filed>>
  BY DEF TakeStep
<1>2. /\ jobs' \in Seq(EndJobs \cup StartJobs) /\ 1 \in DOMAIN jobs /\ jobs[1] = j
      /\ \A i \in DOMAIN jobs' : i \in Nat /\ 0 < i /\ i + 1 \in DOMAIN jobs /\ jobs'[i] = jobs[i + 1]
  BY <1>0, TailAt DEF TakeStep, Typed
<1>3. \/ j.kind = "end" /\ thread'.at = "send" /\ thread'.job = "end" /\ thread'.id = j.id
      \/ j.kind = "start" /\ thread'.at = "claim" /\ thread'.job = "start" /\ thread'.id = NoSession
         /\ thread'.ep = j.ep /\ thread'.gen = j.gen /\ j.ep \in Endpoints
  BY DEF TakeStep
<1> HIDE DEF j
<1>4. \A i \in DOMAIN jobs' : \E k \in DOMAIN jobs : k # 1 /\ jobs'[i] = jobs[k]
  BY <1>2
<1>5. Typed'
  BY <1>0, <1>1, <1>2 DEF Typed
<1>6. Control'
  BY <1>0, <1>1, <1>3 DEF Control
<1>7. Known'
  <2>1. thread'.id \in 0..created
    BY <1>0, <1>2, <1>3 DEF Known, Claimed, Typed, NoSession
  <2> QED BY <1>0, <1>1, <2>1 DEF Known
<1>8. Claimed'
  <2>1. \A i \in DOMAIN jobs' : jobs'[i].kind = "end" => jobs'[i].id \in book.ending
    BY <1>0, <1>4 DEF Claimed
  <2>2. ASSUME NEW i \in DOMAIN jobs', NEW k \in DOMAIN jobs', jobs'[i].kind = "end", jobs'[k].kind = "end",
               jobs'[i].id = jobs'[k].id
        PROVE  i = k
    <3>1. i + 1 = k + 1
      BY <1>0, <1>2, <2>2 DEF Claimed
    <3> QED BY <1>2, <3>1
  <2>3. ASSUME thread'.at \in {"send", "settle"}
        PROVE  /\ thread'.id \in book.ending
               /\ \A i \in DOMAIN jobs' : jobs'[i].kind = "end" => jobs'[i].id # thread'.id
    BY <1>0, <1>2, <1>3, <1>4, <2>3 DEF Claimed
  <2> QED BY <1>0, <1>1, <2>1, <2>2, <2>3 DEF Claimed, EndsNow
<1>9. (HandedOut /\ StartJob)'
  BY <1>0, <1>1, <1>3 DEF HandedOut, StartJob, Control, EndsNow
<1>10. Numbered'
  <2>1. \A i \in DOMAIN jobs' : jobs'[i].kind = "start" => jobs'[i].gen <= ctl[jobs'[i].ep].gen
    BY <1>0, <1>4 DEF Numbered
  <2>2. ASSUME NEW i \in DOMAIN jobs', NEW k \in DOMAIN jobs', jobs'[i].kind = "start", jobs'[k].kind = "start",
               jobs'[i].ep = jobs'[k].ep, i < k
        PROVE  jobs'[i].gen < jobs'[k].gen
    <3>1. i + 1 < k + 1
      BY <1>2, <2>2
    <3> QED BY <1>0, <1>2, <2>2, <3>1 DEF Numbered
  <2>3. ASSUME thread'.job = "start"
        PROVE  /\ thread'.gen <= ctl[thread'.ep].gen
               /\ \A i \in DOMAIN jobs' :
                     jobs'[i].kind = "start" /\ jobs'[i].ep = thread'.ep => thread'.gen < jobs'[i].gen
    <3>1. j.kind = "start" /\ thread'.ep = j.ep /\ thread'.gen = j.gen
      BY <1>3, <2>3
    <3>2. \A i \in DOMAIN jobs' : 1 < i + 1
      BY <1>2
    <3> QED BY <1>0, <1>2, <3>1, <3>2 DEF Numbered
  <2>4. ASSUME NEW p \in DOMAIN posts
        PROVE  /\ posts[p].gen <= ctl[posts[p].ep].gen
               /\ posts[p].id # NoSession =>
                     /\ thread'.job = "start" /\ thread'.ep = posts[p].ep => posts[p].gen < thread'.gen
                     /\ \A i \in DOMAIN jobs' :
                           jobs'[i].kind = "start" /\ jobs'[i].ep = posts[p].ep => posts[p].gen < jobs'[i].gen
    BY <1>0, <1>2, <1>3, <1>4 DEF Numbered
  <2> QED BY <1>1, <2>1, <2>2, <2>3, <2>4 DEF Numbered, Starting
<1>11. Adoptable'
  BY <1>0, <1>1, <1>3 DEF Adoptable, Wanted
<1>12. Holding'
  BY <1>0, <1>1, <1>2, <1>3, <1>4 DEF Holding, Starting
<1>13. Filed'
  BY <1>0, <1>1, <1>3 DEF Filed, OpenIsFiled
<1>14. Owing'
  BY <1>0, <1>1, <1>3 DEF Owing, InTodo
<1> QED BY <1>5, <1>6, <1>7, <1>8, <1>9, <1>10, <1>11, <1>12, <1>13, <1>14 DEF SessionInv

(* A start job ends with a result that carries no session. *)
LEMMA RefusedQueue ==
    ASSUME SessionInv, thread.job = "start",
           posts' = Append(posts, [ep |-> thread.ep, gen |-> thread.gen, id |-> NoSession])
    PROVE  /\ posts' \in Seq(Results)
           /\ \A p \in DOMAIN posts' : posts'[p].id # NoSession => p \in DOMAIN posts /\ posts'[p] = posts[p]
           /\ \A p \in DOMAIN posts' : posts'[p].gen <= ctl[posts'[p].ep].gen
<1> DEFINE n == [ep |-> thread.ep, gen |-> thread.gen, id |-> NoSession]
<1>1. thread.ep \in Endpoints /\ thread.gen \in Nat /\ thread.gen <= ctl[thread.ep].gen
  BY Elements DEF SessionInv, Control, Numbered
<1>2. n \in Results /\ n.ep = thread.ep /\ n.gen = thread.gen /\ n.id = NoSession
  BY <1>1 DEF Results, NoSession
<1>3. posts' = Append(posts, n)
  OBVIOUS
<1> HIDE DEF n
<1>4. /\ posts' \in Seq(Results)
      /\ \A p \in DOMAIN posts' : (p \in DOMAIN posts /\ posts'[p] = posts[p]) \/ posts'[p] = n
  BY <1>2, <1>3, AppendAt DEF SessionInv, Typed
<1>5. \A p \in DOMAIN posts : posts[p].gen <= ctl[posts[p].ep].gen
  BY DEF SessionInv, Numbered
<1> QED BY <1>1, <1>2, <1>4, <1>5

LEMMA ClaimKeeps ==
    ASSUME SessionInv, ClaimStep
    PROVE  SessionInv'
<1>0. Typed /\ Control /\ Known /\ Claimed /\ HandedOut /\ StartJob /\ Numbered /\ Adoptable /\ Holding /\ Filed /\ Owing
  BY DEF SessionInv
<1>1. thread.at = "claim" /\ thread.job = "start" /\ UNCHANGED <<phase, ctl, jobs, file, live, created, owed, filed>>
  BY <1>0 DEF ClaimStep, Control
<1>2. ASSUME thread' = IdleThread, book' = book,
             posts' = Append(posts, [ep |-> thread.ep, gen |-> thread.gen, id |-> NoSession])
      PROVE  SessionInv'
  <2>1. /\ posts' \in Seq(Results)
        /\ \A p \in DOMAIN posts' : posts'[p].id # NoSession => p \in DOMAIN posts /\ posts'[p] = posts[p]
        /\ \A p \in DOMAIN posts' : posts'[p].gen <= ctl[posts'[p].ep].gen
    BY <1>1, <1>2, RefusedQueue
  <2>2. thread' \in Threads /\ thread'.at = "idle" /\ thread'.job = "none" /\ thread'.todo = <<>> /\ thread'.id = NoSession
    BY <1>2, IdleTyped
  <2>3. Typed'
    BY <1>0, <1>1, <1>2, <2>1, <2>2 DEF Typed
  <2>4. Control'
    BY <1>0, <1>1, <2>2 DEF Control
  <2>5. Known'
    BY <1>0, <1>1, <1>2, <2>1, <2>2 DEF Known, Typed, NoSession
  <2>6. (Claimed /\ HandedOut /\ StartJob)'
    BY <1>0, <1>1, <1>2, <2>2 DEF Claimed, HandedOut, StartJob, EndsNow
  <2>7. Numbered'
    BY <1>0, <1>1, <2>1, <2>2 DEF Numbered, Starting
  <2>8. Adoptable'
    BY <1>0, <1>1, <1>2, <2>1, <2>2 DEF Adoptable, Wanted
  <2>9. Holding'
    BY <1>0, <1>1, <1>2, <2>1, <2>2 DEF Holding, Starting
  <2>10. (Filed /\ Owing)'
    BY <1>0, <1>1, <1>2, <2>2 DEF Filed, OpenIsFiled, Owing, InTodo, Control
  <2> QED BY <2>3, <2>4, <2>5, <2>6, <2>7, <2>8, <2>9, <2>10 DEF SessionInv
<1>3. ASSUME book.open = NoSession \/ book.owner = thread.ep,
             book' \in Books, book'.open = NoSession, book'.owner = NoSession,
             book'.ending = book.ending, book'.retry = book.retry, book'.ended = book.ended,
             book'.handed = book.handed,
             thread' \in Threads, thread'.at = "stale", SameJob, thread'.id = thread.id, posts' = posts,
             \A i \in DOMAIN thread'.todo : thread'.todo[i] \in {book.open, file},
             book.open # NoSession => \E i \in DOMAIN thread'.todo : thread'.todo[i] = book.open
      PROVE  SessionInv'
  <2>1. Typed'
    BY <1>0, <1>1, <1>3 DEF Typed
  <2>2. Control'
    BY <1>0, <1>1, <1>3 DEF Control, SameJob
  <2>3. Known'
    BY <1>0, <1>1, <1>3 DEF Known, Typed, NoSession
  <2>4. (Claimed /\ HandedOut /\ StartJob)'
    BY <1>0, <1>1, <1>3 DEF Claimed, HandedOut, StartJob, Control, SameJob, EndsNow
  <2>5. Numbered'
    BY <1>0, <1>1, <1>3 DEF Numbered, Starting, SameJob
  <2>6. Adoptable'
    <3>1. ASSUME NEW p \in DOMAIN posts, posts[p].id # NoSession, Wanted(posts[p].ep, posts[p].gen)
          PROVE  FALSE
      <4>1. book.open = posts[p].id /\ book.owner = posts[p].ep
        BY <1>0, <3>1 DEF Adoptable
      <4>2. posts[p].ep = thread.ep
        BY <1>3, <3>1, <4>1
      <4>3. posts[p].gen < thread.gen /\ thread.gen <= ctl[thread.ep].gen /\ ctl[thread.ep].gen = posts[p].gen
        BY <1>0, <1>1, <3>1, <4>2 DEF Numbered, Starting, Wanted
      <4>4. posts[p].gen \in Nat /\ thread.gen \in Nat
        BY <1>0, Elements
      <4> QED BY <4>3, <4>4
    <3> QED BY <1>0, <1>1, <1>3, <3>1 DEF Adoptable, Wanted
  <2>7. Holding'
    <3>1. \A e \in Endpoints : ~ctl[e].adopted
      BY <1>0, <1>1, <1>3 DEF Holding, Starting
    <3> QED BY <1>1, <3>1 DEF Holding
  <2>8. (Filed /\ Owing)'
    BY <1>0, <1>1, <1>3 DEF Filed, OpenIsFiled, Owing, InTodo, Control, SameJob
  <2> QED BY <2>1, <2>2, <2>3, <2>4, <2>5, <2>6, <2>7, <2>8 DEF SessionInv
<1> QED BY <1>2, <1>3 DEF ClaimStep

LEMMA StaleKeeps ==
    ASSUME SessionInv, StaleStep
    PROVE  SessionInv'
<1>0. Typed /\ Control /\ Known /\ Claimed /\ HandedOut /\ StartJob /\ Numbered /\ Adoptable /\ Holding /\ Filed /\ Owing
  BY DEF SessionInv
<1>1. /\ thread.at = "stale" /\ thread.job = "start" /\ thread' \in Threads /\ SameJob
      /\ UNCHANGED <<phase, ctl, jobs, posts, file, live, created, owed, filed>>
      /\ book.open = NoSession
  BY <1>0 DEF StaleStep, Control, StartJob
<1>2. thread.todo \in Seq(Nat)
  BY <1>0, Elements
<1>3. ASSUME thread.todo # <<>>, thread'.todo = Tail(thread.todo)
      PROVE  /\ 1 \in DOMAIN thread.todo /\ thread.todo[1] = Head(thread.todo)
             /\ \A i \in DOMAIN thread'.todo : \E k \in DOMAIN thread.todo : thread'.todo[i] = thread.todo[k]
             /\ \A id : InTodo(id) => id = Head(thread.todo) \/ \E i \in DOMAIN thread'.todo : thread'.todo[i] = id
  <2>1. /\ 1 \in DOMAIN thread.todo /\ thread.todo[1] = Head(thread.todo)
        /\ \A i \in DOMAIN thread'.todo : i + 1 \in DOMAIN thread.todo /\ thread'.todo[i] = thread.todo[i + 1]
        /\ \A i \in DOMAIN thread.todo : i = 1 \/ (i - 1 \in DOMAIN thread'.todo /\ thread'.todo[i - 1] = thread.todo[i])
    BY <1>2, <1>3, TailAt
  <2> QED BY <2>1 DEF InTodo
<1>4. book' \in Books /\ book'.open = book.open /\ book'.owner = book.owner /\ book'.handed = book.handed
      /\ book'.ended = book.ended /\ book.ending \subseteq book'.ending /\ book'.retry \subseteq book.retry
  BY <1>0 DEF StaleStep, Typed
<1>5. thread'.at \in {"request", "send", "stale"}
  BY DEF StaleStep
<1>6. Typed'
  BY <1>0, <1>1, <1>4 DEF Typed
<1>7. Control'
  BY <1>0, <1>1, <1>5 DEF Control, SameJob
<1>8. /\ \A i \in DOMAIN thread'.todo : thread'.todo[i] \in 0..created
      /\ thread'.id \in 0..created /\ book'.ending \subseteq 0..created
  <2>1. CASE thread.todo = <<>>
    BY <1>0, <2>1 DEF StaleStep, Known
  <2>2. CASE thread.todo # <<>>
    <3>1. thread'.todo = Tail(thread.todo)
      BY <2>2 DEF StaleStep
    <3>2. Head(thread.todo) \in 0..created /\ \A i \in DOMAIN thread'.todo : thread'.todo[i] \in 0..created
      BY <1>0, <1>3, <2>2, <3>1 DEF Known
    <3> QED BY <1>0, <2>2, <3>2 DEF StaleStep, Known
  <2> QED BY <2>1, <2>2
<1>9. Known'
  BY <1>0, <1>1, <1>4, <1>8 DEF Known
<1>10. Claimed'
  <2>1. CASE book' = book /\ thread'.at # "send"
    BY <1>0, <1>1, <1>5, <2>1 DEF Claimed, EndsNow
  <2>2. CASE /\ thread'.id # NoSession /\ thread'.id \notin book.ending \cup book.ended
             /\ book'.ending = book.ending \cup {thread'.id}
    BY <1>0, <1>1, <1>4, <2>2 DEF Claimed, EndsNow
  <2> QED BY <1>1, <2>1, <2>2 DEF StaleStep
<1>11. (HandedOut /\ StartJob)'
  BY <1>0, <1>1, <1>4, <1>5 DEF HandedOut, StartJob, Control, SameJob, EndsNow, StaleStep
<1>12. Numbered'
  BY <1>0, <1>1 DEF Numbered, Starting, SameJob
<1>13. (Adoptable /\ Holding)'
  BY <1>0, <1>1, <1>4, <1>5 DEF Adoptable, Holding, Wanted, Starting, SameJob
<1>14. Filed'
  BY <1>0, <1>1, <1>5 DEF Filed, OpenIsFiled
<1>15. Owing'
  <2>1. ASSUME InTodo(owed), owed # NoSession, owed \notin book.ended
        PROVE  owed \in book'.ending \/ (thread'.at \in {"stale", "send"} /\ InTodo(owed)')
    <3>1. thread.todo # <<>>
      BY <2>1 DEF InTodo
    <3>2. owed = Head(thread.todo) \/ \E i \in DOMAIN thread'.todo : thread'.todo[i] = owed
      BY <1>3, <2>1, <3>1 DEF StaleStep
    <3>3. owed = Head(thread.todo) => owed \in book'.ending
      BY <1>4, <2>1, <3>1 DEF StaleStep
    <3>4. thread'.at \in {"stale", "send"}
      BY <3>1 DEF StaleStep
    <3> QED BY <1>1, <3>2, <3>3, <3>4 DEF InTodo
  <2> QED BY <1>0, <1>1, <1>4, <1>5, <2>1 DEF Owing, Control, SameJob
<1> QED BY <1>6, <1>7, <1>9, <1>10, <1>11, <1>12, <1>13, <1>14, <1>15 DEF SessionInv

LEMMA SendKeeps ==
    ASSUME SessionInv, SendStep
    PROVE  SessionInv'
<1>0. Typed /\ Control /\ Known /\ Claimed /\ HandedOut /\ StartJob /\ Numbered /\ Adoptable /\ Holding /\ Filed /\ Owing
  BY DEF SessionInv
<1>1. /\ thread.at = "send" /\ thread' \in Threads /\ SameJob
      /\ thread'.at = "settle" /\ thread'.id = thread.id /\ thread'.todo = thread.todo
      /\ UNCHANGED <<phase, ctl, book, jobs, posts, file, created>>
      /\ owed' = owed \/ (owed' = NoSession /\ owed = thread.id)
      /\ owed' # NoSession => owed # thread.id
  BY DEF SendStep
<1>2. Typed'
  BY <1>0, <1>1 DEF SendStep, Typed, NoSession
<1>3. (Control /\ Known /\ Claimed /\ HandedOut)'
  BY <1>0, <1>1 DEF Control, Known, Claimed, HandedOut, EndsNow, SameJob
<1>4. (StartJob /\ Numbered)'
  BY <1>0, <1>1 DEF StartJob, Numbered, Starting, SameJob
<1>5. (Adoptable /\ Holding)'
  BY <1>0, <1>1 DEF Adoptable, Holding, Wanted, Starting, SameJob
<1>6. Filed'
  <2>1. thread.id # NoSession
    BY <1>0, <1>1 DEF Claimed, EndsNow
  <2> QED BY <1>0, <1>1, <2>1 DEF Filed, OpenIsFiled, SendStep
<1>7. Owing'
  BY <1>0, <1>1 DEF Owing, InTodo, SameJob
<1> QED BY <1>2, <1>3, <1>4, <1>5, <1>6, <1>7 DEF SessionInv

LEMMA SettleKeeps ==
    ASSUME SessionInv, SettleStep
    PROVE  SessionInv'
<1>0. Typed /\ Control /\ Known /\ Claimed /\ HandedOut /\ StartJob /\ Numbered /\ Adoptable /\ Holding /\ Filed /\ Owing
  BY DEF SessionInv
<1>1. /\ thread.at = "settle" /\ thread' \in Threads
      /\ UNCHANGED <<phase, ctl, jobs, posts, live, created, owed, filed>>
      /\ file' = file \/ (file' = NoSession /\ thread.outcome = "Ended" /\ file = thread.id)
      /\ book' \in Books /\ book'.open = book.open /\ book'.owner = book.owner
      /\ book'.ending = book.ending \ {thread.id} /\ book'.retry \subseteq book.retry \cup {thread.id}
      /\ book'.ended \subseteq book.ended \cup {thread.id} /\ book'.handed = book.handed
  BY DEF SettleStep
<1>2. \/ thread.job = "end" /\ thread'.at = "idle" /\ thread'.job = "none" /\ thread'.todo = <<>> /\ thread'.id = NoSession
      \/ /\ SameJob /\ thread'.id = thread.id /\ thread'.todo = thread.todo
         /\ (thread.job = "start" /\ thread'.at = "stale") \/ (thread.job = "shutdown" /\ thread'.at = "next")
  BY IdleTyped DEF SettleStep
<1>3. thread.id \in book.ending /\ thread.id \notin book.ended /\ thread.id # book.open /\ thread.id # NoSession
  BY <1>0, <1>1 DEF Claimed, EndsNow
<1>4. thread'.at \in {"idle", "stale", "next"}
  BY <1>2
<1>5. Typed'
  BY <1>0, <1>1 DEF Typed, NoSession
<1>6. Control'
  BY <1>0, <1>1, <1>2 DEF Control, SameJob
<1>7. Known'
  BY <1>0, <1>1, <1>2 DEF Known, Typed, NoSession
<1>8. Claimed'
  BY <1>0, <1>1, <1>3, <1>4 DEF Claimed, EndsNow
<1>9. HandedOut'
  BY <1>0, <1>1, <1>2 DEF HandedOut, EndsNow, SameJob
<1>10. StartJob'
  BY <1>0, <1>1, <1>2 DEF StartJob, SameJob
<1>11. Numbered'
  BY <1>0, <1>1, <1>2 DEF Numbered, Starting, SameJob
<1>12. Adoptable'
  BY <1>0, <1>1, <1>4 DEF Adoptable, Wanted
<1>13. Holding'
  BY <1>0, <1>1, <1>2 DEF Holding, Starting, SameJob
<1>14. Filed'
  BY <1>0, <1>1, <1>4 DEF Filed, OpenIsFiled
<1>15. Owing'
  <2> SUFFICES ASSUME owed # NoSession PROVE Owing'
    BY <1>1 DEF Owing
  <2>1. owed # thread.id /\ owed \notin book.ended /\ phase \notin {"down", "crashed"}
    BY <1>0, <1>1 DEF Owing
  <2>2. owed \notin book'.ended /\ (owed \in book.ending => owed \in book'.ending)
    BY <1>1, <2>1
  <2>3. CASE phase = "ending"
    <3>1. thread.job = "shutdown" /\ \E i \in DOMAIN thread.todo : thread.todo[i] = owed
      BY <1>0, <1>1, <2>3 DEF Owing, Control, InTodo
    <3>2. thread'.todo = thread.todo /\ thread'.at = "next"
      BY <1>2, <3>1
    <3> QED BY <1>1, <2>1, <2>2, <2>3, <3>1, <3>2 DEF Owing, InTodo
  <2>4. CASE phase # "ending"
    <3>1. \/ owed = book.open \/ owed \in book.ending
          \/ thread.job = "start" /\ \E i \in DOMAIN thread.todo : thread.todo[i] = owed
      BY <1>0, <1>1, <2>4 DEF Owing, InTodo
    <3>2. thread.job = "start" => thread'.todo = thread.todo /\ thread'.at = "stale" /\ thread'.job = "start"
      BY <1>2 DEF SameJob
    <3> QED BY <1>1, <1>4, <2>1, <2>2, <2>4, <3>1, <3>2 DEF Owing, InTodo
  <2> QED BY <2>3, <2>4
<1> QED BY <1>5, <1>6, <1>7, <1>8, <1>9, <1>10, <1>11, <1>12, <1>13, <1>14, <1>15 DEF SessionInv

LEMMA RequestKeeps ==
    ASSUME SessionInv, RequestStep
    PROVE  SessionInv'
<1>0. Typed /\ Control /\ Known /\ Claimed /\ HandedOut /\ StartJob /\ Numbered /\ Adoptable /\ Holding /\ Filed /\ Owing
  BY DEF SessionInv
<1>1. /\ thread.at = "request" /\ thread.job = "start" /\ book.open = NoSession /\ thread.todo = <<>>
      /\ thread' \in Threads /\ UNCHANGED <<phase, ctl, book, jobs, file>>
      /\ phase \notin {"ending", "down", "crashed"}
  BY <1>0 DEF RequestStep, Control, StartJob
<1>2. created \in Nat /\ created + 1 \in Nat /\ \A id \in 0..created : id \in 0..created + 1 /\ id # created + 1
  BY <1>0 DEF Typed
<1>3. ASSUME created' = created + 1, live' = created', filed' = FALSE, owed' = created', posts' = posts,
             SameJob, thread'.at = "started", thread'.id = created', thread'.todo = thread.todo
      PROVE  SessionInv'
  <2>1. created' # NoSession
    BY <1>2, <1>3 DEF NoSession
  <2>2. Typed'
    <3>1. filed' \in BOOLEAN
      BY <1>3
    <3> QED BY <1>0, <1>1, <1>2, <1>3, <3>1 DEF Typed
  <2>3. Control'
    BY <1>0, <1>1, <1>3 DEF Control, SameJob
  <2>4. Known'
    <3>1. created' \in 0..created'
      BY <1>2, <1>3
    <3>2. \A id \in 0..created : id \in 0..created'
      BY <1>2, <1>3
    <3> QED BY <1>0, <1>1, <1>3, <3>1, <3>2 DEF Known
  <2>5. (Claimed /\ HandedOut)'
    BY <1>0, <1>1, <1>3 DEF Claimed, HandedOut, EndsNow, SameJob
  <2>6. StartJob'
    <3>1. thread'.id \notin book.ending \cup book.ended \cup book.handed
      BY <1>0, <1>2, <1>3 DEF Known
    <3>2. \A p \in DOMAIN posts : posts[p].id # thread'.id
      BY <1>0, <1>2, <1>3 DEF Known
    <3> QED BY <1>1, <1>3, <2>1, <3>1, <3>2 DEF StartJob
  <2>7. Numbered'
    BY <1>0, <1>1, <1>3 DEF Numbered, Starting, SameJob
  <2>8. (Adoptable /\ Holding)'
    BY <1>0, <1>1, <1>3 DEF Adoptable, Holding, Wanted, Starting, SameJob
  <2>9. Filed'
    BY <1>3 DEF Filed, OpenIsFiled
  <2>10. Owing'
    <3>1. created' \notin book.ended
      BY <1>0, <1>2, <1>3 DEF Known
    <3> QED BY <1>1, <1>3, <3>1 DEF Owing
  <2> QED BY <2>2, <2>3, <2>4, <2>5, <2>6, <2>7, <2>8, <2>9, <2>10 DEF SessionInv
<1>4. ASSUME thread' = IdleThread,
             posts' = Append(posts, [ep |-> thread.ep, gen |-> thread.gen, id |-> NoSession]),
             \/ created' = created + 1 /\ live' = created' /\ filed' = FALSE /\ owed' = NoSession
             \/ UNCHANGED <<created, live, filed, owed>>
      PROVE  SessionInv'
  <2>1. /\ posts' \in Seq(Results)
        /\ \A p \in DOMAIN posts' : posts'[p].id # NoSession => p \in DOMAIN posts /\ posts'[p] = posts[p]
        /\ \A p \in DOMAIN posts' : posts'[p].gen <= ctl[posts'[p].ep].gen
    BY <1>1, <1>4, RefusedQueue
  <2>2. thread' \in Threads /\ thread'.at = "idle" /\ thread'.job = "none" /\ thread'.todo = <<>> /\ thread'.id = NoSession
    BY <1>4, IdleTyped
  <2>3. created' \in Nat /\ NoSession \in 0..created' /\ \A id \in 0..created : id \in 0..created'
    BY <1>2, <1>4 DEF NoSession
  <2>4. Typed'
    <3>1. live' \in Nat /\ owed' \in Nat
      BY <1>0, <1>2, <1>4 DEF Typed, NoSession
    <3>2. filed' \in BOOLEAN
      BY <1>0, <1>4 DEF Typed
    <3> QED BY <1>0, <1>1, <2>1, <2>2, <2>3, <3>1, <3>2 DEF Typed
  <2>5. Control'
    BY <1>0, <1>1, <2>2 DEF Control
  <2>6. Known'
    BY <1>0, <1>1, <2>1, <2>2, <2>3 DEF Known
  <2>7. (Claimed /\ HandedOut /\ StartJob)'
    BY <1>0, <1>1, <2>2 DEF Claimed, HandedOut, StartJob, EndsNow
  <2>8. Numbered'
    BY <1>0, <1>1, <2>1, <2>2 DEF Numbered, Starting
  <2>9. Adoptable'
    BY <1>0, <1>1, <2>1, <2>2 DEF Adoptable, Wanted
  <2>10. Holding'
    BY <1>0, <1>1, <2>1, <2>2 DEF Holding, Starting
  <2>11. Filed'
    BY <1>0, <1>1, <1>4, <2>2 DEF Filed, OpenIsFiled
  <2>12. Owing'
    BY <1>0, <1>1, <1>4, <2>2 DEF Owing, InTodo
  <2> QED BY <2>4, <2>5, <2>6, <2>7, <2>8, <2>9, <2>10, <2>11, <2>12 DEF SessionInv
<1> QED BY <1>3, <1>4 DEF RequestStep

LEMMA StartedKeeps ==
    ASSUME SessionInv, StartedStep
    PROVE  SessionInv'
<1>0. Typed /\ Control /\ Known /\ Claimed /\ HandedOut /\ StartJob /\ Numbered /\ Adoptable /\ Holding /\ Filed /\ Owing
  BY DEF SessionInv
<1>1. /\ thread.at = "started" /\ thread.job = "start" /\ book.open = NoSession
      /\ thread.id = created /\ live = created /\ thread.id # NoSession
      /\ \A p \in DOMAIN posts : posts[p].id # thread.id
      /\ thread.id \notin book.ending \cup book.ended \cup book.handed
      /\ phase \notin {"ending", "down", "crashed"}
  BY <1>0 DEF StartedStep, Control, StartJob
<1>2. /\ UNCHANGED <<phase, ctl, jobs, posts, file, live, created, owed, filed>>
      /\ thread' \in Threads /\ SameJob /\ thread'.at = "write" /\ thread'.id = thread.id /\ thread'.todo = thread.todo
      /\ book' \in Books /\ book'.open = thread.id /\ book'.owner = thread.ep /\ book'.ending = book.ending
      /\ book'.retry = book.retry /\ book'.ended = book.ended /\ book'.handed = book.handed
  BY DEF StartedStep
<1>3. Typed'
  BY <1>0, <1>2 DEF Typed
<1>4. (Control /\ Known)'
  BY <1>0, <1>1, <1>2 DEF Control, Known, SameJob
<1>5. (Claimed /\ HandedOut)'
  BY <1>0, <1>1, <1>2 DEF Claimed, HandedOut, EndsNow, SameJob
<1>6. StartJob'
  BY <1>1, <1>2 DEF StartJob
<1>7. Numbered'
  BY <1>0, <1>1, <1>2 DEF Numbered, Starting, SameJob
<1>8. Adoptable'
  BY <1>0, <1>1, <1>2 DEF Adoptable, Wanted, SameJob
<1>9. Holding'
  BY <1>0, <1>1, <1>2 DEF Holding
<1>10. (Filed /\ Owing)'
  BY <1>0, <1>1, <1>2 DEF Filed, OpenIsFiled, Owing, InTodo
<1> QED BY <1>3, <1>4, <1>5, <1>6, <1>7, <1>8, <1>9, <1>10 DEF SessionInv

LEMMA WriteKeeps ==
    ASSUME SessionInv, WriteStep
    PROVE  SessionInv'
<1> DEFINE n == [ep |-> thread.ep, gen |-> thread.gen, id |-> thread.id]
<1>0. Typed /\ Control /\ Known /\ Claimed /\ HandedOut /\ StartJob /\ Numbered /\ Adoptable /\ Holding /\ Filed /\ Owing
  BY DEF SessionInv
<1>1. /\ thread.at = "write" /\ thread.job = "start" /\ thread.ep \in Endpoints
      /\ thread.id = created /\ live = created /\ thread.id # NoSession
      /\ \A p \in DOMAIN posts : posts[p].id # thread.id
      /\ phase \notin {"ending", "down", "crashed"}
  BY <1>0 DEF WriteStep, Control, StartJob
<1>2. /\ UNCHANGED <<phase, ctl, book, jobs, live, created, owed>>
      /\ file' \in {file, thread.id} /\ filed' = (filed \/ (file' = thread.id /\ live = thread.id))
      /\ posts' = Append(posts, n) /\ thread' = IdleThread
  BY DEF WriteStep
<1>3. thread' \in Threads /\ thread'.at = "idle" /\ thread'.job = "none" /\ thread'.todo = <<>> /\ thread'.id = NoSession
  BY <1>2, IdleTyped
<1>4. /\ thread.gen \in Nat /\ thread.id \in Nat /\ thread.gen <= ctl[thread.ep].gen
      /\ \A p \in DOMAIN posts : posts[p].id \in Nat
  BY <1>0, <1>1, Elements DEF Numbered
<1>5. n \in Results /\ n.ep = thread.ep /\ n.gen = thread.gen /\ n.id = thread.id
  BY <1>1, <1>4 DEF Results
<1> HIDE DEF n
<1>6. /\ posts' \in Seq(Results)
      /\ \A p \in DOMAIN posts' : \/ p \in DOMAIN posts /\ posts'[p] = posts[p]
                                  \/ p = Len(posts) + 1 /\ posts'[p] = n
  BY <1>0, <1>2, <1>5, AppendAt DEF Typed
<1>7. Typed'
  <2>1. filed' \in BOOLEAN /\ file' \in Nat
    BY <1>0, <1>2, <1>4 DEF Typed
  <2> QED BY <1>0, <1>2, <1>3, <1>6, <2>1 DEF Typed
<1>8. Control'
  BY <1>0, <1>1, <1>2, <1>3 DEF Control
<1>9. Known'
  <2>1. \A p \in DOMAIN posts' : posts'[p].id \in 0..created
    BY <1>0, <1>5, <1>6 DEF Known
  <2> QED BY <1>0, <1>2, <1>3, <2>1 DEF Known, Typed, NoSession
<1>10. (Claimed /\ HandedOut /\ StartJob)'
  BY <1>0, <1>1, <1>2, <1>3 DEF Claimed, HandedOut, StartJob, EndsNow
<1>11. Numbered'
  <2>1. ASSUME NEW p \in DOMAIN posts'
        PROVE  /\ posts'[p].gen <= ctl[posts'[p].ep].gen
               /\ posts'[p].id # NoSession =>
                     \A i \in DOMAIN jobs :
                        jobs[i].kind = "start" /\ jobs[i].ep = posts'[p].ep => posts'[p].gen < jobs[i].gen
    <3>1. CASE p \in DOMAIN posts /\ posts'[p] = posts[p]
      BY <1>0, <3>1 DEF Numbered
    <3>2. CASE posts'[p] = n
      BY <1>0, <1>1, <1>4, <1>5, <3>2 DEF Numbered
    <3> QED BY <1>6, <3>1, <3>2
  <2> QED BY <1>0, <1>2, <1>3, <2>1 DEF Numbered, Starting
<1>12. Adoptable'
  <2>1. \A p, q \in DOMAIN posts' : posts'[p].id # NoSession /\ posts'[p].id = posts'[q].id => p = q
    BY <1>0, <1>1, <1>5, <1>6 DEF Adoptable
  <2>2. ASSUME NEW p \in DOMAIN posts', posts'[p].id # NoSession, Wanted(posts'[p].ep, posts'[p].gen)
        PROVE  book.open = posts'[p].id /\ book.owner = posts'[p].ep
    BY <1>0, <1>1, <1>5, <1>6, <2>2 DEF Adoptable
  <2> QED BY <1>2, <1>3, <2>1, <2>2 DEF Adoptable, Wanted
<1>13. Holding'
  <2>1. ASSUME NEW e \in Endpoints, ctl[e].adopted
        PROVE  \A p \in DOMAIN posts' : posts'[p].id # ctl[e].id
    <3>1. /\ book.open = ctl[e].id /\ book.owner = e /\ thread.ep # e
          /\ \A p \in DOMAIN posts : posts[p].id # ctl[e].id
      BY <1>0, <1>1, <2>1 DEF Holding, Starting
    <3>2. thread.id # ctl[e].id
      BY <1>0, <1>1, <3>1 DEF Adoptable
    <3> QED BY <1>5, <1>6, <3>1, <3>2
  <2> QED BY <1>0, <1>2, <1>3, <2>1 DEF Holding, Starting
<1>14. Filed'
  BY <1>0, <1>1, <1>2, <1>3 DEF Filed, OpenIsFiled
<1>15. Owing'
  BY <1>0, <1>1, <1>2, <1>3 DEF Owing, InTodo
<1> QED BY <1>7, <1>8, <1>9, <1>10, <1>11, <1>12, <1>13, <1>14, <1>15 DEF SessionInv

LEMMA ExitKeeps ==
    ASSUME SessionInv, ExitStep
    PROVE  SessionInv'
<1>0. Typed /\ Control /\ Known /\ Claimed /\ HandedOut /\ StartJob /\ Numbered /\ Adoptable /\ Holding /\ Filed /\ Owing
  BY DEF SessionInv
<1>1. /\ phase = "up" /\ phase' = "waiting" /\ Calmer /\ \A e \in Endpoints : ~ctl'[e].adopted /\ ~ctl'[e].pending
      /\ jobs' = <<>> /\ posts' = <<>> /\ UNCHANGED <<thread, file, live, created, filed>>
  BY DEF ExitStep
<1>2. DOMAIN jobs' = {} /\ DOMAIN posts' = {}
  BY <1>1
<1>3. Shut
  BY DEF ExitStep, Shut
<1>4. /\ book' \in Books /\ owed' \in Nat /\ book'.ended = book.ended /\ book'.handed = book.handed
      /\ book.ending \subseteq book'.ending /\ book'.ending \subseteq book.ending \cup {book.open}
      /\ book'.retry \subseteq book.retry \cup {book.open}
      /\ book' = book \/ (book.open # NoSession /\ book'.open = NoSession)
      /\ owed' # NoSession => owed' = owed /\ (owed = book.open => book' = book \/ owed \in book'.ending)
  BY <1>0, <1>3 DEF Shut, Closing, Claimed, Typed, NoSession
<1>5. Typed'
  BY <1>0, <1>1, <1>4, EmptySeq DEF Typed, Calmer
<1>6. Control'
  BY <1>0, <1>1 DEF Control
<1>7. Known'
  BY <1>0, <1>1, <1>2, <1>4 DEF Known, Typed, NoSession
<1>8. Claimed'
  <2>1. book'.ending \cap book'.ended = {} /\ NoSession \notin book'.ending
    BY <1>0, <1>4 DEF Claimed
  <2>2. book'.open # NoSession => book'.open \notin book'.ending \cup book'.ended \cup book'.handed
    BY <1>0, <1>4 DEF Claimed
  <2>3. EndsNow => thread.id \in book'.ending
    BY <1>0, <1>4 DEF Claimed
  <2> QED BY <1>1, <1>2, <2>1, <2>2, <2>3 DEF Claimed, EndsNow
<1>9. HandedOut'
  BY <1>0, <1>1, <1>4 DEF HandedOut, Control, EndsNow
<1>10. StartJob'
  <2>1. thread.at = "started" => book' = book
    BY <1>0, <1>4 DEF StartJob, Control
  <2> QED BY <1>0, <1>1, <1>2, <1>4, <2>1 DEF StartJob
<1>11. Numbered'
  <2>1. thread.job = "start" => thread.gen <= ctl'[thread.ep].gen
    <3>1. \A e \in Endpoints : ctl[e].gen <= ctl'[e].gen /\ ctl[e].gen \in Nat /\ ctl'[e].gen \in Nat
      BY <1>0, <1>1 DEF Calmer, Quieter, Typed, Controllers
    <3>2. thread.gen \in Nat
      BY <1>0, Elements
    <3> QED BY <1>0, <3>1, <3>2 DEF Numbered, Control
  <2> QED BY <1>1, <1>2, <2>1 DEF Numbered, Starting
<1>12. Adoptable'
  BY <1>0, <1>1, <1>2, <1>4 DEF Adoptable, Wanted, Control, StartJob
<1>13. Holding'
  BY <1>1 DEF Holding
<1>14. Filed'
  BY <1>0, <1>1 DEF Filed, OpenIsFiled
<1>15. Owing'
  BY <1>0, <1>1, <1>4 DEF Owing, InTodo
<1> QED BY <1>5, <1>6, <1>7, <1>8, <1>9, <1>10, <1>11, <1>12, <1>13, <1>14, <1>15 DEF SessionInv

LEMMA JoinKeeps ==
    ASSUME SessionInv, JoinStep
    PROVE  SessionInv'
<1> DEFINE ids == ForShutdown(book)
<1>0. Typed /\ Control /\ Known /\ Claimed /\ HandedOut /\ StartJob /\ Numbered /\ Adoptable /\ Holding /\ Filed /\ Owing
  BY DEF SessionInv
<1>1. /\ phase = "joining" /\ thread.at = "idle" /\ phase' = "ending" /\ posts' = <<>>
      /\ UNCHANGED <<ctl, jobs, file, live, created, filed>>
      /\ thread' \in Threads /\ thread'.at = "next" /\ thread'.job = "shutdown" /\ thread'.id = NoSession
      /\ book' \in Books /\ book'.open = NoSession /\ book'.owner = NoSession /\ book'.retry = {}
      /\ book'.ended = book.ended /\ book'.handed = book.handed \cup ids
  BY DEF JoinStep
<1>2. \/ /\ book'.ending = book.ending \cup ids /\ owed' = owed
         /\ \A i \in DOMAIN thread'.todo : thread'.todo[i] \in ids
         /\ \A i, j \in DOMAIN thread'.todo : thread'.todo[i] = thread'.todo[j] => i = j
         /\ \A id \in ids : \E i \in DOMAIN thread'.todo : thread'.todo[i] = id
      \/ /\ book'.ending = (book.ending \cup ids) \ ids
         /\ owed' = IF owed \in ids THEN NoSession ELSE owed
         /\ DOMAIN thread'.todo = {}
  BY DEF JoinStep
<1>3. jobs = <<>> /\ DOMAIN jobs = {} /\ DOMAIN posts' = {} /\ book.handed = {} /\ thread.job = "none"
  BY <1>0, <1>1 DEF Control, HandedOut
<1>4. /\ ids \subseteq 0..created /\ NoSession \notin ids /\ ids \cap book.ended = {}
      /\ owed # NoSession => owed \in ids
  <2>1. ids = ({book.open} \cup book.retry \cup book.ending) \ ({NoSession} \cup book.ended \cup book.handed)
    BY DEF ForShutdown
  <2>2. owed # NoSession => owed \in {book.open} \cup book.ending /\ owed \notin book.ended
    BY <1>0, <1>1, <1>3 DEF Owing
  <2>3. ids \subseteq 0..created
    BY <1>0, <2>1 DEF Known
  <2> QED BY <1>3, <2>1, <2>2, <2>3
<1> HIDE DEF ids
<1>5. Typed'
  <2>1. owed' \in Nat
    BY <1>0, <1>2 DEF Typed, NoSession
  <2> QED BY <1>0, <1>1, <2>1, EmptySeq DEF Typed
<1>6. Control'
  BY <1>1, <1>3 DEF Control
<1>7. Known'
  <2>1. book'.ending \subseteq 0..created /\ book'.ended \subseteq 0..created /\ book'.handed \subseteq 0..created
    BY <1>0, <1>1, <1>2, <1>4 DEF Known
  <2>2. \A i \in DOMAIN thread'.todo : thread'.todo[i] \in 0..created
    BY <1>2, <1>4
  <2>3. NoSession \in 0..created
    BY <1>0 DEF Typed, NoSession
  <2> QED BY <1>0, <1>1, <1>3, <2>1, <2>2, <2>3 DEF Known
<1>8. Claimed'
  <2>1. book'.ending \cap book'.ended = {} /\ NoSession \notin book'.ending
    BY <1>0, <1>1, <1>2, <1>4 DEF Claimed
  <2> QED BY <1>1, <1>3, <2>1 DEF Claimed, EndsNow
<1>9. HandedOut'
  BY <1>1, <1>2 DEF HandedOut, EndsNow
<1>10. (StartJob /\ Numbered)'
  BY <1>1, <1>3 DEF StartJob, Numbered
<1>11. (Adoptable /\ Holding)'
  BY <1>0, <1>1, <1>3 DEF Adoptable, Holding
<1>12. Filed'
  BY <1>0, <1>1 DEF Filed, OpenIsFiled
<1>13. Owing'
  <2>1. phase' = "ending" /\ thread'.at = "next" /\ book'.ended = book.ended
    BY <1>1
  <2>2. ASSUME owed' # NoSession
        PROVE  owed' = owed /\ owed \in ids /\ \E i \in DOMAIN thread'.todo : thread'.todo[i] = owed'
    <3>1. owed' = owed /\ owed \in ids
      BY <1>2, <1>4, <2>2
    <3> QED BY <1>2, <2>2, <3>1
  <2>3. owed' # NoSession => owed' \notin book'.ended
    BY <1>4, <2>1, <2>2
  <2> QED BY <2>1, <2>2, <2>3 DEF Owing, InTodo
<1> QED BY <1>5, <1>6, <1>7, <1>8, <1>9, <1>10, <1>11, <1>12, <1>13 DEF SessionInv

LEMMA EndNextKeeps ==
    ASSUME SessionInv, EndNextStep
    PROVE  SessionInv'
<1>0. Typed /\ Control /\ Known /\ Claimed /\ HandedOut /\ StartJob /\ Numbered /\ Adoptable /\ Holding /\ Filed /\ Owing
  BY DEF SessionInv
<1>1. /\ thread.at = "next" /\ thread.todo # <<>> /\ thread' \in Threads /\ SameJob
      /\ thread'.at = "send" /\ thread'.id = Head(thread.todo) /\ thread'.todo = Tail(thread.todo)
      /\ UNCHANGED <<phase, ctl, book, jobs, posts, file, live, created, owed, filed>>
  BY DEF EndNextStep
<1>2. thread.job = "shutdown" /\ phase = "ending" /\ jobs = <<>> /\ DOMAIN jobs = {}
  BY <1>0, <1>1 DEF Control
<1>3. /\ 1 \in DOMAIN thread.todo /\ thread.todo[1] = thread'.id
      /\ \A i \in DOMAIN thread'.todo :
            i \in Nat /\ 0 < i /\ i + 1 \in DOMAIN thread.todo /\ thread'.todo[i] = thread.todo[i + 1]
      /\ \A i \in DOMAIN thread.todo : i = 1 \/ (i - 1 \in DOMAIN thread'.todo /\ thread'.todo[i - 1] = thread.todo[i])
  <2>1. thread.todo \in Seq(Nat)
    BY <1>0, Elements
  <2> QED BY <1>1, <2>1, TailAt, SMTT(30)
<1>4. \A i \in DOMAIN thread'.todo : \E k \in DOMAIN thread.todo : k # 1 /\ thread'.todo[i] = thread.todo[k]
  BY <1>3
<1>5. Typed'
  BY <1>0, <1>1 DEF Typed
<1>6. (Control /\ Known)'
  BY <1>0, <1>1, <1>2, <1>3, <1>4 DEF Control, Known, SameJob
<1>7. Claimed'
  BY <1>0, <1>1, <1>2, <1>3 DEF Claimed, HandedOut, EndsNow
<1>8. HandedOut'
  <2>1. /\ \A i \in DOMAIN thread'.todo : thread'.todo[i] \in book.ending /\ thread'.todo[i] # thread'.id
    BY <1>0, <1>2, <1>3, <1>4 DEF HandedOut
  <2>2. ASSUME NEW i \in DOMAIN thread'.todo, NEW k \in DOMAIN thread'.todo, thread'.todo[i] = thread'.todo[k]
        PROVE  i = k
    <3>1. i + 1 = k + 1
      BY <1>0, <1>2, <1>3, <2>2 DEF HandedOut
    <3> QED BY <1>3, <3>1
  <2> QED BY <1>0, <1>1, <2>1, <2>2 DEF HandedOut
<1>9. (StartJob /\ Numbered)'
  BY <1>0, <1>1, <1>2 DEF StartJob, Numbered, Starting, SameJob
<1>10. (Adoptable /\ Holding)'
  BY <1>0, <1>1, <1>2 DEF Adoptable, Holding, Wanted, Starting, SameJob
<1>11. Filed'
  BY <1>0, <1>1 DEF Filed, OpenIsFiled
<1>12. Owing'
  <2>1. owed # NoSession => \E i \in DOMAIN thread.todo : thread.todo[i] = owed
    BY <1>0, <1>1, <1>2 DEF Owing, InTodo
  <2>2. owed # NoSession => thread'.id = owed \/ \E i \in DOMAIN thread'.todo : thread'.todo[i] = owed
    BY <1>3, <2>1
  <2> QED BY <1>0, <1>1, <1>2, <2>2 DEF Owing, InTodo
<1> QED BY <1>5, <1>6, <1>7, <1>8, <1>9, <1>10, <1>11, <1>12 DEF SessionInv

LEMMA GoneKeeps ==
    ASSUME SessionInv, GoneStep
    PROVE  SessionInv'
<1>0. Typed /\ Control /\ Known /\ Filed /\ Owing
  BY DEF SessionInv
<1>1. /\ ctl' = [e \in Endpoints |-> FreshController] /\ book' = EmptyBook /\ jobs' = <<>> /\ thread' = IdleThread
      /\ posts' = <<>> /\ UNCHANGED <<file, live, created, filed>> /\ phase' \in {"down", "crashed"}
  BY DEF GoneStep, Gone, server
<1>2. FreshController \in Controllers /\ FreshController.adopted = FALSE
  BY DEF FreshController, Controllers, NoSession
<1>3. ctl' \in [Endpoints -> Controllers] /\ \A e \in Endpoints : ~ctl'[e].adopted
  BY <1>1, <1>2
<1>4. owed' = NoSession
  <2>1. CASE thread.at = "next" /\ thread.todo = <<>> /\ owed' = owed
    <3>1. phase = "ending" /\ ~InTodo(owed) /\ thread.at # "send"
      BY <1>0, <2>1 DEF Control, InTodo
    <3> QED BY <1>0, <2>1, <3>1 DEF Owing
  <2> QED BY <2>1 DEF GoneStep
<1>5. Typed'
  BY <1>0, <1>1, <1>3, <1>4, BookEmpty, IdleTyped, EmptySeq DEF Typed, NoSession
<1>6. (Control /\ Claimed /\ HandedOut)'
  BY <1>1, BookEmpty, IdleTyped DEF Control, Claimed, HandedOut, EndsNow
<1>9. Known'
  <2>1. file \in 0..created
    BY <1>0 DEF Known
  <2>2. NoSession \in 0..created
    <3>1. created \in Nat
      BY <1>0 DEF Typed
    <3> QED BY <3>1 DEF NoSession
  <2> QED BY <1>1, <2>1, <2>2, BookEmpty, IdleTyped DEF Known
<1>7. (StartJob /\ Numbered /\ Adoptable)'
  BY <1>1, BookEmpty, IdleTyped DEF StartJob, Numbered, Adoptable
<1>8. (Holding /\ Filed /\ Owing)'
  BY <1>0, <1>1, <1>3, <1>4, IdleTyped DEF Holding, Filed, OpenIsFiled, Owing
<1> QED BY <1>5, <1>6, <1>7, <1>8, <1>9 DEF SessionInv

-----------------------------------------------------------------------------
(* The outputs: a fresh one streams to the session its endpoint got.       *)

Fit(c) ==
    /\ c.pending /\ ~c.reused => c.output = "none"
    /\ c.output \in {"trying", "on"} \/ c.state = "Live" => c.reused \/ (c.adopted /\ c.key = c.id)

Outputs == \A e \in Endpoints : Fit(ctl[e])

LEMMA FitOne ==
    ASSUME Typed, Outputs, NEW e \in Endpoints, NEW c, ctl' = [ctl EXCEPT ![e] = c], Fit(c)
    PROVE  Outputs'
<1>1. ctl'[e] = c /\ \A d \in Endpoints \ {e} : ctl'[d] = ctl[d]
  BY DEF Typed
<1>2. ASSUME NEW d \in Endpoints PROVE Fit(ctl'[d])
  <2>1. CASE d = e
    BY <1>1, <2>1
  <2>2. CASE d # e
    BY <1>1, <2>2 DEF Outputs
  <2> QED BY <2>1, <2>2
<1>3. Outputs' <=> \A d \in Endpoints : Fit(ctl'[d])
  BY DEF Outputs, Fit
<1> QED BY <1>2, <1>3

LEMMA StoppedFits == \A c : Fit(Stopped(c))
BY DEF Fit, Stopped, FreshController

LEMMA StartFits ==
    ASSUME Typed, Outputs, NEW e \in Endpoints, StartEndpoint(e)
    PROVE  Outputs'
<1> DEFINE c == [ctl[e] EXCEPT !.state = "Starting", !.gen = ctl[e].gen + 1, !.pending = TRUE,
                               !.reused = ctl[e].output # "none", !.adopted = FALSE]
<1>1. ctl' = [ctl EXCEPT ![e] = c]
  BY DEF StartEndpoint
<1>2. ctl[e] \in Controllers
  BY DEF Typed
<1>3. c.state = "Starting" /\ c.output = ctl[e].output /\ c.reused = (ctl[e].output # "none")
  BY <1>2 DEF Controllers
<1> HIDE DEF c
<1>4. Fit(c)
  BY <1>3 DEF Fit
<1> QED BY <1>1, <1>4, FitOne

LEMMA ReportFits ==
    ASSUME Typed, Outputs, NEW e \in Endpoints, OutputReports(e)
    PROVE  Outputs'
<1> DEFINE k == ctl[e]
<1>1. PICK s \in {"Live", "Reconnecting", "FailedHard", "Idle"}, o \in {"off", "trying", "on"} :
         /\ ctl' = [ctl EXCEPT ![e].state = s, ![e].output = o]
         /\ k.output \in {"trying", "on"}
         /\ k.reused \/ o # "off" \/ s # "Live"
  BY DEF OutputReports
<1> DEFINE c == [k EXCEPT !.state = s, !.output = o]
<1>2. k \in Controllers /\ ctl' = [ctl EXCEPT ![e] = c] /\ Fit(k)
  BY <1>1 DEF Typed, Outputs
<1> HIDE DEF k
<1>3. /\ c.pending = k.pending /\ c.reused = k.reused /\ c.adopted = k.adopted /\ c.key = k.key /\ c.id = k.id
  BY <1>2 DEF Controllers
<1> HIDE DEF c
<1>4. k.reused \/ (~k.pending /\ k.adopted /\ k.key = k.id)
  BY <1>1, <1>2 DEF Fit, Controllers
<1>5. Fit(c)
  BY <1>3, <1>4 DEF Fit
<1> QED BY <1>2, <1>5, FitOne

LEMMA DeliverFits ==
    ASSUME Typed, Outputs, Deliver
    PROVE  Outputs'
<1> DEFINE r == Head(posts)
           k == ctl[r.ep]
<1>1. r \in Results
  BY TailAt DEF Deliver, Typed
<1>2. r.ep \in Endpoints /\ r.id \in Nat
  BY <1>1 DEF Results
<1>3. k \in Controllers /\ Fit(k)
  BY <1>2 DEF Typed, Outputs
<1>4. CASE /\ Wanted(r.ep, r.gen)
           /\ ctl' = [ctl EXCEPT ![r.ep] = [WithOutput(@, r.id) EXCEPT
                         !.output = "trying", !.pending = FALSE, !.session = TRUE, !.id = r.id, !.adopted = TRUE]]
  <2> DEFINE w == WithOutput(k, r.id)
             c == [w EXCEPT !.output = "trying", !.pending = FALSE, !.session = TRUE, !.id = r.id, !.adopted = TRUE]
  <2>1. ctl' = [ctl EXCEPT ![r.ep] = c]
    BY <1>4
  <2>2. w \in Controllers /\ w.reused = k.reused
    BY <1>2, <1>3, OutputChanged DEF SameButOutput
  <2>3. k.reused \/ w.key = r.id
    <3>1. k.reused \/ k.output = "none"
      BY <1>3, <1>4 DEF Wanted, Fit
    <3>2. k.output = "none" => w = [k EXCEPT !.output = "off", !.key = r.id]
      BY DEF WithOutput
    <3> QED BY <1>3, <3>1, <3>2 DEF Controllers
  <2> HIDE DEF w
  <2>4. c.reused = w.reused /\ c.pending = FALSE /\ c.adopted = TRUE /\ c.key = w.key /\ c.id = r.id
    BY <2>2 DEF Controllers
  <2> HIDE DEF c, k
  <2>5. Fit(c)
    BY <2>2, <2>3, <2>4 DEF Fit
  <2> HIDE DEF r
  <2> QED BY <1>2, <2>1, <2>5, FitOne
<1>5. CASE /\ Wanted(r.ep, r.gen)
           /\ \E w \in Refused(ctl[r.ep], r.id) :
                 ctl' = [ctl EXCEPT ![r.ep] = [w EXCEPT !.state = "FailedHard", !.pending = FALSE,
                                                        !.session = FALSE, !.id = NoSession]]
  <2>1. PICK w \in Refused(k, r.id) :
           ctl' = [ctl EXCEPT ![r.ep] = [w EXCEPT !.state = "FailedHard", !.pending = FALSE,
                                                  !.session = FALSE, !.id = NoSession]]
    BY <1>5
  <2> DEFINE c == [w EXCEPT !.state = "FailedHard", !.pending = FALSE, !.session = FALSE, !.id = NoSession]
  <2>2. w \in Controllers /\ w.reused = k.reused
    BY <1>2, <1>3, <2>1, OutputChanged DEF SameButOutput
  <2>3. k.reused \/ w.output \in {"none", "off"}
    <3>1. k.reused \/ k.output = "none"
      BY <1>3, <1>5 DEF Wanted, Fit
    <3>2. k.output = "none" => w \in {k, [k EXCEPT !.output = "off", !.key = r.id]}
      BY <2>1 DEF Refused, WithOutput
    <3> QED BY <1>3, <3>1, <3>2 DEF Controllers
  <2>4. c.reused = w.reused /\ c.pending = FALSE /\ c.state = "FailedHard" /\ c.output = w.output
    BY <2>2 DEF Controllers
  <2>5. ctl' = [ctl EXCEPT ![r.ep] = c]
    BY <2>1
  <2> HIDE DEF c, k
  <2>6. Fit(c)
    BY <2>2, <2>3, <2>4 DEF Fit
  <2> HIDE DEF r
  <2> QED BY <1>2, <2>5, <2>6, FitOne
<1>6. CASE ctl' = [ctl EXCEPT ![r.ep].state = "FailedHard", ![r.ep].pending = FALSE] /\ Wanted(r.ep, r.gen)
  <2> DEFINE c == [k EXCEPT !.state = "FailedHard", !.pending = FALSE]
  <2>1. ctl' = [ctl EXCEPT ![r.ep] = c]
    BY <1>6
  <2>2. k.reused \/ k.output = "none"
    BY <1>3, <1>6 DEF Wanted, Fit
  <2>3. c.reused = k.reused /\ c.pending = FALSE /\ c.state = "FailedHard" /\ c.output = k.output
    BY <1>3 DEF Controllers
  <2> HIDE DEF c, k
  <2>4. Fit(c)
    BY <2>2, <2>3 DEF Fit
  <2> HIDE DEF r
  <2> QED BY <1>2, <2>1, <2>4, FitOne
<1>7. CASE ctl' = ctl
  BY <1>7 DEF Outputs, Fit
<1> QED BY <1>4, <1>5, <1>6, <1>7 DEF Deliver

LEMMA AllFreshFit ==
    ASSUME \/ ctl' = [e \in Endpoints |-> FreshController]
           \/ ctl' = [e \in Endpoints |-> Stopped(ctl[e])]
    PROVE  Outputs'
<1>1. Fit(FreshController)
  BY DEF Fit, FreshController
<1>2. \A e \in Endpoints : Fit(ctl'[e])
  BY <1>1, StoppedFits
<1>3. Outputs' <=> \A e \in Endpoints : Fit(ctl'[e])
  BY DEF Outputs, Fit
<1> QED BY <1>2, <1>3

LEMMA OutputsKeep ==
    ASSUME Typed, Outputs, [Next]_vars
    PROVE  Outputs'
<1>1. CASE \E e \in Endpoints : StartEndpoint(e) \/ OutputReports(e)
  BY <1>1, StartFits, ReportFits
<1>2. ASSUME NEW e \in Endpoints, StopEndpoint(e) PROVE Outputs'
  <2>1. ctl' = [ctl EXCEPT ![e] = Stopped(ctl[e])]
    BY <1>2 DEF StopEndpoint
  <2> QED BY <2>1, StoppedFits, FitOne
<1>3. CASE Deliver
  BY <1>3, DeliverFits
<1>4. CASE Exit \/ Down \/ Crash
  BY <1>4, AllFreshFit DEF Exit, Down, Crash, Gone
<1>5. CASE UNCHANGED ctl
  BY <1>5 DEF Outputs, Fit
<1>6. RemoveToken \/ SaveToken \/ Worker => UNCHANGED ctl
  BY DEF RemoveToken, SaveToken, Worker, TakeJob, Claim, NextStale, SendEnd, SettleEnd, RequestStart, Started, WriteFile
<1>7. StopWaiting \/ JoinWorker \/ EndNext \/ Restart \/ UNCHANGED vars => UNCHANGED ctl
  BY DEF StopWaiting, JoinWorker, EndNext, Restart, vars
<1> QED BY <1>1, <1>2, <1>3, <1>4, <1>5, <1>6, <1>7 DEF Next, Shutdown

-----------------------------------------------------------------------------
(* The theorems.                                                           *)

(* SessionInv is an invariant of the specification: what the worker is doing, what the book says *)
(* of it and what the endpoints wait for agree, in every order of starts, stops, late results,   *)
(* ends that fail, a shutdown that cuts them off, crashes and restarts (StreamlabsClient.cpp).   *)
THEOREM SessionInvCorrect == Spec => []SessionInv
<1>1. SessionInv /\ [Next]_vars => SessionInv'
  <2> SUFFICES ASSUME SessionInv, [Next]_vars PROVE SessionInv'
    OBVIOUS
  <2> QED BY StepsSplit, UiKeeps, AdoptKeeps, StartKeeps, TakeKeeps, ClaimKeeps, StaleKeeps, SendKeeps, SettleKeeps,
             RequestKeeps, StartedKeeps, WriteKeeps, ExitKeeps, JoinKeeps, EndNextKeeps, GoneKeeps, PhaseKeeps, StaysKeeps
<1> QED BY <1>1, InitHolds, PTL DEF Spec

(* "an id is ended successfully at most once" (StreamlabsTikTok.hpp:134): no end is sent for an *)
(* id whose end was confirmed in this run.                                                      *)
THEOREM EndedOnceCorrect == Spec => []EndedOnce
<1>1. SessionInv => EndedOnce
  BY DEF SessionInv, Claimed, EndsNow, EndedOnce
<1> QED BY <1>1, SessionInvCorrect, PTL

(* What an output reports and what a start_output() leaves of it: one that was made for the last *)
(* start only ever connects or runs with the session that start got (OutputController.cpp:324).  *)
THEOREM OutputsCorrect == Spec => []Outputs
<1>1. Init => Outputs
  BY DEF Init, Outputs, Fit, FreshController
<1>2. SessionInv /\ Outputs /\ [Next]_vars => Outputs'
  BY OutputsKeep DEF SessionInv
<1> QED BY <1>1, <1>2, SessionInvCorrect, PTL DEF Spec

(* An endpoint keeps the session it got for its last start: it is the open one and nobody is about  *)
(* to end it; on the air with an output of its own, the endpoint got the session it streams to.     *)
THEOREM AirOwnsCorrect == Spec => []AirOwnsSession
<1>1. SessionInv /\ Outputs => AirOwnsSession
  BY DEF SessionInv, Claimed, Holding, EndsNow, AirOwnsSession, Outputs, Fit
<1> QED BY <1>1, SessionInvCorrect, OutputsCorrect, PTL

(* "a session left open by a crash is ended before the next start" (StreamlabsClient.hpp): a live   *)
(* session that was filed is still in the file, and an orderly shutdown leaves none without an end. *)
THEOREM NoSessionForgottenCorrect == Spec => []NoSessionForgotten
<1>1. SessionInv => NoSessionForgotten
  BY DEF SessionInv, Filed, Owing, NoSessionForgotten, ShutdownEndsAll
<1> QED BY <1>1, SessionInvCorrect, PTL

==================================================================================
