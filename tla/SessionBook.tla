------------------------------- MODULE SessionBook -------------------------------
(***************************************************************************)
(* StreamlabsSessionBook (core/StreamlabsTikTok.cpp): which session of the *)
(* one Streamlabs account is open, being ended or ended.  The operators    *)
(* are the book after a call; StreamlabsSessions makes the calls under     *)
(* m_mutex.  A list without duplicates is a set; 0 is the empty id.        *)
(***************************************************************************)
EXTENDS Naturals

NoSession == 0

EmptyBook == [open |-> NoSession, owner |-> NoSession, ending |-> {}, retry |-> {},
              ended |-> {}, handed |-> {}]

Closed(b) == [b EXCEPT !.open = NoSession, !.owner = NoSession]

\* busy_with(): another endpoint owns the open session.
Busy(b, e) == b.open # NoSession /\ b.owner # e

\* claim_for_start(), when not busy: the id to end first, if any, leaves the book.
Stale(b) == b.open

OnStarted(b, id, e) == [b EXCEPT !.open = id, !.owner = e]

\* release_owner(): the open id of this endpoint, which counts as being ended from now on.
Owned(b, e) == IF b.owner = e THEN b.open ELSE NoSession
ReleaseOwner(b, e) ==
    IF Owned(b, e) = NoSession THEN b ELSE [Closed(b) EXCEPT !.ending = @ \cup {b.open}]

\* Mutant: an id that was ended may be ended again.
MayEnd_Again(b, id) == id # NoSession /\ id \notin b.ending

\* begin_end()
MayEnd(b, id) == id # NoSession /\ id \notin b.ending \cup b.ended
BeginEnd(b, id) == [b EXCEPT !.retry = @ \ {id}, !.ending = @ \cup {id}]

\* Mutant: the end of an unadopted start closes whatever session is open.
Unadopted_Any(b, id) == b.open # NoSession

\* release_unadopted(): only while it is the open one; then begin_end().
Unadopted(b, id) == id # NoSession /\ b.open = id

FinishEnd(b, id, outcome) ==
    [b EXCEPT !.ending = @ \ {id},
              !.ended = IF outcome = "Ended" THEN @ \cup {id} ELSE @,
              !.retry = CASE outcome = "Ended" -> @ \ {id}
                          [] outcome = "Cancelled" -> @ \cup {id}
                          [] OTHER -> @]

\* finish_end() of several ids whose end could not be tried.
GiveUp(b, ids) == [b EXCEPT !.ending = @ \ ids]

\* take_for_shutdown(): what is still to be ended, each once.
ForShutdown(b) == ({b.open} \cup b.retry \cup b.ending) \ ({NoSession} \cup b.ended \cup b.handed)
TakeForShutdown(b) ==
    [Closed(b) EXCEPT !.retry = {}, !.ending = @ \cup ForShutdown(b), !.handed = @ \cup ForShutdown(b)]
================================================================================
