------------------------------ MODULE StreamlabsApi ------------------------------
(***************************************************************************)
(* What a call of the Streamlabs API can come back with                    *)
(* (StreamlabsClient::perform(), core/StreamlabsTikTok.cpp).  A body that  *)
(* is a JSON object is the set of its fields that hold something.          *)
(***************************************************************************)
EXTENDS Naturals

NoBody == {"unreadable"}

Transport(cancelled) == [transport_ok |-> FALSE, cancelled |-> cancelled, status |-> 0, body |-> {}]
Answer(status, body) == [transport_ok |-> TRUE, cancelled |-> FALSE, status |-> status, body |-> body]

\* perform(): no handle, no connection, a time-out, a body above 1 MB; a request that was
\* cancelled before or during the call; or an answer with a status and a body.
Perform(cancelled, reached, bodies) ==
    {Transport(cancelled)}
        \cup IF reached THEN {Answer(s, b) : s \in {200, 401, 500}, b \in bodies \cup {NoBody, {}}} ELSE {}

StatusOk(h) == h.status >= 200 /\ h.status < 300
StatusError(h) == IF h.status \in {401, 403} THEN "Unauthorized" ELSE "Http"

\* A call that came back without an answer, with another status than 2xx, without an object.
CallError(h) == IF ~h.transport_ok THEN "Transport"
                ELSE IF ~StatusOk(h) THEN StatusError(h)
                ELSE IF h.body = NoBody THEN "BadResponse"
                ELSE "None"

StartFields == {"id", "rtmp", "key"}

\* streamlabs_parse_start()
ParseStart(h) == IF CallError(h) # "None" THEN CallError(h)
                 ELSE IF StartFields \subseteq h.body THEN "None" ELSE "MissingField"

\* streamlabs_parse_end(): only a JSON true confirms.
ParseEnd(h) == IF CallError(h) # "None" THEN CallError(h)
               ELSE IF "success" \in h.body THEN "None" ELSE "Rejected"
================================================================================
