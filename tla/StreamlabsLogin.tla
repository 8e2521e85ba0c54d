------------------------------ MODULE StreamlabsLogin ------------------------------
(***************************************************************************)
(* The rules of the Streamlabs login (core/StreamlabsLogin.cpp): what a    *)
(* request on the callback port is, what the code exchange came back with. *)
(* A code or a token is a number, 0 for one that is not usable; the PKCE   *)
(* pair is left out.                                                       *)
(***************************************************************************)
EXTENDS StreamlabsApi, Sequences

Unusable == 0

(***************************************************************************)
(* A request that has arrived so far: `line` is its request line ("open"   *)
(* without its end yet, "long" without it in 8 KiB, "other" when it is no  *)
(* GET of a path with a query, or "query"), `params` the fields of the     *)
(* query, in order.                                                        *)
(***************************************************************************)
LastOf(params, name) ==
    LET at == {i \in DOMAIN params : params[i].name = name}
    IN params[CHOOSE i \in at : \A j \in at : j <= i].value

Has(params, name) == \E i \in DOMAIN params : params[i].name = name

\* Every value has to decode, also one that a later field replaces.
Decodes(params) == \A i \in DOMAIN params : params[i].name \in {"success", "code"} => params[i].decodes

CodeAccepted(params) ==
    /\ Has(params, "success") /\ LastOf(params, "success") = "true"
    /\ Has(params, "code") /\ LastOf(params, "code") # Unusable
    /\ Decodes(params)

ParseCallback(request) ==
    CASE request.line = "open" -> "Incomplete"
      [] request.line \in {"long", "other"} -> "NotCallback"
      [] request.line = "query" ->
            IF ~Has(request.params, "success") /\ ~Has(request.params, "code") THEN "NotCallback"
            ELSE IF CodeAccepted(request.params) THEN "Code" ELSE "Failed"

\* Exactly status 200, success true, and a token in the answer.
ParseExchange(h) == h.transport_ok /\ h.status = 200 /\ {"success", "oauth_token"} \subseteq h.body
================================================================================
