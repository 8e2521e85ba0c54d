------------------------- MODULE MCEndpointRegistry -------------------------
(* Model-checking instance of EndpointRegistry. *)
EXTENDS EndpointRegistry

CONSTANTS i1, i2, k1

On(id, key, linked) == [id |-> id, target |-> key, enabled |-> TRUE, linked |-> linked]

(* A first run, and two endpoints that share a server and key. *)
MCLoaded == {<<>>, <<On(i1, k1, TRUE), On(i2, k1, TRUE)>>}
=============================================================================
