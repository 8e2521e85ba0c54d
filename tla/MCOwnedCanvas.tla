------------------------------- MODULE MCOwnedCanvas -------------------------------
(* A small instance of OwnedCanvas: a stinger and a cut, two main scenes, the first linked by the "V "
   rule, the second by its own name; "V Main" is linked to none of them. *)
EXTENDS OwnedCanvas

MCTransitions == {"stinger", "cut"}
MCType == [t \in MCTransitions |-> t]
MCMainScenes == {<<"Game">>, <<"Chat">>}
MCVerticals == {<<"V", "Game">>, <<"Chat">>, VMain}
================================================================================
