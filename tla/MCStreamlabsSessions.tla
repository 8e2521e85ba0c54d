------------------------- MODULE MCStreamlabsSessions -------------------------
(***************************************************************************)
(* An instance of StreamlabsSessions for TLC: one endpoint is started      *)
(* twice, and another one competes for the session.  Endpoints differ in   *)
(* nothing else, so it does not matter which of them is started twice.     *)
(***************************************************************************)
EXTENDS StreamlabsSessions

CONSTANTS tiktok, rival

MCEndpoints == {tiktok, rival}
MCMaxStarts == (tiktok :> 2) @@ (rival :> 1)
================================================================================
