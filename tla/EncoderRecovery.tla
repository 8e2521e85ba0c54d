--------------------------- MODULE EncoderRecovery ---------------------------
(***************************************************************************)
(* The pure encoder-failure rule of core/EncoderRecovery.cpp.  One record  *)
(* per endpoint session counts the encoder failures in a row and remembers *)
(* whether the session has fallen back to x264.                            *)
(*                                                                         *)
(* The counter is only ever compared with AfterFailures, so it saturates   *)
(* there: the rule cannot tell two larger values apart.                    *)
(***************************************************************************)
EXTENDS Naturals

CONSTANT AfterFailures   \* kEncoderFallbackAfterFailures

ASSUME AfterFailuresAssumption == AfterFailures \in Nat \ {0}

Backend == {"x264", "hardware"}

Code == {"success", "hard", "network", "encode"}

RecoveryState == [failures : 0 .. AfterFailures, fallback : BOOLEAN, afterEncodeError : BOOLEAN]

FreshRecovery == [failures |-> 0, fallback |-> FALSE, afterEncodeError |-> FALSE]

SwitchOn(r) == [r EXCEPT !.fallback = TRUE]

OnEncoderFailure(r, configured) ==
    LET counted == [r EXCEPT !.failures = IF @ < AfterFailures THEN @ + 1 ELSE @]
    IN  IF configured # "x264" /\ counted.failures = AfterFailures THEN SwitchOn(counted)
        ELSE counted

OnStopCode(r, code, configured) ==
    IF code = "encode"
    THEN OnEncoderFailure([r EXCEPT !.afterEncodeError = TRUE], configured)
    ELSE [r EXCEPT !.afterEncodeError = FALSE]

OnRestartFailure(r, configured) ==
    IF r.afterEncodeError THEN OnEncoderFailure(r, configured) ELSE r

OnLiveStable(r) == [r EXCEPT !.failures = 0, !.afterEncodeError = FALSE]

(* What start_output gathers about a failed first start.  serviceReady is
   obs_service_can_try_to_connect, and false while the output is active. *)
StartFailure ==
    [kind : {"EncoderCreate", "StartRefused", "StopBeforeLive"}, videoEncoderError : BOOLEAN,
     serviceReady : BOOLEAN, serviceAttached : BOOLEAN, code : Code]

IsEncoderStartFailure(f) ==
    \/ f.kind = "EncoderCreate"
    \/ f.kind = "StartRefused" /\ f.serviceAttached /\ (f.videoEncoderError \/ f.serviceReady)
    \/ f.kind = "StopBeforeLive" /\ f.code = "encode"

(* TRUE when a first-start failure switches the fallback on (the caller then
   retries once with x264). *)
FirstStartSwitches(r, f, configured, x264Registered) ==
    /\ IsEncoderStartFailure(f)
    /\ configured # "x264"
    /\ x264Registered
    /\ ~r.fallback

EffectiveBackend(configured, r, x264Registered) ==
    IF r.fallback /\ x264Registered THEN "x264" ELSE configured
=============================================================================
