----------------------- MODULE OutputController_proofs -----------------------
(***************************************************************************)
(* Theorems about OutputController, for any number of outputs, threads,    *)
(* encoders, canvases, attempts and calls of the UI thread: its types, who *)
(* owns which thread (with every kind of start() allowed), and, for the    *)
(* ordinary calls, who owns a session's output and encoders, that          *)
(* EndpointSession is implemented, that the shown state means what it says *)
(* and that a session encodes only from a canvas held, alive and watched.  *)
(***************************************************************************)
EXTENDS OutputController, TLAPS

USE DEF statusVars, sessionVars, flagVars, outputVars, encoderVars, canvasVars, uiVars, uiLocals,
        sigVars, rcVars, rcLocals, reaperVars, memberVars, obsVars, vars

-----------------------------------------------------------------------------
(* The rule of core/EncoderRecovery.cpp keeps its record well formed. *)

LEMMA FreshRecoveryType == FreshRecovery \in RecoveryState
BY AfterFailuresAssumption DEF FreshRecovery, RecoveryState

LEMMA SwitchOnType == ASSUME NEW r \in RecoveryState PROVE SwitchOn(r) \in RecoveryState
BY DEF SwitchOn, RecoveryState

LEMMA OnEncoderFailureType ==
    ASSUME NEW r \in RecoveryState, NEW configured
    PROVE  OnEncoderFailure(r, configured) \in RecoveryState
<1> DEFINE counted == [r EXCEPT !.failures = IF @ < AfterFailures THEN @ + 1 ELSE @]
<1>1. counted \in RecoveryState
  BY AfterFailuresAssumption DEF RecoveryState
<1>2. SwitchOn(counted) \in RecoveryState
  BY <1>1, SwitchOnType
<1>3. QED
  BY <1>1, <1>2 DEF OnEncoderFailure

LEMMA OnStopCodeType ==
    ASSUME NEW r \in RecoveryState, NEW code, NEW configured
    PROVE  OnStopCode(r, code, configured) \in RecoveryState
<1>1. [r EXCEPT !.afterEncodeError = TRUE] \in RecoveryState
  BY DEF RecoveryState
<1>2. [r EXCEPT !.afterEncodeError = FALSE] \in RecoveryState
  BY DEF RecoveryState
<1>3. QED
  BY <1>1, <1>2, OnEncoderFailureType DEF OnStopCode

LEMMA OnRestartFailureType ==
    ASSUME NEW r \in RecoveryState, NEW configured
    PROVE  OnRestartFailure(r, configured) \in RecoveryState
<1>1. OnEncoderFailure(r, configured) \in RecoveryState
  BY OnEncoderFailureType
<1>2. CASE r.afterEncodeError = TRUE
  BY <1>1, <1>2 DEF OnRestartFailure
<1>3. CASE r.afterEncodeError = FALSE
  BY <1>3 DEF OnRestartFailure
<1>4. QED
  BY <1>2, <1>3 DEF RecoveryState

LEMMA OnLiveStableType == ASSUME NEW r \in RecoveryState PROVE OnLiveStable(r) \in RecoveryState
<1>1. OnLiveStable(r) = [[r EXCEPT !.failures = 0] EXCEPT !.afterEncodeError = FALSE]
  BY DEF OnLiveStable
<1>2. [r EXCEPT !.failures = 0] \in RecoveryState
  BY AfterFailuresAssumption DEF RecoveryState
<1>3. QED
  BY <1>1, <1>2 DEF RecoveryState

LEMMA RestartFailureType ==
    ASSUME recovery \in RecoveryState, hasError \in BOOLEAN, RestartFailure
    PROVE  recovery' \in RecoveryState /\ hasError' \in BOOLEAN
<1>1. recovery' \in RecoveryState
  BY OnRestartFailureType DEF RestartFailure
<1>2. hasError' \in BOOLEAN
  BY DEF RestartFailure
<1>3. QED
  BY <1>1, <1>2

LEMMA GotoType ==
    ASSUME rcPc \in [Threads -> RcPc], NEW t \in Threads, NEW pc \in RcPc, Goto(t, pc)
    PROVE  rcPc' \in [Threads -> RcPc]
BY DEF Goto

LEMMA StopLockType ==
    ASSUME TypeOK, StopLock
    PROVE  recovery' \in RecoveryState /\ hasError' \in BOOLEAN
<1> DEFINE first == state = "Starting" /\ SwitchesAtFirstStart(StoppedBeforeLive)
           begun == IF first THEN SwitchOn(recovery) ELSE recovery
<1>1. begun \in RecoveryState
  BY SwitchOnType DEF TypeOK
<1>2. OnLiveStable(begun) \in RecoveryState
  BY <1>1, OnLiveStableType
<1>3. PICK r \in {begun} \cup (IF state = "Live" THEN {OnLiveStable(begun)} ELSE {}) :
        /\ recovery' = OnStopCode(r, sigCode, Configured)
        /\ hasError' \in BOOLEAN
  BY Zenon DEF StopLock
<1>4. r \in RecoveryState
  BY <1>1, <1>2, <1>3
<1>5. QED
  BY <1>3, <1>4, OnStopCodeType

-----------------------------------------------------------------------------
(* TypeOK is inductive. *)

LEMMA NoJobType == NoJob \in Job
BY DEF NoJob, Job

LEMMA AppendJob == ASSUME NEW s \in Seq(Job), NEW j \in Job PROVE Append(s, j) \in Seq(Job)
OBVIOUS

LEMMA InitTypeOK == Init => TypeOK
<1> SUFFICES ASSUME Init PROVE TypeOK
  OBVIOUS
<1>1. hasError \in BOOLEAN /\ stopReconnect \in BOOLEAN /\ shutdownDone \in BOOLEAN
      /\ dropped \in BOOLEAN
  BY DEF Init
<1>2. QED
  BY <1>1, NoJobType, FreshRecoveryType
     DEF Init, TypeOK, OutputState, Phase, UIPc, SigPc, RcPc, ReaperPc, Code

LEMMA NextTypeOK == TypeOK /\ [Next]_vars => TypeOK'
<1> SUFFICES ASSUME TypeOK, [Next]_vars PROVE TypeOK'
  OBVIOUS
<1> USE DEF TypeOK
<1>1. CASE UIBegins
  <2> USE DEF UIPc, OutputState
  <2>1. CASE Start
    <3>1. hasError' \in BOOLEAN
      BY <2>1 DEF Start, StartCall, UICall
    <3>2. QED
      BY <3>1, <2>1, FreshRecoveryType DEF Start, StartCall, UICall
  <2>2. CASE Stop
    <3>1. stopReconnect' \in BOOLEAN
      BY <2>2 DEF Stop, UICall
    <3>2. QED
      BY <3>1, <2>2 DEF Stop, UICall
  <2>3. CASE RemoveCanvas
    <3>1. hasError' \in BOOLEAN
      BY <2>3 DEF RemoveCanvas
    <3>2. stopReconnect' \in BOOLEAN
      BY <2>3 DEF RemoveCanvas
    <3>3. QED
      BY <3>1, <3>2, <2>3 DEF RemoveCanvas
  <2>4. CASE Drop
    <3>1. dropped' \in BOOLEAN
      BY <2>4 DEF Drop, UICall, ShutdownJob, NoJob, Job
    <3>2. QED
      BY <3>1, <2>4 DEF Drop, UICall, ShutdownJob, NoJob, Job
  <2>5. QED
    BY <1>1, <2>1, <2>2, <2>3, <2>4 DEF UIBegins
<1>2. CASE UIContinues
  <2> USE DEF UIPc, OutputState
  <2>1. CASE StartFlag
    <3>1. stopReconnect' \in BOOLEAN
      BY <2>1 DEF StartFlag
    <3>2. QED
      BY <3>1, <2>1 DEF StartFlag
  <2>2. CASE StartSteal
    BY <2>2 DEF StartSteal
  <2>3. CASE StartJoin
    <3>1. stopReconnect' \in BOOLEAN
      BY <2>3 DEF StartJoin, Join, RcPc
    <3>2. QED
      BY <3>1, <2>3 DEF StartJoin, Join, RcPc
  <2>4. CASE StartResolve
    <3>1. hasError' \in BOOLEAN
      BY <2>4 DEF StartResolve, Resolvable, FailHard
    <3>2. QED
      BY <3>1, <2>4 DEF StartResolve, Resolvable, FailHard
  <2>5. CASE StartOutput
    <3>1. hasError' \in BOOLEAN
      BY <2>5 DEF StartOutput, FailHard
    <3>2. state' \in OutputState
      BY <2>5 DEF StartOutput, FailHard
    <3>3. phase' \in [Outputs -> Phase]
      BY <2>5 DEF StartOutput, Phase
    <3>4. connected' \subseteq Outputs
      BY <2>5 DEF StartOutput
    <3>5. output' \in Outputs \cup {None} /\ uiOutput' \in Outputs \cup {None}
      BY <2>5 DEF StartOutput
    <3>6. watched' \subseteq Canvases
      BY <2>5 DEF StartOutput, UIDiscard, Unwatch
    <3>7. uiCanvas' \in Canvases \cup {None}
      BY <2>5 DEF StartOutput, UIDiscard
    <3>8. uiPc' \in UIPc
      BY <2>5 DEF StartOutput
    <3>9. QED
      BY <3>1, <3>2, <3>3, <3>4, <3>5, <3>6, <3>7, <3>8, <2>5 DEF StartOutput
  <2>6. CASE StartEncoders
    <3>1. hasError' \in BOOLEAN
      BY <2>6 DEF StartEncoders, FailHard
    <3>2. state' \in OutputState
      BY <2>6 DEF StartEncoders, FailHard
    <3>3. owned' \subseteq Encoders
      BY <2>6 DEF StartEncoders, CreateEncoders
    <3>4. encCanvas' \in [Encoders -> Canvases \cup {None}]
      BY <2>6 DEF StartEncoders, CreateEncoders
    <3>5. recovery' \in RecoveryState
      BY <2>6, SwitchOnType DEF StartEncoders
    <3>6. watched' \subseteq Canvases
      BY <2>6 DEF StartEncoders, UIDiscard, Unwatch, Watch
    <3>7. uiCanvas' \in Canvases \cup {None}
      BY <2>6 DEF StartEncoders, UIDiscard
    <3>8. uiPc' \in UIPc
      BY <2>6 DEF StartEncoders
    <3>9. uiEnc' \in Encoders \cup {None} /\ uiOutput' \in Outputs \cup {None}
      BY <2>6 DEF StartEncoders
    <3>10. QED
      BY <3>1, <3>2, <3>3, <3>4, <3>5, <3>6, <3>7, <3>8, <3>9, <2>6 DEF StartEncoders
  <2>7. CASE StartPublish
    BY <2>7 DEF StartPublish, Unwatch
  <2>8. CASE StartAttach
    <3>1. attached' \in [Outputs -> Encoders \cup {None}]
      BY <2>8 DEF StartAttach, Attach
    <3>2. QED
      BY <3>1, <2>8 DEF StartAttach
  <2>9. CASE StartOBS
    <3>1. phase' \in [Outputs -> Phase]
      <4>1. phase' = [phase EXCEPT ![uiOutput] = "connecting"] \/ phase' = phase
        BY <2>9 DEF StartOBS
      <4> QED BY <4>1 DEF Phase
    <3>2. QED
      BY <3>1, <2>9 DEF StartOBS
  <2>10. CASE StartFailed
    <3>1. hasError' \in BOOLEAN
      BY <2>10 DEF StartFailed, ReleaseEncoders
    <3>2. QED
      BY <3>1, <2>10, SwitchOnType DEF StartFailed, ReleaseEncoders
  <2>11. CASE StartRetry
    <3>1. hasError' \in BOOLEAN
      BY <2>11 DEF StartRetry, FailHard
    <3>2. state' \in OutputState
      BY <2>11 DEF StartRetry, FailHard
    <3>3. owned' \subseteq Encoders
      BY <2>11 DEF StartRetry, CreateEncoders
    <3>4. encCanvas' \in [Encoders -> Canvases \cup {None}]
      BY <2>11 DEF StartRetry, CreateEncoders
    <3>5. uiPc' \in UIPc
      BY <2>11 DEF StartRetry
    <3>6. uiEnc' \in Encoders \cup {None} /\ enc' \in Encoders \cup {None}
          /\ uiOutput' \in Outputs \cup {None}
      BY <2>11 DEF StartRetry
    <3>7. QED
      BY <3>1, <3>2, <3>3, <3>4, <3>5, <3>6, <2>11 DEF StartRetry
  <2>12. CASE StopCheck
    BY <2>12 DEF StopCheck, Unwatch
  <2>13. CASE StopDisconnect
    BY <2>13 DEF StopDisconnect, Disconnect
  <2>14. CASE StopDetach
    <3>1. Detached("session") \in Job
      BY <2>14 DEF StopDetach, Detached, Job
    <3>2. jobs' = jobs \/ jobs' = Append(jobs, Detached("session"))
      BY <2>14 DEF StopDetach
    <3>3. jobs' \in Seq(Job)
      BY <3>1, <3>2, AppendJob
    <3>4. watched' \subseteq Canvases
      BY <2>14 DEF StopDetach, Unwatch
    <3>5. QED
      BY <3>1, <3>3, <3>4, <2>14 DEF StopDetach, DetachSession
  <2>15. QED
    BY <1>2, <2>1, <2>2, <2>3, <2>4, <2>5, <2>6, <2>7, <2>8, <2>9, <2>10, <2>11, <2>12, <2>13,
       <2>14
       DEF UIContinues
<1>3. CASE SigStep
  <2> USE DEF SigPc, OutputState
  <2>1. CASE StopSignal
    <3>1. hasError' \in BOOLEAN
      BY <2>1 DEF StopSignal, FailHard, SigReturn, Code
    <3>2. QED
      BY <3>1, <2>1 DEF StopSignal, FailHard, SigReturn, Code
  <2>2. CASE StopLock
    BY <2>2, StopLockType DEF StopLock
  <2>3. CASE StopJoin
    <3>1. stopReconnect' \in BOOLEAN
      BY <2>3 DEF StopJoin, Join, RcPc
    <3>2. QED
      BY <3>1, <2>3 DEF StopJoin, Join, RcPc
  <2>4. CASE StopSpawn
    BY <2>4 DEF StopSpawn, SigReturn, RcPc, Code
  <2>5. QED
    BY <1>3, <2>1, <2>2, <2>3, <2>4 DEF SigStep
<1>4. CASE ReaperStep
  <2> USE DEF ReaperPc, OutputState
  <2>1. CASE RpTake
    <3>1. rpJob' \in Job /\ jobs' \in Seq(Job)
      BY <2>1 DEF RpTake
    <3>2. QED
      BY <3>1, <2>1 DEF RpTake
  <2>2. CASE RpShutdown
    <3>1. shutdownDone' \in BOOLEAN
      BY <2>2 DEF RpShutdown, NoJob, Job
    <3>2. stopReconnect' \in BOOLEAN
      BY <2>2 DEF RpShutdown, NoJob, Job
    <3>3. QED
      BY <3>1, <3>2, <2>2 DEF RpShutdown, NoJob, Job
  <2>3. CASE RpCanvas
    <3>1. rpJob' \in Job
      BY <2>3 DEF RpCanvas, Job
    <3>2. watched' \subseteq Canvases
      BY <2>3 DEF RpCanvas, Unwatch
    <3>3. QED
      BY <3>1, <3>2, <2>3 DEF RpCanvas
  <2>4. CASE RpDisconnect
    BY <2>4 DEF RpDisconnect, Disconnect
  <2>5. CASE RpDetach
    BY <2>5 DEF RpDetach, Job, Unwatch, Detached, DetachSession
  <2>6. CASE RpJoin
    <3>1. rpJob' \in Job
      BY <2>6 DEF RpJoin, Job
    <3>2. rcPc' \in [Threads -> RcPc]
      BY <2>6 DEF RpJoin, Join, RcPc
    <3>3. rcOutput' \in [Threads -> Outputs \cup {None}]
      BY <2>6 DEF RpJoin, Join
    <3>4. QED
      BY <3>1, <3>2, <3>3, <2>6 DEF RpJoin, Join
  <2>7. CASE RpForceStop
    <3>1. rpJob' \in Job
      BY <2>7 DEF RpForceStop, ReleaseJobEncoders, Job
    <3>2. owned' \subseteq Encoders
      BY <2>7 DEF RpForceStop, ReleaseJobEncoders
    <3>3. phase' \in [Outputs -> Phase]
      BY <2>7 DEF RpForceStop, ForceStop, Phase
    <3>4. QED
      BY <3>1, <3>2, <3>3, <2>7 DEF RpForceStop
  <2>8. CASE RpRelease
    BY <2>8 DEF RpRelease, NoJob, Job, Phase
  <2>9. QED
    BY <1>4, <2>1, <2>2, <2>3, <2>4, <2>5, <2>6, <2>7, <2>8 DEF ReaperStep
<1>5. ASSUME NEW t \in Threads, RcStep(t) PROVE TypeOK'
  <2> USE DEF Goto, At, RcPc, OutputState
  <2>1. CASE RcEnter(t)
    BY <2>1 DEF RcEnter
  <2>2. CASE RcLoop(t)
    BY <2>2 DEF RcLoop, Looks
  <2>3. CASE RcExhausted(t)
    <3>1. hasError' \in BOOLEAN
      BY <2>3 DEF RcExhausted, GiveUp, FailHard
    <3>2. QED
      BY <3>1, <2>3 DEF RcExhausted, GiveUp, FailHard
  <2>4. CASE RcRefused(t)
    <3>1. hasError' \in BOOLEAN
      BY <2>4 DEF RcRefused, GiveUp, FailHard
    <3>2. QED
      BY <3>1, <2>4 DEF RcRefused, GiveUp, FailHard
  <2>5. CASE RcGone(t)
    <3>1. hasError' \in BOOLEAN
      BY <2>5 DEF RcGone, GiveUp, FailHard
    <3>2. QED
      BY <3>1, <2>5 DEF RcGone, GiveUp, FailHard
  <2>6. CASE RcWait(t)
    BY <2>6 DEF RcWait
  <2>7. CASE RcCount(t)
    BY <2>7 DEF RcCount
  <2>8. CASE RcRelease(t)
    <3>1. owned' \subseteq Encoders
      BY <2>8 DEF RcRelease, ReleaseEncoders
    <3>2. enc' \in Encoders \cup {None}
      BY <2>8 DEF RcRelease, ReleaseEncoders
    <3>3. rcPc' \in [Threads -> RcPc]
      BY <2>8 DEF RcRelease, Goto, RcPc
    <3>4. QED
      BY <3>1, <3>2, <3>3, <2>8 DEF RcRelease
  <2>9. CASE RcInactive(t)
    BY <2>9 DEF RcInactive, Looks
  <2>10. CASE RcGuard1(t)
    BY <2>10 DEF RcGuard1, Looks
  <2>11. CASE RcCreate(t)
    <3>1. owned' \subseteq Encoders
      BY <2>11 DEF RcCreate, CreateEncoders
    <3>2. encCanvas' \in [Encoders -> Canvases \cup {None}]
      BY <2>11 DEF RcCreate, CreateEncoders, Resolvable
    <3>3. rcEnc' \in [Threads -> Encoders \cup {None}]
      BY <2>11 DEF RcCreate
    <3>4. rcCanvas' \in [Threads -> Canvases \cup {None}]
      BY <2>11 DEF RcCreate, Resolvable
    <3>5. rcThen' \in [Threads -> {"done", "rc_gone", "rc_encfail"}]
      BY <2>11 DEF RcCreate
    <3>6. rcPc' \in [Threads -> RcPc]
      <4>1. {"rc_refused", "rc_connect", "rc_discard"} \subseteq RcPc
        BY DEF RcPc
      <4>2. QED
        BY <2>11, <4>1, GotoType DEF RcCreate
    <3>7. QED
      BY <3>1, <3>2, <3>3, <3>4, <3>5, <3>6, <2>11 DEF RcCreate
  <2>12. CASE RcDiscard(t)
    <3>1. rcCanvas' \in [Threads -> Canvases \cup {None}]
      BY <2>12 DEF RcDiscard
    <3>2. rcThen' \in [Threads -> {"done", "rc_gone", "rc_encfail"}]
      BY <2>12 DEF RcDiscard
    <3>3. rcPc' \in [Threads -> RcPc]
      BY <2>12 DEF RcDiscard, Goto, RcPc
    <3>4. QED
      BY <3>1, <3>2, <3>3, <2>12 DEF RcDiscard
  <2>13. CASE RcUnwatch(t)
    BY <2>13 DEF RcUnwatch, Unwatch
  <2>14. CASE RcEncFail(t)
    BY <2>14, RestartFailureType DEF RcEncFail
  <2>15. CASE RcConnect(t)
    BY <2>15 DEF RcConnect, Watch
  <2>16. CASE RcRemoved(t)
    <3>1. owned' \subseteq Encoders
      BY <2>16 DEF RcRemoved, Withdraw
    <3>2. rcEnc' \in [Threads -> Encoders \cup {None}]
      BY <2>16 DEF RcRemoved, Withdraw
    <3>3. rcThen' \in [Threads -> {"done", "rc_gone", "rc_encfail"}]
      BY <2>16 DEF RcRemoved, Withdraw
    <3>4. rcPc' \in [Threads -> RcPc]
      <4>1. {"rc_discard", "rc_guard2"} \subseteq RcPc
        BY DEF RcPc
      <4>2. QED
        BY <2>16, <4>1, GotoType DEF RcRemoved, Withdraw
    <3>5. QED
      BY <3>1, <3>2, <3>3, <3>4, <2>16 DEF RcRemoved
  <2>17. CASE RcGuard2(t)
    <3>1. owned' \subseteq Encoders
      BY <2>17 DEF RcGuard2, Withdraw
    <3>2. rcEnc' \in [Threads -> Encoders \cup {None}]
      BY <2>17 DEF RcGuard2, Withdraw
    <3>3. rcThen' \in [Threads -> {"done", "rc_gone", "rc_encfail"}]
      BY <2>17 DEF RcGuard2, Withdraw
    <3>4. rcCanvas' \in [Threads -> Canvases \cup {None}]
      BY <2>17 DEF RcGuard2
    <3>5. enc' \in Encoders \cup {None} /\ canvas' \in Canvases \cup {None}
      BY <2>17 DEF RcGuard2
    <3>6. rcPc' \in [Threads -> RcPc]
      BY <2>17 DEF RcGuard2, Withdraw, Goto, RcPc
    <3>7. QED
      BY <3>1, <3>2, <3>3, <3>4, <3>5, <3>6, <2>17 DEF RcGuard2
  <2>18. CASE RcAttach(t)
    <3>1. rcCanvas' \in [Threads -> Canvases \cup {None}]
      BY <2>18 DEF RcAttach
    <3>2. attached' \in [Outputs -> Encoders \cup {None}]
      BY <2>18 DEF RcAttach, Attach
    <3>3. watched' \subseteq Canvases
      BY <2>18 DEF RcAttach, Unwatch
    <3>4. rcPc' \in [Threads -> RcPc]
      BY <2>18 DEF RcAttach, Goto, RcPc
    <3>5. QED
      BY <3>1, <3>2, <3>3, <3>4, <2>18 DEF RcAttach
  <2>19. CASE RcStart(t)
    <3>1. phase' \in [Outputs -> Phase]
      <4>1. phase' = phase \/ phase' = [phase EXCEPT ![rcOutput[t]] = "connecting"]
        BY <2>19 DEF RcStart
      <4>2. QED
        BY <4>1 DEF Phase
    <3>2. rcEnc' \in [Threads -> Encoders \cup {None}]
      BY <2>19 DEF RcStart
    <3>3. rcPc' \in [Threads -> RcPc]
      BY <2>19 DEF RcStart, Goto, RcPc
    <3>4. QED
      BY <3>1, <3>2, <3>3, <2>19 DEF RcStart
  <2>20. CASE RcFailed(t)
    <3>1. recovery' \in RecoveryState /\ hasError' \in BOOLEAN
      BY <2>20, RestartFailureType DEF RcFailed
    <3>2. rcPc' \in [Threads -> RcPc]
      BY <2>20 DEF RcFailed, Goto, RcPc
    <3>3. QED
      BY <3>1, <3>2, <2>20 DEF RcFailed
  <2>21. QED
    BY <1>5, <2>1, <2>2, <2>3, <2>4, <2>5, <2>6, <2>7, <2>8, <2>9, <2>10, <2>11, <2>12, <2>13,
       <2>14, <2>15, <2>16, <2>17, <2>18, <2>19, <2>20
       DEF RcStep
<1>6. ASSUME NEW o \in Outputs, OutputConnected(o) PROVE TypeOK'
  BY <1>6 DEF OutputConnected, Phase, OutputState
<1>7. ASSUME NEW o \in Outputs, ConnectFailed(o) PROVE TypeOK'
  BY <1>7, ConstantsAssumption DEF ConnectFailed, OutputStops, Phase, SigPc
<1>8. ASSUME NEW o \in Outputs, ConnectionLost(o) PROVE TypeOK'
  BY <1>8, ConstantsAssumption DEF ConnectionLost, OutputStops, Phase, SigPc
<1>9. ASSUME NEW o \in Outputs, ActiveClears(o) PROVE TypeOK'
  BY <1>9 DEF ActiveClears, Phase
<1>10. CASE UNCHANGED vars
  BY <1>10
<1>11. QED
  BY <1>1, <1>2, <1>3, <1>4, <1>5, <1>6, <1>7, <1>8, <1>9, <1>10 DEF Next, OutputProgress

(* Every variable keeps its type whatever the threads, the output and the
   reaper do. *)
THEOREM TypeCorrect == Spec => []TypeOK
<1>1. QED
  BY InitTypeOK, NextTypeOK, PTL DEF Spec

-----------------------------------------------------------------------------
(* OneHandlePerThread alone is not inductive: a step that moves a handle
   overwrites the place it moves it to, so the invariant also says when each of
   these places is empty. *)

(* The part of OneHandlePerThread that is about threads and their handles. *)
Joined ==
    /\ \A p, q \in Places : HandleAt(p) # None /\ HandleAt(p) = HandleAt(q) => p = q
    /\ \A p \in Places : HandleAt(p) # None => rcPc[HandleAt(p)] # "free"
    /\ \A t \in Threads : rcPc[t] # "free" => \E p \in Places : HandleAt(p) = t

(* The inductive invariant. *)
HandleInv ==
    /\ Joined
    /\ sigPc \in {"hs_join", "hs_spawn"} => reconnectThread = None
    /\ uiThread # None => uiPc = "so_join"
    /\ sigThread # None => sigPc = "hs_join"
    /\ rpJob.thread # None => rpPc = "join"
    /\ \A i \in 1 .. Len(jobs) : jobs[i].kind = "shutdown" => jobs[i].thread = None

-----------------------------------------------------------------------------
(* What the steps do to the handles. *)

LEMMA HandleType == ASSUME TypeOK PROVE \A p \in Places : HandleAt(p) \in Threads \cup {None}
<1>1. jobs \in Seq(Job)
  BY DEF TypeOK
<1>2. \A i \in 1 .. Len(jobs) : jobs[i].thread \in Threads \cup {None}
  <2>1. \A i \in 1 .. Len(jobs) : jobs[i] \in Job
    BY <1>1
  <2>2. QED
    BY <2>1 DEF Job
<1>3. Len(jobs) \in Nat
  BY <1>1
<1>4. {reconnectThread, uiThread, sigThread, rpJob.thread} \subseteq Threads \cup {None}
  BY DEF TypeOK, Job
<1>5. QED
  BY <1>2, <1>3, <1>4 DEF Places, HandleAt

LEMMA AppendLast ==
    ASSUME NEW s \in Seq(Job), NEW j \in Job
    PROVE  /\ Len(s) \in Nat /\ Len(Append(s, j)) = Len(s) + 1
           /\ Append(s, j)[Len(s) + 1] = j
OBVIOUS

(* No thread is started or joined. *)
SameFree == \A t \in Threads : rcPc'[t] = "free" <=> rcPc[t] = "free"

(* A thread takes the handle out of m_reconnect_thread into its own local. *)
LEMMA HandleTaken ==
    ASSUME TypeOK, Joined, SameFree, NEW k \in {2, 3, 4}, Places' = Places, HandleAt(k) = None,
           HandleAt(k)' = HandleAt(1), HandleAt(1)' = None,
           \A p \in Places \ {1, k} : HandleAt(p)' = HandleAt(p)
    PROVE  Joined'
<1>1. 1 \in Places /\ k \in Places
  BY DEF Places, TypeOK
<1>2. \A p, q \in Places : HandleAt(p)' # None /\ HandleAt(p)' = HandleAt(q)' => p = q
  BY <1>1 DEF Joined
<1>3. \A p \in Places : HandleAt(p)' # None => rcPc'[HandleAt(p)'] # "free"
  BY <1>1, HandleType DEF Joined, SameFree
<1>4. \A t \in Threads : rcPc'[t] # "free" => \E p \in Places : HandleAt(p)' = t
  BY <1>1, ConstantsAssumption DEF Joined, SameFree
<1>5. QED
  BY <1>2, <1>3, <1>4 DEF Joined

(* A job is queued, with the handle of m_reconnect_thread or with none. *)
LEMMA HandleQueued ==
    ASSUME TypeOK, Joined, SameFree, NEW last \in Nat, last = 5 + Len(jobs),
          Places' = Places \cup {last},
           HandleAt(last)' \in {None, HandleAt(1)},
           HandleAt(1)' = IF HandleAt(last)' = None THEN HandleAt(1) ELSE None,
           \A p \in Places \ {1} : HandleAt(p)' = HandleAt(p)
    PROVE  Joined'
<1>1. 1 \in Places /\ last \notin Places /\ 1 # last
  BY DEF Places, TypeOK
<1>2. \A p, q \in Places' : HandleAt(p)' # None /\ HandleAt(p)' = HandleAt(q)' => p = q
  BY <1>1 DEF Joined
<1>3. \A p \in Places' : HandleAt(p)' # None => rcPc'[HandleAt(p)'] # "free"
  BY <1>1, HandleType DEF Joined, SameFree
<1>4. \A t \in Threads : rcPc'[t] # "free" => \E p \in Places' : HandleAt(p)' = t
  BY <1>1, ConstantsAssumption DEF Joined, SameFree
<1>5. QED
  BY <1>2, <1>3, <1>4 DEF Joined

(* The reaper takes the first job: its handle moves, the others follow. *)
LEMMA HandleDequeued ==
    ASSUME TypeOK, Joined, SameFree, Len(jobs) > 0, HandleAt(4) = None,
           Places' = 1 .. 3 + Len(jobs),
           \A p \in 1 .. 3 : HandleAt(p)' = HandleAt(p),
           \A p \in 4 .. 3 + Len(jobs) : HandleAt(p)' = HandleAt(p + 1)
    PROVE  Joined'
<1> DEFINE before(p) == IF p < 4 THEN p ELSE p + 1
<1>1. Len(jobs) \in Nat
  BY DEF TypeOK
<1>2. \A p \in Places' : before(p) \in Places /\ HandleAt(p)' = HandleAt(before(p))
  BY <1>1 DEF Places
<1>3. \A p, q \in Places' : before(p) = before(q) => p = q
  BY <1>1
<1>4. ASSUME NEW q \in Places, q # 4 PROVE \E p \in Places' : q = before(p)
  <2>1. CASE q < 4
    BY <1>1, <2>1 DEF Places
  <2>2. CASE q > 4
    <3>1. q - 1 \in Places' /\ q = before(q - 1)
      BY <1>1, <2>2 DEF Places
    <3>2. QED
      BY <3>1
  <2>3. QED
    BY <1>1, <1>4, <2>1, <2>2 DEF Places
<1> HIDE DEF before
<1>5. \A p, q \in Places' : HandleAt(p)' # None /\ HandleAt(p)' = HandleAt(q)' => p = q
  BY <1>2, <1>3 DEF Joined
<1>6. \A p \in Places' : HandleAt(p)' # None => rcPc'[HandleAt(p)'] # "free"
  BY <1>2, HandleType DEF Joined, SameFree
<1>7. \A t \in Threads : rcPc'[t] # "free" => \E p \in Places' : HandleAt(p)' = t
  BY <1>2, <1>4, ConstantsAssumption DEF Joined, SameFree
<1>8. QED
  BY <1>5, <1>6, <1>7 DEF Joined

(* A free thread is started into the empty m_reconnect_thread. *)
LEMMA HandleSpawned ==
    ASSUME TypeOK, Joined, NEW t \in Threads, rcPc[t] = "free", HandleAt(1) = None,
           Places' = Places, HandleAt(1)' = t,
           \A p \in Places \ {1} : HandleAt(p)' = HandleAt(p),
           rcPc'[t] # "free", \A u \in Threads \ {t} : rcPc'[u] = rcPc[u]
    PROVE  Joined'
<1>1. 1 \in Places
  BY DEF Places, TypeOK
<1>2. \A p \in Places : HandleAt(p) # t
  BY ConstantsAssumption DEF Joined
<1>3. \A p, q \in Places : HandleAt(p)' # None /\ HandleAt(p)' = HandleAt(q)' => p = q
  BY <1>1, <1>2 DEF Joined
<1>4. \A p \in Places : HandleAt(p)' # None => rcPc'[HandleAt(p)'] # "free"
  BY <1>1, <1>2, HandleType DEF Joined
<1>5. \A u \in Threads : rcPc'[u] # "free" => \E p \in Places : HandleAt(p)' = u
  BY <1>1, ConstantsAssumption DEF Joined
<1>6. QED
  BY <1>3, <1>4, <1>5 DEF Joined

(* A step that moves no handle. *)
LEMMA HandlesStay ==
    ASSUME TypeOK, Joined, SameFree, UNCHANGED <<reconnectThread, uiThread, sigThread, jobs>>,
           rpJob'.thread = rpJob.thread
    PROVE  Joined'
<1>1. Places' = Places /\ \A p \in Places : HandleAt(p)' = HandleAt(p)
  BY DEF Places, HandleAt
<1>2. QED
  BY <1>1, HandleType, ConstantsAssumption DEF Joined, SameFree

(* The thread whose handle is at p has ended and is joined. *)
LEMMA HandleJoined ==
    ASSUME TypeOK, Joined, NEW p \in {2, 3, 4}, Join(HandleAt(p)), Places' = Places,
           HandleAt(p)' = None, \A q \in Places \ {p} : HandleAt(q)' = HandleAt(q)
    PROVE  Joined'
<1>1. p \in Places
  BY DEF Places, TypeOK
<1>2. \A t \in Threads : rcPc'[t] = IF t = HandleAt(p) THEN "free" ELSE rcPc[t]
  BY DEF Join
<1>3. \A q, r \in Places : HandleAt(q)' # None /\ HandleAt(q)' = HandleAt(r)' => q = r
  BY DEF Joined
<1>4. ASSUME NEW q \in Places, HandleAt(q)' # None PROVE rcPc'[HandleAt(q)'] # "free"
  <2>1. q # p /\ HandleAt(q)' = HandleAt(q)
    BY <1>4
  <2>2. HandleAt(q) \in Threads /\ HandleAt(q) # HandleAt(p) /\ rcPc[HandleAt(q)] # "free"
    BY <1>1, <1>4, <2>1, HandleType DEF Joined
  <2>3. QED
    BY <1>2, <2>1, <2>2
<1>5. \A t \in Threads : rcPc'[t] # "free" => \E q \in Places : HandleAt(q)' = t
  BY <1>1, <1>2, ConstantsAssumption DEF Joined
<1>6. QED
  BY <1>3, <1>4, <1>5 DEF Joined

(* A step that moves no handle keeps the whole invariant. *)
LEMMA HandleFrame ==
    ASSUME TypeOK, HandleInv, SameFree, UNCHANGED <<reconnectThread, uiThread, sigThread, jobs>>,
           rpJob'.thread = rpJob.thread,
           sigPc' \in {"hs_join", "hs_spawn"} => sigPc' = sigPc,
           uiThread # None => uiPc' = uiPc,
           sigThread # None => sigPc' = sigPc,
           rpJob.thread # None => rpPc' = rpPc
    PROVE  HandleInv'
<1>1. Joined'
  BY HandlesStay DEF HandleInv
<1>2. QED
  BY <1>1 DEF HandleInv

(* One step per action; only the nine that move a handle need more than HandleFrame. *)
LEMMA NextHandleInv == TypeOK /\ TypeOK' /\ HandleInv /\ [Next]_vars => HandleInv'
<1> SUFFICES ASSUME TypeOK, TypeOK', HandleInv, [Next]_vars PROVE HandleInv'
  OBVIOUS
<1>1. CASE UIBegins
  <2>1. CASE Start
    BY <2>1, HandleFrame DEF Start, UICall, HandleInv, SameFree
  <2>2. CASE Stop
    BY <2>2, HandleFrame DEF Stop, UICall, HandleInv, SameFree
  <2>3. CASE RemoveCanvas
    BY <2>3, HandleFrame DEF RemoveCanvas, HandleInv, SameFree
  <2>4. CASE Drop
    <3>1. Len(jobs) \in Nat /\ Len(jobs') = Len(jobs) + 1 /\ jobs'[Len(jobs) + 1] = ShutdownJob
      BY <2>4 DEF Drop, TypeOK
    <3>2. \A i \in 1 .. Len(jobs) : jobs'[i] = jobs[i]
      BY <2>4 DEF Drop, TypeOK
    <3> PICK last \in Nat : last = 5 + Len(jobs)
      BY <3>1
    <3>3. Places' = Places \cup {last} /\ HandleAt(last)' = None
      <4>1. Places' = Places \cup {last}
        BY <3>1 DEF Places
      <4>2. HandleAt(last)' = ShutdownJob.thread
        BY <3>1 DEF HandleAt
      <4>3. QED
        BY <4>1, <4>2 DEF ShutdownJob, NoJob
    <3>4. \A p \in Places : HandleAt(p)' = HandleAt(p)
      BY <2>4, <3>1, <3>2 DEF Drop, HandleAt, Places
    <3>5. SameFree /\ 1 \in Places
      BY <2>4, <3>1 DEF Drop, SameFree, Places
    <3>6. Joined'
      BY <3>3, <3>4, <3>5, HandleQueued DEF HandleInv
    <3>7. \A i \in 1 .. Len(jobs') : jobs'[i].kind = "shutdown" => jobs'[i].thread = None
      BY <3>1, <3>2 DEF HandleInv, ShutdownJob, NoJob
    <3>8. QED
      BY <2>4, <3>6, <3>7 DEF Drop, HandleInv
  <2>5. QED
    BY <1>1, <2>1, <2>2, <2>3, <2>4 DEF UIBegins
<1>2. CASE UIContinues
  <2>1. CASE StartFlag
    BY <2>1, HandleFrame DEF StartFlag, HandleInv, SameFree
  <2>2. CASE StartSteal
    <3>1. uiThread = None /\ Places' = Places
      BY <2>2 DEF StartSteal, HandleInv, Places
    <3>2. HandleAt(2) = None /\ HandleAt(2)' = HandleAt(1) /\ HandleAt(1)' = None
      BY <2>2, <3>1 DEF StartSteal, HandleAt
    <3>3. \A p \in Places \ {1, 2} : HandleAt(p)' = HandleAt(p)
      BY <2>2 DEF StartSteal, HandleAt, Places
    <3>4. SameFree
      BY <2>2 DEF StartSteal, SameFree
    <3>5. Joined'
      BY <3>1, <3>2, <3>3, <3>4, HandleTaken DEF HandleInv
    <3>6. QED
      BY <2>2, <3>5 DEF StartSteal, HandleInv
  <2>3. CASE StartJoin
    <3>1. HandleAt(2) = uiThread /\ HandleAt(2)' = None /\ Places' = Places
      BY <2>3 DEF StartJoin, HandleAt, Places
    <3>2. \A q \in Places \ {2} : HandleAt(q)' = HandleAt(q)
      BY <2>3 DEF StartJoin, HandleAt, Places
    <3>3. Joined'
      BY <2>3, <3>1, <3>2, HandleJoined DEF StartJoin, HandleInv
    <3>4. QED
      BY <2>3, <3>3 DEF StartJoin, HandleInv
  <2>4. CASE StartResolve
    BY <2>4, HandleFrame DEF StartResolve, HandleInv, SameFree
  <2>5. CASE StartOutput
    BY <2>5, HandleFrame DEF StartOutput, HandleInv, SameFree
  <2>6. CASE StartEncoders
    BY <2>6, HandleFrame DEF StartEncoders, HandleInv, SameFree
  <2>7. CASE StartPublish
    BY <2>7, HandleFrame DEF StartPublish, HandleInv, SameFree
  <2>8. CASE StartAttach
    BY <2>8, HandleFrame DEF StartAttach, HandleInv, SameFree
  <2>9. CASE StartOBS
    BY <2>9, HandleFrame DEF StartOBS, HandleInv, SameFree
  <2>10. CASE StartFailed
    BY <2>10, HandleFrame DEF StartFailed, HandleInv, SameFree
  <2>11. CASE StartRetry
    BY <2>11, HandleFrame DEF StartRetry, HandleInv, SameFree
  <2>12. CASE StopCheck
    BY <2>12, HandleFrame DEF StopCheck, HandleInv, SameFree
  <2>13. CASE StopDisconnect
    BY <2>13, HandleFrame DEF StopDisconnect, HandleInv, SameFree
  <2>14. CASE StopDetach
    <3>1. CASE jobs' = jobs /\ UNCHANGED sessionVars
      BY <2>14, <3>1, HandleFrame DEF StopDetach, HandleInv, SameFree
    <3>2. CASE jobs' = Append(jobs, Detached("session")) /\ DetachSession
      <4>1. Len(jobs) \in Nat /\ Len(jobs') = Len(jobs) + 1
              /\ jobs'[Len(jobs) + 1] = Detached("session")
        <5>1. Detached("session") \in Job
          BY DEF Detached, Job, TypeOK
        <5>2. jobs \in Seq(Job)
          BY DEF TypeOK
        <5>3. QED
          BY <3>2, <5>1, <5>2, AppendLast
      <4>2. \A i \in 1 .. Len(jobs) : jobs'[i] = jobs[i]
        BY <3>2 DEF TypeOK
      <4> PICK last \in Nat : last = 5 + Len(jobs)
        BY <4>1
      <4>3. Places' = Places \cup {last}
        BY <4>1 DEF Places
      <4>4. HandleAt(last)' = HandleAt(1) /\ HandleAt(1)' = None
        <5>1. HandleAt(last)' = Detached("session").thread
          BY <4>1 DEF HandleAt
        <5>2. QED
          BY <3>2, <5>1 DEF HandleAt, Detached, DetachSession
      <4>5. \A p \in Places \ {1} : HandleAt(p)' = HandleAt(p)
        BY <2>14, <4>1, <4>2 DEF StopDetach, HandleAt, Places
      <4>6. SameFree
        BY <2>14 DEF StopDetach, SameFree
      <4>7. Joined'
        BY <4>3, <4>4, <4>5, <4>6, HandleQueued DEF HandleInv
      <4>8. \A i \in 1 .. Len(jobs') : jobs'[i].kind = "shutdown" => jobs'[i].thread = None
        BY <4>1, <4>2 DEF HandleInv, Detached
      <4>9. QED
        BY <2>14, <3>2, <4>7, <4>8 DEF StopDetach, HandleInv, DetachSession
    <3>3. QED
      BY <2>14, <3>1, <3>2 DEF StopDetach
  <2>15. QED
    BY <1>2, <2>1, <2>2, <2>3, <2>4, <2>5, <2>6, <2>7, <2>8, <2>9, <2>10, <2>11, <2>12, <2>13,
       <2>14
       DEF UIContinues
<1>3. CASE SigStep
  <2>1. CASE StopSignal
    BY <2>1, HandleFrame DEF StopSignal, SigReturn, HandleInv, SameFree
  <2>2. CASE StopLock
    <3>1. sigThread = None /\ Places' = Places
      BY <2>2 DEF StopLock, HandleInv, Places
    <3>2. HandleAt(3) = None /\ HandleAt(3)' = HandleAt(1) /\ HandleAt(1)' = None
      BY <2>2, <3>1 DEF StopLock, HandleAt
    <3>3. \A p \in Places \ {1, 3} : HandleAt(p)' = HandleAt(p)
      BY <2>2 DEF StopLock, HandleAt, Places
    <3>4. SameFree
      BY <2>2 DEF StopLock, SameFree
    <3>5. Joined'
      BY <3>1, <3>2, <3>3, <3>4, HandleTaken DEF HandleInv
    <3>6. QED
      BY <2>2, <3>5 DEF StopLock, HandleInv
  <2>3. CASE StopJoin
    <3>1. HandleAt(3) = sigThread /\ HandleAt(3)' = None /\ Places' = Places
      BY <2>3 DEF StopJoin, HandleAt, Places
    <3>2. \A q \in Places \ {3} : HandleAt(q)' = HandleAt(q)
      BY <2>3 DEF StopJoin, HandleAt, Places
    <3>3. Joined'
      BY <2>3, <3>1, <3>2, HandleJoined DEF StopJoin, HandleInv
    <3>4. QED
      BY <2>3, <3>3 DEF StopJoin, HandleInv
  <2>4. CASE StopSpawn
    <3>1. CASE UNCHANGED <<reconnectThread, rcPc>>
      BY <2>4, <3>1, HandleFrame DEF StopSpawn, SigReturn, HandleInv, SameFree
    <3>2. ASSUME NEW t \in Threads, rcPc[t] = "free", reconnectThread' = t,
                 rcPc' = [rcPc EXCEPT ![t] = "rc_enter"]
          PROVE  HandleInv'
      <4>1. reconnectThread = None /\ Places' = Places
        BY <2>4 DEF StopSpawn, HandleInv, Places
      <4>2. HandleAt(1) = None /\ HandleAt(1)' = t
        BY <3>2, <4>1 DEF HandleAt
      <4>3. \A p \in Places \ {1} : HandleAt(p)' = HandleAt(p)
        BY <2>4 DEF StopSpawn, HandleAt, Places
      <4>4. rcPc'[t] # "free" /\ \A u \in Threads \ {t} : rcPc'[u] = rcPc[u]
        BY <3>2 DEF TypeOK
      <4>5. Joined'
        BY <3>2, <4>1, <4>2, <4>3, <4>4, HandleSpawned DEF HandleInv
      <4>6. QED
        BY <2>4, <4>5 DEF StopSpawn, SigReturn, HandleInv
    <3>3. QED
      BY <2>4, <3>1, <3>2 DEF StopSpawn
  <2>5. QED
    BY <1>3, <2>1, <2>2, <2>3, <2>4 DEF SigStep
<1>4. CASE ReaperStep
  <2>1. CASE RpTake
    <3>1. jobs \in Seq(Job) /\ Len(jobs) \in Nat /\ Len(jobs) > 0
      BY <2>1 DEF RpTake, TypeOK
    <3>2. Len(jobs') = Len(jobs) - 1 /\ \A i \in 1 .. Len(jobs) - 1 : jobs'[i] = jobs[i + 1]
      BY <2>1, <3>1 DEF RpTake
    <3>3. rpJob.thread = None /\ rpJob' = jobs[1]
      BY <2>1, <3>1 DEF RpTake, HandleInv
    <3>4. HandleAt(4) = None /\ Places' = 1 .. 3 + Len(jobs)
      BY <3>1, <3>2, <3>3 DEF HandleAt, Places
    <3>5. \A p \in 1 .. 3 : HandleAt(p)' = HandleAt(p)
      BY <2>1 DEF RpTake, HandleAt
    <3>6. \A p \in 4 .. 3 + Len(jobs) : HandleAt(p)' = HandleAt(p + 1)
      BY <3>1, <3>2, <3>3, SMTT(30) DEF HandleAt
    <3>7. SameFree
      BY <2>1 DEF RpTake, SameFree
    <3>8. Joined'
      BY <3>1, <3>4, <3>5, <3>6, <3>7, HandleDequeued DEF HandleInv
    <3>9. jobs[1] \in Job /\ rpJob'.thread # None => rpPc' = "join"
      BY <2>1, <3>1, <3>3 DEF RpTake, HandleInv, Job
    <3>10. QED
      BY <2>1, <3>1, <3>2, <3>8, <3>9 DEF RpTake, HandleInv
  <2>2. CASE RpShutdown
    BY <2>2, HandleFrame DEF RpShutdown, HandleInv, SameFree, NoJob, ReleaseJobEncoders
  <2>3. CASE RpCanvas
    BY <2>3, HandleFrame DEF RpCanvas, HandleInv, SameFree, NoJob, ReleaseJobEncoders
  <2>4. CASE RpDisconnect
    BY <2>4, HandleFrame DEF RpDisconnect, HandleInv, SameFree, NoJob, ReleaseJobEncoders
  <2>5. CASE RpDetach
    <3>1. rpJob.thread = None /\ Places' = Places
      BY <2>5 DEF RpDetach, HandleInv, Places
    <3>2. HandleAt(4) = None /\ HandleAt(4)' = HandleAt(1) /\ HandleAt(1)' = None
      BY <2>5, <3>1 DEF RpDetach, HandleAt, Detached, DetachSession
    <3>3. \A p \in Places \ {1, 4} : HandleAt(p)' = HandleAt(p)
      BY <2>5 DEF RpDetach, HandleAt, Places, Detached, DetachSession
    <3>4. SameFree
      BY <2>5 DEF RpDetach, SameFree
    <3>5. Joined'
      BY <3>1, <3>2, <3>3, <3>4, HandleTaken DEF HandleInv
    <3>6. QED
      BY <2>5, <3>5 DEF RpDetach, HandleInv, DetachSession
  <2>6. CASE RpJoin
    <3>1. HandleAt(4) = rpJob.thread /\ HandleAt(4)' = None /\ Places' = Places
      BY <2>6 DEF RpJoin, HandleAt, Places, TypeOK, Job
    <3>2. \A q \in Places \ {4} : HandleAt(q)' = HandleAt(q)
      BY <2>6 DEF RpJoin, HandleAt, Places
    <3>3. Joined'
      BY <2>6, <3>1, <3>2, HandleJoined DEF RpJoin, HandleInv
    <3>4. QED
      BY <2>6, <3>1, <3>3 DEF RpJoin, HandleInv, HandleAt
  <2>7. CASE RpForceStop
    BY <2>7, HandleFrame DEF RpForceStop, HandleInv, SameFree, NoJob, ReleaseJobEncoders
  <2>8. CASE RpRelease
    BY <2>8, HandleFrame DEF RpRelease, HandleInv, SameFree, NoJob, ReleaseJobEncoders
  <2>9. QED
    BY <1>4, <2>1, <2>2, <2>3, <2>4, <2>5, <2>6, <2>7, <2>8 DEF ReaperStep
<1>5. ASSUME NEW t \in Threads, RcStep(t) PROVE HandleInv'
  <2>1. CASE RcEnter(t)
    BY <2>1, HandleFrame DEF RcEnter, HandleInv, SameFree, At, Goto, TypeOK, RcPc
  <2>2. CASE RcLoop(t)
    BY <2>2, HandleFrame DEF RcLoop, HandleInv, SameFree, At, Goto, Looks, TypeOK, RcPc
  <2>3. CASE RcExhausted(t)
    BY <2>3, HandleFrame DEF RcExhausted, HandleInv, SameFree, At, Goto, GiveUp, TypeOK, RcPc
  <2>4. CASE RcRefused(t)
    BY <2>4, HandleFrame DEF RcRefused, HandleInv, SameFree, At, Goto, GiveUp, TypeOK, RcPc
  <2>5. CASE RcGone(t)
    BY <2>5, HandleFrame DEF RcGone, HandleInv, SameFree, At, Goto, GiveUp, TypeOK, RcPc
  <2>6. CASE RcWait(t)
    BY <2>6, HandleFrame DEF RcWait, HandleInv, SameFree, At, Goto, TypeOK, RcPc
  <2>7. CASE RcCount(t)
    BY <2>7, HandleFrame DEF RcCount, HandleInv, SameFree, At, Goto, TypeOK, RcPc
  <2>8. CASE RcRelease(t)
    BY <2>8, HandleFrame DEF RcRelease, HandleInv, SameFree, At, Goto, TypeOK, RcPc
  <2>9. CASE RcInactive(t)
    BY <2>9, HandleFrame DEF RcInactive, HandleInv, SameFree, At, Goto, Looks, TypeOK, RcPc
  <2>10. CASE RcGuard1(t)
    BY <2>10, HandleFrame DEF RcGuard1, HandleInv, SameFree, At, Goto, Looks, TypeOK, RcPc
  <2>11. CASE RcCreate(t)
    BY <2>11, HandleFrame DEF RcCreate, HandleInv, SameFree, At, Goto, TypeOK, RcPc
  <2>12. CASE RcDiscard(t)
    BY <2>12, HandleFrame DEF RcDiscard, HandleInv, SameFree, At, Goto, TypeOK, RcPc
  <2>13. CASE RcUnwatch(t)
    BY <2>13, HandleFrame DEF RcUnwatch, HandleInv, SameFree, At, Goto, TypeOK, RcPc
  <2>14. CASE RcEncFail(t)
    BY <2>14, HandleFrame DEF RcEncFail, HandleInv, SameFree, At, Goto, TypeOK, RcPc
  <2>15. CASE RcConnect(t)
    BY <2>15, HandleFrame DEF RcConnect, HandleInv, SameFree, At, Goto, TypeOK, RcPc
  <2>16. CASE RcRemoved(t)
    BY <2>16, HandleFrame DEF RcRemoved, HandleInv, SameFree, At, Goto, Withdraw, TypeOK, RcPc
  <2>17. CASE RcGuard2(t)
    BY <2>17, HandleFrame DEF RcGuard2, HandleInv, SameFree, At, Goto, Withdraw, TypeOK, RcPc
  <2>18. CASE RcAttach(t)
    BY <2>18, HandleFrame DEF RcAttach, HandleInv, SameFree, At, Goto, TypeOK, RcPc
  <2>19. CASE RcStart(t)
    BY <2>19, HandleFrame DEF RcStart, HandleInv, SameFree, At, Goto, TypeOK, RcPc
  <2>20. CASE RcFailed(t)
    BY <2>20, HandleFrame DEF RcFailed, HandleInv, SameFree, At, Goto, TypeOK, RcPc
  <2>21. QED
    BY <1>5, <2>1, <2>2, <2>3, <2>4, <2>5, <2>6, <2>7, <2>8, <2>9, <2>10, <2>11, <2>12, <2>13,
       <2>14, <2>15, <2>16, <2>17, <2>18, <2>19, <2>20
       DEF RcStep
<1>6. ASSUME NEW o \in Outputs, OutputConnected(o) PROVE HandleInv'
  BY <1>6, HandleFrame DEF OutputConnected, HandleInv, SameFree
<1>7. ASSUME NEW o \in Outputs, ConnectFailed(o) PROVE HandleInv'
  BY <1>7, HandleFrame DEF ConnectFailed, OutputStops, HandleInv, SameFree
<1>8. ASSUME NEW o \in Outputs, ConnectionLost(o) PROVE HandleInv'
  BY <1>8, HandleFrame DEF ConnectionLost, OutputStops, HandleInv, SameFree
<1>9. ASSUME NEW o \in Outputs, ActiveClears(o) PROVE HandleInv'
  BY <1>9, HandleFrame DEF ActiveClears, HandleInv, SameFree
<1>10. CASE UNCHANGED vars
  BY <1>10, HandleFrame DEF SameFree
<1>11. QED
  BY <1>1, <1>2, <1>3, <1>4, <1>5, <1>6, <1>7, <1>8, <1>9, <1>10 DEF Next, OutputProgress

-----------------------------------------------------------------------------
LEMMA InitHandleInv == Init => HandleInv
<1> SUFFICES ASSUME Init PROVE HandleInv
  OBVIOUS
<1>1. Len(jobs) = 0 /\ \A p \in Places : HandleAt(p) = None
  BY DEF Init, Places, HandleAt, NoJob
<1>2. Joined
  BY <1>1 DEF Joined, Init
<1>3. QED
  BY <1>1, <1>2 DEF HandleInv, Init, NoJob

(* The handle invariant holds in every state of the controller. *)
THEOREM HandleInvCorrect == Spec => []HandleInv
<1>1. Init => TypeOK /\ HandleInv
  BY InitTypeOK, InitHandleInv
<1>2. (TypeOK /\ HandleInv) /\ [Next]_vars => (TypeOK /\ HandleInv)'
  BY NextTypeOK, NextHandleInv
<1>3. QED
  BY <1>1, <1>2, PTL DEF Spec

(* Whatever start(), stop(), the stop handler, the reconnect threads and the
   reaper do and in whatever order: each reconnect thread that was started has
   exactly one owner who will join it, and none is started over a thread that is
   still joinable. *)
THEOREM HandlesCorrect == Spec => []OneHandlePerThread
<1>1. HandleInv => OneHandlePerThread
  BY DEF HandleInv, Joined, OneHandlePerThread
<1>2. QED
  BY <1>1, HandleInvCorrect, PTL

-----------------------------------------------------------------------------
(* Who owns what of a session, as long as the UI thread makes the ordinary calls: start()
   on a controller that is not Reconnecting, with no thread yet to begin and an idle output
   or none, stop(), canvas removals and the hand-over to the reaper.

   A session is a thread, an output and an encoder pair.  The controller has one, and
   every teardown job has the one it was detached from it with.  All else follows from
   this: a running reconnect thread belongs to one of these sessions, the outputs of two
   sessions differ, so that a thread finds the controller's output changed exactly when
   its session has gone to a job; and while the controller's own thread runs, nobody else
   starts its output or touches its encoders. *)

OrdinaryCalls == UICalls \subseteq {"start", "contested_start", "stop", "remove_canvas", "drop"}

(* The removal of a canvas can run stop() on a controller the reaper shuts down.  Whichever
   is first takes the session; the other goes on with the output it read before. *)
StopsMeet == {"remove_canvas", "drop"} \subseteq UICalls

(* start() is under way. *)
StartPcs == {"so_flag", "so_steal", "so_join", "so_resolve", "so_output", "so_encoders",
             "so_publish", "so_attach", "so_start", "so_failed", "so_retry"}
(* Its part that has the controller's output. *)
UsePcs == {"so_encoders", "so_publish", "so_attach", "so_start", "so_failed", "so_retry"}
ShutdownPcs == {"sd_flag", "sd_canvas", "sd_disconnect", "sd_detach"}

(* A reconnect thread that still does something. *)
Runs(t) == rcPc[t] \notin {"free", "done"}
MemberRuns == reconnectThread # None /\ Runs(reconnectThread)

(* The detached session the reaper tears down, once it has one. *)
TearsDown == rpPc \in {"join", "force_stop", "release"}
Torn == IF TearsDown THEN rpJob ELSE NoJob

-----------------------------------------------------------------------------
(* The inductive invariant. *)

(* What the calls and the jobs are at. *)
CallsFit ==
    /\ dropped => /\ "drop" \in UICalls
                  /\ uiPc \in {"idle", "st_check", "st_disconnect", "st_detach"}
                  /\ uiPc = "idle" \/ StopsMeet
    /\ rpPc \in ShutdownPcs => dropped /\ rpJob.enc = None
    /\ rpPc \in {"sd_disconnect", "sd_detach"} =>
          rpJob.output = output \/ (StopsMeet /\ output = None)
    /\ rpPc \in {"idle", "release"} => rpJob.enc = None
    /\ \A i \in DOMAIN jobs : jobs[i].kind = "shutdown" =>
          dropped /\ jobs[i].enc = None /\ jobs[i].output = None
    /\ uiPc \in {"st_disconnect", "st_detach"} =>
          uiOutput = output \/ (StopsMeet /\ output = None)
    /\ uiPc \in UsePcs => uiOutput = output /\ output # None
    /\ uiOutput # None => uiPc \in UsePcs \cup {"st_disconnect", "st_detach"}

(* Handlers are connected to the controller's output only, and the stop handler runs
   for it; it has returned when the output is detached. *)
Listening ==
    /\ connected \subseteq {output} \ {None}
    /\ IF sigPc = "idle" THEN sigOutput = None ELSE sigOutput \in connected
    /\ uiPc = "st_detach" \/ rpPc = "sd_detach" => connected = {}

(* The outputs of two sessions differ; what a session has exists. *)
OutputsApart ==
    /\ output # None => /\ phase[output] # "absent" /\ Torn.output # output
                        /\ \A i \in DOMAIN jobs : jobs[i].output # output
    /\ Torn.output # None => /\ phase[Torn.output] # "absent"
                             /\ \A i \in DOMAIN jobs : jobs[i].output # Torn.output
    /\ \A i \in DOMAIN jobs : jobs[i].output # None => phase[jobs[i].output] # "absent"
    /\ \A i, j \in DOMAIN jobs : jobs[i].output # None /\ jobs[i].output = jobs[j].output => i = j

(* A thread that runs is a session's, works on its output, and attaches and starts it
   with its encoders. *)
Fits(t, thread, out, pair) ==
    /\ thread = t
    /\ rcPc[t] # "rc_enter" => rcOutput[t] = out /\ out # None
    /\ rcPc[t] \in {"rc_attach", "rc_start"} => rcEnc[t] = pair /\ pair # None

HasSession(t) ==
    \/ Fits(t, reconnectThread, output, enc)
    \/ Fits(t, Torn.thread, Torn.output, Torn.enc)
    \/ \E i \in DOMAIN jobs : Fits(t, jobs[i].thread, jobs[i].output, jobs[i].enc)

ThreadsHeld ==
    \A t \in Threads : /\ Runs(t) => HasSession(t)
                       /\ rcPc[t] \in {"free", "rc_enter"} => rcOutput[t] = None

(* Who may act on the controller's session: its thread, or a start, or the output that
   connects or streams, or the stop handler, never two of them. *)
OnAir == output # None /\ phase[output] \in {"connecting", "active"}

Turns ==
    /\ MemberRuns => /\ state = "Reconnecting" /\ output # None
                     /\ uiPc \notin StartPcs /\ sigPc = "idle" /\ ~OnAir
    /\ \A t \in Threads : rcPc[t] = "rc_enter" =>
          uiPc \notin StartPcs /\ (t = reconnectThread \/ output = None)
    /\ uiPc \in StartPcs => /\ state = "Starting" /\ sigPc = "idle"
                            /\ output # None => phase[output] = "idle"
    /\ OnAir => state \in {"Live", "Starting", "Reconnecting"} /\ sigPc = "idle"
    /\ sigPc # "idle" => state \in {"Live", "Starting", "Reconnecting"}
    /\ sigPc \in {"hs_join", "hs_spawn"} => state = "Reconnecting"
    /\ uiThread # None => ~Runs(uiThread)
    /\ sigThread # None => ~Runs(sigThread)

(* An encoder pair that is owned has one owner; the others have none. *)
PairOfUI == IF uiPc = "so_publish" THEN uiEnc ELSE None
Carries(t) == IF rcPc[t] \in {"rc_connect", "rc_removed", "rc_guard2"} THEN rcEnc[t] ELSE None

PairsApart ==
    /\ enc # None => /\ enc \in owned /\ PairOfUI # enc /\ rpJob.enc # enc
                     /\ \A t \in Threads : Carries(t) # enc
                     /\ \A i \in DOMAIN jobs : jobs[i].enc # enc
    /\ PairOfUI # None => /\ PairOfUI \in owned /\ rpJob.enc # PairOfUI
                          /\ \A t \in Threads : Carries(t) # PairOfUI
                          /\ \A i \in DOMAIN jobs : jobs[i].enc # PairOfUI
    /\ rpJob.enc # None => /\ rpJob.enc \in owned
                           /\ \A t \in Threads : Carries(t) # rpJob.enc
                           /\ \A i \in DOMAIN jobs : jobs[i].enc # rpJob.enc
    /\ \A t \in Threads : Carries(t) # None =>
          /\ Carries(t) \in owned
          /\ \A u \in Threads : Carries(u) = Carries(t) => u = t
          /\ \A i \in DOMAIN jobs : jobs[i].enc # Carries(t)
    /\ \A i \in DOMAIN jobs : jobs[i].enc # None =>
          jobs[i].enc \in owned /\ \A j \in DOMAIN jobs : jobs[j].enc = jobs[i].enc => i = j

PairsHeld ==
    \A e \in owned : \/ enc = e \/ PairOfUI = e \/ rpJob.enc = e
                     \/ \E t \in Threads : Carries(t) = e
                     \/ \E i \in DOMAIN jobs : jobs[i].enc = e

(* When the controller publishes a pair, it has none. *)
WithoutPair == {"rc_inactive", "rc_guard1", "rc_create", "rc_connect", "rc_removed", "rc_guard2"}

Publishing ==
    /\ MemberRuns /\ rcPc[reconnectThread] \in WithoutPair => enc = None
    /\ uiPc = "so_retry" => enc = None
    /\ uiPc = "so_publish" => uiEnc # None
    /\ uiPc \in {"so_attach", "so_start", "so_failed"} => uiEnc = enc /\ enc # None
    /\ \A t \in Threads : rcPc[t] \in {"rc_connect", "rc_removed", "rc_guard2"} => rcEnc[t] # None

(* Encoders go to an output that is idle, and it starts with them. *)
IdlePcs == {"rc_guard1", "rc_create", "rc_connect", "rc_removed", "rc_guard2", "rc_attach",
      "rc_start"}

Attached ==
    /\ \A t \in Threads : rcPc[t] \in IdlePcs => phase[rcOutput[t]] = "idle"
    /\ \A t \in Threads : rcPc[t] = "rc_start" => attached[rcOutput[t]] = rcEnc[t]
    /\ uiPc = "so_start" => attached[output] = enc
    /\ OnAir => enc # None /\ attached[output] = enc

OwnInv ==
    /\ CallsFit /\ Listening /\ OutputsApart /\ ThreadsHeld /\ Turns
    /\ PairsApart /\ PairsHeld /\ Publishing /\ Attached

(* What holds before a step. *)
Before == TypeOK /\ HandleInv /\ OwnInv /\ OrdinaryCalls

-----------------------------------------------------------------------------
(* What the invariant says of a thread and its session. *)

USE DEF Before, OwnInv

(* The thread of the controller is in no job. *)
LEMMA InNoJob ==
    ASSUME TypeOK, HandleInv, reconnectThread # None
    PROVE  /\ Torn.thread # reconnectThread
           /\ \A i \in DOMAIN jobs : jobs[i].thread # reconnectThread
<1>1. 1 \in Places /\ HandleAt(1) = reconnectThread /\ 4 \in Places /\ HandleAt(4) = rpJob.thread
  BY DEF TypeOK, Places, HandleAt
<1>2. ASSUME NEW i \in DOMAIN jobs PROVE jobs[i].thread # reconnectThread
  <2>1. i \in 1 .. Len(jobs)
    BY DEF TypeOK
  <2>2. 4 + i \in Places /\ HandleAt(4 + i) = jobs[i].thread /\ 4 + i # 1
    BY <2>1 DEF Places, HandleAt, TypeOK
  <2>3. QED
    BY <1>1, <2>2 DEF HandleInv, Joined
<1>3. rpJob.thread # reconnectThread
  BY <1>1 DEF HandleInv, Joined
<1>4. QED
  BY <1>2, <1>3 DEF Torn, NoJob

LEMMA MemberFits ==
    ASSUME Before, MemberRuns
    PROVE  Fits(reconnectThread, reconnectThread, output, enc)
<1>1. reconnectThread \in Threads /\ HasSession(reconnectThread)
  BY DEF MemberRuns, ThreadsHeld, TypeOK
<1>2. QED
  BY <1>1, InNoJob DEF MemberRuns, HasSession, Fits

(* A thread that finds the controller's output unchanged is the controller's. *)
LEMMA Mine ==
    ASSUME Before, NEW t \in Threads, Runs(t), rcPc[t] # "rc_enter", ~Changed(t)
    PROVE  /\ reconnectThread = t /\ MemberRuns /\ output # None /\ rcOutput[t] = output
           /\ rcPc[t] \in {"rc_attach", "rc_start"} => rcEnc[t] = enc /\ enc # None
<1>1. HasSession(t) /\ rcOutput[t] = output
  BY DEF ThreadsHeld, Changed
<1>2. Fits(t, reconnectThread, output, enc)
  BY <1>1 DEF HasSession, Fits, OutputsApart
<1>3. t # None
  BY ConstantsAssumption
<1>4. QED
  BY <1>1, <1>2, <1>3 DEF Fits, MemberRuns

(* Two threads never work on the same output. *)
LEMMA Alone ==
    ASSUME Before, NEW t \in Threads, NEW u \in Threads, Runs(t), Runs(u),
           rcPc[t] # "rc_enter", rcPc[u] # "rc_enter", rcOutput[t] = rcOutput[u]
    PROVE  t = u
<1>1. HasSession(t) /\ HasSession(u)
  BY DEF ThreadsHeld
<1>2. CASE Fits(t, reconnectThread, output, enc)
  BY <1>1, <1>2 DEF HasSession, Fits, OutputsApart
<1>3. CASE Fits(t, Torn.thread, Torn.output, Torn.enc)
  BY <1>1, <1>3 DEF HasSession, Fits, OutputsApart
<1>4. CASE \E i \in DOMAIN jobs : Fits(t, jobs[i].thread, jobs[i].output, jobs[i].enc)
  BY <1>1, <1>4 DEF HasSession, Fits, OutputsApart
<1>5. QED
  BY <1>1, <1>2, <1>3, <1>4 DEF HasSession

(* Once a job has joined its thread, nobody works on its output. *)
LEMMA Gone ==
    ASSUME Before, rpPc \in {"force_stop", "release"}, NEW t \in Threads, Runs(t),
           rcPc[t] # "rc_enter"
    PROVE  rcOutput[t] # rpJob.output
<1>1. HasSession(t) /\ t # None
  BY ConstantsAssumption DEF ThreadsHeld
<1>2. Torn = rpJob /\ rpJob.thread = None
  BY DEF Torn, TearsDown, HandleInv
<1>3. QED
  BY <1>1, <1>2 DEF HasSession, Fits, OutputsApart

-----------------------------------------------------------------------------
(* What the steps do to the queue and to the counters of the threads. *)

LEMMA Appended ==
    ASSUME TypeOK, NEW j, jobs' = Append(jobs, j)
    PROVE  \E last : /\ last \notin DOMAIN jobs /\ DOMAIN jobs' = DOMAIN jobs \cup {last}
                     /\ jobs'[last] = j /\ \A i \in DOMAIN jobs : jobs'[i] = jobs[i]
<1>1. Len(jobs) \in Nat /\ DOMAIN jobs = 1 .. Len(jobs)
  BY DEF TypeOK
<1>2. DOMAIN jobs' = 1 .. Len(jobs) + 1 /\ jobs'[Len(jobs) + 1] = j
  BY <1>1
<1>3. \A i \in DOMAIN jobs : jobs'[i] = jobs[i]
  BY <1>1
<1>4. Len(jobs) + 1 \notin DOMAIN jobs /\ DOMAIN jobs' = DOMAIN jobs \cup {Len(jobs) + 1}
  BY <1>1, <1>2
<1>5. QED
  BY <1>2, <1>3, <1>4

LEMMA Taken ==
    ASSUME TypeOK, jobs # <<>>, jobs' = Tail(jobs)
    PROVE  /\ 1 \in DOMAIN jobs /\ Head(jobs) = jobs[1] /\ jobs[1] \in Job
           /\ \E old \in [DOMAIN jobs' -> DOMAIN jobs \ {1}] :
                 /\ \A i \in DOMAIN jobs' : jobs'[i] = jobs[old[i]]
                 /\ \A i, j \in DOMAIN jobs' : old[i] = old[j] => i = j
                 /\ \A j \in DOMAIN jobs \ {1} : \E i \in DOMAIN jobs' : old[i] = j
<1>1. Len(jobs) \in Nat \ {0} /\ DOMAIN jobs = 1 .. Len(jobs) /\ jobs \in Seq(Job)
  BY DEF TypeOK
<1>2. 1 \in DOMAIN jobs /\ Head(jobs) = jobs[1] /\ jobs[1] \in Job
  BY <1>1
<1>3. DOMAIN jobs' = 1 .. Len(jobs) - 1 /\ \A i \in DOMAIN jobs' : jobs'[i] = jobs[i + 1]
  BY <1>1
<1> DEFINE old == [i \in DOMAIN jobs' |-> i + 1]
<1>4. old \in [DOMAIN jobs' -> DOMAIN jobs \ {1}]
  BY <1>1, <1>3
<1>5. \A i, j \in DOMAIN jobs' : old[i] = old[j] => i = j
  BY <1>3
<1>6. \A j \in DOMAIN jobs \ {1} : j - 1 \in DOMAIN jobs' /\ old[j - 1] = j
  BY <1>1, <1>3
<1>7. \A i \in DOMAIN jobs' : jobs'[i] = jobs[old[i]]
  BY <1>3
<1> HIDE DEF old
<1>8. QED
  BY <1>2, <1>4, <1>5, <1>6, <1>7

LEMMA Going ==
    ASSUME TypeOK, NEW t \in Threads, NEW pc, Goto(t, pc)
    PROVE  rcPc'[t] = pc /\ \A u \in Threads : u # t => rcPc'[u] = rcPc[u]
BY DEF TypeOK, Goto

(* What does not touch the session of a thread. *)
Calm(u) ==
    /\ Runs(u)' => Runs(u) /\ rcOutput'[u] = rcOutput[u]
          /\ (rcPc'[u] # "rc_enter" => rcPc[u] # "rc_enter")
    /\ rcPc'[u] \in {"free", "rc_enter"} => rcOutput'[u] = None
    /\ rcPc'[u] \in {"rc_attach", "rc_start"} =>
          rcPc[u] \in {"rc_attach", "rc_start"} /\ rcEnc'[u] = rcEnc[u]

LEMMA HeldFrame ==
    ASSUME Before, UNCHANGED <<reconnectThread, output, enc, jobs>>, Torn' = Torn,
           \A u \in Threads : Calm(u)
    PROVE  ThreadsHeld'
<1> SUFFICES ASSUME NEW u \in Threads, Runs(u)' PROVE HasSession(u)'
  BY DEF Calm, ThreadsHeld
<1>1. HasSession(u) /\ Calm(u) /\ Runs(u)
  BY DEF Calm, ThreadsHeld
<1>2. QED
  BY <1>1 DEF HasSession, Fits, Calm


(* The output of a thread that works. *)
LEMMA WorksOn ==
    ASSUME Before, NEW t \in Threads, Runs(t), rcPc[t] # "rc_enter"
    PROVE  rcOutput[t] \in Outputs
<1>1. HasSession(t)
  BY DEF ThreadsHeld
<1>2. rcOutput[t] # None
  BY <1>1 DEF HasSession, Fits
<1>3. QED
  BY <1>2 DEF TypeOK

(* A join ends a thread that had done everything. *)
LEMMA Joins ==
    ASSUME Before, NEW h \in Threads \cup {None}, Join(h)
    PROVE  \A u \in Threads : Calm(u) /\ Carries(u)' = Carries(u)
<1> SUFFICES ASSUME NEW u \in Threads PROVE Calm(u) /\ Carries(u)' = Carries(u)
  OBVIOUS
<1>1. /\ rcPc'[u] = IF u = h THEN "free" ELSE rcPc[u]
      /\ rcOutput'[u] = IF u = h THEN None ELSE rcOutput[u]
      /\ rcEnc'[u] = rcEnc[u] /\ (u = h => rcPc[u] = "done")
  BY ConstantsAssumption DEF Join
<1>2. Calm(u)
  BY <1>1 DEF Calm, Runs, ThreadsHeld
<1>3. Carries(u)' = Carries(u)
  BY <1>1 DEF Carries
<1>4. QED
  BY <1>2, <1>3

LEMMA PairsFrame ==
    ASSUME Before, UNCHANGED <<enc, owned, jobs>>, rpJob'.enc = rpJob.enc, PairOfUI' = PairOfUI,
           \A u \in Threads : Carries(u)' = Carries(u)
    PROVE  PairsApart' /\ PairsHeld'
<1>1. PairsApart'
  BY DEF PairsApart
<1>2. PairsHeld'
  BY DEF PairsHeld
<1>3. QED
  BY <1>1, <1>2

LEMMA JobOutputs ==
    ASSUME TypeOK
    PROVE  \A i \in DOMAIN jobs : jobs[i] \in Job /\ jobs[i].output \in Outputs \cup {None}
<1>1. \A i \in DOMAIN jobs : jobs[i] \in Job
  BY DEF TypeOK
<1>2. QED
  BY <1>1 DEF Job

(* A step after which no thread does more than before, on the same session. *)
LEMMA TurnsFrame ==
    ASSUME Before, UNCHANGED <<state, output, reconnectThread, uiPc, uiThread, sigPc, sigThread>>,
           OnAir' = OnAir, output # None => phase'[output] = phase[output],
           \A u \in Threads : rcPc'[u] = "rc_enter" => rcPc[u] = "rc_enter",
           \A u \in Threads : Runs(u)' => Runs(u)
    PROVE  Turns' /\ (MemberRuns' => MemberRuns)
<1>1. MemberRuns' => MemberRuns
  BY DEF MemberRuns, TypeOK
<1>2. Turns'
  BY <1>1 DEF Turns, TypeOK
<1>3. QED
  BY <1>1, <1>2

-----------------------------------------------------------------------------
(* start(), stop(), a canvas removal and the hand-over to the reaper.  What a step does not
   disturb follows from its definition. *)

LEMMA StartOwn == ASSUME Before, Start PROVE OwnInv'
<1>1. CallsFit' /\ Listening' /\ OutputsApart' /\ ThreadsHeld' /\ PairsApart' /\ PairsHeld'
      /\ Publishing' /\ Attached'
  BY DEF Start, UICall, CallsFit, ShutdownPcs, UsePcs, Listening, OutputsApart, Torn, TearsDown,
     NoJob, ThreadsHeld, HasSession, Fits, Runs, PairsApart, PairOfUI, Carries, PairsHeld,
     Publishing, MemberRuns, WithoutPair, Attached, IdlePcs, OnAir
<1>2. Turns'
  <2>1. StartCall \in {"start", "contested_start"}
    BY DEF Start, UICall, OrdinaryCalls, StartCall
  <2>2. /\ state # "Reconnecting" /\ \A t \in Threads : rcPc[t] # "rc_enter"
        /\ output # None => phase[output] = "idle"
    BY <2>1 DEF StartCall
  <2>3. QED
    BY <2>2 DEF Start, Turns, MemberRuns, Runs, StartPcs, OnAir
<1>3. QED
  BY <1>1, <1>2

LEMMA StopOwn == ASSUME Before, Stop PROVE OwnInv'
BY DEF Stop, UICall, CallsFit, ShutdownPcs, UsePcs, Listening, OutputsApart, Torn, TearsDown, NoJob,
   ThreadsHeld, HasSession, Fits, Runs, Turns, MemberRuns, StartPcs, OnAir, PairsApart, PairOfUI,
   Carries, PairsHeld, Publishing, WithoutPair, Attached, IdlePcs

LEMMA RemoveCanvasOwn == ASSUME Before, RemoveCanvas PROVE OwnInv'
<1>1. dropped => StopsMeet
  BY DEF RemoveCanvas, CallsFit, StopsMeet
<1>2. QED
  BY <1>1 DEF RemoveCanvas, CallsFit, ShutdownPcs, UsePcs, Listening, OutputsApart, Torn, TearsDown,
     NoJob, ThreadsHeld, HasSession, Fits, Runs, Turns, MemberRuns, StartPcs, OnAir, PairsApart,
     PairOfUI, Carries, PairsHeld, Publishing, WithoutPair, Attached, IdlePcs

LEMMA DropOwn == ASSUME Before, Drop PROVE OwnInv'
<1>1. Listening' /\ Turns' /\ Publishing' /\ Attached'
  BY DEF Drop, UICall, ShutdownJob, NoJob, Listening, Turns, MemberRuns, Runs, StartPcs, OnAir,
     Publishing, WithoutPair, UsePcs, Attached, IdlePcs
<1>2. CallsFit'
  <2>1. PICK last : /\ last \notin DOMAIN jobs /\ DOMAIN jobs' = DOMAIN jobs \cup {last}
                    /\ jobs'[last] = ShutdownJob /\ \A i \in DOMAIN jobs : jobs'[i] = jobs[i]
    BY Appended DEF Drop
  <2>2. QED
    BY <2>1 DEF Drop, UICall, CallsFit, ShutdownPcs, UsePcs, ShutdownJob, NoJob
<1>3. OutputsApart'
  <2>1. PICK last : /\ last \notin DOMAIN jobs /\ DOMAIN jobs' = DOMAIN jobs \cup {last}
                    /\ jobs'[last] = ShutdownJob /\ \A i \in DOMAIN jobs : jobs'[i] = jobs[i]
    BY Appended DEF Drop
  <2>2. Torn' = Torn /\ jobs'[last].output = None
    BY <2>1 DEF Drop, Torn, TearsDown, ShutdownJob, NoJob
  <2>3. QED
    BY <2>1, <2>2 DEF Drop, OutputsApart
<1>4. ThreadsHeld'
  <2>1. \A i \in DOMAIN jobs : i \in DOMAIN jobs' /\ jobs'[i] = jobs[i]
    BY Appended DEF Drop
  <2>2. Torn' = Torn
    BY DEF Drop, Torn, TearsDown
  <2>3. QED
    BY <2>1, <2>2 DEF Drop, ThreadsHeld, HasSession, Fits, Runs
<1>5. PairsApart'
  <2>1. PICK last : /\ last \notin DOMAIN jobs /\ DOMAIN jobs' = DOMAIN jobs \cup {last}
                    /\ jobs'[last] = ShutdownJob /\ \A i \in DOMAIN jobs : jobs'[i] = jobs[i]
    BY Appended DEF Drop
  <2>2. QED
    BY <2>1 DEF Drop, PairsApart, PairOfUI, Carries, ShutdownJob, NoJob
<1>6. PairsHeld'
  <2>1. \A i \in DOMAIN jobs : i \in DOMAIN jobs' /\ jobs'[i] = jobs[i]
    BY Appended DEF Drop
  <2>2. QED
    BY <2>1 DEF Drop, PairsHeld, PairOfUI, Carries
<1>7. QED
  BY <1>1, <1>2, <1>3, <1>4, <1>5, <1>6

LEMMA StartFlagOwn == ASSUME Before, StartFlag PROVE OwnInv'
BY DEF StartFlag, CallsFit, ShutdownPcs, UsePcs, Listening, OutputsApart, Torn, TearsDown, NoJob,
   ThreadsHeld, HasSession, Fits, Runs, Turns, MemberRuns, StartPcs, OnAir, PairsApart, PairOfUI,
   Carries, PairsHeld, Publishing, WithoutPair, Attached, IdlePcs

LEMMA StartStealOwn == ASSUME Before, StartSteal PROVE OwnInv'
<1>1. CallsFit' /\ Listening' /\ OutputsApart' /\ Turns' /\ PairsApart' /\ PairsHeld'
      /\ Publishing' /\ Attached'
  BY DEF StartSteal, CallsFit, ShutdownPcs, UsePcs, Listening, OutputsApart, Torn, TearsDown, NoJob,
     Turns, MemberRuns, Runs, StartPcs, OnAir, PairsApart, PairOfUI, Carries, PairsHeld, Publishing,
     WithoutPair, Attached, IdlePcs
<1>2. ThreadsHeld'
  <2>1. ~MemberRuns
    BY DEF StartSteal, Turns, StartPcs
  <2>2. Torn' = Torn /\ None \notin Threads
    BY ConstantsAssumption DEF StartSteal, Torn, TearsDown
  <2>3. QED
    BY <2>1, <2>2 DEF StartSteal, ThreadsHeld, HasSession, Fits, Runs, MemberRuns
<1>3. QED
  BY <1>1, <1>2

LEMMA StartJoinOwn == ASSUME Before, StartJoin PROVE OwnInv'
<1>1. CallsFit' /\ Listening' /\ OutputsApart' /\ Turns' /\ PairsApart' /\ Publishing' /\ Attached'
  BY DEF StartJoin, Join, CallsFit, ShutdownPcs, UsePcs, Listening, OutputsApart, Torn, TearsDown,
     NoJob, Turns, MemberRuns, Runs, StartPcs, OnAir, PairsApart, PairOfUI, Carries, Publishing,
     WithoutPair, Attached, IdlePcs, TypeOK, HandleInv
<1>2. ThreadsHeld'
  <2>1. \A u \in Threads : Calm(u)
    BY Joins DEF StartJoin, TypeOK
  <2>2. QED
    BY <2>1, HeldFrame DEF StartJoin, Torn, TearsDown
<1>3. PairsHeld'
  <2>1. \A u \in Threads : Carries(u)' = Carries(u)
    BY Joins DEF StartJoin, TypeOK
  <2>2. QED
    BY <2>1, PairsFrame DEF StartJoin, PairOfUI
<1>4. QED
  BY <1>1, <1>2, <1>3

LEMMA StartResolveOwn == ASSUME Before, StartResolve PROVE OwnInv'
<1>1. Listening' /\ OutputsApart' /\ ThreadsHeld' /\ Turns' /\ PairsApart' /\ PairsHeld'
      /\ Publishing' /\ Attached'
  BY DEF StartResolve, FailHard, Listening, OutputsApart, Torn, TearsDown, NoJob, ThreadsHeld,
     HasSession, Fits, Runs, Turns, MemberRuns, StartPcs, OnAir, PairsApart, PairOfUI, Carries,
     PairsHeld, Publishing, WithoutPair, UsePcs, Attached, IdlePcs
<1>2. CallsFit'
  BY DEF StartResolve, FailHard, CallsFit, ShutdownPcs, UsePcs
<1>3. QED
  BY <1>1, <1>2

LEMMA StartOutputOwn == ASSUME Before, StartOutput PROVE OwnInv'
<1>1. Turns' /\ Publishing'
  BY DEF StartOutput, FailHard, UIDiscard, Unwatch, Turns, MemberRuns, Runs, StartPcs, OnAir,
     Publishing, WithoutPair, UsePcs, TypeOK
<1>2. PairsApart' /\ PairsHeld'
  BY DEF StartOutput, FailHard, UIDiscard, Unwatch, PairsApart, PairOfUI, Carries, PairsHeld
<1>3. CallsFit'
  <2>1. uiOutput = None
    BY DEF StartOutput, CallsFit, UsePcs
  <2>2. QED
    BY <2>1, ConstantsAssumption DEF StartOutput, CallsFit, ShutdownPcs, UsePcs
<1>4. Listening'
  <2>1. sigPc = "idle"
    BY DEF StartOutput, Turns, StartPcs
  <2>2. rpPc \notin {"sd_detach"}
    BY DEF StartOutput, Listening, CallsFit, ShutdownPcs
  <2>3. QED
    BY <2>1, <2>2, ConstantsAssumption DEF StartOutput, Listening
<1>5. OutputsApart'
  <2>1. CASE UNCHANGED <<output, phase>>
    BY <2>1 DEF StartOutput, OutputsApart, Torn, TearsDown, NoJob
  <2>2. ASSUME NEW o \in Outputs, output = None, phase[o] = "absent",
        phase' = [phase EXCEPT ![o] = "idle"],
               output' = o
        PROVE  OutputsApart'
    <3>1. o # None /\ \A p \in Outputs : phase'[p] = IF p = o THEN "idle" ELSE phase[p]
      BY <2>2, ConstantsAssumption DEF TypeOK
    <3>2. Torn' = Torn /\ Torn.output \in Outputs \cup {None}
      BY DEF StartOutput, Torn, TearsDown, TypeOK, Job, NoJob
    <3>3. \A i \in DOMAIN jobs : jobs[i].output \in Outputs \cup {None}
      <4>1. \A i \in DOMAIN jobs : jobs[i] \in Job
        BY DEF TypeOK
      <4>2. QED
        BY <4>1 DEF Job
    <3>4. Torn.output # o /\ \A i \in DOMAIN jobs : jobs[i].output # o
      BY <2>2, <3>1 DEF OutputsApart
    <3>5. QED
      BY <2>2, <3>1, <3>2, <3>3, <3>4 DEF StartOutput, OutputsApart
  <2>3. QED
    BY <2>1, <2>2 DEF StartOutput
<1>6. ThreadsHeld'
  <2>1. CASE UNCHANGED output
    <3>1. Torn' = Torn /\ \A u \in Threads : Calm(u)
      BY DEF StartOutput, Torn, TearsDown, Calm, Runs, ThreadsHeld
    <3>2. QED
      BY <2>1, <3>1, HeldFrame DEF StartOutput
  <2>2. CASE output = None
    <3>1. ~MemberRuns
      BY DEF StartOutput, Turns, StartPcs
    <3>2. Torn' = Torn /\ None \notin Threads
      BY ConstantsAssumption DEF StartOutput, Torn, TearsDown
    <3>3. QED
      BY <3>1, <3>2 DEF StartOutput, ThreadsHeld, HasSession, Fits, Runs, MemberRuns
  <2>3. QED
    BY <2>1, <2>2 DEF StartOutput
<1>7. Attached'
  <2>1. \A p \in Outputs : phase[p] = "idle" => phase'[p] = "idle"
    BY DEF StartOutput, TypeOK
  <2>2. \A t \in Threads : rcPc[t] \in IdlePcs => rcOutput[t] \in Outputs
    BY WorksOn DEF Runs, IdlePcs
  <2>3. ~OnAir'
    <3>1. output # None => output \in Outputs /\ phase[output] = "idle"
      BY DEF StartOutput, Turns, StartPcs, TypeOK
    <3>2. output' # None => phase'[output'] = "idle"
      <4>1. CASE UNCHANGED <<output, phase>>
        BY <3>1, <4>1
      <4>2. CASE \E o \in Outputs : output' = o /\ phase' = [phase EXCEPT ![o] = "idle"]
        BY <4>2 DEF TypeOK
      <4>3. QED
        BY <4>1, <4>2 DEF StartOutput, FailHard
    <3>3. QED
      BY <3>2 DEF OnAir
  <2>4. QED
    BY <2>1, <2>2, <2>3 DEF StartOutput, Attached, IdlePcs
<1>8. QED
  BY <1>1, <1>2, <1>3, <1>4, <1>5, <1>6, <1>7

LEMMA StartEncodersOwn == ASSUME Before, StartEncoders PROVE OwnInv'
<1>1. CallsFit' /\ Listening' /\ OutputsApart' /\ ThreadsHeld' /\ Turns' /\ PairsApart' /\ Attached'
  BY DEF StartEncoders, CreateEncoders, FreeEncoders, FailHard, CallsFit, ShutdownPcs, UsePcs,
     Listening, OutputsApart, Torn, TearsDown, NoJob, ThreadsHeld, HasSession, Fits, Runs, Turns,
     MemberRuns, StartPcs, OnAir, PairsApart, PairOfUI, Carries, Attached, IdlePcs
<1>2. PairsHeld'
  <2>1. PairOfUI = None /\ enc' = enc /\ rpJob' = rpJob /\ jobs' = jobs
        /\ \A u \in Threads : Carries(u)' = Carries(u)
    BY DEF StartEncoders, PairOfUI, Carries
  <2>2. \/ owned' = owned
        \/ owned' = owned \cup {uiEnc'} /\ PairOfUI' = uiEnc'
    BY DEF StartEncoders, CreateEncoders, PairOfUI
  <2>3. None \notin owned
    BY ConstantsAssumption DEF TypeOK
  <2>4. QED
    BY <2>1, <2>2, <2>3 DEF PairsHeld
<1>3. Publishing'
  BY ConstantsAssumption DEF StartEncoders, CreateEncoders, FreeEncoders, Publishing, MemberRuns,
        Runs,
     WithoutPair, Turns, StartPcs
<1>4. QED
  BY <1>1, <1>2, <1>3

LEMMA StartPublishOwn == ASSUME Before, StartPublish PROVE OwnInv'
<1>1. CallsFit' /\ Listening' /\ OutputsApart' /\ Turns' /\ PairsApart' /\ PairsHeld'
  BY DEF StartPublish, CallsFit, ShutdownPcs, UsePcs, Listening, OutputsApart, Torn, TearsDown,
     NoJob, Turns, MemberRuns, Runs, StartPcs, OnAir, PairsApart, PairOfUI, Carries, PairsHeld
<1>2. ThreadsHeld'
  <2>1. ~MemberRuns
    BY DEF StartPublish, Turns, StartPcs
  <2>2. Torn' = Torn /\ None \notin Threads
    BY ConstantsAssumption DEF StartPublish, Torn, TearsDown
  <2>3. QED
    BY <2>1, <2>2 DEF StartPublish, ThreadsHeld, HasSession, Fits, Runs, MemberRuns
<1>3. Publishing'
  <2>1. ~MemberRuns /\ UNCHANGED <<reconnectThread, rcPc, rcEnc>>
    BY DEF StartPublish, Turns, StartPcs
  <2>2. enc' = uiEnc /\ uiEnc' = uiEnc /\ uiEnc # None /\ uiPc' = "so_attach"
    BY DEF StartPublish, Publishing
  <2>3. QED
    BY <2>1, <2>2 DEF Publishing, MemberRuns, Runs
<1>4. Attached'
  <2>1. ~OnAir /\ OnAir' = OnAir
    BY DEF StartPublish, OnAir, Turns, StartPcs
  <2>2. QED
    BY <2>1 DEF StartPublish, Attached, IdlePcs
<1>5. QED
  BY <1>1, <1>2, <1>3, <1>4

LEMMA StartAttachOwn == ASSUME Before, StartAttach PROVE OwnInv'
<1>1. CallsFit' /\ Listening' /\ OutputsApart' /\ ThreadsHeld' /\ Turns' /\ PairsApart'
      /\ PairsHeld' /\ Publishing'
  <2>1. CallsFit' /\ Listening' /\ Turns'
    BY DEF StartAttach, Attach, CallsFit, ShutdownPcs, UsePcs, Listening, Turns, MemberRuns, Runs,
       StartPcs, OnAir
  <2>2. OutputsApart' /\ ThreadsHeld'
    BY DEF StartAttach, Attach, OutputsApart, Torn, TearsDown, NoJob, ThreadsHeld, HasSession,
       Fits, Runs
  <2>3. PairsApart' /\ PairsHeld'
    BY DEF StartAttach, Attach, PairsApart, PairOfUI, Carries, PairsHeld
  <2>4. Publishing'
    BY DEF StartAttach, Attach, Publishing, WithoutPair, MemberRuns, Runs
  <2>5. QED
    BY <2>1, <2>2, <2>3, <2>4
<1>2. Attached'
  <2>1. uiOutput = output /\ output \in Outputs /\ phase[output] = "idle" /\ uiEnc = enc
    BY DEF StartAttach, CallsFit, UsePcs, Turns, StartPcs, Publishing, TypeOK
  <2>2. /\ attached'[output] = enc
        /\ \A o \in Outputs : o # output => attached'[o] = attached[o]
    BY <2>1 DEF StartAttach, Attach, TypeOK
  <2>3. ~MemberRuns /\ ~OnAir /\ OnAir' = OnAir
    BY DEF StartAttach, OnAir, Turns, StartPcs
  <2>4. \A t \in Threads : rcPc[t] \in IdlePcs => rcOutput[t] \in Outputs /\ rcOutput[t] # output
    BY <2>3, WorksOn, Mine DEF Runs, IdlePcs, Changed
  <2>5. QED
    BY <2>2, <2>3, <2>4 DEF StartAttach, Attached, IdlePcs
<1>3. QED
  BY <1>1, <1>2

LEMMA StartOBSOwn == ASSUME Before, StartOBS PROVE OwnInv'
<1>1. CallsFit' /\ Listening' /\ ThreadsHeld' /\ Turns' /\ PairsApart' /\ PairsHeld' /\ Publishing'
  BY DEF StartOBS, CallsFit, ShutdownPcs, UsePcs, Listening, ThreadsHeld, HasSession, Fits, Runs,
     Torn, TearsDown, NoJob, Turns, MemberRuns, StartPcs, OnAir, PairsApart, PairOfUI, Carries,
     PairsHeld, Publishing, WithoutPair
<1>2. OutputsApart'
  <2>1. \A o \in Outputs : phase[o] # "absent" => phase'[o] # "absent"
    BY DEF StartOBS, TypeOK
  <2>2. Torn' = Torn /\ Torn.output \in Outputs \cup {None}
    BY DEF StartOBS, Torn, TearsDown, TypeOK, Job, NoJob
  <2>3. \A i \in DOMAIN jobs : jobs[i].output \in Outputs \cup {None}
    BY JobOutputs
  <2>4. output \in Outputs \cup {None}
    BY DEF TypeOK
  <2>5. QED
    BY <2>1, <2>2, <2>3, <2>4 DEF StartOBS, OutputsApart
<1>3. Attached'
  <2>1. uiOutput = output /\ output \in Outputs /\ attached[output] = enc /\ enc # None
    BY DEF StartOBS, CallsFit, UsePcs, Publishing, Attached, TypeOK
  <2>2. ~MemberRuns /\ ~OnAir
    BY DEF StartOBS, OnAir, Turns, StartPcs
  <2>3. \A o \in Outputs : o # output => phase'[o] = phase[o]
    BY <2>1 DEF StartOBS, TypeOK
  <2>4. \A t \in Threads : rcPc[t] \in IdlePcs => rcOutput[t] \in Outputs /\ rcOutput[t] # output
    BY <2>2, WorksOn, Mine DEF Runs, IdlePcs, Changed
  <2>5. QED
    BY <2>1, <2>3, <2>4 DEF StartOBS, Attached, IdlePcs, OnAir
<1>4. QED
  BY <1>1, <1>2, <1>3

LEMMA StartFailedOwn == ASSUME Before, StartFailed PROVE OwnInv'
<1>1. CallsFit' /\ Listening' /\ OutputsApart' /\ Turns' /\ PairsApart' /\ PairsHeld' /\ Publishing'
  BY DEF StartFailed, ReleaseEncoders, CallsFit, ShutdownPcs, UsePcs, Listening, OutputsApart, Torn,
     TearsDown, NoJob, Turns, MemberRuns, Runs, StartPcs, OnAir, PairsApart, PairOfUI, Carries,
     PairsHeld, Publishing, WithoutPair
<1>2. ThreadsHeld'
  <2>1. ~MemberRuns
    BY DEF StartFailed, Turns, StartPcs
  <2>2. Torn' = Torn /\ None \notin Threads
    BY ConstantsAssumption DEF StartFailed, Torn, TearsDown
  <2>3. QED
    BY <2>1, <2>2 DEF StartFailed, ReleaseEncoders, ThreadsHeld, HasSession, Fits, Runs, MemberRuns
<1>3. Attached'
  <2>1. ~OnAir /\ OnAir' = OnAir
    BY DEF StartFailed, OnAir, Turns, StartPcs
  <2>2. QED
    BY <2>1 DEF StartFailed, Attached, IdlePcs
<1>4. QED
  BY <1>1, <1>2, <1>3

LEMMA StartRetryOwn == ASSUME Before, StartRetry PROVE OwnInv'
<1>1. CallsFit' /\ Listening' /\ OutputsApart' /\ Turns' /\ PairsApart'
  BY DEF StartRetry, CreateEncoders, FreeEncoders, FailHard, CallsFit, ShutdownPcs, UsePcs,
     Listening, OutputsApart, Torn, TearsDown, NoJob, Turns, MemberRuns, Runs, StartPcs, OnAir,
     PairsApart, PairOfUI, Carries
<1>2. ThreadsHeld'
  <2>1. ~MemberRuns
    BY DEF StartRetry, Turns, StartPcs
  <2>2. Torn' = Torn /\ None \notin Threads
    BY ConstantsAssumption DEF StartRetry, Torn, TearsDown
  <2>3. QED
    BY <2>1, <2>2 DEF StartRetry, ThreadsHeld, HasSession, Fits, Runs, MemberRuns
<1>3. PairsHeld'
  <2>1. PairOfUI = None /\ PairOfUI' = None /\ rpJob' = rpJob /\ jobs' = jobs /\ enc = None
        /\ \A u \in Threads : Carries(u)' = Carries(u)
    BY DEF StartRetry, PairOfUI, Carries, Publishing
  <2>2. owned' = owned \/ owned' = owned \cup {enc'}
    BY DEF StartRetry, CreateEncoders
  <2>3. None \notin owned
    BY ConstantsAssumption DEF TypeOK
  <2>4. QED
    BY <2>1, <2>2, <2>3 DEF PairsHeld
<1>4. Publishing'
  <2>1. ~MemberRuns /\ UNCHANGED <<reconnectThread, rcPc, rcEnc>>
    BY DEF StartRetry, Turns, StartPcs
  <2>2. QED
    BY <2>1, ConstantsAssumption DEF StartRetry, Publishing, MemberRuns, Runs
<1>5. Attached'
  <2>1. ~OnAir /\ OnAir' = OnAir
    BY DEF StartRetry, OnAir, Turns, StartPcs
  <2>2. QED
    BY <2>1 DEF StartRetry, Attached, IdlePcs
<1>6. QED
  BY <1>1, <1>2, <1>3, <1>4, <1>5

LEMMA StopCheckOwn == ASSUME Before, StopCheck PROVE OwnInv'
BY DEF StopCheck, CallsFit, ShutdownPcs, UsePcs, Listening, OutputsApart, Torn, TearsDown, NoJob,
   ThreadsHeld, HasSession, Fits, Runs, Turns, MemberRuns, StartPcs, OnAir, PairsApart, PairOfUI,
   Carries, PairsHeld, Publishing, WithoutPair, Attached, IdlePcs

LEMMA StopDisconnectOwn == ASSUME Before, StopDisconnect PROVE OwnInv'
<1>1. CallsFit' /\ OutputsApart' /\ ThreadsHeld' /\ Turns' /\ PairsApart' /\ PairsHeld'
      /\ Publishing' /\ Attached'
  BY DEF StopDisconnect, Disconnect, CallsFit, ShutdownPcs, UsePcs, OutputsApart, Torn, TearsDown,
     NoJob, ThreadsHeld, HasSession, Fits, Runs, Turns, MemberRuns, StartPcs, OnAir, PairsApart,
     PairOfUI, Carries, PairsHeld, Publishing, WithoutPair, Attached, IdlePcs
<1>2. Listening'
  <2>1. uiOutput = output \/ connected = {}
    BY DEF StopDisconnect, CallsFit, Listening
  <2>2. QED
    BY <2>1, ConstantsAssumption DEF StopDisconnect, Disconnect, Listening
<1>3. QED
  BY <1>1, <1>2

LEMMA StopDetachOwn == ASSUME Before, StopDetach PROVE OwnInv'
<1>1. Listening' /\ Publishing' /\ Attached'
  BY DEF StopDetach, DetachSession, Detached, Listening, Publishing, MemberRuns, Runs, WithoutPair,
     UsePcs, Attached, IdlePcs, OnAir
<1>2. CallsFit'
  <2>1. CASE jobs' = jobs /\ UNCHANGED output
    BY <2>1 DEF StopDetach, CallsFit, ShutdownPcs, UsePcs
  <2>2. CASE jobs' = Append(jobs, Detached("session"))
    <3>1. PICK last : /\ last \notin DOMAIN jobs /\ DOMAIN jobs' = DOMAIN jobs \cup {last}
                      /\ jobs'[last] = Detached("session")
                      /\ \A i \in DOMAIN jobs : jobs'[i] = jobs[i]
      BY <2>2, Appended
    <3>2. jobs'[last].kind = "session"
      BY <3>1 DEF Detached
    <3>3. /\ UNCHANGED <<dropped, rpPc, rpJob>> /\ uiPc' = "idle" /\ uiOutput' = None
          /\ dropped => StopsMeet
      BY DEF StopDetach, CallsFit
    <3>4. output' = None
      BY <2>2, <3>1 DEF StopDetach, DetachSession
    <3>5. QED
      BY <3>1, <3>2, <3>3, <3>4 DEF CallsFit, ShutdownPcs, UsePcs
  <2>3. QED
    BY <2>1, <2>2 DEF StopDetach
<1>3. OutputsApart'
  <2> Torn' = Torn
    BY DEF StopDetach, Torn, TearsDown
  <2>1. CASE jobs' = jobs /\ UNCHANGED output
    BY <2>1 DEF StopDetach, OutputsApart
  <2>2. CASE jobs' = Append(jobs, Detached("session")) /\ DetachSession
    <3>1. PICK last : /\ last \notin DOMAIN jobs /\ DOMAIN jobs' = DOMAIN jobs \cup {last}
                      /\ jobs'[last] = Detached("session")
                      /\ \A i \in DOMAIN jobs : jobs'[i] = jobs[i]
      BY <2>2, Appended
    <3>2. jobs'[last].output = output /\ output' = None
      BY <2>2, <3>1 DEF Detached, DetachSession
    <3>3. QED
      BY <3>1, <3>2 DEF StopDetach, OutputsApart
  <2>3. QED
    BY <2>1, <2>2 DEF StopDetach
<1>4. ThreadsHeld'
  <2> Torn' = Torn
    BY DEF StopDetach, Torn, TearsDown
  <2>1. CASE UNCHANGED <<sessionVars, jobs>>
    BY <2>1 DEF StopDetach, ThreadsHeld, HasSession, Fits, Runs
  <2>2. CASE jobs' = Append(jobs, Detached("session")) /\ DetachSession
    <3>1. PICK last : /\ last \notin DOMAIN jobs /\ DOMAIN jobs' = DOMAIN jobs \cup {last}
                      /\ jobs'[last] = Detached("session")
                      /\ \A i \in DOMAIN jobs : jobs'[i] = jobs[i]
      BY <2>2, Appended
    <3>2. /\ jobs'[last].thread = reconnectThread /\ jobs'[last].output = output
          /\ jobs'[last].enc = enc
      BY <3>1 DEF Detached
    <3>3. QED
      BY <3>1, <3>2 DEF StopDetach, ThreadsHeld, HasSession, Fits, Runs
  <2>3. QED
    BY <2>1, <2>2 DEF StopDetach
<1>5. Turns'
  <2>1. sigPc = "idle"
    BY DEF StopDetach, Listening
  <2>2. CASE UNCHANGED <<state, sessionVars>>
    BY <2>1, <2>2 DEF StopDetach, Turns, MemberRuns, Runs, StartPcs, OnAir
  <2>3. CASE DetachSession
    BY <2>1, <2>3 DEF StopDetach, DetachSession, Turns, MemberRuns, Runs, StartPcs, OnAir
  <2>4. QED
    BY <2>2, <2>3 DEF StopDetach
<1>6. PairsApart'
  <2> UNCHANGED <<PairOfUI, owned, rpJob>> /\ \A u \in Threads : Carries(u)' = Carries(u)
    BY DEF StopDetach, PairOfUI, Carries
  <2>1. CASE UNCHANGED <<sessionVars, jobs>>
    BY <2>1 DEF PairsApart
  <2>2. CASE jobs' = Append(jobs, Detached("session")) /\ DetachSession
    <3>1. PICK last : /\ last \notin DOMAIN jobs /\ DOMAIN jobs' = DOMAIN jobs \cup {last}
                      /\ jobs'[last] = Detached("session")
                      /\ \A i \in DOMAIN jobs : jobs'[i] = jobs[i]
      BY <2>2, Appended
    <3>2. jobs'[last].enc = enc /\ enc' = None
      BY <2>2, <3>1 DEF Detached, DetachSession
    <3>3. QED
      BY <3>1, <3>2 DEF PairsApart
  <2>3. QED
    BY <2>1, <2>2 DEF StopDetach
<1>7. PairsHeld'
  <2> UNCHANGED <<PairOfUI, owned, rpJob>> /\ \A u \in Threads : Carries(u)' = Carries(u)
    BY DEF StopDetach, PairOfUI, Carries
  <2>1. CASE UNCHANGED <<sessionVars, jobs>>
    BY <2>1 DEF PairsHeld
  <2>2. CASE jobs' = Append(jobs, Detached("session")) /\ DetachSession
    <3>1. PICK last : /\ last \notin DOMAIN jobs /\ DOMAIN jobs' = DOMAIN jobs \cup {last}
                      /\ jobs'[last] = Detached("session")
                      /\ \A i \in DOMAIN jobs : jobs'[i] = jobs[i]
      BY <2>2, Appended
    <3>2. jobs'[last].enc = enc
      BY <3>1 DEF Detached
    <3>3. QED
      BY <3>1, <3>2 DEF PairsHeld
  <2>3. QED
    BY <2>1, <2>2 DEF StopDetach
<1>8. QED
  BY <1>1, <1>2, <1>3, <1>4, <1>5, <1>6, <1>7

-----------------------------------------------------------------------------
(* The output, and the stop handler it runs. *)

LEMMA OutputConnectedOwn == ASSUME Before, NEW o \in Outputs, OutputConnected(o) PROVE OwnInv'
<1>1. CallsFit' /\ Listening' /\ OutputsApart' /\ ThreadsHeld' /\ PairsApart' /\ PairsHeld'
      /\ Publishing' /\ Attached'
  BY DEF OutputConnected, CallsFit, ShutdownPcs, UsePcs, Listening, OutputsApart, Torn, TearsDown,
     NoJob, ThreadsHeld, HasSession, Fits, Runs, PairsApart, PairOfUI, Carries, PairsHeld,
     Publishing, MemberRuns, WithoutPair, Attached, IdlePcs, OnAir
<1>2. Turns'
  <2>1. phase'[o] = "active" /\ \A p \in Outputs : p # o => phase'[p] = phase[p]
    BY DEF OutputConnected, TypeOK
  <2>2. o \in connected => o = output /\ OnAir
    BY DEF OutputConnected, Listening, OnAir, TypeOK
  <2>3. OnAir' = OnAir /\ (OnAir => uiPc \notin StartPcs)
    BY <2>1 DEF OutputConnected, OnAir, Turns, TypeOK
  <2>4. output # None /\ phase[output] = "idle" => phase'[output] = "idle"
    BY <2>1 DEF OutputConnected, TypeOK
  <2>5. QED
    BY <2>2, <2>3, <2>4 DEF OutputConnected, Turns, MemberRuns, Runs
<1>3. QED
  BY <1>1, <1>2

LEMMA ConnectFailedOwn == ASSUME Before, NEW o \in Outputs, ConnectFailed(o) PROVE OwnInv'
<1>1. CallsFit' /\ Listening' /\ OutputsApart' /\ ThreadsHeld' /\ PairsApart' /\ PairsHeld'
      /\ Publishing' /\ Attached'
  BY DEF ConnectFailed, OutputStops, CallsFit, ShutdownPcs, UsePcs, Listening, OutputsApart, Torn,
     TearsDown, NoJob, ThreadsHeld, HasSession, Fits, Runs, PairsApart, PairOfUI, Carries,
     PairsHeld, Publishing, MemberRuns, WithoutPair, Attached, IdlePcs, OnAir
<1>2. Turns'
  <2>1. phase'[o] = "idle" /\ \A p \in Outputs : p # o => phase'[p] = phase[p]
    BY DEF ConnectFailed, OutputStops, TypeOK
  <2>2. o \in connected => o = output /\ OnAir /\ ~OnAir'
    BY <2>1 DEF ConnectFailed, OutputStops, Listening, OnAir, TypeOK
  <2>3. (OnAir' => OnAir) /\ (OnAir => uiPc \notin StartPcs)
    BY <2>1 DEF ConnectFailed, OutputStops, OnAir, Turns, TypeOK
  <2>4. output # None /\ phase[output] = "idle" => phase'[output] = "idle"
    BY <2>1 DEF ConnectFailed, OutputStops, TypeOK
  <2>5. QED
    BY <2>2, <2>3, <2>4 DEF ConnectFailed, OutputStops, Turns, MemberRuns, Runs
<1>3. QED
  BY <1>1, <1>2

LEMMA ConnectionLostOwn == ASSUME Before, NEW o \in Outputs, ConnectionLost(o) PROVE OwnInv'
<1>1. CallsFit' /\ Listening' /\ OutputsApart' /\ ThreadsHeld' /\ PairsApart' /\ PairsHeld'
      /\ Publishing' /\ Attached'
  BY DEF ConnectionLost, OutputStops, CallsFit, ShutdownPcs, UsePcs, Listening, OutputsApart, Torn,
     TearsDown, NoJob, ThreadsHeld, HasSession, Fits, Runs, PairsApart, PairOfUI, Carries,
     PairsHeld, Publishing, MemberRuns, WithoutPair, Attached, IdlePcs, OnAir
<1>2. Turns'
  <2>1. phase'[o] = "closing" /\ \A p \in Outputs : p # o => phase'[p] = phase[p]
    BY DEF ConnectionLost, OutputStops, TypeOK
  <2>2. o \in connected => o = output /\ OnAir /\ ~OnAir'
    BY <2>1 DEF ConnectionLost, OutputStops, Listening, OnAir, TypeOK
  <2>3. (OnAir' => OnAir) /\ (OnAir => uiPc \notin StartPcs)
    BY <2>1 DEF ConnectionLost, OutputStops, OnAir, Turns, TypeOK
  <2>4. output # None /\ phase[output] = "idle" => phase'[output] = "idle"
    BY <2>1 DEF ConnectionLost, OutputStops, TypeOK
  <2>5. QED
    BY <2>2, <2>3, <2>4 DEF ConnectionLost, OutputStops, Turns, MemberRuns, Runs
<1>3. QED
  BY <1>1, <1>2

LEMMA ActiveClearsOwn == ASSUME Before, NEW o \in Outputs, ActiveClears(o) PROVE OwnInv'
<1>1. CallsFit' /\ Listening' /\ Turns'
  BY DEF ActiveClears, CallsFit, ShutdownPcs, UsePcs, Listening, Turns, MemberRuns, Runs, StartPcs, OnAir
<1>2. OutputsApart' /\ ThreadsHeld'
  BY DEF ActiveClears, OutputsApart, Torn, TearsDown, NoJob, ThreadsHeld, HasSession, Fits, Runs
<1>3. PairsApart' /\ PairsHeld'
  BY DEF ActiveClears, PairsApart, PairOfUI, Carries, PairsHeld
<1>4. Publishing' /\ Attached'
  BY DEF ActiveClears, Publishing, WithoutPair, Attached, IdlePcs, MemberRuns, Runs, OnAir
<1>5. QED
  BY <1>1, <1>2, <1>3, <1>4

LEMMA StopSignalOwn == ASSUME Before, StopSignal PROVE OwnInv'
BY DEF StopSignal, SigReturn, FailHard, CallsFit, ShutdownPcs, UsePcs, Listening, OutputsApart,
   Torn, TearsDown, NoJob, ThreadsHeld, HasSession, Fits, Runs, Turns, MemberRuns, StartPcs, OnAir,
   PairsApart, PairOfUI, Carries, PairsHeld, Publishing, WithoutPair, Attached, IdlePcs

LEMMA StopLockOwn == ASSUME Before, StopLock PROVE OwnInv'
<1>1. CallsFit' /\ Listening' /\ OutputsApart' /\ Turns' /\ PairsApart' /\ PairsHeld'
      /\ Publishing' /\ Attached'
  BY DEF StopLock, CallsFit, ShutdownPcs, UsePcs, Listening, OutputsApart, Torn, TearsDown, NoJob,
     Turns, MemberRuns, Runs, StartPcs, OnAir, PairsApart, PairOfUI, Carries, PairsHeld, Publishing,
     WithoutPair, Attached, IdlePcs
<1>2. ThreadsHeld'
  <2>1. ~MemberRuns
    BY DEF StopLock, Turns
  <2>2. Torn' = Torn /\ None \notin Threads
    BY ConstantsAssumption DEF StopLock, Torn, TearsDown
  <2>3. QED
    BY <2>1, <2>2 DEF StopLock, ThreadsHeld, HasSession, Fits, Runs, MemberRuns
<1>3. QED
  BY <1>1, <1>2

LEMMA StopJoinOwn == ASSUME Before, StopJoin PROVE OwnInv'
<1>1. CallsFit' /\ Listening' /\ OutputsApart' /\ Turns' /\ PairsApart' /\ Publishing' /\ Attached'
  <2>1. CallsFit' /\ Listening' /\ Turns'
    BY DEF StopJoin, Join, CallsFit, ShutdownPcs, UsePcs, Listening, Turns, MemberRuns, Runs,
       StartPcs, OnAir, TypeOK, HandleInv
  <2>2. OutputsApart' /\ PairsApart'
    BY DEF StopJoin, Join, OutputsApart, Torn, TearsDown, NoJob, PairsApart, PairOfUI, Carries,
       TypeOK, HandleInv
  <2>3. Publishing' /\ Attached'
    BY DEF StopJoin, Join, Publishing, MemberRuns, Runs, WithoutPair, Attached, IdlePcs, OnAir,
       TypeOK, HandleInv
  <2>4. QED
    BY <2>1, <2>2, <2>3
<1>2. ThreadsHeld'
  <2>1. \A u \in Threads : Calm(u)
    BY Joins DEF StopJoin, TypeOK
  <2>2. QED
    BY <2>1, HeldFrame DEF StopJoin, Torn, TearsDown
<1>3. PairsHeld'
  <2>1. \A u \in Threads : Carries(u)' = Carries(u)
    BY Joins DEF StopJoin, TypeOK
  <2>2. QED
    BY <2>1, PairsFrame DEF StopJoin, PairOfUI
<1>4. QED
  BY <1>1, <1>2, <1>3

LEMMA StopSpawnOwn == ASSUME Before, StopSpawn PROVE OwnInv'
<1>1. CallsFit' /\ Listening' /\ Publishing' /\ Attached'
  BY DEF StopSpawn, SigReturn, CallsFit, ShutdownPcs, UsePcs, Listening, Publishing, MemberRuns,
     Runs, WithoutPair, Attached, IdlePcs, OnAir, TypeOK, HandleInv
<1>2. OutputsApart' /\ PairsHeld'
  <2>1. OutputsApart'
    BY DEF StopSpawn, SigReturn, OutputsApart, Torn, TearsDown
  <2>2. \A u \in Threads : Carries(u)' = Carries(u)
    BY DEF StopSpawn, SigReturn, Carries, TypeOK
  <2>3. PairsHeld'
    BY <2>2 DEF StopSpawn, SigReturn, PairsHeld, PairOfUI
  <2>4. QED
    BY <2>1, <2>3
<1>3. ThreadsHeld'
  <2>1. reconnectThread = None /\ None \notin Threads /\ Torn' = Torn
    BY ConstantsAssumption DEF StopSpawn, HandleInv, Torn, TearsDown
  <2>2. CASE UNCHANGED <<reconnectThread, rcPc>>
    BY <2>1, <2>2 DEF StopSpawn, ThreadsHeld, HasSession, Fits, Runs
  <2>3. ASSUME NEW t \in Threads, rcPc[t] = "free", reconnectThread' = t,
               rcPc' = [rcPc EXCEPT ![t] = "rc_enter"]
        PROVE  ThreadsHeld'
    <3>1. rcPc'[t] = "rc_enter" /\ rcOutput[t] = None
          /\ \A u \in Threads : u # t => rcPc'[u] = rcPc[u]
      BY <2>3 DEF TypeOK, ThreadsHeld
    <3>2. HasSession(t)'
      BY <2>3, <3>1 DEF HasSession, Fits
    <3>3. \A u \in Threads : u # t /\ HasSession(u) => HasSession(u)'
      BY <2>1, <3>1 DEF StopSpawn, HasSession, Fits
    <3>4. QED
      BY <3>1, <3>2, <3>3 DEF StopSpawn, ThreadsHeld, Runs
  <2>4. QED
    BY <2>2, <2>3 DEF StopSpawn
<1>4. Turns'
  <2>1. reconnectThread = None /\ sigThread = None /\ uiThread = None
    BY DEF StopSpawn, HandleInv, Turns, StartPcs
  <2>2. /\ state = "Reconnecting" /\ output # None /\ uiPc \notin StartPcs /\ ~OnAir
        /\ \A u \in Threads : rcPc[u] # "rc_enter"
    BY <2>1, ConstantsAssumption DEF StopSpawn, Turns, Listening
  <2>3. OnAir' = OnAir
    BY DEF StopSpawn, OnAir
  <2>4. CASE UNCHANGED <<reconnectThread, rcPc>>
    BY <2>1, <2>2, <2>3, <2>4 DEF StopSpawn, SigReturn, Turns, MemberRuns
  <2>5. ASSUME NEW t \in Threads, reconnectThread' = t, rcPc' = [rcPc EXCEPT ![t] = "rc_enter"],
        UNCHANGED state
        PROVE  Turns'
    <3>1. \A u \in Threads : rcPc'[u] = "rc_enter" => u = t
      BY <2>2, <2>5 DEF TypeOK
    <3>2. QED
      BY <2>1, <2>2, <2>3, <2>5, <3>1 DEF StopSpawn, SigReturn, Turns
  <2>6. QED
    BY <2>4, <2>5 DEF StopSpawn
<1>5. PairsApart'
  <2>1. \A u \in Threads : Carries(u)' = Carries(u)
    BY DEF StopSpawn, Carries, TypeOK
  <2>2. QED
    BY <2>1, PairsFrame DEF StopSpawn, PairOfUI
<1>6. QED
  BY <1>1, <1>2, <1>3, <1>4, <1>5

-----------------------------------------------------------------------------
(* Most steps of a reconnect thread only move it on, and may drop the pair of an
   attempt that has failed. *)

CarryPcs == {"rc_connect", "rc_removed", "rc_guard2"}

LEMMA RcMoves ==
    ASSUME Before, NEW t \in Threads, NEW pc, Runs(t), rcPc[t] # "rc_enter", Goto(t, pc),
           UNCHANGED <<sessionVars, outputVars, owned, uiVars, sigVars, reaperVars, rcOutput>>,
           \/ UNCHANGED state
           \/ state' = "FailedHard" /\ pc = "done" /\ ~Changed(t),
           pc \notin {"free", "rc_enter", "rc_attach", "rc_start"},
           pc \in CarryPcs <=> rcPc[t] \in CarryPcs,
           pc \in CarryPcs => rcEnc'[t] = rcEnc[t],
           \A u \in Threads : u # t => rcEnc'[u] = rcEnc[u],
           pc \in IdlePcs => phase[rcOutput[t]] = "idle",
           pc \in WithoutPair /\ t = reconnectThread => enc = None
    PROVE  OwnInv'
<1>1. rcPc'[t] = pc /\ \A u \in Threads : u # t => rcPc'[u] = rcPc[u]
  BY Going
<1>2. Torn' = Torn /\ PairOfUI' = PairOfUI /\ OnAir' = OnAir
  BY DEF Torn, TearsDown, PairOfUI, OnAir
<1>3. \A u \in Threads : Carries(u)' = Carries(u)
  BY <1>1 DEF Carries, CarryPcs
<1>4. \A u \in Threads : Calm(u)
  BY <1>1 DEF Calm, Runs, ThreadsHeld
<1>5. /\ \A u \in Threads : rcPc'[u] = "rc_enter" => rcPc[u] = "rc_enter"
      /\ \A u \in Threads : Runs(u)' => Runs(u)
      /\ MemberRuns' => MemberRuns
  BY <1>1 DEF MemberRuns, Runs, TypeOK
<1>6. CallsFit'
  BY DEF CallsFit
<1>7. Listening'
  BY DEF Listening
<1>8. OutputsApart'
  BY <1>2 DEF OutputsApart
<1>9. ThreadsHeld'
  BY <1>2, <1>4, HeldFrame
<1>10. Turns'
  <2>1. CASE UNCHANGED state
    BY <1>2, <1>5, <2>1, TurnsFrame
  <2>2. CASE state' = "FailedHard" /\ pc = "done" /\ ~Changed(t)
    <3>1. MemberRuns /\ ~MemberRuns'
      BY <1>1, <2>2, Mine DEF MemberRuns, Runs
    <3>2. QED
      BY <1>2, <1>5, <3>1 DEF Turns, TypeOK
  <2>3. QED
    BY <2>1, <2>2
<1>11. PairsApart' /\ PairsHeld'
  BY <1>2, <1>3, PairsFrame
<1>12. Publishing'
  <2>1. MemberRuns' /\ rcPc'[reconnectThread] \in WithoutPair => enc = None
    BY <1>1, <1>5 DEF Publishing, MemberRuns, TypeOK
  <2>2. \A u \in Threads : rcPc'[u] \in CarryPcs => rcEnc'[u] # None
    BY <1>1 DEF Publishing, CarryPcs
  <2>3. QED
    BY <2>1, <2>2 DEF Publishing, CarryPcs
<1>13. Attached'
  BY <1>1, <1>2 DEF Attached
<1>14. QED
  BY <1>6, <1>7, <1>8, <1>9, <1>10, <1>11, <1>12, <1>13

(* The pair an attempt created is released again. *)
LEMMA Withdraws ==
    ASSUME Before, NEW t \in Threads, NEW then, rcPc[t] \in CarryPcs, Withdraw(t, then),
           UNCHANGED <<state, sessionVars, outputVars, uiVars, sigVars, reaperVars, rcOutput>>
    PROVE  OwnInv'
<1>1. rcPc'[t] = "rc_discard" /\ \A u \in Threads : u # t => rcPc'[u] = rcPc[u]
  BY Going DEF Withdraw
<1>2. rcEnc'[t] = None /\ \A u \in Threads : u # t => rcEnc'[u] = rcEnc[u]
  BY DEF Withdraw, TypeOK
<1>3. Torn' = Torn /\ PairOfUI' = PairOfUI /\ OnAir' = OnAir
  BY DEF Torn, TearsDown, PairOfUI, OnAir
<1>4. /\ Carries(t) = rcEnc[t] /\ Carries(t)' = None
      /\ \A u \in Threads : u # t => Carries(u)' = Carries(u)
  BY <1>1, <1>2 DEF Carries, CarryPcs
<1>5. owned' = owned \ {Carries(t)} /\ Carries(t) # None
  BY <1>4 DEF Withdraw, Publishing, CarryPcs
<1>6. \A u \in Threads : Calm(u)
  BY <1>1, <1>2 DEF Calm, Runs, ThreadsHeld, CarryPcs
<1>7. Turns' /\ (MemberRuns' => MemberRuns)
  BY <1>1, <1>3, TurnsFrame DEF Runs, CarryPcs
<1>8. CallsFit' /\ Listening'
  BY DEF CallsFit, Listening
<1>9. OutputsApart'
  BY <1>3 DEF OutputsApart
<1>10. ThreadsHeld'
  BY <1>3, <1>6, HeldFrame
<1>11. PairsApart'
  BY <1>3, <1>4, <1>5 DEF PairsApart
<1>12. PairsHeld'
  BY <1>3, <1>4, <1>5 DEF PairsHeld
<1>13. Publishing'
  <2>1. MemberRuns' /\ rcPc'[reconnectThread] \in WithoutPair => enc = None
    BY <1>1, <1>7 DEF Publishing, MemberRuns, WithoutPair, TypeOK
  <2>2. \A u \in Threads : rcPc'[u] \in CarryPcs => rcEnc'[u] # None
    BY <1>1, <1>2 DEF Publishing, CarryPcs
  <2>3. QED
    BY <2>1, <2>2 DEF Publishing, CarryPcs
<1>14. Attached'
  BY <1>1, <1>2, <1>3 DEF Attached, IdlePcs
<1>15. QED
  BY <1>7, <1>8, <1>9, <1>10, <1>11, <1>12, <1>13, <1>14

LEMMA GivesUp ==
    ASSUME Before, NEW t \in Threads, Runs(t), rcPc[t] \notin {"rc_enter"} \cup CarryPcs, GiveUp(t)
    PROVE  OwnInv'
BY RcMoves DEF GiveUp, FailHard, CarryPcs, IdlePcs, WithoutPair

LEMMA RcExhaustedOwn == ASSUME Before, NEW t \in Threads, RcExhausted(t) PROVE OwnInv'
BY GivesUp DEF RcExhausted, At, Runs, CarryPcs

LEMMA RcRefusedOwn == ASSUME Before, NEW t \in Threads, RcRefused(t) PROVE OwnInv'
BY GivesUp DEF RcRefused, At, Runs, CarryPcs

LEMMA RcGoneOwn == ASSUME Before, NEW t \in Threads, RcGone(t) PROVE OwnInv'
BY GivesUp DEF RcGone, At, Runs, CarryPcs

LEMMA RcLoopOwn == ASSUME Before, NEW t \in Threads, RcLoop(t) PROVE OwnInv'
BY RcMoves DEF RcLoop, Looks, At, Runs, CarryPcs, IdlePcs, WithoutPair

LEMMA RcWaitOwn == ASSUME Before, NEW t \in Threads, RcWait(t) PROVE OwnInv'
BY RcMoves DEF RcWait, At, Runs, CarryPcs, IdlePcs, WithoutPair

LEMMA RcCountOwn == ASSUME Before, NEW t \in Threads, RcCount(t) PROVE OwnInv'
BY RcMoves DEF RcCount, At, Runs, CarryPcs, IdlePcs, WithoutPair

LEMMA RcInactiveOwn == ASSUME Before, NEW t \in Threads, RcInactive(t) PROVE OwnInv'
<1>1. t = reconnectThread => enc = None
  BY ConstantsAssumption DEF RcInactive, At, Publishing, MemberRuns, Runs, WithoutPair
<1>2. QED
  BY <1>1, RcMoves DEF RcInactive, Looks, ReadyToAttach, At, Runs, CarryPcs, IdlePcs, WithoutPair

LEMMA RcGuard1Own == ASSUME Before, NEW t \in Threads, RcGuard1(t) PROVE OwnInv'
<1>1. t = reconnectThread => enc = None
  BY ConstantsAssumption DEF RcGuard1, At, Publishing, MemberRuns, Runs, WithoutPair
<1>2. phase[rcOutput[t]] = "idle"
  BY DEF RcGuard1, At, Attached, IdlePcs
<1>3. QED
  BY <1>1, <1>2, RcMoves DEF RcGuard1, Looks, At, Runs, CarryPcs, IdlePcs, WithoutPair

LEMMA RcDiscardOwn == ASSUME Before, NEW t \in Threads, RcDiscard(t) PROVE OwnInv'
<1>1. rcThen[t] \in {"done", "rc_gone", "rc_encfail"}
  BY DEF TypeOK
<1>2. QED
  BY <1>1, RcMoves DEF RcDiscard, At, Runs, CarryPcs, IdlePcs, WithoutPair

LEMMA RcUnwatchOwn == ASSUME Before, NEW t \in Threads, RcUnwatch(t) PROVE OwnInv'
<1>1. rcThen[t] \in {"done", "rc_gone", "rc_encfail"}
  BY DEF TypeOK
<1>2. QED
  BY <1>1, RcMoves DEF RcUnwatch, At, Runs, CarryPcs, IdlePcs, WithoutPair

LEMMA RcEncFailOwn == ASSUME Before, NEW t \in Threads, RcEncFail(t) PROVE OwnInv'
BY RcMoves DEF RcEncFail, At, Runs, CarryPcs, IdlePcs, WithoutPair

LEMMA RcConnectOwn == ASSUME Before, NEW t \in Threads, RcConnect(t) PROVE OwnInv'
<1>1. t = reconnectThread => enc = None
  BY ConstantsAssumption DEF RcConnect, At, Publishing, MemberRuns, Runs, WithoutPair
<1>2. phase[rcOutput[t]] = "idle"
  BY DEF RcConnect, At, Attached, IdlePcs
<1>3. QED
  BY <1>1, <1>2, RcMoves DEF RcConnect, At, Runs, CarryPcs, IdlePcs, WithoutPair

LEMMA RcRemovedOwn == ASSUME Before, NEW t \in Threads, RcRemoved(t) PROVE OwnInv'
<1>1. t = reconnectThread => enc = None
  BY ConstantsAssumption DEF RcRemoved, At, Publishing, MemberRuns, Runs, WithoutPair
<1>2. phase[rcOutput[t]] = "idle" /\ rcPc[t] = "rc_removed"
  BY DEF RcRemoved, At, Attached, IdlePcs
<1>3. CASE Goto(t, "rc_guard2") /\ UNCHANGED <<owned, rcEnc>>
  BY <1>1, <1>2, <1>3, RcMoves DEF RcRemoved, Runs, CarryPcs, IdlePcs, WithoutPair
<1>4. CASE Withdraw(t, "rc_gone")
  BY <1>2, <1>4, Withdraws DEF RcRemoved, CarryPcs
<1>5. QED
  BY <1>3, <1>4 DEF RcRemoved

LEMMA RcFailedOwn == ASSUME Before, NEW t \in Threads, RcFailed(t) PROVE OwnInv'
BY RcMoves DEF RcFailed, At, Runs, CarryPcs, IdlePcs, WithoutPair

LEMMA RcEnterOwn == ASSUME Before, NEW t \in Threads, RcEnter(t) PROVE OwnInv'
<1>1. rcPc[t] = "rc_enter" /\ rcPc'[t] = (IF output = None THEN "done" ELSE "rc_loop")
      /\ \A u \in Threads : u # t => rcPc'[u] = rcPc[u]
  BY Going DEF RcEnter, At
<1>2. rcOutput'[t] = output /\ \A u \in Threads : u # t => rcOutput'[u] = rcOutput[u]
  BY DEF RcEnter, TypeOK
<1>3. Torn' = Torn /\ PairOfUI' = PairOfUI /\ OnAir' = OnAir
      /\ \A u \in Threads : Carries(u)' = Carries(u)
  BY <1>1 DEF RcEnter, Torn, TearsDown, PairOfUI, OnAir, Carries
<1>4. CallsFit' /\ Listening'
  BY DEF RcEnter, CallsFit, Listening
<1>5. OutputsApart'
  BY <1>3 DEF RcEnter, OutputsApart
<1>6. ThreadsHeld'
  <2>1. output # None => HasSession(t)'
    BY <1>1, <1>2 DEF RcEnter, Turns, HasSession, Fits
  <2>2. \A u \in Threads : u # t /\ HasSession(u) => HasSession(u)'
    BY <1>1, <1>2, <1>3 DEF RcEnter, HasSession, Fits
  <2>3. QED
    BY <1>1, <1>2, <2>1, <2>2 DEF ThreadsHeld, Runs
<1>7. Turns' /\ (MemberRuns' => MemberRuns)
  BY <1>1, <1>3, TurnsFrame DEF RcEnter, Runs
<1>8. PairsApart' /\ PairsHeld'
  BY <1>3, PairsFrame DEF RcEnter
<1>9. Publishing'
  BY <1>1, <1>7 DEF RcEnter, Publishing, WithoutPair, MemberRuns, TypeOK
<1>10. Attached'
  BY <1>1, <1>2, <1>3 DEF RcEnter, Attached, IdlePcs
<1>11. QED
  BY <1>4, <1>5, <1>6, <1>7, <1>8, <1>9, <1>10

LEMMA RcReleaseOwn == ASSUME Before, NEW t \in Threads, RcRelease(t) PROVE OwnInv'
<1>1. rcPc[t] = "rc_release" /\ Runs(t)
  BY DEF RcRelease, At, Runs
<1>2. CASE Goto(t, "done") /\ UNCHANGED <<enc, owned>>
  BY <1>1, <1>2, RcMoves DEF RcRelease, CarryPcs, IdlePcs, WithoutPair
<1>3. CASE ~Aborted(t) /\ Goto(t, "rc_inactive") /\ ReleaseEncoders
  <2>1. reconnectThread = t /\ MemberRuns
    BY <1>1, <1>3, Mine DEF Aborted
  <2>2. uiPc \notin StartPcs /\ ~OnAir
    BY <2>1 DEF Turns
  <2>3. rcPc'[t] = "rc_inactive" /\ \A u \in Threads : u # t => rcPc'[u] = rcPc[u]
    BY <1>3, Going
  <2>4. Torn' = Torn /\ PairOfUI' = PairOfUI /\ OnAir' = OnAir
    BY DEF RcRelease, Torn, TearsDown, PairOfUI, OnAir
  <2>5. enc' = None /\ owned' = owned \ {enc} /\ \A u \in Threads : Carries(u)' = Carries(u)
    BY <1>1, <1>3, <2>3 DEF RcRelease, ReleaseEncoders, Carries
  <2>6. CallsFit' /\ Listening'
    BY DEF RcRelease, CallsFit, Listening
  <2>7. OutputsApart'
    BY <2>4 DEF RcRelease, OutputsApart
  <2>8. ThreadsHeld'
    BY <1>1, <2>1, <2>3, <2>4 DEF RcRelease, ThreadsHeld, HasSession, Fits, Runs
  <2>9. Turns'
    BY <1>1, <2>3, <2>4, TurnsFrame DEF RcRelease, Runs
  <2>10. PairsApart'
    BY <2>4, <2>5 DEF RcRelease, PairsApart
  <2>11. PairsHeld'
    BY <2>4, <2>5 DEF RcRelease, PairsHeld
  <2>12. Publishing'
    BY <1>1, <2>2, <2>3, <2>5 DEF RcRelease, Publishing, StartPcs
  <2>13. Attached'
    BY <2>2, <2>3, <2>4 DEF RcRelease, Attached, IdlePcs, StartPcs
  <2>14. QED
    BY <2>6, <2>7, <2>8, <2>9, <2>10, <2>11, <2>12, <2>13
<1>4. QED
  BY <1>2, <1>3 DEF RcRelease

LEMMA RcCreateOwn == ASSUME Before, NEW t \in Threads, RcCreate(t) PROVE OwnInv'
<1>1. rcPc[t] = "rc_create" /\ Runs(t) /\ phase[rcOutput[t]] = "idle"
  BY DEF RcCreate, At, Runs, Attached, IdlePcs
<1>2. t = reconnectThread => enc = None
  BY <1>1, ConstantsAssumption DEF Publishing, MemberRuns, WithoutPair
<1>3. ASSUME NEW pc \in {"rc_refused", "rc_discard"}, Goto(t, pc), UNCHANGED <<rcEnc, owned>>
      PROVE  OwnInv'
  BY <1>1, <1>3, RcMoves DEF RcCreate, CarryPcs, IdlePcs, WithoutPair
<1>4. ASSUME NEW e \in Encoders, NEW c, CreateEncoders(e, c), rcEnc' = [rcEnc EXCEPT ![t] = e],
             Goto(t, "rc_connect")
      PROVE  OwnInv'
  <2>1. rcPc'[t] = "rc_connect" /\ \A u \in Threads : u # t => rcPc'[u] = rcPc[u]
    BY <1>4, Going
  <2>2. rcEnc'[t] = e /\ e # None /\ \A u \in Threads : u # t => rcEnc'[u] = rcEnc[u]
    BY <1>4, ConstantsAssumption DEF TypeOK
  <2>3. Torn' = Torn /\ PairOfUI' = PairOfUI /\ OnAir' = OnAir
    BY DEF RcCreate, Torn, TearsDown, PairOfUI, OnAir
  <2>4. /\ Carries(t) = None /\ Carries(t)' = e
        /\ \A u \in Threads : u # t => Carries(u)' = Carries(u)
    BY <1>1, <2>1, <2>2 DEF Carries
  <2>5. e \notin owned /\ owned' = owned \cup {e}
    BY <1>4 DEF CreateEncoders, FreeEncoders
  <2>6. CallsFit' /\ Listening'
    BY DEF RcCreate, CallsFit, Listening
  <2>7. OutputsApart'
    BY <2>3 DEF RcCreate, OutputsApart
  <2>8. ThreadsHeld'
    <3>1. \A u \in Threads : Calm(u)
      BY <1>1, <2>1, <2>2 DEF RcCreate, Calm, Runs, ThreadsHeld
    <3>2. QED
      BY <2>3, <3>1, HeldFrame DEF RcCreate
  <2>9. Turns'
    BY <1>1, <2>1, <2>3, TurnsFrame DEF RcCreate, Runs
  <2>10. PairsApart'
    BY <2>2, <2>3, <2>4, <2>5 DEF RcCreate, PairsApart
  <2>11. PairsHeld'
    <3> SUFFICES ASSUME NEW h \in owned'
                 PROVE  \/ enc = h \/ PairOfUI = h \/ rpJob.enc = h
                        \/ \E u \in Threads : Carries(u)' = h
                        \/ \E i \in DOMAIN jobs : jobs[i].enc = h
      BY <2>3 DEF RcCreate, PairsHeld
    <3>1. h # None
      BY <2>5, ConstantsAssumption DEF TypeOK
    <3>2. CASE h \in owned
      BY <2>4, <3>1, <3>2 DEF PairsHeld
    <3>3. QED
      BY <2>4, <2>5, <3>2
  <2>12. Publishing'
    <3>1. MemberRuns' /\ rcPc'[reconnectThread] \in WithoutPair => enc = None
      BY <1>1, <1>2, <2>1 DEF RcCreate, Publishing, MemberRuns, Runs, TypeOK
    <3>2. \A u \in Threads : rcPc'[u] \in CarryPcs => rcEnc'[u] # None
      BY <2>1, <2>2 DEF Publishing, CarryPcs
    <3>3. QED
      BY <3>1, <3>2 DEF RcCreate, Publishing, CarryPcs
  <2>13. Attached'
    BY <1>1, <2>1, <2>2, <2>3 DEF RcCreate, Attached, IdlePcs
  <2>14. QED
    BY <2>6, <2>7, <2>8, <2>9, <2>10, <2>11, <2>12, <2>13
<1>5. QED
  BY <1>3, <1>4 DEF RcCreate

LEMMA RcGuard2Own == ASSUME Before, NEW t \in Threads, RcGuard2(t) PROVE OwnInv'
<1>1. rcPc[t] = "rc_guard2" /\ Runs(t) /\ phase[rcOutput[t]] = "idle" /\ rcEnc[t] # None
  BY DEF RcGuard2, At, Runs, Attached, IdlePcs, Publishing
<1>2. CASE Withdraw(t, "done") /\ UNCHANGED <<enc, canvas>>
  BY <1>1, <1>2, Withdraws DEF RcGuard2, CarryPcs
<1>3. CASE /\ ~Aborted(t) /\ Goto(t, "rc_attach") /\ enc' = rcEnc[t] /\ UNCHANGED <<owned, rcEnc>>
  <2>1. reconnectThread = t /\ MemberRuns /\ rcOutput[t] = output /\ output # None
    BY <1>1, <1>3, Mine DEF Aborted
  <2>2. uiPc \notin StartPcs /\ ~OnAir /\ enc = None
    BY <1>1, <2>1 DEF Turns, Publishing, WithoutPair
  <2>3. rcPc'[t] = "rc_attach" /\ \A u \in Threads : u # t => rcPc'[u] = rcPc[u]
    BY <1>3, Going
  <2>4. Torn' = Torn /\ PairOfUI' = PairOfUI /\ OnAir' = OnAir
    BY DEF RcGuard2, Torn, TearsDown, PairOfUI, OnAir
  <2>5. /\ Carries(t) = enc' /\ Carries(t)' = None
        /\ \A u \in Threads : u # t => Carries(u)' = Carries(u)
    BY <1>1, <1>3, <2>3 DEF Carries
  <2>6. CallsFit' /\ Listening'
    BY DEF RcGuard2, CallsFit, Listening
  <2>7. OutputsApart'
    BY <2>4 DEF RcGuard2, OutputsApart
  <2>8. ThreadsHeld'
    <3>1. HasSession(t)'
      BY <1>1, <1>3, <2>1, <2>3 DEF RcGuard2, HasSession, Fits
    <3>2. \A u \in Threads : u # t /\ HasSession(u) => HasSession(u)'
      BY <1>3, <2>1, <2>3, <2>4 DEF RcGuard2, HasSession, Fits
    <3>3. QED
      BY <2>3, <3>1, <3>2 DEF RcGuard2, ThreadsHeld, Runs
  <2>9. Turns'
    BY <1>1, <2>3, <2>4, TurnsFrame DEF RcGuard2, Runs
  <2>10. PairsApart'
    BY <1>3, <2>2, <2>4, <2>5 DEF RcGuard2, PairsApart
  <2>11. PairsHeld'
    <3>1. owned' = owned /\ jobs' = jobs /\ rpJob' = rpJob /\ None \notin owned
      BY <1>3, ConstantsAssumption DEF RcGuard2, TypeOK
    <3>2. \A u \in Threads : Carries(u)' = Carries(u) \/ enc' = Carries(u)
      BY <2>5
    <3>3. QED
      BY <2>2, <2>4, <3>1, <3>2 DEF PairsHeld
  <2>12. Publishing'
    BY <1>3, <2>1, <2>2, <2>3 DEF RcGuard2, Publishing, StartPcs, WithoutPair
  <2>13. Attached'
    BY <1>1, <1>3, <2>2, <2>3, <2>4 DEF RcGuard2, Attached, IdlePcs, StartPcs
  <2>14. QED
    BY <2>6, <2>7, <2>8, <2>9, <2>10, <2>11, <2>12, <2>13
<1>4. QED
  BY <1>2, <1>3 DEF RcGuard2

LEMMA RcAttachOwn == ASSUME Before, NEW t \in Threads, RcAttach(t) PROVE OwnInv'
<1>1. rcPc[t] = "rc_attach" /\ Runs(t) /\ phase[rcOutput[t]] = "idle" /\ rcOutput[t] \in Outputs
  BY WorksOn DEF RcAttach, At, Runs, Attached, IdlePcs
<1>2. rcPc'[t] = "rc_start" /\ \A u \in Threads : u # t => rcPc'[u] = rcPc[u]
  BY Going DEF RcAttach
<1>3. /\ attached'[rcOutput[t]] = rcEnc[t]
      /\ \A o \in Outputs : o # rcOutput[t] => attached'[o] = attached[o]
  BY <1>1 DEF RcAttach, Attach, TypeOK
<1>4. Torn' = Torn /\ PairOfUI' = PairOfUI /\ OnAir' = OnAir
      /\ \A u \in Threads : Carries(u)' = Carries(u)
  BY <1>1, <1>2 DEF RcAttach, Torn, TearsDown, PairOfUI, OnAir, Carries
<1>5. CallsFit' /\ Listening'
  BY DEF RcAttach, CallsFit, Listening
<1>6. OutputsApart'
  BY <1>4 DEF RcAttach, OutputsApart
<1>7. ThreadsHeld'
  <2>1. \A u \in Threads : Calm(u)
    BY <1>1, <1>2 DEF RcAttach, Calm, Runs, ThreadsHeld
  <2>2. QED
    BY <1>4, <2>1, HeldFrame DEF RcAttach
<1>8. Turns' /\ (MemberRuns' => MemberRuns)
  BY <1>1, <1>2, <1>4, TurnsFrame DEF RcAttach, Runs
<1>9. PairsApart' /\ PairsHeld'
  BY <1>4, PairsFrame DEF RcAttach
<1>10. Publishing'
  BY <1>2, <1>8 DEF RcAttach, Publishing, WithoutPair, MemberRuns, TypeOK
<1>11. Attached'
  <2>1. \A u \in Threads :
           u # t /\ rcPc[u] \in IdlePcs => rcOutput[u] \in Outputs /\ rcOutput[u] # rcOutput[t]
    BY <1>1, Alone, WorksOn DEF Runs, IdlePcs
  <2>2. rcOutput[t] = output => MemberRuns
    BY <1>1, Mine DEF Changed
  <2>3. rcOutput[t] = output => uiPc # "so_start" /\ ~OnAir
    BY <2>2 DEF Turns, StartPcs
  <2>4. output # None => output \in Outputs
    BY DEF TypeOK
  <2>5. uiPc = "so_start" => output # None
    BY DEF CallsFit, UsePcs
  <2>6. OnAir => output # None
    BY DEF OnAir
  <2>7. UNCHANGED <<phase, rcOutput, rcEnc, uiPc, output, enc>>
    BY DEF RcAttach
  <2>8. QED
    BY <1>1, <1>2, <1>3, <1>4, <2>1, <2>3, <2>4, <2>5, <2>6, <2>7 DEF Attached, IdlePcs
<1>12. QED
  BY <1>5, <1>6, <1>7, <1>8, <1>9, <1>10, <1>11

LEMMA RcStartOwn == ASSUME Before, NEW t \in Threads, RcStart(t) PROVE OwnInv'
<1>1. /\ rcPc[t] = "rc_start" /\ Runs(t) /\ rcOutput[t] \in Outputs
      /\ attached[rcOutput[t]] = rcEnc[t]
      /\ \A u \in Threads : u # t => rcEnc'[u] = rcEnc[u]
  BY WorksOn DEF RcStart, At, Runs, Attached, TypeOK
<1>2. CASE Goto(t, "rc_failed") /\ UNCHANGED phase
  BY <1>1, <1>2, RcMoves DEF RcStart, CarryPcs, IdlePcs, WithoutPair
<1>3. CASE Goto(t, "done") /\ phase[rcOutput[t]] = "idle"
      /\ phase' = [phase EXCEPT ![rcOutput[t]] = "connecting"]
  <2>1. rcPc'[t] = "done" /\ \A u \in Threads : u # t => rcPc'[u] = rcPc[u]
    BY <1>3, Going
  <2>2. /\ phase'[rcOutput[t]] = "connecting"
        /\ \A o \in Outputs : o # rcOutput[t] => phase'[o] = phase[o]
    BY <1>1, <1>3 DEF TypeOK
  <2>3. rcOutput[t] = output => reconnectThread = t /\ MemberRuns /\ rcEnc[t] = enc /\ enc # None
    BY <1>1, Mine DEF Changed
  <2>4. rcOutput[t] = output => uiPc \notin StartPcs /\ state = "Reconnecting" /\ sigPc = "idle"
    BY <2>3 DEF Turns
  <2>5. output # None => output \in Outputs
    BY DEF TypeOK
  <2>6. rcOutput[t] # output => OnAir' = OnAir
    BY <1>1, <2>2, <2>5 DEF RcStart, OnAir
  <2>7. Torn' = Torn /\ PairOfUI' = PairOfUI /\ \A u \in Threads : Carries(u)' = Carries(u)
    BY <1>1, <2>1 DEF RcStart, Torn, TearsDown, PairOfUI, Carries
  <2>8. CallsFit' /\ Listening'
    BY DEF RcStart, CallsFit, Listening
  <2>9. OutputsApart'
    <3>1. \A o \in Outputs : phase[o] # "absent" => phase'[o] # "absent"
      BY <2>2
    <3>2. Torn.output \in Outputs \cup {None}
      BY DEF Torn, NoJob, TypeOK, Job
    <3>3. QED
      BY <2>5, <2>7, <3>1, <3>2, JobOutputs DEF RcStart, OutputsApart
  <2>10. ThreadsHeld'
    <3>1. \A u \in Threads : Calm(u)
      BY <1>1, <2>1 DEF RcStart, Calm, Runs, ThreadsHeld
    <3>2. QED
      BY <2>7, <3>1, HeldFrame DEF RcStart
  <2>11. /\ MemberRuns' => MemberRuns /\ reconnectThread # t
         /\ \A u \in Threads : rcPc'[u] = "rc_enter" => rcPc[u] = "rc_enter"
         /\ \A u \in Threads : ~Runs(u) => ~Runs(u)'
    BY <1>1, <2>1 DEF RcStart, MemberRuns, Runs, TypeOK
  <2>12. Turns'
    <3>1. CASE rcOutput[t] = output
      BY <2>3, <2>4, <2>11, <3>1 DEF RcStart, Turns, TypeOK
    <3>2. CASE rcOutput[t] # output
      <4>1. output # None => phase'[output] = phase[output]
        BY <2>2, <2>5, <3>2
      <4>2. QED
        BY <2>6, <2>11, <3>2, <4>1 DEF RcStart, Turns, TypeOK
    <3>3. QED
      BY <3>1, <3>2
  <2>13. PairsApart' /\ PairsHeld'
    BY <2>7, PairsFrame DEF RcStart
  <2>14. Publishing'
    BY <1>1, <2>1, <2>11 DEF RcStart, Publishing, WithoutPair, MemberRuns, TypeOK
  <2>15. Attached'
    <3>1. \A u \in Threads :
             u # t /\ rcPc[u] \in IdlePcs => rcOutput[u] \in Outputs /\ rcOutput[u] # rcOutput[t]
      BY <1>1, Alone, WorksOn DEF Runs, IdlePcs
    <3>2. UNCHANGED <<attached, rcOutput, uiPc, output, enc>>
      BY DEF RcStart
    <3>3. OnAir' => enc # None /\ attached[output] = enc
      BY <1>1, <2>3, <2>6 DEF Attached
    <3>4. QED
      BY <1>1, <2>1, <2>2, <3>1, <3>2, <3>3 DEF Attached, IdlePcs
  <2>16. QED
    BY <2>8, <2>9, <2>10, <2>12, <2>13, <2>14, <2>15
<1>4. QED
  BY <1>2, <1>3 DEF RcStart

-----------------------------------------------------------------------------
(* The reaper. *)

LEMMA RpTakeOwn == ASSUME Before, RpTake PROVE OwnInv'
<1>1. Listening' /\ Turns' /\ Publishing' /\ Attached'
  BY DEF RpTake, Listening, Turns, MemberRuns, Runs, StartPcs, OnAir, Publishing, WithoutPair,
     UsePcs, Attached, IdlePcs
<1>2. CallsFit'
  <2>1. PICK old \in [DOMAIN jobs' -> DOMAIN jobs \ {1}] :
           \A i \in DOMAIN jobs' : jobs'[i] = jobs[old[i]]
    BY Taken DEF RpTake
  <2>2. rpJob' = jobs[1] /\ 1 \in DOMAIN jobs
        /\ rpPc' = IF jobs[1].kind = "session" THEN "join" ELSE "sd_flag"
    BY Taken DEF RpTake
  <2>3. jobs[1].kind # "session" => jobs[1].kind = "shutdown"
    BY JobOutputs, <2>2 DEF Job
  <2>4. QED
    BY <2>1, <2>2, <2>3 DEF RpTake, CallsFit, ShutdownPcs
<1>3. OutputsApart'
  <2>1. PICK old \in [DOMAIN jobs' -> DOMAIN jobs \ {1}] :
           /\ \A i \in DOMAIN jobs' : jobs'[i] = jobs[old[i]]
           /\ \A i, j \in DOMAIN jobs' : old[i] = old[j] => i = j
    BY Taken DEF RpTake
  <2>2. 1 \in DOMAIN jobs /\ Torn.output = None /\ Torn'.output \in {jobs[1].output, None}
    BY Taken DEF RpTake, Torn, TearsDown, NoJob
  <2>3. QED
    BY <2>1, <2>2 DEF RpTake, OutputsApart
<1>4. ThreadsHeld'
  <2>1. PICK old \in [DOMAIN jobs' -> DOMAIN jobs \ {1}] :
           /\ \A i \in DOMAIN jobs' : jobs'[i] = jobs[old[i]]
           /\ \A j \in DOMAIN jobs \ {1} : \E i \in DOMAIN jobs' : old[i] = j
    BY Taken DEF RpTake
  <2>2. 1 \in DOMAIN jobs /\ Torn.thread = None /\ None \notin Threads
    BY Taken, ConstantsAssumption DEF RpTake, Torn, TearsDown, NoJob
  <2>3. jobs[1].thread = None \/ Torn' = jobs[1]
    <3>1. jobs[1].kind # "session" => jobs[1].kind = "shutdown"
      BY JobOutputs, <2>2 DEF Job
    <3>2. DOMAIN jobs = 1 .. Len(jobs)
      BY DEF TypeOK
    <3>3. CASE jobs[1].kind = "session"
      BY <3>3, Taken DEF RpTake, Torn, TearsDown
    <3>4. QED
      BY <2>2, <3>1, <3>2, <3>3 DEF HandleInv
  <2>4. ASSUME NEW u \in Threads, HasSession(u) PROVE HasSession(u)'
    <3>1. CASE Fits(u, reconnectThread, output, enc)
      BY <3>1 DEF RpTake, HasSession, Fits
    <3>2. CASE \E i \in DOMAIN jobs : Fits(u, jobs[i].thread, jobs[i].output, jobs[i].enc)
      <4>1. PICK i \in DOMAIN jobs : Fits(u, jobs[i].thread, jobs[i].output, jobs[i].enc)
        BY <3>2
      <4>2. CASE i = 1
        BY <2>2, <2>3, <4>1, <4>2 DEF RpTake, HasSession, Fits
      <4>3. CASE i # 1
        BY <2>1, <4>1, <4>3 DEF RpTake, HasSession, Fits
      <4>4. QED
        BY <4>2, <4>3
    <3>3. QED
      BY <2>2, <2>4, <3>1, <3>2 DEF HasSession, Fits
  <2>5. QED
    BY <2>4 DEF RpTake, ThreadsHeld, Runs
<1>5. PairsApart'
  <2>1. PICK old \in [DOMAIN jobs' -> DOMAIN jobs \ {1}] :
           /\ \A i \in DOMAIN jobs' : jobs'[i] = jobs[old[i]]
           /\ \A i, j \in DOMAIN jobs' : old[i] = old[j] => i = j
    BY Taken DEF RpTake
  <2>2. 1 \in DOMAIN jobs /\ rpJob' = jobs[1] /\ rpJob.enc = None
    BY Taken DEF RpTake, CallsFit
  <2>3. UNCHANGED <<enc, owned, PairOfUI>> /\ \A u \in Threads : Carries(u)' = Carries(u)
    BY DEF RpTake, PairOfUI, Carries
  <2>4. QED
    BY <2>1, <2>2, <2>3 DEF PairsApart
<1>6. PairsHeld'
  <2>1. PICK old \in [DOMAIN jobs' -> DOMAIN jobs \ {1}] :
           /\ \A i \in DOMAIN jobs' : jobs'[i] = jobs[old[i]]
           /\ \A j \in DOMAIN jobs \ {1} : \E i \in DOMAIN jobs' : old[i] = j
    BY Taken DEF RpTake
  <2>2. 1 \in DOMAIN jobs /\ rpJob' = jobs[1] /\ rpJob.enc = None /\ None \notin owned
    BY Taken, ConstantsAssumption DEF RpTake, CallsFit, TypeOK
  <2>3. UNCHANGED <<enc, owned, PairOfUI>> /\ \A u \in Threads : Carries(u)' = Carries(u)
    BY DEF RpTake, PairOfUI, Carries
  <2>4. ASSUME NEW e \in owned, NEW i \in DOMAIN jobs, jobs[i].enc = e
        PROVE  rpJob'.enc = e \/ \E j \in DOMAIN jobs' : jobs'[j].enc = e
    BY <2>1, <2>2, <2>4
  <2>5. QED
    BY <2>2, <2>3, <2>4 DEF PairsHeld
<1>7. QED
  BY <1>1, <1>2, <1>3, <1>4, <1>5, <1>6

LEMMA RpShutdownOwn == ASSUME Before, RpShutdown PROVE OwnInv'
<1>1. Listening' /\ OutputsApart' /\ ThreadsHeld' /\ Turns' /\ Publishing' /\ Attached'
  BY DEF RpShutdown, Listening, OutputsApart, Torn, TearsDown, NoJob, ThreadsHeld, HasSession, Fits,
     Runs, Turns, MemberRuns, StartPcs, OnAir, Publishing, WithoutPair, UsePcs, Attached, IdlePcs
<1>2. CallsFit'
  BY DEF RpShutdown, CallsFit, ShutdownPcs, NoJob
<1>3. PairsApart'
  <2>1. rpJob.enc = None /\ rpJob'.enc = None /\ \A u \in Threads : Carries(u)' = Carries(u)
    BY DEF RpShutdown, CallsFit, ShutdownPcs, NoJob, Carries
  <2>2. QED
    BY <2>1, PairsFrame DEF RpShutdown, PairOfUI
<1>4. PairsHeld'
  <2>1. rpJob.enc = None /\ rpJob'.enc = None /\ \A u \in Threads : Carries(u)' = Carries(u)
    BY DEF RpShutdown, CallsFit, ShutdownPcs, NoJob, Carries
  <2>2. QED
    BY <2>1, PairsFrame DEF RpShutdown, PairOfUI
<1>5. QED
  BY <1>1, <1>2, <1>3, <1>4

LEMMA RpCanvasOwn == ASSUME Before, RpCanvas PROVE OwnInv'
<1>1. CallsFit' /\ Listening' /\ Turns'
  BY DEF RpCanvas, CallsFit, ShutdownPcs, UsePcs, Listening, Turns, MemberRuns, Runs, StartPcs, OnAir,
     NoJob, IdlePcs
<1>2. OutputsApart' /\ ThreadsHeld'
  BY DEF RpCanvas, OutputsApart, Torn, TearsDown, NoJob, ThreadsHeld, HasSession, Fits, Runs
<1>3. PairsApart' /\ PairsHeld'
  BY DEF RpCanvas, PairsApart, PairOfUI, Carries, PairsHeld
<1>4. Publishing' /\ Attached'
  BY DEF RpCanvas, CallsFit, ShutdownPcs, UsePcs, StartPcs, OnAir, MemberRuns, Runs, Publishing,
     WithoutPair, Attached, IdlePcs
<1>5. QED
  BY <1>1, <1>2, <1>3, <1>4

LEMMA RpDisconnectOwn == ASSUME Before, RpDisconnect PROVE OwnInv'
<1>1. CallsFit' /\ OutputsApart' /\ ThreadsHeld' /\ Turns' /\ PairsApart' /\ PairsHeld'
      /\ Publishing' /\ Attached'
  <2>1. CallsFit' /\ Turns'
    BY DEF RpDisconnect, Disconnect, CallsFit, ShutdownPcs, UsePcs, NoJob, Runs, Turns, MemberRuns,
       StartPcs, OnAir, IdlePcs
  <2>2. OutputsApart' /\ ThreadsHeld'
    BY DEF RpDisconnect, OutputsApart, Torn, TearsDown, NoJob, ThreadsHeld, HasSession, Fits, Runs
  <2>3. PairsApart' /\ PairsHeld'
    BY DEF RpDisconnect, PairsApart, PairOfUI, Carries, PairsHeld
  <2>4. Publishing' /\ Attached'
    BY DEF RpDisconnect, CallsFit, ShutdownPcs, UsePcs, Runs, MemberRuns, StartPcs, OnAir, Publishing,
       WithoutPair, Attached, IdlePcs
  <2> QED BY <2>1, <2>2, <2>3, <2>4
<1>2. Listening'
  <2>1. rpJob.output = output \/ connected = {}
    BY DEF RpDisconnect, CallsFit, Listening, ShutdownPcs
  <2>2. QED
    BY <2>1, ConstantsAssumption DEF RpDisconnect, Disconnect, Listening
<1>3. QED
  BY <1>1, <1>2

LEMMA RpDetachOwn == ASSUME Before, RpDetach PROVE OwnInv'
<1>1. CallsFit' /\ Listening' /\ OutputsApart' /\ ThreadsHeld'
  BY DEF RpDetach, DetachSession, Detached, CallsFit, ShutdownPcs, UsePcs, Listening, OutputsApart,
     Torn, TearsDown, NoJob, ThreadsHeld, HasSession, Fits, Runs
<1>2. Turns'
  <2>1. sigPc = "idle" /\ uiPc \notin StartPcs
    BY DEF RpDetach, Listening, CallsFit, ShutdownPcs, StartPcs
  <2>2. QED
    BY <2>1 DEF RpDetach, DetachSession, Turns, MemberRuns, Runs, StartPcs, OnAir
<1>3. PairsApart'
  <2>1. UNCHANGED <<PairOfUI, owned, jobs>> /\ \A u \in Threads : Carries(u)' = Carries(u)
    BY DEF RpDetach, PairOfUI, Carries
  <2>2. rpJob.enc = None /\ rpJob'.enc = enc /\ enc' = None
    BY DEF RpDetach, CallsFit, ShutdownPcs, Detached, DetachSession
  <2>3. QED
    BY <2>1, <2>2 DEF PairsApart
<1>4. PairsHeld'
  <2>1. UNCHANGED <<PairOfUI, owned, jobs>> /\ \A u \in Threads : Carries(u)' = Carries(u)
    BY DEF RpDetach, PairOfUI, Carries
  <2>2. rpJob.enc = None /\ rpJob'.enc = enc /\ None \notin owned
    BY ConstantsAssumption DEF RpDetach, CallsFit, ShutdownPcs, Detached, TypeOK
  <2>3. QED
    BY <2>1, <2>2 DEF PairsHeld
<1>5. Publishing'
  <2>1. uiPc \notin StartPcs /\ uiPc' = uiPc /\ reconnectThread' = None /\ UNCHANGED <<rcPc, rcEnc>>
    BY DEF RpDetach, CallsFit, ShutdownPcs, DetachSession, StartPcs
  <2>2. QED
    BY <2>1 DEF Publishing, MemberRuns, StartPcs
<1>6. Attached'
  <2>1. uiPc \notin StartPcs /\ uiPc' = uiPc /\ output' = None
        /\ UNCHANGED <<rcPc, rcEnc, rcOutput, phase, attached>>
    BY DEF RpDetach, CallsFit, ShutdownPcs, DetachSession, StartPcs
  <2>2. QED
    BY <2>1 DEF Attached, OnAir, StartPcs
<1>7. QED
  BY <1>1, <1>2, <1>3, <1>4, <1>5, <1>6

LEMMA RpJoinOwn == ASSUME Before, RpJoin PROVE OwnInv'
<1>1. /\ CallsFit' /\ Listening' /\ OutputsApart' /\ ThreadsHeld'
      /\ Turns' /\ PairsApart' /\ Publishing' /\ Attached'
  <2>1. CallsFit' /\ Listening'
    BY DEF RpJoin, Join, CallsFit, ShutdownPcs, UsePcs, Listening, NoJob, IdlePcs, TypeOK, HandleInv
  <2>2. OutputsApart' /\ ThreadsHeld'
    BY DEF RpJoin, Join, CallsFit, ShutdownPcs, OutputsApart, Torn, TearsDown, NoJob, ThreadsHeld,
       HasSession, Fits, Runs, IdlePcs, TypeOK, HandleInv
  <2>3. Turns' /\ PairsApart'
    BY DEF RpJoin, Join, CallsFit, ShutdownPcs, NoJob, Runs, Turns, MemberRuns, StartPcs, OnAir,
       PairsApart, PairOfUI, Carries, IdlePcs, TypeOK, HandleInv
  <2>4. Publishing' /\ Attached'
    BY DEF RpJoin, Join, CallsFit, ShutdownPcs, UsePcs, Runs, MemberRuns, StartPcs, OnAir, Publishing,
       WithoutPair, Attached, IdlePcs, TypeOK, HandleInv
  <2> QED BY <2>1, <2>2, <2>3, <2>4
<1>2. PairsHeld'
  <2>1. \A u \in Threads : Carries(u)' = Carries(u)
    <3>1. rpJob.thread \in Threads \cup {None}
      BY DEF TypeOK, Job
    <3>2. QED
      BY <3>1, Joins DEF RpJoin
  <2>2. rpJob'.enc = rpJob.enc
    BY DEF RpJoin, TypeOK, Job
  <2>3. QED
    BY <2>1, <2>2, PairsFrame DEF RpJoin, PairOfUI
<1>3. QED
  BY <1>1, <1>2

LEMMA RpForceStopOwn == ASSUME Before, RpForceStop PROVE OwnInv'
<1>1. CallsFit' /\ Listening' /\ Turns' /\ Publishing'
  BY DEF RpForceStop, ForceStop, ReleaseJobEncoders, CallsFit, ShutdownPcs, UsePcs, Listening,
     Turns, MemberRuns, Runs, StartPcs, OnAir, Publishing, WithoutPair, TypeOK
<1>2. PairsApart' /\ PairsHeld'
  BY DEF RpForceStop, ForceStop, ReleaseJobEncoders, PairsApart, PairOfUI, Carries, PairsHeld
<1>3. OutputsApart'
  <2>1. Torn'.output = Torn.output /\ \A o \in Outputs : phase[o] # "absent" => phase'[o] # "absent"
    BY DEF RpForceStop, ForceStop, ReleaseJobEncoders, Torn, TearsDown, TypeOK, Job
  <2>2. Torn.output \in Outputs \cup {None} /\ output \in Outputs \cup {None}
    BY DEF Torn, TypeOK, Job, NoJob
  <2>3. QED
    BY <2>1, <2>2, JobOutputs DEF RpForceStop, OutputsApart
<1>4. ThreadsHeld'
  <2>1. Torn.thread = None /\ None \notin Threads
    BY ConstantsAssumption DEF RpForceStop, Torn, TearsDown, HandleInv
  <2>2. QED
    BY <2>1 DEF RpForceStop, ThreadsHeld, HasSession, Fits, Runs
<1>5. Attached'
  <2>1. \A o \in Outputs : phase[o] = "idle" => phase'[o] = "idle"
    BY DEF RpForceStop, ForceStop
  <2>2. \A t \in Threads : rcPc[t] \in IdlePcs => rcOutput[t] \in Outputs
    BY WorksOn DEF Runs, IdlePcs
  <2>3. OnAir' => OnAir
    BY DEF RpForceStop, ForceStop, OnAir, TypeOK
  <2>4. QED
    BY <2>1, <2>2, <2>3 DEF RpForceStop, Attached, IdlePcs
<1>6. QED
  BY <1>1, <1>2, <1>3, <1>4, <1>5

LEMMA RpReleaseOwn == ASSUME Before, RpRelease PROVE OwnInv'
<1>1. Listening' /\ Publishing'
  BY DEF RpRelease, Listening, Publishing, MemberRuns, Runs, WithoutPair, UsePcs
<1>2. CallsFit'
  BY DEF RpRelease, CallsFit, ShutdownPcs, NoJob
<1>3. OutputsApart'
  <2>1. Torn = rpJob /\ Torn'.output = None
    BY DEF RpRelease, Torn, TearsDown, NoJob
  <2>2. \A o \in Outputs : o # rpJob.output => phase'[o] = phase[o]
    BY DEF RpRelease
  <2>3. output \in Outputs \cup {None}
    BY DEF TypeOK
  <2>4. QED
    BY <2>1, <2>2, <2>3, JobOutputs DEF RpRelease, OutputsApart
<1>4. ThreadsHeld'
  <2>1. Torn.thread = None /\ None \notin Threads
    BY ConstantsAssumption DEF RpRelease, Torn, TearsDown, HandleInv
  <2>2. QED
    BY <2>1 DEF RpRelease, ThreadsHeld, HasSession, Fits, Runs
<1>5. Turns'
  <2>1. output # None => phase'[output] = phase[output]
    BY DEF RpRelease, OutputsApart, Torn, TearsDown, TypeOK
  <2>2. QED
    BY <2>1 DEF RpRelease, Turns, MemberRuns, Runs, OnAir
<1>6. PairsApart'
  <2>1. rpJob.enc = None /\ rpJob'.enc = None /\ \A u \in Threads : Carries(u)' = Carries(u)
    BY DEF RpRelease, CallsFit, NoJob, Carries
  <2>2. QED
    BY <2>1, PairsFrame DEF RpRelease, PairOfUI
<1>7. PairsHeld'
  <2>1. rpJob.enc = None /\ rpJob'.enc = None /\ \A u \in Threads : Carries(u)' = Carries(u)
    BY DEF RpRelease, CallsFit, NoJob, Carries
  <2>2. QED
    BY <2>1, PairsFrame DEF RpRelease, PairOfUI
<1>8. Attached'
  <2>1. \A t \in Threads : rcPc[t] \in IdlePcs => rcOutput[t] \in Outputs
        /\ rcOutput[t] # rpJob.output
    BY WorksOn, Gone DEF RpRelease, Runs, IdlePcs
  <2>2. output # None => output \in Outputs /\ output # rpJob.output
    BY DEF RpRelease, OutputsApart, Torn, TearsDown, TypeOK
  <2>3. uiPc = "so_start" => output # None
    BY DEF CallsFit, UsePcs
  <2>4. QED
    BY <2>1, <2>2, <2>3 DEF RpRelease, Attached, IdlePcs, OnAir
<1>9. QED
  BY <1>1, <1>2, <1>3, <1>4, <1>5, <1>6, <1>7, <1>8

-----------------------------------------------------------------------------

LEMMA InitOwn == Init => OwnInv
<1> SUFFICES ASSUME Init PROVE OwnInv
  OBVIOUS
<1>1. DOMAIN jobs = {} /\ ~OnAir /\ ~MemberRuns /\ \A t \in Threads : rcPc[t] = "free" /\ ~Runs(t)
  BY DEF Init, OnAir, MemberRuns, Runs
<1>2. CallsFit /\ Listening /\ OutputsApart
  BY <1>1 DEF Init, CallsFit, Listening, OutputsApart, Torn, TearsDown, NoJob, ShutdownPcs, UsePcs
<1>3. ThreadsHeld /\ Turns
  BY <1>1 DEF Init, ThreadsHeld, Turns, StartPcs
<1>4. PairsApart /\ PairsHeld
  BY <1>1 DEF Init, PairsApart, PairsHeld, PairOfUI, Carries, NoJob
<1>5. Publishing /\ Attached
  BY <1>1 DEF Init, Publishing, Attached, IdlePcs
<1>6. QED
  BY <1>2, <1>3, <1>4, <1>5

LEMMA NextOwn == Before /\ [Next]_vars => OwnInv'
<1> SUFFICES ASSUME Before, [Next]_vars PROVE OwnInv'
  OBVIOUS
<1>1. CASE UIBegins
  BY <1>1, StartOwn, StopOwn, RemoveCanvasOwn, DropOwn DEF UIBegins
<1>2. CASE UIContinues
  BY <1>2, StartFlagOwn, StartStealOwn, StartJoinOwn, StartResolveOwn, StartOutputOwn,
     StartEncodersOwn, StartPublishOwn, StartAttachOwn, StartOBSOwn, StartFailedOwn, StartRetryOwn,
     StopCheckOwn, StopDisconnectOwn, StopDetachOwn DEF UIContinues
<1>3. CASE SigStep
  BY <1>3, StopSignalOwn, StopLockOwn, StopJoinOwn, StopSpawnOwn DEF SigStep
<1>4. CASE ReaperStep
  BY <1>4, RpTakeOwn, RpShutdownOwn, RpCanvasOwn, RpDisconnectOwn, RpDetachOwn, RpJoinOwn,
     RpForceStopOwn, RpReleaseOwn DEF ReaperStep
<1>5. CASE OutputProgress \/ \E o \in Outputs : ConnectionLost(o)
  BY <1>5, OutputConnectedOwn, ConnectFailedOwn, ConnectionLostOwn, ActiveClearsOwn
     DEF OutputProgress
<1>6. CASE \E t \in Threads : RcStep(t)
  <2>1. PICK t \in Threads : RcStep(t)
    BY <1>6
  <2>2. QED
    BY <2>1, RcEnterOwn, RcLoopOwn, RcExhaustedOwn, RcRefusedOwn, RcGoneOwn, RcWaitOwn, RcCountOwn,
       RcReleaseOwn, RcInactiveOwn, RcGuard1Own, RcCreateOwn, RcDiscardOwn, RcUnwatchOwn,
       RcEncFailOwn, RcConnectOwn, RcRemovedOwn, RcGuard2Own, RcAttachOwn, RcStartOwn, RcFailedOwn
       DEF RcStep
<1>7. CASE UNCHANGED vars
  <2>1. CallsFit' /\ Listening' /\ Turns'
    BY <1>7 DEF CallsFit, Listening, Turns, MemberRuns, Runs, OnAir
  <2>2. OutputsApart' /\ ThreadsHeld'
    BY <1>7 DEF OutputsApart, ThreadsHeld, HasSession, Fits, Runs, Torn, TearsDown
  <2>3. PairsApart' /\ PairsHeld'
    BY <1>7 DEF PairsApart, PairsHeld, PairOfUI, Carries
  <2>4. Publishing' /\ Attached'
    BY <1>7 DEF Publishing, Attached, MemberRuns, Runs, OnAir
  <2>5. QED
    BY <2>1, <2>2, <2>3, <2>4
<1>8. QED
  BY <1>1, <1>2, <1>3, <1>4, <1>5, <1>6, <1>7 DEF Next

(* Sessions are kept apart, in every state of the controller. *)
THEOREM OwnInvCorrect == ASSUME OrdinaryCalls PROVE Spec => []OwnInv
<1>1. Init => TypeOK /\ HandleInv /\ OwnInv
  BY InitTypeOK, InitHandleInv, InitOwn
<1>2. (TypeOK /\ HandleInv /\ OwnInv) /\ [Next]_vars => (TypeOK /\ HandleInv /\ OwnInv)'
  BY NextTypeOK, NextHandleInv, NextOwn
<1>3. QED
  BY <1>1, <1>2, PTL DEF Spec

LEMMA OwnersKnown == ASSUME TypeOK, OwnInv PROVE OneOwnerPerEncoder
<1> SUFFICES ASSUME NEW e \in Encoders
             PROVE  IF e \in owned THEN \E p \in EncoderOwners(e) : EncoderOwners(e) = {p}
                                   ELSE EncoderOwners(e) = {}
  BY DEF OneOwnerPerEncoder
<1>1. e # None
  BY ConstantsAssumption
<1>2. /\ enc = e => EncoderOwners(e) = {<<"member">>}
      /\ PairOfUI = e => EncoderOwners(e) = {<<"ui">>}
      /\ rpJob.enc = e => EncoderOwners(e) = {<<"reaper">>}
  BY <1>1 DEF PairsApart, PairOfUI, Carries, EncoderOwners
<1>3. ASSUME NEW t \in Threads, Carries(t) = e PROVE EncoderOwners(e) = {<<"rc", t>>}
  BY <1>1, <1>3 DEF PairsApart, PairOfUI, Carries, EncoderOwners
<1>4. ASSUME NEW i \in DOMAIN jobs, jobs[i].enc = e PROVE EncoderOwners(e) = {<<"job", i>>}
  BY <1>1, <1>4 DEF PairsApart, PairOfUI, Carries, EncoderOwners
<1>5. CASE e \in owned
  BY <1>2, <1>3, <1>4, <1>5 DEF PairsHeld
<1>6. CASE e \notin owned
  BY <1>1, <1>6 DEF PairsApart, PairOfUI, Carries, EncoderOwners
<1>7. QED
  BY <1>5, <1>6

LEMMA ReaperAlone == ASSUME Before, ~StopsMeet PROVE ReaperOwnsOutput
<1> SUFFICES ASSUME rpPc \in {"force_stop", "release"}, rpJob.output # None
             PROVE  /\ output # rpJob.output /\ uiOutput # rpJob.output
                    /\ rpJob.output \notin connected /\ sigOutput # rpJob.output
                    /\ \A t \in Threads : rcOutput[t] = rpJob.output => rcPc[t] \in {"free", "done"}
  BY DEF ReaperOwnsOutput
<1>1. output # rpJob.output
  BY DEF OutputsApart, Torn, TearsDown
<1>2. uiOutput # rpJob.output
  BY <1>1 DEF CallsFit
<1>3. rpJob.output \notin connected /\ sigOutput # rpJob.output
  BY <1>1 DEF Listening
<1>4. \A t \in Threads : rcOutput[t] = rpJob.output => rcPc[t] \in {"free", "done"}
  BY Gone DEF Runs, ThreadsHeld
<1>5. QED
  BY <1>1, <1>2, <1>3, <1>4

LEMMA PairsOwned ==
    Before => OneOwnerPerEncoder /\ NoUseAfterRelease /\ StreamsPublishedEncoders
<1> SUFFICES ASSUME Before PROVE NoUseAfterRelease /\ StreamsPublishedEncoders
  BY OwnersKnown
<1>1. NoUseAfterRelease
  <2>1. uiPc \in {"so_attach", "so_start", "so_failed"} => uiEnc \in owned
    BY DEF Publishing, PairsApart
  <2>2. ASSUME NEW t \in Threads, rcPc[t] \in {"rc_attach", "rc_start"} PROVE rcEnc[t] \in owned
    <3>1. HasSession(t)
      BY <2>2 DEF ThreadsHeld, Runs
    <3>2. QED
      BY <2>2, <3>1 DEF HasSession, Fits, PairsApart, Torn, NoJob
  <2>3. QED
    BY <2>1, <2>2 DEF NoUseAfterRelease
<1>2. StreamsPublishedEncoders
  BY DEF StreamsPublishedEncoders, Attached, OnAir
<1>3. QED
  BY <1>1, <1>2

(* As long as the UI thread makes the ordinary calls (start, stop, drop, canvas removals):
   whatever the threads, the output, the handlers and the reaper do, each encoder pair has
   one owner who will release it, none is used after that, and what is on air is what the
   controller published. *)
THEOREM PairsOwnedCorrect ==
    ASSUME OrdinaryCalls
    PROVE  Spec => [](OneOwnerPerEncoder /\ NoUseAfterRelease /\ StreamsPublishedEncoders)
<1>1. TypeOK /\ HandleInv /\ OwnInv =>
          OneOwnerPerEncoder /\ NoUseAfterRelease /\ StreamsPublishedEncoders
  BY PairsOwned
<1>2. QED
  BY <1>1, TypeCorrect, HandleInvCorrect, OwnInvCorrect, PTL

(* Besides, an output that is torn down is the reaper's alone, as long as no canvas removal
   can stop a controller the reaper shuts down. *)
THEOREM OwnedCorrect == ASSUME OrdinaryCalls, ~StopsMeet PROVE Spec => []SessionOwned
<1>1. TypeOK /\ HandleInv /\ OwnInv => SessionOwned
  BY PairsOwned, ReaperAlone DEF SessionOwned
<1>2. QED
  BY <1>1, TypeCorrect, HandleInvCorrect, OwnInvCorrect, PTL

-----------------------------------------------------------------------------
(* The controller implements EndpointSession. *)

(* What the dock sees of the output. *)
Air == IF output \notin connected THEN "off"
       ELSE CASE phase[output] = "connecting" -> "trying"
              [] phase[output] = "active" -> "on"
              [] OTHER -> "off"

(* An action of EndpointSession. *)
Shown ==
    \/ UNCHANGED <<state, Air>>
    \/ state \in {"Idle", "FailedHard"} /\ state' = "Starting" /\ UNCHANGED Air
    \/ /\ state \in {"Starting", "Reconnecting"} /\ Air = "off" /\ Air' = "trying"
       /\ UNCHANGED state
    \/ Air = "trying" /\ Air' = "on" /\ state' = "Live"
    \/ Air # "off" /\ Air' = "off" /\ UNCHANGED state
    \/ /\ state \in {"Starting", "Live", "Reconnecting"} /\ Air = "off"
       /\ state' = "Reconnecting" /\ UNCHANGED Air
    \/ state # "Idle" /\ Air = "off" /\ state' = "FailedHard" /\ UNCHANGED Air
    \/ state' = "Idle" /\ Air' = "off"

LEMMA ShownIs == ASSUME Shown PROVE [Session!Next]_(Session!vars)
<1>1. Session!vars = <<state, Air>> /\ Session!vars' = <<state', Air'>>
  BY DEF Session!vars, Air
<1>2. CASE UNCHANGED <<state, Air>>
  BY <1>1, <1>2
<1>3. CASE \/ Session!Start \/ Session!Try \/ Session!GoLive \/ Session!Lose
           \/ Session!Reconnect \/ Session!FailHard \/ Session!BecomeIdle
  BY <1>3 DEF Session!Next
<1>4. QED
  BY <1>2, <1>3 DEF Shown, Air, Session!Start, Session!Try, Session!GoLive, Session!Lose,
     Session!Reconnect, Session!FailHard, Session!BecomeIdle


(* Steps nobody sees. *)
LEMMA Unseen == ASSUME UNCHANGED <<state, output, connected, phase>> PROVE Shown
BY DEF Shown, Air

(* Nothing is seen on air unless the controller's output connects or streams. *)
LEMMA OffAir ==
    ASSUME Before
    PROVE  /\ (~OnAir <=> Air = "off") \/ output \notin connected
           /\ ~OnAir => Air = "off"
           /\ output \notin connected => Air = "off"
BY DEF Air, OnAir, Listening

LEMMA UIShown == ASSUME Before, UIBegins \/ UIContinues PROVE Shown
<1>1. CASE Start
  <2>1. state \in {"Idle", "FailedHard"} /\ state' = "Starting"
    BY <1>1 DEF Start, UICall, StartCall, OrdinaryCalls, TypeOK, OutputState
  <2>2. QED
    BY <1>1, <2>1 DEF Start, Shown, Air
<1>2. CASE Stop \/ Drop
  BY <1>2, Unseen DEF Stop, Drop
<1>3. CASE RemoveCanvas
  BY <1>3, Unseen DEF RemoveCanvas
<1>4. CASE StartFlag \/ StartSteal \/ StartJoin \/ StartPublish \/ StartAttach \/ StopCheck
  BY <1>4, Unseen DEF StartFlag, StartSteal, StartJoin, StartPublish, StartAttach, StopCheck
<1>5. ASSUME uiPc \in StartPcs PROVE state = "Starting" /\ Air = "off"
  BY <1>5, OffAir DEF Turns, OnAir
<1>6. CASE FailHard(TRUE) /\ uiPc \in StartPcs /\ UNCHANGED <<output, connected, phase>>
  BY <1>5, <1>6 DEF FailHard, Shown, Air
<1>7. CASE StartResolve
  BY <1>6, <1>7, Unseen DEF StartResolve, StartPcs
<1>8. CASE StartOutput
  <2>1. CASE \E o \in Outputs : /\ phase' = [phase EXCEPT ![o] = "idle"]
                              /\ output' = o /\ UNCHANGED state
    <3>1. Air' = "off"
      BY <2>1 DEF Air, TypeOK
    <3>2. QED
      BY <1>5, <1>8, <2>1, <3>1 DEF StartOutput, StartPcs, Shown
  <2>2. CASE FailHard(FALSE) /\ UNCHANGED <<output, connected, phase>>
    BY <1>5, <1>8, <2>2 DEF StartOutput, StartPcs, FailHard, Shown, Air
  <2>3. QED
    BY <1>8, <2>1, <2>2, Unseen DEF StartOutput
<1>9. CASE StartEncoders
  BY <1>6, <1>9, Unseen DEF StartEncoders, StartPcs
<1>10. CASE StartOBS
  <2>1. CASE phase[output] = "idle" /\ phase' = [phase EXCEPT ![output] = "connecting"]
    <3>1. output \in Outputs /\ UNCHANGED <<state, output, connected>>
      BY <1>10 DEF StartOBS, CallsFit, UsePcs, TypeOK
    <3>2. IF output \in connected THEN Air' = "trying" ELSE Air' = "off"
      BY <2>1, <3>1 DEF Air, TypeOK
    <3>3. QED
      BY <1>5, <1>10, <3>1, <3>2 DEF StartOBS, StartPcs, Shown
  <2>2. QED
    BY <1>10, <2>1, Unseen DEF StartOBS, CallsFit, UsePcs
<1>11. CASE StartFailed
  <2>1. uiPc \in StartPcs /\ state' \in {state, "FailedHard"}
        /\ UNCHANGED <<output, connected, phase>>
    BY <1>11 DEF StartFailed, StartPcs
  <2>2. QED
    BY <1>5, <2>1 DEF Shown, Air
<1>12. CASE StartRetry
  BY <1>6, <1>12, Unseen DEF StartRetry, StartPcs
<1>13. CASE StopDisconnect
  <2>1. UNCHANGED state /\ Air' \in {Air, "off"}
    BY <1>13 DEF StopDisconnect, Disconnect, Air, CallsFit
  <2>2. QED
    BY <2>1 DEF Shown
<1>14. CASE StopDetach
  <2>1. CASE DetachSession /\ UNCHANGED connected
    BY <2>1, ConstantsAssumption DEF DetachSession, Shown, Air, TypeOK
  <2>2. QED
    BY <1>14, <2>1, Unseen DEF StopDetach
<1>15. QED
  BY <1>1, <1>2, <1>3, <1>4, <1>7, <1>8, <1>9, <1>10, <1>11, <1>12, <1>13, <1>14
     DEF UIBegins, UIContinues

LEMMA SigShown == ASSUME Before, SigStep PROVE Shown
<1>1. /\ sigPc # "idle" => Air = "off" /\ state \in {"Live", "Starting", "Reconnecting"}
  BY OffAir DEF Turns, OnAir
<1>2. CASE StopSignal
  <2>1. sigPc # "idle" /\ state' \in {state, "Idle", "FailedHard"}
        /\ UNCHANGED <<output, connected, phase>>
    BY <1>2 DEF StopSignal, FailHard
  <2>2. QED
    BY <1>1, <2>1 DEF Shown, Air
<1>3. CASE StopLock
  BY <1>1, <1>3 DEF StopLock, Shown, Air
<1>4. CASE StopJoin
  BY <1>4, Unseen DEF StopJoin
<1>5. CASE StopSpawn
  BY <1>1, <1>5 DEF StopSpawn, Shown, Air
<1>6. QED
  BY <1>2, <1>3, <1>4, <1>5 DEF SigStep

LEMMA OutputShown ==
    ASSUME Before, NEW o \in Outputs,
           OutputConnected(o) \/ ConnectFailed(o) \/ ActiveClears(o) \/ ConnectionLost(o)
    PROVE  Shown
<1>1. UNCHANGED <<output, connected>> /\ (o \in connected => o = output)
      /\ phase \in [Outputs -> Phase]
  BY DEF OutputConnected, ConnectFailed, ConnectionLost, OutputStops, ActiveClears, Listening,
        TypeOK
<1>2. CASE OutputConnected(o)
  <2>1. phase' = [phase EXCEPT ![o] = "active"] /\ phase[o] = "connecting"
    BY <1>2 DEF OutputConnected
  <2>2. o \in connected => Air = "trying" /\ Air' = "on" /\ state' = "Live"
    BY <1>1, <1>2, <2>1 DEF OutputConnected, Air
  <2>3. o \notin connected => UNCHANGED <<state, Air>>
    BY <1>1, <1>2, <2>1 DEF OutputConnected, Air
  <2>4. QED
    BY <2>2, <2>3 DEF Shown
<1>3. ASSUME NEW to \in {"idle", "closing"}, phase' = [phase EXCEPT ![o] = to], UNCHANGED state
      PROVE  Shown
  <2>1. Air' \in {Air, "off"}
    BY <1>1, <1>3 DEF Air
  <2>2. QED
    BY <1>3, <2>1 DEF Shown
<1>4. QED
  BY <1>2, <1>3 DEF ConnectFailed, ConnectionLost, OutputStops, ActiveClears

LEMMA RcShown == ASSUME Before, NEW t \in Threads, RcStep(t) PROVE Shown
<1>1. ASSUME Runs(t), rcPc[t] # "rc_enter", ~Changed(t)
      PROVE  state = "Reconnecting" /\ Air = "off"
  BY <1>1, Mine, OffAir DEF Turns
<1>2. CASE GiveUp(t) /\ Runs(t) /\ rcPc[t] # "rc_enter"
  BY <1>1, <1>2, Unseen DEF GiveUp, FailHard, Shown, Air
<1>3. CASE RcExhausted(t) \/ RcRefused(t) \/ RcGone(t)
  BY <1>2, <1>3 DEF RcExhausted, RcRefused, RcGone, At, Runs
<1>4. CASE RcStart(t)
  <2>1. CASE phase' = [phase EXCEPT ![rcOutput[t]] = "connecting"]
    <3>1. UNCHANGED <<state, output, connected>> /\ Runs(t) /\ rcPc[t] # "rc_enter"
      BY <1>4 DEF RcStart, At, Runs
    <3>2. CASE Changed(t)
      BY <2>1, <3>1, <3>2 DEF Changed, Shown, Air, TypeOK
    <3>3. CASE ~Changed(t)
      <4>1. Air' \in {"trying", "off"}
        BY <2>1, <3>1, <3>3 DEF Changed, Air, TypeOK
      <4>2. QED
        BY <1>1, <3>1, <3>3, <4>1 DEF Shown
    <3>4. QED
      BY <3>2, <3>3
  <2>2. QED
    BY <1>4, <2>1, Unseen DEF RcStart
<1>5. CASE \/ RcEnter(t) \/ RcLoop(t) \/ RcWait(t) \/ RcCount(t) \/ RcRelease(t) \/ RcInactive(t)
           \/ RcGuard1(t) \/ RcCreate(t) \/ RcDiscard(t) \/ RcUnwatch(t)
  BY <1>5, Unseen DEF RcEnter, RcLoop, RcWait, RcCount, RcRelease, RcInactive, RcGuard1, RcCreate,
     RcDiscard, RcUnwatch, Looks
<1>6. CASE \/ RcEncFail(t) \/ RcConnect(t) \/ RcRemoved(t) \/ RcGuard2(t) \/ RcAttach(t)
           \/ RcFailed(t)
  BY <1>6, Unseen DEF RcEncFail, RcConnect, RcRemoved, RcGuard2, RcAttach, RcFailed
<1>7. QED
  BY <1>3, <1>4, <1>5, <1>6 DEF RcStep

LEMMA ReaperShown == ASSUME Before, ReaperStep PROVE Shown
<1>1. CASE RpTake \/ RpShutdown \/ RpCanvas \/ RpJoin
  BY <1>1, Unseen DEF RpTake, RpShutdown, RpCanvas, RpJoin
<1>2. CASE RpDisconnect
  <2>1. UNCHANGED state /\ Air' \in {Air, "off"}
    BY <1>2 DEF RpDisconnect, Disconnect, Air, CallsFit
  <2>2. QED
    BY <2>1 DEF Shown
<1>3. CASE RpDetach
  BY <1>3, ConstantsAssumption DEF RpDetach, DetachSession, Shown, Air, TypeOK
<1>4. ASSUME rpPc \in {"force_stop", "release"}, UNCHANGED <<state, output, connected>>,
             output # None => phase'[output] = phase[output]
      PROVE  Shown
  BY <1>4, ConstantsAssumption DEF Shown, Air, Listening
<1>5. rpPc \in {"force_stop", "release"} => output # rpJob.output \/ output = None
  BY DEF OutputsApart, Torn, TearsDown
<1>6. CASE RpForceStop
  BY <1>4, <1>5, <1>6 DEF RpForceStop, ForceStop, TypeOK
<1>7. CASE RpRelease
  BY <1>4, <1>5, <1>7 DEF RpRelease, TypeOK
<1>8. QED
  BY <1>1, <1>2, <1>3, <1>6, <1>7 DEF ReaperStep

LEMMA NextShown == ASSUME Before, [Next]_vars PROVE Shown
<1>1. CASE UNCHANGED vars
  BY <1>1, Unseen
<1>2. CASE Next
  BY <1>2, UIShown, SigShown, OutputShown, RcShown, ReaperShown DEF Next, OutputProgress
<1>3. QED
  BY <1>1, <1>2

(* Seen from the dock, the controller with all its threads is EndpointSession: a shown
   state changes only in the ways that module lists, each with what the output does at
   that moment, for any number of outputs, threads and canvases and any order of their
   steps, as long as the UI thread makes the ordinary calls. *)
THEOREM SessionRefined == ASSUME OrdinaryCalls PROVE Spec => ImplementsSession
<1>1. Init => Session!Init
  BY ConstantsAssumption DEF Init, Session!Init
<1>2. TypeOK /\ HandleInv /\ OwnInv /\ [Next]_vars => [Session!Next]_(Session!vars)
  BY NextShown, ShownIs
<1>3. QED
  BY <1>1, <1>2, TypeCorrect, HandleInvCorrect, OwnInvCorrect, PTL
     DEF Spec, ImplementsSession, Session!Spec

-----------------------------------------------------------------------------
(* What the shown state means. *)

(* stop() or shutdown_blocking() is about to make the controller Idle. *)
Stopping == \/ uiPc \in {"st_check", "st_disconnect", "st_detach"}
            \/ rpPc \in {"sd_canvas", "sd_disconnect", "sd_detach"}

(* The controller hears its output, until it lets go of it. *)
Heard == output # None /\ output \notin connected => uiPc = "st_detach" \/ rpPc = "sd_detach"

(* A reconnect thread is told to end only by what takes the state out of Reconnecting,
   or before the next one starts. *)
Told == stopReconnect /\ state = "Reconnecting" => sigPc = "hs_join" \/ Stopping

(* It ends after a discard only when it was told to. *)
Doomed ==
    MemberRuns /\ rcPc[reconnectThread] \in {"rc_discard", "rc_unwatch"}
               /\ rcThen[reconnectThread] = "done" => stopReconnect

StateInv == LiveIsOnAir /\ ReconnectingHasDriver /\ Heard /\ Told /\ Doomed

(* A step from a good state, to one that is known to be well typed and owned. *)
Steady == Before /\ StateInv /\ TypeOK' /\ OwnInv'

USE DEF StateInv, Steady

(* Neither Live nor Reconnecting, and not on air. *)
LEMMA Resting ==
    ASSUME Steady, state' \notin {"Live", "Reconnecting"}, Heard',
           output' # None => phase'[output'] # "active"
    PROVE  StateInv'
<1>1. LiveIsOnAir' /\ ReconnectingHasDriver' /\ Told'
  BY DEF LiveIsOnAir, ReconnectingHasDriver, Told, Listening
<1>2. Doomed'
  BY DEF Doomed, Turns
<1>3. QED
  BY <1>1, <1>2

LEMMA StartKeepsState == ASSUME Steady, Start PROVE StateInv'
<1>1. Heard'
  BY DEF Start, UICall, Heard
<1>2. state' = "Starting" /\ uiPc' = "so_flag"
  BY DEF Start
<1>3. output' # None => phase'[output'] # "active"
  BY <1>2 DEF Turns, StartPcs
<1>4. QED
  BY <1>1, <1>2, <1>3, Resting

LEMMA StartsKeepState ==
    ASSUME Steady,
           \/ StartFlag \/ StartSteal \/ StartJoin \/ StartResolve \/ StartOutput \/ StartEncoders
           \/ StartPublish \/ StartAttach \/ StartOBS \/ StartFailed \/ StartRetry
    PROVE  StateInv'
<1>1. uiPc \in StartPcs /\ uiPc' \notin {"st_check", "st_disconnect", "st_detach"}
  BY DEF StartFlag, StartSteal, StartJoin, StartResolve, StartOutput, StartEncoders, StartPublish,
     StartAttach, StartOBS, StartFailed, StartRetry, StartPcs
<1>2. state' \in {"Starting", "FailedHard"}
  BY <1>1 DEF StartFlag, StartSteal, StartJoin, StartResolve, StartOutput, StartEncoders,
     StartPublish, StartAttach, StartOBS, StartFailed, StartRetry, FailHard, Turns
<1>3. CASE UNCHANGED <<output, connected, phase, rpPc>>
  BY <1>1, <1>2, <1>3, Resting DEF Heard, Turns, StartPcs
<1>4. CASE StartOutput
  <2>1. CASE \E o \in Outputs : /\ phase' = [phase EXCEPT ![o] = "idle"] /\ output' = o
                                /\ connected' = connected \cup {o}
    BY <1>2, <2>1, Resting DEF Heard, TypeOK
  <2>2. QED
    BY <1>3, <1>4, <2>1 DEF StartOutput
<1>5. CASE StartOBS
  <2>1. CASE phase[output] = "idle" /\ phase' = [phase EXCEPT ![output] = "connecting"]
    <3>1. UNCHANGED <<output, connected, rpPc>>
      BY <1>5 DEF StartOBS
    <3>2. Heard' /\ (output' # None => phase'[output'] = "connecting")
      BY <1>1, <2>1, <3>1 DEF Heard, StartPcs, TypeOK
    <3>3. QED
      BY <1>2, <3>2, Resting
  <2>2. QED
    BY <1>3, <1>5, <2>1 DEF StartOBS, CallsFit, UsePcs
<1>6. QED
  BY <1>3, <1>4, <1>5 DEF StartFlag, StartSteal, StartJoin, StartResolve, StartEncoders,
     StartPublish, StartAttach, StartFailed, StartRetry

LEMMA StopKeepsState ==
    ASSUME Steady, Stop \/ RemoveCanvas \/ Drop \/ StopCheck \/ StopDisconnect \/ StopDetach
    PROVE  StateInv'
<1>1. CASE Stop
  BY <1>1 DEF Stop, UICall, LiveIsOnAir, ReconnectingHasDriver, Heard, Told, Stopping, Doomed
<1>2. CASE Drop
  BY <1>2 DEF Drop, LiveIsOnAir, ReconnectingHasDriver, Heard, Told, Stopping, Doomed, MemberRuns,
     Runs
<1>3. CASE StopCheck
  BY <1>3 DEF StopCheck, NothingToStop, LiveIsOnAir, ReconnectingHasDriver, Heard, Told, Stopping,
     Doomed, MemberRuns, Runs
<1>4. CASE StopDisconnect
  BY <1>4 DEF StopDisconnect, Disconnect, LiveIsOnAir, ReconnectingHasDriver, Heard, Told, Stopping,
     Doomed, MemberRuns, Runs
<1>5. CASE StopDetach
  <2>1. state' = "Idle" /\ output' = None
    BY <1>5 DEF StopDetach, NothingToStop, DetachSession
  <2>2. QED
    BY <2>1, Resting DEF Heard
<1>6. CASE RemoveCanvas
  BY <1>6 DEF RemoveCanvas, LiveIsOnAir, ReconnectingHasDriver, Heard, Told, Stopping, Doomed,
     MemberRuns, Runs
<1>7. QED
  BY <1>1, <1>2, <1>3, <1>4, <1>5, <1>6

LEMMA SigKeepsState == ASSUME Steady, SigStep PROVE StateInv'
<1>1. UNCHANGED <<output, connected, phase, uiPc, rpPc>> /\ sigPc # "idle" /\ ~OnAir /\ Heard'
  BY DEF SigStep, StopSignal, StopLock, StopJoin, StopSpawn, Turns, Heard
<1>2. output' # None => phase'[output'] # "active"
  BY <1>1 DEF OnAir
<1>3. CASE state' \notin {"Live", "Reconnecting"}
  BY <1>1, <1>2, <1>3, Resting
<1>4. CASE StopSignal
  <2>1. CASE sigPc' = "hs_lock" /\ UNCHANGED <<state, stopReconnect, reconnectThread>>
    <3>1. LiveIsOnAir' /\ ReconnectingHasDriver'
      BY <1>1, <2>1 DEF LiveIsOnAir, ReconnectingHasDriver
    <3>2. Told' /\ Doomed'
      BY <1>1, <1>4, <2>1 DEF StopSignal, Told, Stopping, Doomed, Turns
    <3>3. QED
      BY <1>1, <3>1, <3>2
  <2>2. QED
    BY <1>3, <1>4, <2>1 DEF StopSignal, FailHard
<1>5. CASE StopLock
  <2>1. LiveIsOnAir' /\ ReconnectingHasDriver'
    BY <1>1, <1>2, <1>5 DEF StopLock, LiveIsOnAir, ReconnectingHasDriver, Listening
  <2>2. Told' /\ Doomed'
    BY <1>5 DEF StopLock, Told, Doomed, MemberRuns
  <2>3. QED
    BY <1>1, <2>1, <2>2
<1>6. CASE StopJoin
  <2>1. state = "Reconnecting" /\ UNCHANGED state /\ sigPc' = "hs_spawn" /\ ~stopReconnect'
    BY <1>6 DEF StopJoin, Turns
  <2>2. LiveIsOnAir' /\ ReconnectingHasDriver' /\ Told'
    BY <1>1, <1>2, <2>1 DEF LiveIsOnAir, ReconnectingHasDriver, Told, Listening
  <2>3. Doomed'
    BY <2>1 DEF Doomed, Turns
  <2>4. QED
    BY <1>1, <2>2, <2>3
<1>7. CASE StopSpawn
  <2>1. CASE \E t \in Threads : reconnectThread' = t /\ rcPc' = [rcPc EXCEPT ![t] = "rc_enter"]
    <3>1. UNCHANGED stopReconnect /\ reconnectThread' # None /\ rcPc'[reconnectThread'] = "rc_enter"
          /\ state = "Reconnecting" /\ sigPc = "hs_spawn"
      BY <1>7, <2>1, ConstantsAssumption DEF StopSpawn, Turns, TypeOK
    <3>2. state' \in {state, "Idle"}
      BY <1>7 DEF StopSpawn
    <3>3. LiveIsOnAir' /\ ReconnectingHasDriver'
      BY <1>1, <1>2, <3>1, <3>2 DEF LiveIsOnAir, ReconnectingHasDriver, Listening
    <3>4. Told' /\ Doomed'
      BY <1>1, <3>1, <3>2 DEF Told, Stopping, Doomed
    <3>5. QED
      BY <1>1, <3>3, <3>4
  <2>2. QED
    BY <1>3, <1>7, <2>1 DEF StopSpawn
<1>8. QED
  BY <1>4, <1>5, <1>6, <1>7 DEF SigStep

LEMMA OutputKeepsState ==
    ASSUME Steady, NEW o \in Outputs,
           OutputConnected(o) \/ ConnectFailed(o) \/ ActiveClears(o) \/ ConnectionLost(o)
    PROVE  StateInv'
<1>1. /\ UNCHANGED <<output, connected, stopReconnect, reconnectThread, rcPc, rcThen, uiPc, rpPc>>
      /\ o \in connected => o = output
  BY DEF OutputConnected, ConnectFailed, ConnectionLost, OutputStops, ActiveClears, Listening
<1>2. Heard' /\ Doomed'
  BY <1>1 DEF Heard, Doomed, MemberRuns, Runs
<1>3. CASE OutputConnected(o)
  <2>1. phase' = [phase EXCEPT ![o] = "active"] /\ phase[o] = "connecting" /\ UNCHANGED sigPc
        /\ state' = IF o \in connected THEN "Live" ELSE state
    BY <1>3 DEF OutputConnected
  <2>2. LiveIsOnAir'
    BY <1>1, <2>1, ConstantsAssumption DEF LiveIsOnAir, TypeOK, Listening
  <2>3. ReconnectingHasDriver'
    BY <1>1, <2>1 DEF ReconnectingHasDriver, Heard, TypeOK
  <2>4. Told'
    BY <1>1, <2>1 DEF Told, Stopping
  <2>5. QED
    BY <1>2, <2>2, <2>3, <2>4
<1>4. ASSUME NEW from \in {"connecting", "active"}, NEW to \in {"idle", "closing"},
             OutputStops(o, from, to)
      PROVE  StateInv'
  <2>1. /\ phase' = [phase EXCEPT ![o] = to] /\ phase[o] = from /\ UNCHANGED state
        /\ IF o \in connected THEN sigPc = "idle" /\ sigPc' = "hs_enter" ELSE UNCHANGED sigPc
    BY <1>4 DEF OutputStops
  <2>2. LiveIsOnAir'
    BY <1>1, <2>1 DEF LiveIsOnAir, TypeOK
  <2>3. ReconnectingHasDriver'
    BY <1>1, <2>1 DEF ReconnectingHasDriver, Heard, TypeOK
  <2>4. Told'
    BY <1>1, <2>1 DEF Told, Stopping
  <2>5. QED
    BY <1>2, <2>2, <2>3, <2>4
<1>5. CASE ActiveClears(o)
  <2>1. phase' = [phase EXCEPT ![o] = "idle"] /\ phase[o] = "closing" /\ UNCHANGED <<state, sigPc>>
    BY <1>5 DEF ActiveClears
  <2>2. LiveIsOnAir' /\ ReconnectingHasDriver' /\ Told'
    BY <1>1, <2>1 DEF LiveIsOnAir, ReconnectingHasDriver, Told, Stopping, TypeOK
  <2>3. QED
    BY <1>2, <2>2
<1>6. QED
  BY <1>3, <1>4, <1>5 DEF ConnectFailed, ConnectionLost

(* How the thread of the controller comes to its end. *)
LEMMA MemberEnds ==
    ASSUME Before, StateInv, reconnectThread \in Threads, RcStep(reconnectThread),
           rcPc'[reconnectThread] = "done"
    PROVE  \/ Stopping \/ state' = "FailedHard"
           \/ output # None /\ phase'[output] = "connecting"
<1> DEFINE t == reconnectThread
<1>1. MemberRuns /\ Runs(t)
  BY ConstantsAssumption DEF MemberRuns, Runs, RcStep, At, RcEnter, RcLoop, RcExhausted, RcRefused,
     RcGone, RcWait, RcCount, RcRelease, RcInactive, RcGuard1, RcCreate, RcDiscard, RcUnwatch,
     RcEncFail, RcConnect, RcRemoved, RcGuard2, RcAttach, RcStart, RcFailed
<1>2. output # None /\ (stopReconnect => Stopping) /\ (rcPc[t] # "rc_enter" => ~Changed(t))
  <2>1. output # None /\ state = "Reconnecting" /\ sigPc = "idle"
    BY <1>1 DEF Turns
  <2>2. rcPc[t] # "rc_enter" => ~Changed(t)
    BY <1>1, MemberFits DEF Fits, Changed
  <2>3. QED
    BY <2>1, <2>2 DEF Told
<1>3. ASSUME NEW pc, Goto(t, pc) PROVE pc = "done"
  BY <1>3, Going
<1>4. CASE RcEnter(t) \/ RcLoop(t)
  BY <1>2, <1>3, <1>4 DEF RcEnter, RcLoop, Looks
<1>5. CASE RcExhausted(t) \/ RcRefused(t) \/ RcGone(t)
  BY <1>2, <1>5 DEF RcExhausted, RcRefused, RcGone, At, GiveUp, FailHard
<1>6. CASE RcWait(t) \/ RcRelease(t) \/ RcInactive(t) \/ RcGuard1(t)
  BY <1>2, <1>3, <1>6 DEF RcWait, RcRelease, RcInactive, RcGuard1, At, Looks, Aborted
<1>7. CASE RcDiscard(t) \/ RcUnwatch(t)
  BY <1>1, <1>2, <1>3, <1>7 DEF RcDiscard, RcUnwatch, At, Doomed
<1>8. CASE RcCreate(t) \/ RcCount(t) \/ RcEncFail(t) \/ RcConnect(t) \/ RcRemoved(t) \/ RcGuard2(t)
           \/ RcAttach(t)
  BY <1>3, <1>8 DEF RcCreate, RcCount, RcEncFail, RcConnect, RcRemoved, RcGuard2, RcAttach, Withdraw
<1>9. CASE RcStart(t)
  <2>1. rcOutput[t] = output
    BY <1>2, <1>9 DEF RcStart, At, Changed
  <2>2. QED
    BY <1>2, <1>3, <1>9, <2>1 DEF RcStart, TypeOK
<1>10. CASE RcFailed(t)
  BY <1>2, <1>3, <1>10 DEF RcFailed, At
<1>11. QED
  BY <1>4, <1>5, <1>6, <1>7, <1>8, <1>9, <1>10 DEF RcStep

LEMMA RcDoomed == ASSUME Steady, NEW t \in Threads, RcStep(t), t = reconnectThread PROVE Doomed'
<1> SUFFICES ASSUME rcPc'[t] \in {"rc_discard", "rc_unwatch"}, rcThen'[t] = "done"
             PROVE  stopReconnect'
  BY DEF Doomed, RcStep, RcEnter, RcLoop, RcExhausted, RcRefused, RcGone, RcWait, RcCount,
     RcRelease, RcInactive, RcGuard1, RcCreate, RcDiscard, RcUnwatch, RcEncFail, RcConnect,
     RcRemoved, RcGuard2, RcAttach, RcStart, RcFailed, Looks, GiveUp
<1>1. ASSUME NEW pc, Goto(t, pc) PROVE pc \in {"rc_discard", "rc_unwatch"}
  BY <1>1, Going
<1>2. /\ rcThen[t] \in {"done", "rc_gone", "rc_encfail"}
      /\ rcThen \in [Threads -> {"done", "rc_gone", "rc_encfail"}]
  BY DEF TypeOK
<1>3. CASE RcEnter(t) \/ RcLoop(t) \/ RcExhausted(t) \/ RcRefused(t) \/ RcGone(t)
  <2>1. \E pc \in {"done", "rc_loop", "rc_exhausted", "rc_wait"} : Goto(t, pc)
    BY <1>3 DEF RcEnter, RcLoop, RcExhausted, RcRefused, RcGone, Looks, GiveUp
  <2>2. QED
    BY <1>1, <2>1
<1>4. CASE RcWait(t) \/ RcCount(t) \/ RcRelease(t) \/ RcInactive(t) \/ RcGuard1(t)
  BY <1>1, <1>4 DEF RcWait, RcCount, RcRelease, RcInactive, RcGuard1, Looks
<1>5. CASE RcCreate(t)
  <2>1. rcThen'[t] = "rc_encfail"
    BY <1>1, <1>2, <1>5 DEF RcCreate
  <2>2. QED
    BY <2>1
<1>6. CASE RcDiscard(t)
  BY <1>1, <1>2, <1>6, ConstantsAssumption DEF RcDiscard, Doomed, MemberRuns, Runs, At
<1>7. CASE RcUnwatch(t)
  BY <1>1, <1>2, <1>7 DEF RcUnwatch
<1>8. CASE RcEncFail(t) \/ RcConnect(t) \/ RcAttach(t) \/ RcStart(t) \/ RcFailed(t)
  BY <1>1, <1>8 DEF RcEncFail, RcConnect, RcAttach, RcStart, RcFailed
<1>9. CASE RcRemoved(t)
  <2>1. rcThen'[t] = "rc_gone"
    BY <1>1, <1>2, <1>9 DEF RcRemoved, Withdraw
  <2>2. QED
    BY <2>1
<1>10. CASE RcGuard2(t)
  <2>1. ~Changed(t)
    BY <1>10, MemberFits, ConstantsAssumption DEF RcGuard2, At, MemberRuns, Runs, Fits, Changed
  <2>2. QED
    BY <1>1, <1>10, <2>1 DEF RcGuard2, Aborted
<1>11. QED
  BY <1>3, <1>4, <1>5, <1>6, <1>7, <1>8, <1>9, <1>10 DEF RcStep

LEMMA RcKeepsState == ASSUME Steady, NEW t \in Threads, RcStep(t) PROVE StateInv'
<1>1. /\ UNCHANGED <<output, connected, stopReconnect, reconnectThread, sigPc, uiPc, rpPc>>
      /\ \A u \in Threads : u # t => rcPc'[u] = rcPc[u] /\ rcThen'[u] = rcThen[u]
  BY Going DEF RcStep, RcEnter, RcLoop, RcExhausted, RcRefused, RcGone, RcWait, RcCount,
     RcRelease, RcInactive, RcGuard1, RcCreate, RcDiscard, RcUnwatch, RcEncFail, RcConnect,
     RcRemoved, RcGuard2, RcAttach, RcStart, RcFailed, Looks, GiveUp, Withdraw, TypeOK
<1>2. \A o \in Outputs : phase'[o] = phase[o] \/ (phase[o] = "idle" /\ phase'[o] = "connecting")
  BY DEF RcStep, RcEnter, RcLoop, RcExhausted, RcRefused,
     RcGone, RcWait, RcCount, RcRelease, RcInactive, RcGuard1, RcCreate, RcDiscard, RcUnwatch,
     RcEncFail, RcConnect, RcRemoved, RcGuard2, RcAttach, RcStart, RcFailed, Looks, GiveUp, TypeOK
<1>3. \/ UNCHANGED state
      \/ state' = "FailedHard" /\ ~OnAir
  <2>1. CASE RcExhausted(t) \/ RcRefused(t) \/ RcGone(t)
    <3>1. Runs(t) /\ rcPc[t] # "rc_enter" /\ GiveUp(t)
      BY <2>1 DEF RcExhausted, RcRefused, RcGone, At, Runs
    <3>2. QED
      BY <3>1, Mine DEF GiveUp, FailHard, Turns
  <2>2. QED
    BY <2>1 DEF RcStep, RcEnter, RcLoop, RcWait, RcCount, RcRelease, RcInactive, RcGuard1, RcCreate,
       RcDiscard, RcUnwatch, RcEncFail, RcConnect, RcRemoved, RcGuard2, RcAttach, RcStart, RcFailed,
       Looks
<1>4. Heard'
  BY <1>1 DEF Heard
<1>5. CASE state' = "FailedHard" /\ ~OnAir
  BY <1>1, <1>2, <1>4, <1>5, Resting DEF OnAir, TypeOK
<1>6. CASE UNCHANGED state
  <2>1. LiveIsOnAir'
    BY <1>1, <1>2, <1>6 DEF LiveIsOnAir, TypeOK
  <2>2. Told'
    BY <1>1, <1>6 DEF Told, Stopping
  <2>3. Doomed'
    BY <1>1, RcDoomed DEF Doomed, MemberRuns, Runs, TypeOK
  <2>4. ReconnectingHasDriver'
    <3>1. output # None /\ phase[output] = "connecting" => phase'[output] = "connecting"
      BY <1>2 DEF TypeOK
    <3>2. CASE reconnectThread = t
      BY <1>1, <1>6, <3>1, <3>2, MemberEnds DEF ReconnectingHasDriver, Stopping
    <3>3. CASE reconnectThread # t
      BY <1>1, <1>6, <3>1, <3>3 DEF ReconnectingHasDriver, TypeOK
    <3>4. QED
      BY <3>2, <3>3
  <2>5. QED
    BY <1>4, <2>1, <2>2, <2>3, <2>4
<1>7. QED
  BY <1>3, <1>5, <1>6

LEMMA ReaperKeepsState == ASSUME Steady, ReaperStep PROVE StateInv'
<1>1. CASE RpTake
  BY <1>1 DEF RpTake, LiveIsOnAir, ReconnectingHasDriver, Heard, Told, Stopping, Doomed, MemberRuns,
     Runs
<1>2. CASE RpShutdown
  BY <1>2 DEF RpShutdown, LiveIsOnAir, ReconnectingHasDriver, Heard, Told, Stopping, Doomed,
     MemberRuns, Runs
<1>3. CASE RpCanvas \/ RpDisconnect
  BY <1>3 DEF RpCanvas, RpDisconnect, Disconnect, LiveIsOnAir, ReconnectingHasDriver, Heard, Told,
     Stopping, Doomed, MemberRuns, Runs
<1>4. CASE RpDetach
  BY <1>4, Resting DEF RpDetach, DetachSession, Heard
<1>5. CASE RpJoin
  <2>1. /\ rpPc = "join" /\ rpPc' = "force_stop" /\ Join(rpJob.thread)
        /\ UNCHANGED <<state, output, connected, phase, stopReconnect, reconnectThread,
                       sigPc, uiPc>>
    BY <1>5 DEF RpJoin
  <2>2. reconnectThread # None =>
           rpJob.thread # reconnectThread /\ rcPc'[reconnectThread] = rcPc[reconnectThread]
           /\ rcThen' = rcThen
    BY <2>1, InNoJob DEF Join, Torn, TearsDown, TypeOK
  <2>3. LiveIsOnAir' /\ Heard' /\ Told'
    BY <2>1 DEF LiveIsOnAir, Heard, Told, Stopping
  <2>4. ReconnectingHasDriver' /\ Doomed'
    BY <2>1, <2>2 DEF ReconnectingHasDriver, Doomed, MemberRuns, Runs
  <2>5. QED
    BY <2>3, <2>4
<1>6. CASE RpForceStop \/ RpRelease
  <2>1. /\ rpPc \in {"force_stop", "release"} /\ rpPc' \in {"release", "idle"}
        /\ UNCHANGED <<state, output, connected, stopReconnect, reconnectThread, sigPc, uiPc, rcPc,
                       rcThen>>
    BY <1>6 DEF RpForceStop, RpRelease
  <2>2. output # None => output # rpJob.output /\ phase'[output] = phase[output]
    BY <1>6, <2>1 DEF RpForceStop, ForceStop, RpRelease, OutputsApart, Torn, TearsDown, TypeOK
  <2>3. LiveIsOnAir' /\ Heard' /\ Told' /\ ReconnectingHasDriver'
    BY <2>1, <2>2 DEF LiveIsOnAir, Heard, Told, Stopping, ReconnectingHasDriver, Listening
  <2>4. Doomed'
    BY <2>1 DEF Doomed, MemberRuns, Runs
  <2>5. QED
    BY <2>3, <2>4
<1>7. QED
  BY <1>1, <1>2, <1>3, <1>4, <1>5, <1>6 DEF ReaperStep

LEMMA NextState == ASSUME Steady, [Next]_vars PROVE StateInv'
<1>1. CASE UNCHANGED vars
  BY <1>1 DEF LiveIsOnAir, ReconnectingHasDriver, Heard, Told, Stopping, Doomed, MemberRuns, Runs
<1>2. CASE UIBegins \/ UIContinues
  BY <1>2, StartKeepsState, StartsKeepState, StopKeepsState DEF UIBegins, UIContinues
<1>3. CASE Next
  BY <1>2, <1>3, SigKeepsState, ReaperKeepsState, OutputKeepsState, RcKeepsState DEF Next,
        OutputProgress
<1>4. QED
  BY <1>1, <1>3

LEMMA InitState == Init => StateInv
BY ConstantsAssumption
   DEF Init, LiveIsOnAir, ReconnectingHasDriver, Heard, Told, Doomed, MemberRuns, Runs

-----------------------------------------------------------------------------
(* The fallback *)

LEMMA Counted ==
    ASSUME NEW r \in RecoveryState, NEW code \in Code
    PROVE  LET stopped == OnStopCode(r, code, Configured)
               restarted == OnRestartFailure(r, Configured)
               stable == OnLiveStable(r)
           IN  /\ r.fallback => stopped.fallback /\ restarted.fallback
               /\ stable.fallback = r.fallback
               /\ ~r.fallback /\ stopped.fallback => stopped.afterEncodeError
               /\ ~r.fallback /\ restarted.fallback => restarted.afterEncodeError
BY AfterFailuresAssumption
   DEF OnStopCode, OnRestartFailure, OnLiveStable, OnEncoderFailure, SwitchOn, RecoveryState

(* What a step may do to the recovery record and to the error that is shown. *)
FallsBack ==
    /\ ~recovery.fallback /\ recovery'.fallback => state = "Starting" \/ recovery'.afterEncodeError
    /\ recovery.fallback /\ ~recovery'.fallback => state' = "Starting" /\ state # "Starting"

LEMMA Unchosen ==
    ASSUME Before, FallbackIsShown, UNCHANGED recovery, hasError' = TRUE \/ UNCHANGED hasError
    PROVE  FallbackIsShown' /\ FallsBack
BY DEF FallbackIsShown, FallsBack

LEMMA Switched ==
    ASSUME Before, state = "Starting", recovery' = SwitchOn(recovery), hasError' = TRUE
    PROVE  FallbackIsShown' /\ FallsBack
BY DEF FallbackIsShown, FallsBack, SwitchOn, RecoveryState, TypeOK

LEMMA RestartFalls ==
    ASSUME Before, FallbackIsShown, RestartFailure
    PROVE  FallbackIsShown' /\ FallsBack
<1>1. recovery \in RecoveryState
  BY DEF TypeOK
<1>2. /\ recovery.fallback => recovery'.fallback
      /\ ~recovery.fallback /\ recovery'.fallback => recovery'.afterEncodeError
  BY <1>1, Counted DEF RestartFailure, Code
<1>3. FallbackIsShown'
  BY <1>2 DEF FallbackIsShown, RestartFailure, EffectiveBackend
<1>4. QED
  BY <1>2, <1>3 DEF FallsBack

LEMMA StopLockFalls ==
    ASSUME Before, FallbackIsShown, StopLock
    PROVE  FallbackIsShown' /\ FallsBack
<1> DEFINE first == state = "Starting" /\ SwitchesAtFirstStart(StoppedBeforeLive)
           begun == IF first THEN SwitchOn(recovery) ELSE recovery
<1>1. PICK r \in {begun} \cup (IF state = "Live" THEN {OnLiveStable(begun)} ELSE {}) :
         LET counted == OnStopCode(r, sigCode, Configured)
             switched == /\ counted.fallback /\ ~r.fallback
                         /\ EffectiveBackend(Configured, counted, X264Registered) # Configured
         IN  recovery' = counted /\ hasError' = (hasError \/ first \/ switched)
  BY DEF StopLock
<1>2. recovery \in RecoveryState /\ sigCode \in Code
  BY DEF TypeOK
<1>3. /\ begun \in RecoveryState /\ begun.fallback = (recovery.fallback \/ first)
      /\ r \in RecoveryState /\ r.fallback = begun.fallback
  <2>1. begun \in RecoveryState /\ begun.fallback = (recovery.fallback \/ first)
    BY <1>2, SwitchOnType DEF SwitchOn, RecoveryState
  <2>2. OnLiveStable(begun) \in RecoveryState /\ OnLiveStable(begun).fallback = begun.fallback
    BY <2>1, <1>2, OnLiveStableType, Counted
  <2>3. QED
    BY <1>1, <2>1, <2>2
<1>4. /\ r.fallback => recovery'.fallback
      /\ ~r.fallback /\ recovery'.fallback => recovery'.afterEncodeError
  BY <1>1, <1>2, <1>3, Counted
<1>5. FallbackIsShown'
  BY <1>1, <1>3, <1>4 DEF FallbackIsShown, EffectiveBackend
<1>6. FallsBack
  BY <1>3, <1>4 DEF FallsBack
<1>7. QED
  BY <1>5, <1>6

LEMMA UIFalls ==
    ASSUME Before, FallbackIsShown, UIBegins \/ UIContinues
    PROVE  FallbackIsShown' /\ FallsBack
<1>1. CASE Start
  BY <1>1 DEF Start, FreshRecovery, FallbackIsShown, FallsBack, EffectiveBackend
<1>2. CASE StartEncoders \/ StartFailed
  <2>1. state = "Starting"
    BY <1>2 DEF StartEncoders, StartFailed, Turns, StartPcs
  <2>2. QED
    BY <1>2, <2>1, Switched, Unchosen DEF StartEncoders, StartFailed, FailHard
<1>3. CASE ~Start /\ ~StartEncoders /\ ~StartFailed
  <2>1. UNCHANGED recovery
        /\ (hasError' = TRUE \/ hasError' = (FALSE \/ hasError) \/ UNCHANGED hasError)
    BY <1>3 DEF UIBegins, UIContinues, Stop, RemoveCanvas, Drop, StartFlag, StartSteal, StartJoin,
       StartResolve, StartOutput, StartPublish, StartAttach, StartOBS, StartRetry, FailHard,
       StopCheck, StopDisconnect, StopDetach
  <2>2. hasError \in BOOLEAN
    BY DEF TypeOK
  <2>3. QED
    BY <2>1, <2>2, Unchosen
<1>4. QED
  BY <1>1, <1>2, <1>3

LEMMA RcFalls ==
    ASSUME Before, FallbackIsShown, NEW t \in Threads, RcStep(t)
    PROVE  FallbackIsShown' /\ FallsBack
<1>1. CASE RcEncFail(t) \/ RcFailed(t)
  BY <1>1, RestartFalls, Unchosen DEF RcEncFail, RcFailed
<1>2. CASE RcExhausted(t) \/ RcRefused(t) \/ RcGone(t)
  BY <1>2, Unchosen DEF RcExhausted, RcRefused, RcGone, GiveUp, FailHard
<1>3. CASE \/ RcEnter(t) \/ RcLoop(t) \/ RcWait(t) \/ RcCount(t) \/ RcRelease(t) \/ RcInactive(t)
           \/ RcGuard1(t) \/ RcCreate(t) \/ RcDiscard(t) \/ RcUnwatch(t) \/ RcConnect(t)
           \/ RcRemoved(t) \/ RcGuard2(t) \/ RcAttach(t) \/ RcStart(t)
  BY <1>3, Unchosen DEF RcEnter, RcLoop, RcWait, RcCount, RcRelease, RcInactive, RcGuard1, RcCreate,
     RcDiscard, RcUnwatch, RcConnect, RcRemoved, RcGuard2, RcAttach, RcStart, Looks
<1>4. QED
  BY <1>1, <1>2, <1>3 DEF RcStep

LEMMA NextFalls ==
    ASSUME Before, FallbackIsShown, [Next]_vars
    PROVE  FallbackIsShown' /\ FallsBack
<1>1. CASE UNCHANGED vars
  BY <1>1, Unchosen
<1>2. CASE SigStep
  BY <1>2, StopLockFalls, Unchosen DEF SigStep, StopSignal, StopJoin, StopSpawn, FailHard
<1>3. CASE ReaperStep
  BY <1>3, Unchosen DEF ReaperStep, RpTake, RpShutdown, RpCanvas, RpDisconnect, RpDetach, RpJoin,
     RpForceStop, RpRelease
<1>4. ASSUME NEW o \in Outputs,
             OutputConnected(o) \/ ConnectFailed(o) \/ ActiveClears(o) \/ ConnectionLost(o)
      PROVE  FallbackIsShown' /\ FallsBack
  BY <1>4, Unchosen DEF OutputConnected, ConnectFailed, ConnectionLost, OutputStops, ActiveClears
<1>5. QED
  BY <1>1, <1>2, <1>3, <1>4, UIFalls, RcFalls DEF Next, OutputProgress

-----------------------------------------------------------------------------
LEMMA Revives ==
    ASSUME Before, Shown
    PROVE  /\ state = "Idle" => state' \in {"Idle", "Starting"}
           /\ state = "FailedHard" => state' \in {"FailedHard", "Starting", "Idle"}
BY OffAir DEF Shown, Turns

(* While the UI thread makes the ordinary calls: Live means on air and Reconnecting that
   somebody will end it; an endpoint on its fallback shows an error; no late signal and no
   stale thread revives an endpoint that is Idle or FailedHard, and only failures of an
   encoder make it fall back, whatever the order of the threads' steps. *)
THEOREM StateCorrect == ASSUME OrdinaryCalls PROVE Spec => StateMeans
<1>1. Init => TypeOK /\ HandleInv /\ OwnInv /\ StateInv /\ FallbackIsShown
  <2>1. Init => FallbackIsShown
    BY DEF Init, FallbackIsShown, FreshRecovery, EffectiveBackend
  <2>2. QED
    BY <2>1, InitTypeOK, InitHandleInv, InitOwn, InitState
<1>2. TypeOK /\ HandleInv /\ OwnInv /\ StateInv /\ FallbackIsShown /\ [Next]_vars =>
         (TypeOK /\ HandleInv /\ OwnInv /\ StateInv /\ FallbackIsShown)'
  <2>1. SUFFICES ASSUME Before, StateInv, FallbackIsShown, [Next]_vars
                 PROVE  (TypeOK /\ HandleInv /\ OwnInv /\ StateInv /\ FallbackIsShown)'
    OBVIOUS
  <2>2. TypeOK' /\ HandleInv' /\ OwnInv'
    BY <2>1, NextTypeOK, NextHandleInv, NextOwn
  <2>3. StateInv' /\ FallbackIsShown'
    BY <2>1, <2>2, NextState, NextFalls
  <2>4. QED
    BY <2>2, <2>3
<1>3. TypeOK /\ HandleInv /\ OwnInv /\ FallbackIsShown /\ [Next]_vars =>
         /\ [/\ state = "Idle" => state' \in {"Idle", "Starting"}
             /\ state = "FailedHard" => state' \in {"FailedHard", "Starting", "Idle"}]_state
         /\ [FallsBack]_recovery
  BY NextShown, Revives, NextFalls
<1>4. StateInv => LiveIsOnAir /\ ReconnectingHasDriver
  OBVIOUS
<1>5. QED
  BY <1>1, <1>2, <1>3, <1>4, PTL DEF Spec, StateMeans, OnlyStartRevives,
        OnlyEncoderFailuresFallBack, FallsBack

-----------------------------------------------------------------------------
(* The canvas of a session. *)

(* An encoder pair encodes the canvas that its owner holds. *)
Encoded ==
    /\ enc # None => encCanvas[enc] = canvas
    /\ uiPc = "so_publish" => encCanvas[uiEnc] = uiCanvas
    /\ \A t \in Threads : rcPc[t] \in {"rc_connect", "rc_removed", "rc_guard2"} =>
          encCanvas[rcEnc[t]] = rcCanvas[t]
    /\ Torn.enc # None => encCanvas[Torn.enc] = Torn.canvas
    /\ \A i \in DOMAIN jobs : jobs[i].enc # None => encCanvas[jobs[i].enc] = jobs[i].canvas

(* While an output runs, the encoders it has do so too. *)
From(o, c) ==
    phase[o] \in {"connecting", "active", "closing"} /\ attached[o] # None =>
        encCanvas[attached[o]] = c

Streamed ==
    /\ output # None => From(output, canvas)
    /\ Torn.output # None => From(Torn.output, Torn.canvas)
    /\ \A i \in DOMAIN jobs : jobs[i].output # None => From(jobs[i].output, jobs[i].canvas)

(* Every output is a session's. *)
Accounted ==
    \A o \in Outputs : phase[o] # "absent" =>
        o = output \/ o = Torn.output \/ \E i \in DOMAIN jobs : jobs[i].output = o

(* A thread that holds a canvas is the controller's, or its session is over and no other
   has begun: nothing it disconnects is watched for anybody else. *)
HoldPcs == {"rc_connect", "rc_removed", "rc_guard2", "rc_discard", "rc_unwatch", "rc_attach"}

Candidates ==
    \A t \in Threads :
        /\ rcCanvas[t] # None => rcPc[t] \in HoldPcs
        /\ HoldsCanvas(t) => \/ t = reconnectThread
                             \/ output = None /\ canvas = None /\ uiPc \notin StartPcs
        /\ rcPc[t] = "rc_unwatch" => rcCanvas[t] \notin {None, canvas}

(* The canvas of the session, and one that is about to become it, is watched until a
   teardown has read which one it is. *)
Leaving == \/ uiPc \in {"st_disconnect", "st_detach"}
           \/ rpPc \in {"sd_disconnect", "sd_detach"}

Heeds(c) == c = None \/ c \in watched

Watching ==
    /\ Heeds(canvas) \/ Leaving
    /\ uiPc = "so_publish" => Heeds(uiCanvas)
    /\ MemberRuns /\ rcPc[reconnectThread] \in {"rc_removed", "rc_guard2"} =>
          Heeds(rcCanvas[reconnectThread]) \/ Leaving

(* It is not removed, unless that has begun to stop the session. *)
Alive ==
    /\ canvas \in removed => Stopping
    /\ uiPc \in {"so_output", "so_encoders", "so_publish"} => uiCanvas \notin removed
    /\ MemberRuns /\ rcPc[reconnectThread] = "rc_guard2" =>
          rcCanvas[reconnectThread] \notin removed \/ Stopping

CanvasInv == Encoded /\ Streamed /\ Accounted /\ Candidates /\ Watching /\ Alive

(* No start() finds a canvas in the hands of a thread of an earlier session, which would
   disconnect its signals under the new session. *)
Uncontested == "contested_start" \notin UICalls

(* A step from a state in which it holds. *)
Canvassed == Before /\ Uncontested /\ CanvasInv /\ TypeOK' /\ OwnInv'

USE DEF CanvasInv, Canvassed

-----------------------------------------------------------------------------
(* Encoded *)

(* A new pair is nobody's yet. *)
LEMMA NewPair ==
    ASSUME Before, NEW e \in Encoders, NEW c, CreateEncoders(e, c)
    PROVE  /\ encCanvas'[e] = c /\ \A f \in Encoders : f # e => encCanvas'[f] = encCanvas[f]
           /\ enc # e /\ PairOfUI # e /\ Torn.enc # e
           /\ \A t \in Threads : Carries(t) # e
           /\ \A i \in DOMAIN jobs : jobs[i].enc # e
           /\ \A o \in Outputs : attached[o] # e
<1>1. e \notin owned /\ e # None
  BY ConstantsAssumption DEF CreateEncoders, FreeEncoders
<1>2. /\ enc # e /\ PairOfUI # e /\ rpJob.enc # e
      /\ \A t \in Threads : Carries(t) # e
      /\ \A i \in DOMAIN jobs : jobs[i].enc # e
  BY <1>1 DEF PairsApart
<1>3. Torn.enc # e
  BY <1>1, <1>2 DEF Torn, NoJob
<1>4. /\ encCanvas'[e] = c /\ \A f \in Encoders : f # e => encCanvas'[f] = encCanvas[f]
      /\ \A o \in Outputs : attached[o] # e
  BY DEF CreateEncoders, FreeEncoders, TypeOK
<1>5. QED
  BY <1>2, <1>3, <1>4

LEMMA JobPairs ==
    ASSUME TypeOK
    PROVE  /\ \A i \in DOMAIN jobs : jobs[i] \in Job /\ jobs[i].enc \in Encoders \cup {None}
           /\ Torn.enc \in Encoders \cup {None}
<1>1. \A i \in DOMAIN jobs : jobs[i] \in Job
  BY DEF TypeOK
<1>2. rpJob \in Job
  BY DEF TypeOK
<1>3. QED
  BY <1>1, <1>2 DEF Job, Torn, NoJob

LEMMA UIEncoded == ASSUME Canvassed, UIBegins \/ UIContinues PROVE Encoded'
<1>1. Torn' = Torn /\ UNCHANGED <<rcEnc, rcCanvas>>
  BY DEF UIBegins, UIContinues, Start, UICall, Stop, RemoveCanvas, Drop, StartFlag, StartSteal,
     StartJoin, Join, StartResolve, StartOutput, StartEncoders, StartPublish, StartAttach, StartOBS,
     StartFailed, StartRetry, StopCheck, StopDisconnect, StopDetach, Torn, TearsDown
<1>2. CASE \/ Start \/ Stop \/ RemoveCanvas \/ StartFlag \/ StartSteal \/ StartResolve \/ StartOutput
           \/ StartAttach \/ StartOBS \/ StopCheck \/ StopDisconnect
  <2>1. UNCHANGED <<enc, canvas, encCanvas, rcPc, jobs>> /\ uiPc' # "so_publish"
    BY <1>2 DEF Start, Stop, RemoveCanvas, StartFlag, StartSteal, StartResolve, StartOutput,
       StartAttach, StartOBS, StopCheck, StopDisconnect
  <2>2. QED
    BY <1>1, <2>1 DEF Encoded
<1>3. CASE StartJoin
  <2>1. /\ UNCHANGED <<enc, canvas, encCanvas, jobs>> /\ uiPc' # "so_publish"
        /\ \A t \in Threads : rcPc'[t] \in {"free", rcPc[t]}
    BY <1>3 DEF StartJoin, Join
  <2>2. QED
    BY <1>1, <2>1 DEF Encoded
<1>4. CASE Drop
  <2>1. /\ UNCHANGED <<enc, canvas, encCanvas, rcPc, uiPc>> /\ uiPc = "idle"
        /\ jobs' = Append(jobs, ShutdownJob)
    BY <1>4 DEF Drop, UICall
  <2>2. QED
    BY <1>1, <2>1, Appended DEF Encoded, ShutdownJob, NoJob
<1>5. CASE StartEncoders
  <2>1. ASSUME NEW e \in Encoders, CreateEncoders(e, uiCanvas), uiEnc' = e, UNCHANGED uiCanvas
        PROVE  Encoded'
    <3>1. UNCHANGED <<enc, canvas, rcPc, jobs>>
      BY <1>5 DEF StartEncoders
    <3>2. /\ encCanvas'[e] = uiCanvas /\ \A f \in Encoders : f # e => encCanvas'[f] = encCanvas[f]
          /\ enc # e /\ Torn.enc # e
          /\ \A t \in Threads : Carries(t) # e
          /\ \A i \in DOMAIN jobs : jobs[i].enc # e
      BY <2>1, NewPair
    <3>3. enc' # None => encCanvas'[enc'] = canvas'
      BY <3>1, <3>2 DEF Encoded, TypeOK
    <3>4. \A t \in Threads : rcPc'[t] \in {"rc_connect", "rc_removed", "rc_guard2"} =>
             encCanvas'[rcEnc'[t]] = rcCanvas'[t]
      BY <1>1, <3>1, <3>2 DEF Encoded, Carries, Publishing, TypeOK
    <3>5. /\ Torn'.enc # None => encCanvas'[Torn'.enc] = Torn'.canvas
          /\ \A i \in DOMAIN jobs' : jobs'[i].enc # None => encCanvas'[jobs'[i].enc] = jobs'[i].canvas
      BY <1>1, <3>1, <3>2, JobPairs DEF Encoded
    <3>6. QED
      BY <2>1, <3>2, <3>3, <3>4, <3>5 DEF Encoded
  <2>2. CASE UNCHANGED <<enc, canvas, encCanvas, rcPc, jobs>> /\ uiPc' # "so_publish"
    BY <1>1, <2>2 DEF Encoded
  <2>3. QED
    BY <1>5, <2>1, <2>2 DEF StartEncoders
<1>6. CASE StartPublish
  <2>1. /\ enc' = uiEnc /\ canvas' = uiCanvas /\ uiPc' # "so_publish" /\ uiPc = "so_publish"
        /\ UNCHANGED <<encCanvas, rcPc, jobs>>
    BY <1>6 DEF StartPublish
  <2>2. QED
    BY <1>1, <2>1 DEF Encoded
<1>7. CASE StartFailed
  <2>1. enc' = None /\ uiPc' # "so_publish" /\ UNCHANGED <<canvas, encCanvas, rcPc, jobs>>
    BY <1>7 DEF StartFailed, ReleaseEncoders
  <2>2. QED
    BY <1>1, <2>1 DEF Encoded
<1>8. CASE StartRetry
  <2>1. ASSUME NEW e \in Encoders, CreateEncoders(e, canvas), enc' = e PROVE Encoded'
    <3>1. UNCHANGED <<canvas, rcPc, jobs>> /\ uiPc' # "so_publish"
      BY <1>8 DEF StartRetry
    <3>2. /\ encCanvas'[e] = canvas /\ \A f \in Encoders : f # e => encCanvas'[f] = encCanvas[f]
          /\ Torn.enc # e
          /\ \A t \in Threads : Carries(t) # e
          /\ \A i \in DOMAIN jobs : jobs[i].enc # e
      BY <2>1, NewPair
    <3>3. \A t \in Threads : rcPc'[t] \in {"rc_connect", "rc_removed", "rc_guard2"} =>
             encCanvas'[rcEnc'[t]] = rcCanvas'[t]
      BY <1>1, <3>1, <3>2 DEF Encoded, Carries, Publishing, TypeOK
    <3>4. /\ Torn'.enc # None => encCanvas'[Torn'.enc] = Torn'.canvas
          /\ \A i \in DOMAIN jobs' : jobs'[i].enc # None => encCanvas'[jobs'[i].enc] = jobs'[i].canvas
      BY <1>1, <3>1, <3>2, JobPairs DEF Encoded
    <3>5. QED
      BY <2>1, <3>1, <3>2, <3>3, <3>4 DEF Encoded
  <2>2. CASE UNCHANGED <<enc, canvas, encCanvas, rcPc, jobs>> /\ uiPc' # "so_publish"
    BY <1>1, <2>2 DEF Encoded
  <2>3. QED
    BY <1>8, <2>1, <2>2 DEF StartRetry
<1>9. CASE StopDetach
  <2>1. UNCHANGED <<encCanvas, rcPc>> /\ uiPc' # "so_publish"
    BY <1>9 DEF StopDetach
  <2>2. CASE UNCHANGED <<enc, canvas, jobs>>
    BY <1>1, <2>1, <2>2 DEF Encoded
  <2>3. CASE enc' = None /\ jobs' = Append(jobs, Detached("session"))
    <3>1. Detached("session").enc = enc /\ Detached("session").canvas = canvas
      BY DEF Detached
    <3>2. \A i \in DOMAIN jobs' : jobs'[i].enc # None => encCanvas[jobs'[i].enc] = jobs'[i].canvas
      BY <2>3, <3>1, Appended DEF Encoded
    <3>3. QED
      BY <1>1, <2>1, <2>3, <3>2 DEF Encoded
  <2>4. QED
    BY <1>9, <2>2, <2>3 DEF StopDetach, DetachSession
<1>10. QED
  BY <1>2, <1>3, <1>4, <1>5, <1>6, <1>7, <1>8, <1>9 DEF UIBegins, UIContinues

LEMMA SigEncoded == ASSUME Canvassed, SigStep PROVE Encoded'
<1>1. /\ UNCHANGED <<enc, canvas, encCanvas, uiPc, uiEnc, uiCanvas, rcEnc, rcCanvas, jobs>>
      /\ UNCHANGED <<rpJob, rpPc>>
      /\ \A t \in Threads : rcPc'[t] \in {"free", "rc_enter", rcPc[t]}
  BY DEF SigStep, StopSignal, StopLock, StopJoin, Join, StopSpawn, TypeOK
<1>2. QED
  BY <1>1 DEF Encoded, Torn, TearsDown

LEMMA RcEncoded == ASSUME Canvassed, NEW t \in Threads, RcStep(t) PROVE Encoded'
<1>1. /\ UNCHANGED <<uiPc, uiEnc, uiCanvas, jobs, rpJob, rpPc>> /\ Torn' = Torn
      /\ \A u \in Threads : u # t => rcPc'[u] = rcPc[u] /\ rcEnc'[u] = rcEnc[u]
                                     /\ rcCanvas'[u] = rcCanvas[u]
  BY Going DEF RcStep, RcEnter, RcLoop, RcExhausted, RcRefused, RcGone, RcWait, RcCount,
     RcRelease, RcInactive, RcGuard1, RcCreate, RcDiscard, RcUnwatch, RcEncFail, RcConnect,
     RcRemoved, RcGuard2, RcAttach, RcStart, RcFailed, Looks, GiveUp, Withdraw, Torn, TearsDown, TypeOK
<1>2. ASSUME NEW pc, Goto(t, pc), pc \notin {"rc_connect", "rc_removed", "rc_guard2"},
             UNCHANGED encCanvas, enc' # None => UNCHANGED <<enc, canvas>>
      PROVE  Encoded'
  BY <1>1, <1>2, Going DEF Encoded
<1>3. CASE \/ RcEnter(t) \/ RcLoop(t) \/ RcExhausted(t) \/ RcRefused(t) \/ RcGone(t) \/ RcWait(t)
           \/ RcCount(t)
  BY <1>2, <1>3 DEF RcEnter, RcLoop, RcExhausted, RcRefused, RcGone, RcWait, RcCount, Looks, GiveUp
<1>4. CASE \/ RcRelease(t) \/ RcInactive(t) \/ RcGuard1(t) \/ RcEncFail(t) \/ RcAttach(t) \/ RcStart(t)
           \/ RcFailed(t)
  BY <1>2, <1>4 DEF RcRelease, ReleaseEncoders, RcInactive, RcGuard1, RcEncFail, RcAttach, RcStart,
     RcFailed, Looks
<1>5. CASE RcDiscard(t) \/ RcUnwatch(t)
  <2>1. Goto(t, rcThen[t]) \/ Goto(t, "rc_unwatch")
    BY <1>5 DEF RcDiscard, RcUnwatch
  <2>2. rcThen[t] \in {"done", "rc_gone", "rc_encfail"}
    BY DEF TypeOK
  <2>3. UNCHANGED <<encCanvas, enc, canvas>>
    BY <1>5 DEF RcDiscard, RcUnwatch
  <2>4. QED
    BY <1>2, <2>1, <2>2, <2>3
<1>6. CASE RcCreate(t)
  <2>1. ASSUME NEW e \in Encoders, NEW c \in Resolvable, CreateEncoders(e, c),
               rcEnc' = [rcEnc EXCEPT ![t] = e], rcCanvas' = [rcCanvas EXCEPT ![t] = c]
        PROVE  Encoded'
    <3>1. UNCHANGED <<enc, canvas>>
      BY <1>6 DEF RcCreate
    <3>2. /\ encCanvas'[e] = c /\ \A f \in Encoders : f # e => encCanvas'[f] = encCanvas[f]
          /\ enc # e /\ PairOfUI # e /\ Torn.enc # e
          /\ \A u \in Threads : Carries(u) # e
          /\ \A i \in DOMAIN jobs : jobs[i].enc # e
      BY <2>1, NewPair
    <3>3. enc' # None => encCanvas'[enc'] = canvas'
      BY <3>1, <3>2 DEF Encoded, TypeOK
    <3>4. \A u \in Threads : rcPc'[u] \in {"rc_connect", "rc_removed", "rc_guard2"} =>
             encCanvas'[rcEnc'[u]] = rcCanvas'[u]
      BY <1>1, <2>1, <3>2 DEF Encoded, Carries, Publishing, TypeOK
    <3>5. /\ Torn'.enc # None => encCanvas'[Torn'.enc] = Torn'.canvas
          /\ \A i \in DOMAIN jobs' : jobs'[i].enc # None => encCanvas'[jobs'[i].enc] = jobs'[i].canvas
      BY <1>1, <3>2, JobPairs DEF Encoded
    <3>6. uiPc' = "so_publish" => encCanvas'[uiEnc'] = uiCanvas'
      BY <1>1, <3>2 DEF Encoded, Publishing, PairOfUI, TypeOK
    <3>7. QED
      BY <3>3, <3>4, <3>5, <3>6 DEF Encoded
  <2>2. CASE (Goto(t, "rc_refused") \/ Goto(t, "rc_discard")) /\ UNCHANGED <<enc, canvas, encCanvas>>
    BY <1>2, <2>2
  <2>3. QED
    BY <1>6, <2>1, <2>2 DEF RcCreate
<1>7. CASE RcConnect(t)
  BY <1>1, <1>7 DEF RcConnect, At, Encoded
<1>8. CASE RcRemoved(t)
  <2>1. CASE Withdraw(t, "rc_gone")
    BY <1>2, <1>8, <2>1 DEF RcRemoved, Withdraw
  <2>2. CASE UNCHANGED rcEnc
    BY <1>1, <1>8, <2>2 DEF RcRemoved, At, Encoded
  <2>3. QED
    BY <1>8, <2>1, <2>2 DEF RcRemoved
<1>9. CASE RcGuard2(t)
  <2>1. CASE Withdraw(t, "done") /\ UNCHANGED <<enc, canvas>>
    BY <1>2, <1>9, <2>1 DEF RcGuard2, Withdraw
  <2>2. CASE Goto(t, "rc_attach") /\ enc' = rcEnc[t] /\ canvas' = rcCanvas[t]
    <3>1. rcPc[t] = "rc_guard2" /\ rcPc'[t] = "rc_attach" /\ UNCHANGED encCanvas
      BY <1>9, <2>2, Going DEF RcGuard2, At
    <3>2. QED
      BY <1>1, <2>2, <3>1 DEF Encoded
  <2>3. QED
    BY <1>9, <2>1, <2>2 DEF RcGuard2
<1>10. QED
  BY <1>3, <1>4, <1>5, <1>6, <1>7, <1>8, <1>9 DEF RcStep

LEMMA JobsLeft ==
    ASSUME TypeOK, jobs # <<>>, jobs' = Tail(jobs)
    PROVE  /\ 1 \in DOMAIN jobs /\ Head(jobs) = jobs[1]
           /\ \A i \in DOMAIN jobs' : \E j \in DOMAIN jobs : jobs'[i] = jobs[j]
           /\ \A j \in DOMAIN jobs : j = 1 \/ \E i \in DOMAIN jobs' : jobs'[i] = jobs[j]
<1>1. PICK old \in [DOMAIN jobs' -> DOMAIN jobs \ {1}] :
         /\ \A i \in DOMAIN jobs' : jobs'[i] = jobs[old[i]]
         /\ \A j \in DOMAIN jobs \ {1} : \E i \in DOMAIN jobs' : old[i] = j
  BY Taken
<1>2. \A i \in DOMAIN jobs' : old[i] \in DOMAIN jobs
  BY <1>1
<1>3. 1 \in DOMAIN jobs /\ Head(jobs) = jobs[1]
  BY Taken
<1>4. QED
  BY <1>1, <1>2, <1>3

LEMMA ReaperEncoded == ASSUME Canvassed, ReaperStep PROVE Encoded'
<1>1. /\ UNCHANGED <<encCanvas, uiPc, uiEnc, uiCanvas, rcEnc, rcCanvas>>
      /\ \A t \in Threads : rcPc'[t] \in {"free", rcPc[t]}
  BY DEF ReaperStep, RpTake, RpShutdown, RpCanvas, RpDisconnect, RpDetach, RpJoin, Join, RpForceStop,
     RpRelease
<1>2. CASE RpTake
  <2>1. UNCHANGED <<enc, canvas>>
    BY <1>2 DEF RpTake
  <2>2. Torn' \in {NoJob, Head(jobs)}
    BY <1>2 DEF RpTake, Torn, TearsDown
  <2>3. /\ 1 \in DOMAIN jobs /\ Head(jobs) = jobs[1]
        /\ \A i \in DOMAIN jobs' : \E j \in DOMAIN jobs : jobs'[i] = jobs[j]
    BY <1>2, JobsLeft DEF RpTake
  <2>4. QED
    BY <1>1, <2>1, <2>2, <2>3 DEF Encoded, NoJob
<1>3. CASE RpShutdown \/ RpCanvas \/ RpDisconnect \/ RpRelease
  <2>1. UNCHANGED <<enc, canvas, jobs>> /\ (Torn' = Torn \/ Torn' = NoJob)
    BY <1>3 DEF RpShutdown, RpCanvas, RpDisconnect, RpRelease, Torn, TearsDown
  <2>2. QED
    BY <1>1, <2>1 DEF Encoded, NoJob
<1>4. CASE RpDetach
  <2>1. enc' = None /\ UNCHANGED jobs /\ Torn'.enc = enc /\ Torn'.canvas = canvas
    BY <1>4 DEF RpDetach, DetachSession, Detached, Torn, TearsDown
  <2>2. QED
    BY <1>1, <2>1 DEF Encoded
<1>5. CASE RpJoin \/ RpForceStop
  <2>1. /\ UNCHANGED <<enc, canvas, jobs>>
        /\ Torn'.canvas = Torn.canvas /\ Torn'.enc \in {Torn.enc, None}
    BY <1>5 DEF RpJoin, RpForceStop, ReleaseJobEncoders, Torn, TearsDown, TypeOK, Job
  <2>2. QED
    BY <1>1, <2>1 DEF Encoded
<1>6. QED
  BY <1>2, <1>3, <1>4, <1>5 DEF ReaperStep

LEMMA NextEncoded == ASSUME Canvassed, [Next]_vars PROVE Encoded'
<1>1. CASE UNCHANGED vars
  BY <1>1 DEF Encoded, Torn, TearsDown
<1>2. ASSUME NEW o \in Outputs,
             OutputConnected(o) \/ ConnectFailed(o) \/ ActiveClears(o) \/ ConnectionLost(o)
      PROVE  Encoded'
  <2>1. UNCHANGED <<enc, canvas, encCanvas, uiVars, rcVars, reaperVars>>
    BY <1>2 DEF OutputConnected, ConnectFailed, ConnectionLost, OutputStops, ActiveClears
  <2>2. QED
    BY <2>1 DEF Encoded, Torn, TearsDown
<1>3. QED
  BY <1>1, <1>2, UIEncoded, SigEncoded, RcEncoded, ReaperEncoded DEF Next, OutputProgress

-----------------------------------------------------------------------------
(* Streamed, Accounted *)

LEMMA SessionOutputs ==
    ASSUME TypeOK
    PROVE  /\ output \in Outputs \cup {None} /\ Torn.output \in Outputs \cup {None}
           /\ \A i \in DOMAIN jobs : jobs[i].output \in Outputs \cup {None}
<1>1. rpJob \in Job
  BY DEF TypeOK
<1>2. QED
  BY <1>1, JobOutputs DEF Torn, NoJob, Job, TypeOK

LEMMA StreamedFrame ==
    ASSUME Canvassed, UNCHANGED <<attached, encCanvas, output, canvas, jobs>>,
           Torn'.output = Torn.output, Torn'.canvas = Torn.canvas,
           \A o \in Outputs :
              /\ phase'[o] \in {"connecting", "active", "closing"} =>
                    phase[o] \in {"connecting", "active", "closing"}
              /\ phase'[o] # "absent" => phase[o] # "absent"
    PROVE  Streamed' /\ Accounted'
<1>1. Streamed'
  BY SessionOutputs DEF Streamed, From
<1>2. Accounted'
  BY DEF Accounted
<1>3. QED
  BY <1>1, <1>2

LEMMA StreamedCreate ==
    ASSUME Canvassed, UNCHANGED <<attached, output, canvas, jobs, phase>>, Torn' = Torn,
           NEW e \in Encoders, NEW c, CreateEncoders(e, c)
    PROVE  Streamed' /\ Accounted'
<1>1. \A o \in Outputs : attached[o] # e /\ attached[o] \in Encoders \cup {None}
  BY NewPair DEF TypeOK
<1>2. \A f \in Encoders : f # e => encCanvas'[f] = encCanvas[f]
  BY NewPair
<1>3. \A o \in Outputs : attached[o] # None => encCanvas'[attached[o]] = encCanvas[attached[o]]
  BY <1>1, <1>2
<1>4. Streamed'
  BY <1>3, SessionOutputs DEF Streamed, From
<1>5. Accounted'
  BY DEF Accounted
<1>6. QED
  BY <1>4, <1>5

(* Encoders are attached to an output that is idle. *)
LEMMA StreamedAttach ==
    ASSUME Canvassed, UNCHANGED <<encCanvas, output, canvas, jobs, phase>>, Torn' = Torn,
           NEW o \in Outputs, NEW e, Attach(o, e)
    PROVE  Streamed' /\ Accounted'
<1>1. \A p \in Outputs : attached'[p] = attached[p] \/ phase[p] = "idle"
  BY DEF Attach, TypeOK
<1>2. Streamed'
  BY <1>1, SessionOutputs DEF Streamed, From
<1>3. Accounted'
  BY DEF Accounted
<1>4. QED
  BY <1>2, <1>3

(* An output starts with the pair of its session. *)
LEMMA StreamedStart ==
    ASSUME Canvassed, UNCHANGED <<encCanvas, output, canvas, jobs, attached>>, Torn' = Torn,
           NEW o \in Outputs, phase[o] = "idle", phase' = [phase EXCEPT ![o] = "connecting"],
           \/ o = output /\ attached[o] = enc /\ enc # None
           \/ o = Torn.output /\ attached[o] = Torn.enc /\ Torn.enc # None
           \/ \E i \in DOMAIN jobs : /\ o = jobs[i].output /\ attached[o] = jobs[i].enc
                                     /\ jobs[i].enc # None
    PROVE  Streamed' /\ Accounted'
<1>1. /\ \A p \in Outputs : p # o => phase'[p] = phase[p]
      /\ o # None
  BY ConstantsAssumption DEF TypeOK
<1>2. ASSUME o = output, attached[o] = enc, enc # None PROVE Streamed'
  <2>1. encCanvas[attached[o]] = canvas
    BY <1>2 DEF Encoded
  <2>2. QED
    BY <1>1, <1>2, <2>1, SessionOutputs DEF Streamed, From, OutputsApart
<1>3. ASSUME o = Torn.output, attached[o] = Torn.enc, Torn.enc # None PROVE Streamed'
  <2>1. encCanvas[attached[o]] = Torn.canvas
    BY <1>3 DEF Encoded
  <2>2. QED
    BY <1>1, <1>3, <2>1, SessionOutputs DEF Streamed, From, OutputsApart
<1>4. ASSUME NEW i \in DOMAIN jobs, o = jobs[i].output, attached[o] = jobs[i].enc, jobs[i].enc # None
      PROVE  Streamed'
  <2>1. encCanvas[attached[o]] = jobs[i].canvas
    BY <1>4 DEF Encoded
  <2>2. QED
    BY <1>1, <1>4, <2>1, SessionOutputs DEF Streamed, From, OutputsApart
<1>5. Accounted'
  BY <1>1 DEF Accounted
<1>6. QED
  BY <1>2, <1>3, <1>4, <1>5

(* A session that is detached takes its canvas along. *)
LEMMA UIStreamed == ASSUME Canvassed, UIBegins \/ UIContinues PROVE Streamed' /\ Accounted'
<1>1. Torn' = Torn
  BY DEF UIBegins, UIContinues, Start, UICall, Stop, RemoveCanvas, Drop, StartFlag, StartSteal,
     StartJoin, StartResolve, StartOutput, StartEncoders, StartPublish, StartAttach, StartOBS,
     StartFailed, StartRetry, StopCheck, StopDisconnect, StopDetach, Torn, TearsDown
<1>2. CASE UNCHANGED <<attached, encCanvas, output, canvas, jobs, phase>>
  BY <1>1, <1>2, StreamedFrame
<1>3. CASE \/ Start \/ Stop \/ RemoveCanvas \/ StartFlag \/ StartSteal \/ StartJoin \/ StartResolve
           \/ StartFailed \/ StopCheck \/ StopDisconnect
  BY <1>2, <1>3 DEF Start, Stop, RemoveCanvas, StartFlag, StartSteal, StartJoin, StartResolve,
     StartFailed, ReleaseEncoders, StopCheck, StopDisconnect
<1>4. CASE Drop
  <2>1. /\ UNCHANGED <<attached, encCanvas, output, canvas, phase>>
        /\ jobs' = Append(jobs, ShutdownJob)
    BY <1>4 DEF Drop
  <2>2. PICK last : /\ last \notin DOMAIN jobs /\ DOMAIN jobs' = DOMAIN jobs \cup {last}
                    /\ jobs'[last] = ShutdownJob /\ \A i \in DOMAIN jobs : jobs'[i] = jobs[i]
    BY <2>1, Appended
  <2>3. Streamed'
    BY <1>1, <2>1, <2>2 DEF Streamed, From, ShutdownJob, NoJob
  <2>4. Accounted'
    BY <1>1, <2>1, <2>2 DEF Accounted
  <2>5. QED
    BY <2>3, <2>4
<1>5. CASE StartOutput
  <2>1. ASSUME NEW o \in Outputs, output = None, phase[o] = "absent", output' = o,
               phase' = [phase EXCEPT ![o] = "idle"]
        PROVE  Streamed' /\ Accounted'
    <3>1. UNCHANGED <<attached, encCanvas, canvas, jobs>>
      BY <1>5 DEF StartOutput
    <3>2. phase'[o] = "idle" /\ \A p \in Outputs : p # o => phase'[p] = phase[p]
      BY <2>1 DEF TypeOK
    <3>3. Streamed'
      BY <1>1, <2>1, <3>1, <3>2, SessionOutputs DEF Streamed, From
    <3>4. Accounted'
      BY <1>1, <2>1, <3>1, <3>2, ConstantsAssumption DEF Accounted
    <3>5. QED
      BY <3>3, <3>4
  <2>2. QED
    BY <1>2, <1>5, <2>1 DEF StartOutput
<1>6. CASE StartEncoders
  <2>1. UNCHANGED <<attached, output, canvas, jobs, phase>>
    BY <1>6 DEF StartEncoders
  <2>2. ASSUME NEW e \in Encoders, CreateEncoders(e, uiCanvas) PROVE Streamed' /\ Accounted'
    BY <1>1, <2>1, <2>2, StreamedCreate
  <2>3. CASE UNCHANGED encCanvas
    BY <1>2, <2>1, <2>3
  <2>4. QED
    BY <1>6, <2>2, <2>3 DEF StartEncoders
<1>7. CASE StartRetry
  <2>1. UNCHANGED <<attached, output, canvas, jobs, phase>>
    BY <1>7 DEF StartRetry
  <2>2. ASSUME NEW e \in Encoders, CreateEncoders(e, canvas) PROVE Streamed' /\ Accounted'
    BY <1>1, <2>1, <2>2, StreamedCreate
  <2>3. CASE UNCHANGED encCanvas
    BY <1>2, <2>1, <2>3
  <2>4. QED
    BY <1>7, <2>2, <2>3 DEF StartRetry
<1>8. CASE StartPublish
  <2>1. /\ UNCHANGED <<attached, encCanvas, output, jobs, phase>>
        /\ output # None => phase[output] = "idle"
    BY <1>8 DEF StartPublish, Turns, StartPcs
  <2>2. Streamed' /\ Accounted'
    BY <1>1, <2>1 DEF Streamed, From, Accounted
  <2>3. QED
    BY <2>2
<1>9. CASE StartAttach
  <2>1. /\ UNCHANGED <<encCanvas, output, canvas, jobs, phase>> /\ uiOutput \in Outputs
        /\ Attach(uiOutput, uiEnc)
    BY <1>9 DEF StartAttach, CallsFit, UsePcs, TypeOK
  <2>2. QED
    BY <1>1, <2>1, StreamedAttach
<1>10. CASE StartOBS
  <2>1. /\ UNCHANGED <<attached, encCanvas, output, canvas, jobs>> /\ output \in Outputs
        /\ uiOutput = output /\ attached[output] = enc /\ enc # None
    BY <1>10 DEF StartOBS, CallsFit, UsePcs, TypeOK, Attached, OutputsApart, Publishing, Listening
  <2>2. QED
    BY <1>1, <1>2, <1>10, <2>1, StreamedStart DEF StartOBS
<1>11. CASE StopDetach
  <2>1. CASE output' = None /\ canvas' = None /\ jobs' = Append(jobs, Detached("session"))
    <3>1. UNCHANGED <<attached, encCanvas, phase>>
      BY <1>11 DEF StopDetach
    <3>2. PICK last : /\ last \notin DOMAIN jobs /\ DOMAIN jobs' = DOMAIN jobs \cup {last}
                      /\ jobs'[last] = Detached("session")
                      /\ \A i \in DOMAIN jobs : jobs'[i] = jobs[i]
      BY <2>1, Appended
    <3>3. jobs'[last].output = output /\ jobs'[last].canvas = canvas
      BY <3>2 DEF Detached
    <3>4. Streamed'
      BY <1>1, <2>1, <3>1, <3>2, <3>3 DEF Streamed, From
    <3>5. Accounted'
      BY <1>1, <2>1, <3>1, <3>2, <3>3 DEF Accounted
    <3>6. QED
      BY <3>4, <3>5
  <2>2. QED
    BY <1>2, <1>11, <2>1 DEF StopDetach, DetachSession
<1>12. QED
  BY <1>3, <1>4, <1>5, <1>6, <1>7, <1>8, <1>9, <1>10, <1>11 DEF UIBegins, UIContinues

LEMMA SigStreamed == ASSUME Canvassed, SigStep PROVE Streamed' /\ Accounted'
<1>1. /\ UNCHANGED <<attached, encCanvas, output, canvas, jobs, phase>> /\ Torn' = Torn
  BY DEF SigStep, StopSignal, StopLock, StopJoin, StopSpawn, Torn, TearsDown
<1>2. QED
  BY <1>1, StreamedFrame

LEMMA OutputStreamed ==
    ASSUME Canvassed, NEW o \in Outputs,
           OutputConnected(o) \/ ConnectFailed(o) \/ ActiveClears(o) \/ ConnectionLost(o)
    PROVE  Streamed' /\ Accounted'
<1>1. UNCHANGED <<attached, encCanvas, output, canvas, jobs>> /\ Torn' = Torn
  BY DEF OutputConnected, ConnectFailed, ConnectionLost, OutputStops, ActiveClears, Torn, TearsDown
<1>2. \A p \in Outputs : /\ phase'[p] \in {"connecting", "active", "closing"} =>
                               phase[p] \in {"connecting", "active", "closing"}
                         /\ phase'[p] # "absent" => phase[p] # "absent"
  BY DEF OutputConnected, ConnectFailed, ConnectionLost, OutputStops, ActiveClears, TypeOK
<1>3. QED
  BY <1>1, <1>2, StreamedFrame

LEMMA RcStreamed ==
    ASSUME Canvassed, NEW t \in Threads, RcStep(t) PROVE Streamed' /\ Accounted'
<1>1. UNCHANGED <<output, jobs>> /\ Torn' = Torn
  BY DEF RcStep, RcEnter, RcLoop, RcExhausted, RcRefused, RcGone, RcWait, RcCount, RcRelease,
     RcInactive, RcGuard1, RcCreate, RcDiscard, RcUnwatch, RcEncFail, RcConnect, RcRemoved, RcGuard2,
     RcAttach, RcStart, RcFailed, Looks, GiveUp, Withdraw, Torn, TearsDown
<1>2. CASE UNCHANGED <<attached, encCanvas, canvas, phase>>
  BY <1>1, <1>2, StreamedFrame
<1>3. CASE \/ RcEnter(t) \/ RcLoop(t) \/ RcExhausted(t) \/ RcRefused(t) \/ RcGone(t) \/ RcWait(t)
           \/ RcCount(t) \/ RcRelease(t) \/ RcInactive(t) \/ RcGuard1(t) \/ RcDiscard(t)
           \/ RcUnwatch(t) \/ RcEncFail(t) \/ RcConnect(t) \/ RcRemoved(t) \/ RcFailed(t)
  BY <1>2, <1>3 DEF RcEnter, RcLoop, RcExhausted, RcRefused, RcGone, RcWait, RcCount, RcRelease,
     RcInactive, RcGuard1, RcDiscard, RcUnwatch, RcEncFail, RcConnect, RcRemoved, RcFailed, Looks,
     GiveUp
<1>4. CASE RcCreate(t)
  <2>1. UNCHANGED <<attached, output, canvas, jobs, phase>>
    BY <1>4 DEF RcCreate
  <2>2. ASSUME NEW e \in Encoders, NEW c, CreateEncoders(e, c) PROVE Streamed' /\ Accounted'
    BY <1>1, <2>1, <2>2, StreamedCreate
  <2>3. CASE UNCHANGED encCanvas
    BY <1>2, <2>1, <2>3
  <2>4. QED
    BY <1>4, <2>2, <2>3 DEF RcCreate
<1>5. CASE RcGuard2(t)
  <2>1. UNCHANGED <<attached, encCanvas, phase>> /\ Runs(t) /\ rcPc[t] = "rc_guard2"
    BY <1>5 DEF RcGuard2, At, Runs
  <2>2. CASE Aborted(t)
    BY <1>2, <1>5, <2>1, <2>2 DEF RcGuard2
  <2>3. CASE ~Aborted(t)
    <3>1. phase[output] = "idle"
      BY <2>1, <2>3, Mine DEF Aborted, Attached, IdlePcs
    <3>2. Streamed'
      BY <1>1, <2>1, <3>1, SessionOutputs DEF Streamed, From
    <3>3. Accounted'
      BY <1>1, <2>1 DEF Accounted
    <3>4. QED
      BY <3>2, <3>3
  <2>4. QED
    BY <2>2, <2>3
<1>6. CASE RcAttach(t)
  <2>1. /\ UNCHANGED <<encCanvas, output, canvas, jobs, phase>>
        /\ Attach(rcOutput[t], rcEnc[t]) /\ Runs(t) /\ rcPc[t] # "rc_enter"
    BY <1>6 DEF RcAttach, At, Runs
  <2>2. rcOutput[t] \in Outputs
    BY <2>1, WorksOn
  <2>3. QED
    BY <1>1, <2>1, <2>2, StreamedAttach
<1>7. CASE RcStart(t)
  <2>1. /\ UNCHANGED <<encCanvas, output, canvas, jobs, attached>>
        /\ Runs(t) /\ rcPc[t] = "rc_start"
    BY <1>7 DEF RcStart, At, Runs
  <2>2. rcOutput[t] \in Outputs /\ attached[rcOutput[t]] = rcEnc[t] /\ HasSession(t)
    BY <2>1, WorksOn DEF Attached, ThreadsHeld
  <2>3. ASSUME phase[rcOutput[t]] = "idle", phase' = [phase EXCEPT ![rcOutput[t]] = "connecting"]
        PROVE  Streamed' /\ Accounted'
    <3>1. \/ /\ rcOutput[t] = output /\ attached[rcOutput[t]] = enc /\ enc # None
          \/ /\ rcOutput[t] = Torn.output /\ attached[rcOutput[t]] = Torn.enc /\ Torn.enc # None
          \/ \E i \in DOMAIN jobs : /\ rcOutput[t] = jobs[i].output
                                    /\ attached[rcOutput[t]] = jobs[i].enc /\ jobs[i].enc # None
      BY <2>1, <2>2 DEF HasSession, Fits
    <3>2. QED
      BY <1>1, <2>1, <2>2, <2>3, <3>1, StreamedStart
  <2>4. CASE UNCHANGED phase
    BY <1>2, <2>1, <2>4
  <2>5. QED
    BY <1>7, <2>3, <2>4 DEF RcStart
<1>8. QED
  BY <1>3, <1>4, <1>5, <1>6, <1>7 DEF RcStep

LEMMA ReaperStreamed == ASSUME Canvassed, ReaperStep PROVE Streamed' /\ Accounted'
<1>1. UNCHANGED encCanvas
  BY DEF ReaperStep, RpTake, RpShutdown, RpCanvas, RpDisconnect, RpDetach, RpJoin, RpForceStop,
     RpRelease
<1>2. CASE RpTake
  <2>1. UNCHANGED <<attached, output, canvas, phase>> /\ Torn = NoJob
    BY <1>2 DEF RpTake, Torn, TearsDown
  <2>2. /\ 1 \in DOMAIN jobs /\ Head(jobs) = jobs[1]
        /\ \A i \in DOMAIN jobs' : \E j \in DOMAIN jobs : jobs'[i] = jobs[j]
        /\ \A j \in DOMAIN jobs : j = 1 \/ \E i \in DOMAIN jobs' : jobs'[i] = jobs[j]
    BY <1>2, JobsLeft DEF RpTake
  <2>3. \/ Torn' = jobs[1]
        \/ Torn' = NoJob /\ jobs[1].output = None
    <3>1. jobs[1] \in Job
      BY <2>2, JobPairs
    <3>2. CASE jobs[1].kind = "session"
      BY <1>2, <2>2, <3>2 DEF RpTake, Torn, TearsDown
    <3>3. CASE jobs[1].kind = "shutdown"
      BY <1>2, <2>2, <3>3 DEF RpTake, Torn, TearsDown, CallsFit
    <3>4. QED
      BY <3>1, <3>2, <3>3 DEF Job
  <2>4. Streamed'
    BY <1>1, <2>1, <2>2, <2>3, SessionOutputs DEF Streamed, From, NoJob
  <2>5. Accounted'
    BY <2>1, <2>2, <2>3, ConstantsAssumption DEF Accounted, NoJob
  <2>6. QED
    BY <2>4, <2>5
<1>3. CASE RpShutdown \/ RpCanvas \/ RpDisconnect \/ RpJoin
  <2>1. /\ UNCHANGED <<attached, output, canvas, jobs, phase>>
        /\ Torn'.output = Torn.output /\ Torn'.canvas = Torn.canvas
    BY <1>3 DEF RpShutdown, RpCanvas, RpDisconnect, RpJoin, Torn, TearsDown, TypeOK, Job
  <2>2. QED
    BY <1>1, <2>1, StreamedFrame
<1>4. CASE RpDetach
  <2>1. /\ UNCHANGED <<attached, jobs, phase>> /\ Torn = NoJob /\ output' = None
        /\ Torn'.output = output /\ Torn'.canvas = canvas
    BY <1>4 DEF RpDetach, DetachSession, Detached, Torn, TearsDown
  <2>2. Streamed'
    BY <1>1, <2>1 DEF Streamed, From
  <2>3. Accounted'
    BY <2>1, ConstantsAssumption DEF Accounted, NoJob
  <2>4. QED
    BY <2>2, <2>3
<1>5. CASE RpForceStop
  <2>1. /\ UNCHANGED <<attached, output, canvas, jobs>>
        /\ Torn'.output = Torn.output /\ Torn'.canvas = Torn.canvas
    BY <1>5 DEF RpForceStop, ReleaseJobEncoders, Torn, TearsDown, TypeOK, Job
  <2>2. \A p \in Outputs : /\ phase'[p] \in {"connecting", "active", "closing"} =>
                                 phase[p] \in {"connecting", "active", "closing"}
                           /\ phase'[p] # "absent" => phase[p] # "absent"
    BY <1>5 DEF RpForceStop, ForceStop
  <2>3. QED
    BY <1>1, <2>1, <2>2, StreamedFrame
<1>6. CASE RpRelease
  <2>1. /\ UNCHANGED <<output, canvas, jobs>> /\ Torn = rpJob /\ Torn' = NoJob
        /\ \A o \in Outputs : phase'[o] = IF o = rpJob.output THEN "absent" ELSE phase[o]
        /\ \A o \in Outputs : attached'[o] = IF o = rpJob.output THEN None ELSE attached[o]
    BY <1>6 DEF RpRelease, Torn, TearsDown
  <2>2. Streamed'
    BY <1>1, <2>1, SessionOutputs DEF Streamed, From, NoJob
  <2>3. Accounted'
    BY <2>1 DEF Accounted
  <2>4. QED
    BY <2>2, <2>3
<1>7. QED
  BY <1>2, <1>3, <1>4, <1>5, <1>6 DEF ReaperStep

LEMMA NextStreamed == ASSUME Canvassed, [Next]_vars PROVE Streamed' /\ Accounted'
<1>1. CASE UNCHANGED vars
  BY <1>1, StreamedFrame DEF Torn, TearsDown
<1>2. QED
  BY <1>1, UIStreamed, SigStreamed, RcStreamed, ReaperStreamed, OutputStreamed
     DEF Next, OutputProgress

-----------------------------------------------------------------------------
(* Candidates *)

LEMMA Holding ==
    ASSUME Canvassed, NEW t \in Threads, HoldsCanvas(t)
    PROVE  /\ Runs(t) /\ rcPc[t] # "rc_enter" /\ uiPc \notin StartPcs
           /\ t = reconnectThread => MemberRuns /\ output # None /\ sigPc = "idle"
           /\ t # reconnectThread => output = None /\ canvas = None
<1>1. t # None /\ rcPc[t] \in HoldPcs \cup {"rc_create"}
  BY ConstantsAssumption DEF Candidates, HoldsCanvas
<1>2. Runs(t) /\ rcPc[t] # "rc_enter"
  BY <1>1 DEF HoldPcs, Runs
<1>3. QED
  BY <1>1, <1>2 DEF Candidates, MemberRuns, Turns

(* Threads that have ended are joined, or begin again. *)
EndedMove(u) == rcPc'[u] = rcPc[u] \/ /\ rcPc[u] \in {"free", "done"}
                                      /\ rcPc'[u] \in {"free", "rc_enter"}

LEMMA JoinsMove ==
    ASSUME TypeOK, NEW h \in Threads \cup {None}, Join(h)
    PROVE  rcCanvas' = rcCanvas /\ \A u \in Threads : EndedMove(u)
<1>1. rcCanvas' = rcCanvas /\ (h # None => rcPc[h] = "done")
  BY DEF Join
<1>2. \A u \in Threads : u # None /\ rcPc'[u] = IF u = h THEN "free" ELSE rcPc[u]
  BY ConstantsAssumption DEF Join
<1>3. QED
  BY <1>1, <1>2 DEF EndedMove

LEMMA CandidatesFrame ==
    ASSUME Canvassed, UNCHANGED <<output, canvas, reconnectThread, rcCanvas>>,
           \A u \in Threads : EndedMove(u),
           uiPc' \in StartPcs => uiPc \in StartPcs \/ \A u \in Threads : ~HoldsCanvas(u)
    PROVE  Candidates'
<1> SUFFICES ASSUME NEW t \in Threads
             PROVE  /\ rcCanvas'[t] # None => rcPc'[t] \in HoldPcs
                    /\ HoldsCanvas(t)' => \/ t = reconnectThread'
                                          \/ output' = None /\ canvas' = None /\ uiPc' \notin StartPcs
                    /\ rcPc'[t] = "rc_unwatch" => rcCanvas'[t] \notin {None, canvas'}
  BY DEF Candidates
<1>1. HoldsCanvas(t)' => HoldsCanvas(t)
  BY DEF HoldsCanvas, EndedMove
<1>2. rcCanvas[t] # None => rcPc[t] \in HoldPcs
  BY DEF Candidates
<1>3. rcCanvas'[t] # None => rcPc'[t] \in HoldPcs
  BY <1>2 DEF EndedMove, HoldPcs
<1>4. rcPc'[t] = "rc_unwatch" => rcCanvas'[t] \notin {None, canvas'}
  BY DEF EndedMove, Candidates
<1>5. HoldsCanvas(t)' => \/ t = reconnectThread'
                         \/ output' = None /\ canvas' = None /\ uiPc' \notin StartPcs
  BY <1>1, Holding DEF Candidates
<1>6. QED
  BY <1>3, <1>4, <1>5

(* An ordinary start() finds no canvas in the hands of a thread, and none gets one while
   it is under way. *)
LEMMA UICandidates == ASSUME Canvassed, UIBegins \/ UIContinues PROVE Candidates'
<1>1. CASE Start
  <2>1. StartCall = "start"
    BY <1>1 DEF Start, UICall, OrdinaryCalls, Uncontested, StartCall
  <2>2. \A u \in Threads : ~HoldsCanvas(u)
    BY <2>1 DEF StartCall
  <2>3. QED
    BY <1>1, <2>2, CandidatesFrame DEF Start, EndedMove
<1>2. CASE Stop \/ RemoveCanvas \/ Drop \/ StopCheck \/ StopDisconnect
  <2>1. /\ UNCHANGED <<output, canvas, reconnectThread, rcCanvas, rcPc>>
        /\ uiPc' \in StartPcs => uiPc' = uiPc
    BY <1>2 DEF Stop, RemoveCanvas, Drop, StopCheck, StopDisconnect, StartPcs
  <2>2. QED
    BY <2>1, CandidatesFrame DEF EndedMove
<1>3. CASE uiPc \in StartPcs
  <2>1. \A u \in Threads : ~HoldsCanvas(u)
    BY <1>3, Holding
  <2>2. rcCanvas' = rcCanvas /\ \A u \in Threads : EndedMove(u)
    <3>1. CASE StartJoin
      BY <3>1, JoinsMove DEF StartJoin, TypeOK
    <3>2. CASE ~StartJoin
      <4>1. UNCHANGED <<rcPc, rcCanvas>>
        BY <3>2, <1>3 DEF UIBegins, UIContinues, Start, UICall, Stop, RemoveCanvas, Drop, StartFlag,
           StartSteal, StartResolve, StartOutput, StartEncoders, StartPublish, StartAttach, StartOBS,
           StartFailed, StartRetry, StopCheck, StopDisconnect, StopDetach
      <4>2. QED
        BY <4>1 DEF EndedMove
    <3>3. QED
      BY <3>1, <3>2
  <2>3. \A u \in Threads : rcCanvas'[u] = None /\ ~HoldsCanvas(u)'
    BY <2>1, <2>2 DEF HoldsCanvas, EndedMove
  <2>4. \A u \in Threads : rcPc'[u] # "rc_unwatch"
    BY <2>1, <2>2 DEF HoldsCanvas, EndedMove, Candidates
  <2>5. QED
    BY <2>3, <2>4 DEF Candidates
<1>4. CASE StopDetach
  <2>1. UNCHANGED <<rcPc, rcCanvas>> /\ uiPc' = "idle"
    BY <1>4 DEF StopDetach
  <2>2. CASE UNCHANGED <<output, canvas, reconnectThread>>
    BY <2>1, <2>2, CandidatesFrame DEF EndedMove, StartPcs
  <2>3. CASE output' = None /\ canvas' = None
    BY <2>1, <2>3 DEF Candidates, StartPcs
  <2>4. QED
    BY <1>4, <2>2, <2>3 DEF StopDetach, DetachSession
<1>5. QED
  BY <1>1, <1>2, <1>3, <1>4 DEF UIBegins, UIContinues, StartFlag, StartSteal, StartJoin, StartResolve,
     StartOutput, StartEncoders, StartPublish, StartAttach, StartOBS, StartFailed, StartRetry, StartPcs

LEMMA SigCandidates == ASSUME Canvassed, SigStep PROVE Candidates'
<1>1. UNCHANGED <<output, canvas, uiPc>> /\ sigPc # "idle"
  BY DEF SigStep, StopSignal, StopLock, StopJoin, StopSpawn
<1>2. \A u \in Threads : ~HoldsCanvas(u)
  BY <1>1, Holding DEF Listening
<1>3. rcCanvas' = rcCanvas /\ \A u \in Threads : EndedMove(u)
  <2>1. CASE StopJoin
    BY <2>1, JoinsMove DEF StopJoin, TypeOK
  <2>2. CASE StopSpawn
    BY <2>2 DEF StopSpawn, EndedMove, TypeOK
  <2>3. CASE StopSignal \/ StopLock
    BY <2>3 DEF StopSignal, StopLock, EndedMove
  <2>4. QED
    BY <2>1, <2>2, <2>3 DEF SigStep
<1>4. \A u \in Threads : rcCanvas'[u] = None /\ ~HoldsCanvas(u)'
  BY <1>2, <1>3 DEF HoldsCanvas, EndedMove
<1>5. \A u \in Threads : rcPc'[u] # "rc_unwatch"
  BY <1>2, <1>3 DEF HoldsCanvas, EndedMove, Candidates
<1>6. QED
  BY <1>4, <1>5 DEF Candidates

(* A step of a thread that is not the publication of a canvas. *)
LEMMA RcCandidatesFrame ==
    ASSUME Canvassed, NEW t \in Threads, UNCHANGED <<output, canvas, reconnectThread, uiPc>>,
           \A u \in Threads : u # t => rcPc'[u] = rcPc[u] /\ rcCanvas'[u] = rcCanvas[u],
           rcCanvas'[t] # None => rcPc'[t] \in HoldPcs,
           HoldsCanvas(t)' => HoldsCanvas(t) \/ t = reconnectThread,
           rcPc'[t] = "rc_unwatch" => rcCanvas'[t] \notin {None, canvas}
    PROVE  Candidates'
<1>1. \A u \in Threads : HoldsCanvas(u)' => HoldsCanvas(u) \/ u = reconnectThread
  BY DEF HoldsCanvas
<1>2. QED
  BY <1>1 DEF Candidates

LEMMA RcCandidates == ASSUME Canvassed, NEW t \in Threads, RcStep(t) PROVE Candidates'
<1>1. /\ UNCHANGED <<output, reconnectThread, uiPc>>
      /\ \A u \in Threads : u # t => rcPc'[u] = rcPc[u] /\ rcCanvas'[u] = rcCanvas[u]
  BY Going DEF RcStep, RcEnter, RcLoop, RcExhausted, RcRefused, RcGone, RcWait, RcCount,
     RcRelease, RcInactive, RcGuard1, RcCreate, RcDiscard, RcUnwatch, RcEncFail, RcConnect,
     RcRemoved, RcGuard2, RcAttach, RcStart, RcFailed, Looks, GiveUp, Withdraw, TypeOK
<1>2. ASSUME NEW pc, Goto(t, pc), pc \notin HoldPcs \cup {"rc_create"}, UNCHANGED canvas,
             rcPc[t] \notin HoldPcs \/ rcCanvas'[t] = None, rcCanvas'[t] \in {None, rcCanvas[t]}
      PROVE  Candidates'
  <2>1. rcCanvas'[t] = None /\ rcPc'[t] = pc
    BY <1>2, Going DEF Candidates
  <2>2. ~HoldsCanvas(t)' /\ rcPc'[t] # "rc_unwatch"
    BY <1>2, <2>1 DEF HoldsCanvas, HoldPcs
  <2>3. QED
    BY <1>1, <1>2, <2>1, <2>2, RcCandidatesFrame
<1>3. ASSUME At(t, rcPc[t]), rcPc[t] \notin HoldPcs, UNCHANGED <<canvas, rcCanvas>>,
             NEW pc, Goto(t, pc), pc \notin HoldPcs \cup {"rc_create"}
      PROVE  Candidates'
  BY <1>2, <1>3
<1>4. CASE \/ RcEnter(t) \/ RcLoop(t) \/ RcExhausted(t) \/ RcRefused(t) \/ RcGone(t) \/ RcWait(t)
           \/ RcCount(t) \/ RcRelease(t) \/ RcInactive(t) \/ RcEncFail(t) \/ RcStart(t) \/ RcFailed(t)
  BY <1>3, <1>4 DEF RcEnter, RcLoop, RcExhausted, RcRefused, RcGone, RcWait, RcCount, RcRelease,
     RcInactive, RcEncFail, RcStart, RcFailed, Looks, GiveUp, At, HoldPcs
<1>5. CASE RcGuard1(t)
  <2>1. UNCHANGED <<canvas, rcCanvas>> /\ Runs(t) /\ rcPc[t] = "rc_guard1"
    BY <1>5 DEF RcGuard1, Looks, At, Runs
  <2>2. CASE Aborted(t)
    BY <1>3, <1>5, <2>1, <2>2 DEF RcGuard1, Looks, At, HoldPcs
  <2>3. CASE ~Aborted(t)
    <3>1. t = reconnectThread /\ rcCanvas[t] = None
      BY <2>1, <2>3, Mine DEF Aborted, Candidates, HoldPcs
    <3>2. rcPc'[t] = "rc_create"
      BY <1>5, <2>3, Going DEF RcGuard1, Looks
    <3>3. QED
      BY <1>1, <2>1, <3>1, <3>2, RcCandidatesFrame
  <2>4. QED
    BY <2>2, <2>3
<1>6. CASE RcCreate(t)
  <2>1. UNCHANGED canvas /\ rcPc[t] = "rc_create" /\ rcCanvas[t] = None
    BY <1>6 DEF RcCreate, At, Candidates, HoldPcs
  <2>2. CASE Goto(t, "rc_refused") /\ UNCHANGED rcCanvas
    BY <1>2, <2>1, <2>2 DEF HoldPcs
  <2>3. ASSUME NEW c \in Resolvable, rcCanvas' = [rcCanvas EXCEPT ![t] = c],
               Goto(t, "rc_connect") \/ Goto(t, "rc_discard")
        PROVE  Candidates'
    <3>1. rcPc'[t] \in {"rc_connect", "rc_discard"} /\ rcCanvas'[t] = c
      BY <2>3, Going DEF TypeOK
    <3>2. c # None => HoldsCanvas(t)
      BY <2>1 DEF Resolvable, HoldsCanvas
    <3>3. HoldsCanvas(t)' => HoldsCanvas(t)
      BY <3>1, <3>2 DEF HoldsCanvas
    <3>4. QED
      BY <1>1, <2>1, <3>1, <3>3, RcCandidatesFrame DEF HoldPcs
  <2>4. QED
    BY <1>6, <2>2, <2>3 DEF RcCreate
<1>7. CASE RcDiscard(t) \/ RcUnwatch(t)
  <2>1. UNCHANGED canvas /\ rcThen[t] \in {"done", "rc_gone", "rc_encfail"}
    BY <1>7 DEF RcDiscard, RcUnwatch, TypeOK
  <2>2. CASE Goto(t, rcThen[t]) /\ rcCanvas' = [rcCanvas EXCEPT ![t] = None]
    BY <1>2, <2>1, <2>2 DEF HoldPcs, TypeOK
  <2>3. CASE Goto(t, "rc_unwatch") /\ UNCHANGED rcCanvas /\ rcCanvas[t] \notin {None, canvas}
    <3>1. rcPc'[t] = "rc_unwatch" /\ HoldsCanvas(t)
      BY <2>3, Going DEF HoldsCanvas
    <3>2. QED
      BY <1>1, <2>1, <2>3, <3>1, RcCandidatesFrame DEF HoldPcs
  <2>4. QED
    BY <1>7, <2>2, <2>3 DEF RcDiscard, RcUnwatch
<1>8. CASE RcConnect(t) \/ RcRemoved(t) \/ (RcGuard2(t) /\ Aborted(t))
  <2>1. UNCHANGED <<canvas, rcCanvas>>
    BY <1>8 DEF RcConnect, RcRemoved, RcGuard2
  <2>2. /\ rcPc'[t] \in {"rc_removed", "rc_guard2", "rc_discard"}
        /\ rcPc[t] \in {"rc_connect", "rc_removed", "rc_guard2"}
    BY <1>8, Going DEF RcConnect, RcRemoved, RcGuard2, Withdraw, At
  <2>3. HoldsCanvas(t)' => HoldsCanvas(t)
    BY <2>1, <2>2 DEF HoldsCanvas
  <2>4. QED
    BY <1>1, <2>1, <2>2, <2>3, RcCandidatesFrame DEF HoldPcs
<1>9. CASE RcGuard2(t) /\ ~Aborted(t)
  <2>1. /\ rcCanvas' = [rcCanvas EXCEPT ![t] = canvas] /\ rcPc'[t] = "rc_attach"
        /\ Runs(t) /\ rcPc[t] = "rc_guard2"
    BY <1>9, Going DEF RcGuard2, At, Runs
  <2>2. t = reconnectThread /\ output # None
    BY <1>9, <2>1, Mine DEF Aborted
  <2>3. \A u \in Threads : u # t => ~HoldsCanvas(u)
    BY <2>2, Holding
  <2>4. \A u \in Threads : u # t => ~HoldsCanvas(u)' /\ rcCanvas'[u] = None /\ rcPc'[u] # "rc_unwatch"
    BY <1>1, <2>3 DEF HoldsCanvas, Candidates
  <2>5. QED
    BY <1>1, <2>1, <2>2, <2>4 DEF Candidates, HoldPcs
<1>10. CASE RcAttach(t)
  <2>1. UNCHANGED canvas /\ Goto(t, "rc_start") /\ rcCanvas'[t] = None
    BY <1>10 DEF RcAttach, TypeOK
  <2>2. "rc_start" \notin HoldPcs \cup {"rc_create"}
    BY DEF HoldPcs
  <2>3. QED
    BY <1>2, <2>1, <2>2
<1>11. QED
  BY <1>4, <1>5, <1>6, <1>7, <1>8, <1>9, <1>10 DEF RcStep

LEMMA NextCandidates == ASSUME Canvassed, [Next]_vars PROVE Candidates'
<1>1. CASE UNCHANGED vars
  BY <1>1, CandidatesFrame DEF EndedMove
<1>2. ASSUME NEW o \in Outputs,
             OutputConnected(o) \/ ConnectFailed(o) \/ ActiveClears(o) \/ ConnectionLost(o)
      PROVE  Candidates'
  <2>1. UNCHANGED <<output, canvas, reconnectThread, uiPc, rcVars>>
    BY <1>2 DEF OutputConnected, ConnectFailed, ConnectionLost, OutputStops, ActiveClears
  <2>2. QED
    BY <2>1, CandidatesFrame DEF EndedMove
<1>3. CASE ReaperStep
  <2>1. CASE RpDetach
    <3>1. /\ UNCHANGED <<uiPc, rcPc, rcCanvas>> /\ uiPc \notin StartPcs
          /\ output' = None /\ canvas' = None
      BY <2>1 DEF RpDetach, DetachSession, CallsFit, ShutdownPcs, StartPcs
    <3>2. QED
      BY <3>1 DEF Candidates, StartPcs
  <2>2. CASE RpJoin
    <3>1. rpJob.thread \in Threads \cup {None}
      BY DEF TypeOK, Job
    <3>2. QED
      BY <2>2, <3>1, JoinsMove, CandidatesFrame DEF RpJoin, StartPcs
  <2>3. CASE RpTake \/ RpShutdown \/ RpCanvas \/ RpDisconnect \/ RpForceStop \/ RpRelease
    <3>1. UNCHANGED <<output, canvas, reconnectThread, uiPc, rcVars>>
      BY <2>3 DEF RpTake, RpShutdown, RpCanvas, RpDisconnect, RpForceStop, RpRelease
    <3>2. QED
      BY <3>1, CandidatesFrame DEF EndedMove
  <2>4. QED
    BY <1>3, <2>1, <2>2, <2>3 DEF ReaperStep
<1>4. QED
  BY <1>1, <1>2, <1>3, UICandidates, SigCandidates, RcCandidates DEF Next, OutputProgress

-----------------------------------------------------------------------------
(* Watching, Alive *)

LEMMA WatchingFrame ==
    ASSUME Canvassed, UNCHANGED <<canvas, watched, removed, uiCanvas>>,
           Leaving => Leaving', Stopping => Stopping',
           uiPc' = "so_publish" => uiPc = "so_publish",
           uiPc' \in {"so_output", "so_encoders", "so_publish"} =>
              uiPc \in {"so_output", "so_encoders", "so_publish"},
           (MemberRuns /\ rcPc[reconnectThread] \in {"rc_removed", "rc_guard2"})' =>
              /\ MemberRuns /\ reconnectThread' = reconnectThread
              /\ rcPc'[reconnectThread] = rcPc[reconnectThread]
              /\ rcCanvas'[reconnectThread] = rcCanvas[reconnectThread]
    PROVE  Watching' /\ Alive'
<1>1. Watching'
  BY DEF Watching, Heeds
<1>2. Alive'
  BY DEF Alive
<1>3. QED
  BY <1>1, <1>2

(* While start() runs, the controller has no thread that does. *)
LEMMA StartWatches ==
    ASSUME Canvassed, UIContinues, uiPc \in StartPcs PROVE Watching' /\ Alive'
<1>1. ~MemberRuns /\ rpPc' = rpPc /\ ~Leaving /\ ~Stopping /\ ~MemberRuns' /\ removed' = removed
  <2>1. ~MemberRuns /\ ~Leaving /\ ~Stopping
    BY DEF Turns, Leaving, Stopping, StartPcs, CallsFit, ShutdownPcs
  <2>2. /\ reconnectThread' \in {None, reconnectThread} /\ rpPc' = rpPc /\ removed' = removed
        /\ \A u \in Threads : EndedMove(u)
    <3>1. CASE StartJoin
      BY <3>1, JoinsMove DEF StartJoin, TypeOK
    <3>2. CASE ~StartJoin
      BY <3>2 DEF UIContinues, StartFlag, StartSteal, StartResolve, StartOutput, StartEncoders,
         StartPublish, StartAttach, StartOBS, StartFailed, StartRetry, StopCheck, StopDisconnect,
         StopDetach, StartPcs, EndedMove
    <3>3. QED
      BY <3>1, <3>2
  <2>3. ~MemberRuns'
    <3>1. SUFFICES ASSUME reconnectThread' # None, Runs(reconnectThread)' PROVE FALSE
      BY DEF MemberRuns
    <3>2. reconnectThread' = reconnectThread /\ reconnectThread \in Threads
          /\ rcPc[reconnectThread] \in {"free", "done"}
      BY <2>1, <2>2, <3>1 DEF MemberRuns, Runs, TypeOK
    <3>3. rcPc'[reconnectThread] = "rc_enter"
      BY <2>2, <3>1, <3>2 DEF Runs, EndedMove
    <3>4. uiPc' \notin StartPcs /\ rcPc[reconnectThread] # "rc_enter"
      BY <3>2, <3>3 DEF Turns, TypeOK
    <3>5. rcPc' = rcPc
      BY <3>4 DEF UIContinues, StartFlag, StartSteal, StartJoin, StartResolve, StartOutput,
         StartEncoders, StartPublish, StartAttach, StartOBS, StartFailed, StartRetry, StopCheck,
         StopDisconnect, StopDetach, StartPcs
    <3>6. QED
      BY <3>3, <3>4, <3>5
  <2>4. QED
    BY <2>1, <2>2, <2>3
<1>2. CASE StartFlag \/ StartSteal \/ StartJoin \/ StartAttach \/ StartOBS \/ StartFailed \/ StartRetry
  <2>1. /\ UNCHANGED <<canvas, watched, removed, uiCanvas>>
        /\ uiPc' \notin {"so_output", "so_encoders", "so_publish"}
    BY <1>2 DEF StartFlag, StartSteal, StartJoin, StartAttach, StartOBS, StartFailed, StartRetry
  <2>2. QED
    BY <1>1, <2>1, WatchingFrame
<1>3. Heeds(canvas) /\ canvas \notin removed
  BY <1>1 DEF Watching, Alive
<1>4. CASE StartResolve
  <2>1. UNCHANGED <<canvas, watched>> /\ uiPc' # "so_publish"
        /\ (uiPc' \in {"so_output", "so_encoders"} => uiCanvas' \in Resolvable)
    BY <1>4 DEF StartResolve
  <2>2. \A c \in Resolvable : c \notin removed
    BY ConstantsAssumption DEF Resolvable, TypeOK
  <2>3. Watching' /\ Alive'
    BY <1>1, <1>3, <2>1, <2>2 DEF Watching, Alive, Heeds
  <2>4. QED
    BY <2>3
<1>5. CASE StartOutput \/ StartEncoders
  <2>1. canvas' = canvas /\ uiPc \in {"so_output", "so_encoders"} /\ uiCanvas \notin removed
    BY <1>5 DEF StartOutput, StartEncoders, Alive
  <2>2. Heeds(canvas)'
    BY <1>3, <1>5, <2>1 DEF StartOutput, StartEncoders, UIDiscard, Unwatch, Watch, Heeds
  <2>3. uiPc' = "so_publish" => Heeds(uiCanvas)'
    BY <1>5 DEF StartOutput, StartEncoders, Watch, Heeds
  <2>4. uiPc' # "idle" => uiCanvas' = uiCanvas
    BY <1>5, <2>1 DEF StartOutput, StartEncoders
  <2>5. Watching'
    BY <1>1, <2>2, <2>3 DEF Watching
  <2>6. Alive'
    BY <1>1, <1>3, <2>1, <2>4 DEF Alive
  <2>7. QED
    BY <2>5, <2>6
<1>6. CASE StartPublish
  <2>1. /\ uiPc = "so_publish" /\ uiPc' = "so_attach" /\ canvas' = uiCanvas
        /\ watched' = watched \ ({canvas} \ {uiCanvas})
    BY <1>6 DEF StartPublish, Unwatch
  <2>2. Heeds(uiCanvas) /\ uiCanvas \notin removed
    BY <2>1 DEF Watching, Alive
  <2>3. QED
    BY <1>1, <2>1, <2>2 DEF Watching, Alive, Heeds
<1>7. QED
  BY <1>2, <1>4, <1>5, <1>6 DEF UIContinues, StopCheck, StopDisconnect, StopDetach, StartPcs

(* A canvas that is removed while it is watched stops the session. *)
LEMMA StopWatches ==
    ASSUME Canvassed, UIBegins \/ StopCheck \/ StopDisconnect \/ StopDetach
    PROVE  Watching' /\ Alive'
<1>1. CASE Start \/ Stop \/ Drop \/ StopDisconnect
  <2>1. /\ UNCHANGED <<canvas, watched, removed, uiCanvas, rcPc, rcCanvas, reconnectThread, rpPc>>
        /\ uiPc' \notin {"so_output", "so_encoders", "so_publish"}
        /\ (Leaving => Leaving') /\ (Stopping => Stopping')
    BY <1>1 DEF Start, UICall, Stop, Drop, StopDisconnect, Leaving, Stopping
  <2>2. MemberRuns' = MemberRuns
    BY <2>1 DEF MemberRuns, Runs
  <2>3. QED
    BY <2>1, <2>2, WatchingFrame
<1>2. CASE RemoveCanvas
  <2>1. /\ UNCHANGED <<canvas, watched, uiCanvas, rcPc, rcCanvas, reconnectThread, rpPc>>
        /\ uiPc = "idle" /\ uiPc' \in {"idle", "st_check"}
    BY <1>2 DEF RemoveCanvas
  <2>2. Leaving => (Leaving' /\ Stopping')
    BY <2>1 DEF Leaving, Stopping
  <2>3. Stopping => Stopping'
    BY <2>1 DEF Stopping
  <2>4. PICK c \in Canvases \ removed : /\ removed' = removed \cup {c}
                                        /\ c \in watched => uiPc' = "st_check"
    BY <1>2 DEF RemoveCanvas
  <2>5. c \in watched => Stopping'
    BY <2>4 DEF Stopping
  <2>6. c # None
    BY ConstantsAssumption
  <2>7. Watching'
    BY <2>1, <2>2 DEF Watching, Heeds, MemberRuns, Runs
  <2>8. canvas' \in removed' => Stopping'
    BY <2>1, <2>2, <2>3, <2>4, <2>5, <2>6 DEF Alive, Watching, Heeds
  <2>9. (MemberRuns /\ rcPc[reconnectThread] = "rc_guard2")' =>
           rcCanvas'[reconnectThread'] \notin removed' \/ Stopping'
    BY <2>1, <2>2, <2>3, <2>4, <2>5, <2>6 DEF Alive, Watching, Heeds, MemberRuns, Runs
  <2>10. QED
    BY <2>1, <2>7, <2>8, <2>9 DEF Alive
<1>3. CASE StopCheck
  <2>1. UNCHANGED <<canvas, removed, rcPc, rcCanvas, reconnectThread, rpPc, output>>
    BY <1>3 DEF StopCheck
  <2>2. CASE uiPc' = "idle" /\ NothingToStop /\ watched' = watched
    <3>1. ~MemberRuns' /\ canvas' = None
      BY <2>1, <2>2 DEF NothingToStop, Turns, MemberRuns, Runs
    <3>2. QED
      BY <2>1, <2>2, <3>1, ConstantsAssumption DEF Watching, Alive, Heeds, TypeOK
  <2>3. CASE uiPc' = "st_disconnect"
    BY <2>3 DEF Watching, Alive, Leaving, Stopping
  <2>4. QED
    BY <1>3, <2>2, <2>3 DEF StopCheck
<1>4. CASE StopDetach
  <2>1. canvas' = None /\ uiPc' = "idle" /\ ~MemberRuns'
    BY <1>4 DEF StopDetach, NothingToStop, DetachSession, Turns, MemberRuns, Runs
  <2>2. QED
    BY <2>1, ConstantsAssumption DEF Watching, Alive, Heeds, TypeOK
<1>5. QED
  BY <1>1, <1>2, <1>3, <1>4 DEF UIBegins

LEMMA UIWatches == ASSUME Canvassed, UIBegins \/ UIContinues PROVE Watching' /\ Alive'
BY StartWatches, StopWatches DEF UIContinues, StartFlag, StartSteal, StartJoin, StartResolve,
   StartOutput, StartEncoders, StartPublish, StartAttach, StartOBS, StartFailed, StartRetry, StartPcs

LEMMA SigWatches == ASSUME Canvassed, SigStep PROVE Watching' /\ Alive'
<1>1. /\ UNCHANGED <<canvas, watched, removed, uiCanvas, uiPc, rpPc>>
      /\ (Leaving => Leaving') /\ (Stopping => Stopping')
  BY DEF SigStep, StopSignal, StopLock, StopJoin, StopSpawn, Leaving, Stopping
<1>2. ~MemberRuns
  BY DEF SigStep, StopSignal, StopLock, StopJoin, StopSpawn, Turns
<1>3. ~(MemberRuns /\ rcPc[reconnectThread] \in {"rc_removed", "rc_guard2"})'
  <2>1. CASE StopJoin
    <3>1. reconnectThread' = reconnectThread /\ \A u \in Threads : EndedMove(u)
      BY <2>1, JoinsMove DEF StopJoin, TypeOK
    <3>2. QED
      BY <1>2, <3>1 DEF MemberRuns, Runs, EndedMove, TypeOK
  <2>2. CASE StopSpawn
    BY <1>2, <2>2 DEF StopSpawn, MemberRuns, Runs, TypeOK
  <2>3. CASE StopSignal \/ StopLock
    BY <1>2, <2>3 DEF StopSignal, StopLock, MemberRuns, Runs
  <2>4. QED
    BY <2>1, <2>2, <2>3 DEF SigStep
<1>4. (uiPc' = "so_publish" => uiPc = "so_publish")
      /\ (uiPc' \in {"so_output", "so_encoders", "so_publish"} =>
             uiPc \in {"so_output", "so_encoders", "so_publish"})
  BY <1>1
<1>5. QED
  BY <1>1, <1>3, <1>4, WatchingFrame

(* A step of a reconnect thread that neither connects nor disconnects the signals of a canvas, nor
   goes on to publish one. *)
LEMMA RcWatchingFrame ==
    ASSUME Canvassed, NEW t \in Threads,
           UNCHANGED <<canvas, watched, removed, uiPc, uiCanvas, rpPc, reconnectThread>>,
           \A u \in Threads : u # t => rcPc'[u] = rcPc[u] /\ rcCanvas'[u] = rcCanvas[u],
           rcPc'[t] \notin {"rc_removed", "rc_guard2"}
    PROVE  Watching' /\ Alive'
<1>1. Leaving' = Leaving /\ Stopping' = Stopping
  BY DEF Leaving, Stopping
<1>2. (MemberRuns /\ rcPc[reconnectThread] \in {"rc_removed", "rc_guard2"})' =>
         /\ MemberRuns /\ reconnectThread' = reconnectThread
         /\ rcPc'[reconnectThread] = rcPc[reconnectThread]
         /\ rcCanvas'[reconnectThread] = rcCanvas[reconnectThread]
  BY DEF MemberRuns, Runs, TypeOK
<1>3. QED
  BY <1>1, <1>2, WatchingFrame

(* What a thread disconnects is not the session's canvas, nor one a start is about to publish. *)
LEMMA Unwatches ==
    ASSUME Canvassed, NEW t \in Threads, NEW c, c # None => HoldsCanvas(t), c # None => c # canvas,
           UNCHANGED <<canvas, removed, uiPc, uiCanvas, rpPc, reconnectThread>>,
           watched' = watched \ {c},
           \A u \in Threads : u # t => rcPc'[u] = rcPc[u] /\ rcCanvas'[u] = rcCanvas[u],
           rcPc'[t] \notin {"rc_removed", "rc_guard2"}
    PROVE  Watching' /\ Alive'
<1>1. CASE c = None
  <2>1. watched' = watched
    BY <1>1, ConstantsAssumption DEF TypeOK
  <2>2. QED
    BY <2>1, RcWatchingFrame
<1>2. CASE c # None
  <2>1. uiPc \notin StartPcs /\ c # canvas /\ (t # reconnectThread => output = None)
    BY <1>2, Holding
  <2>2. Leaving' = Leaving /\ Stopping' = Stopping
    BY DEF Leaving, Stopping
  <2>3. ~(MemberRuns /\ rcPc[reconnectThread] \in {"rc_removed", "rc_guard2"})'
    <3>1. CASE t = reconnectThread
      BY <3>1
    <3>2. CASE t # reconnectThread
      <4>1. ~MemberRuns
        BY <2>1, <3>2 DEF Turns
      <4>2. QED
        BY <3>2, <4>1 DEF MemberRuns, Runs, TypeOK
    <3>3. QED
      BY <3>1, <3>2
  <2>4. Watching'
    BY <2>1, <2>2, <2>3 DEF Watching, Heeds, StartPcs
  <2>5. Alive'
    BY <2>1, <2>2, <2>3 DEF Alive, StartPcs
  <2>6. QED
    BY <2>4, <2>5
<1>3. QED
  BY <1>1, <1>2

LEMMA RcWatches == ASSUME Canvassed, NEW t \in Threads, RcStep(t) PROVE Watching' /\ Alive'
<1>1. /\ UNCHANGED <<removed, uiPc, uiCanvas, rpPc, reconnectThread>>
      /\ \A u \in Threads : u # t => rcPc'[u] = rcPc[u] /\ rcCanvas'[u] = rcCanvas[u]
  BY Going DEF RcStep, RcEnter, RcLoop, RcExhausted, RcRefused, RcGone, RcWait, RcCount,
     RcRelease, RcInactive, RcGuard1, RcCreate, RcDiscard, RcUnwatch, RcEncFail, RcConnect,
     RcRemoved, RcGuard2, RcAttach, RcStart, RcFailed, Looks, GiveUp, Withdraw, TypeOK
<1>2. Leaving' = Leaving /\ Stopping' = Stopping
  BY <1>1 DEF Leaving, Stopping
<1>3. ASSUME NEW pc, Goto(t, pc), pc \notin {"rc_removed", "rc_guard2"}, UNCHANGED <<canvas, watched>>
      PROVE  Watching' /\ Alive'
  BY <1>1, <1>3, Going, RcWatchingFrame
<1>4. CASE \/ RcEnter(t) \/ RcLoop(t) \/ RcExhausted(t) \/ RcRefused(t) \/ RcGone(t) \/ RcWait(t)
           \/ RcCount(t) \/ RcRelease(t) \/ RcInactive(t) \/ RcGuard1(t)
  BY <1>3, <1>4 DEF RcEnter, RcLoop, RcExhausted, RcRefused, RcGone, RcWait, RcCount, RcRelease,
     RcInactive, RcGuard1, Looks, GiveUp
<1>5. CASE RcCreate(t) \/ RcEncFail(t) \/ RcStart(t) \/ RcFailed(t)
  BY <1>3, <1>5 DEF RcCreate, RcEncFail, RcStart, RcFailed, Looks
<1>6. CASE RcDiscard(t)
  <2>1. rcThen[t] \in {"done", "rc_gone", "rc_encfail"}
    BY DEF TypeOK
  <2>2. QED
    BY <1>3, <1>6, <2>1 DEF RcDiscard
<1>7. CASE RcUnwatch(t)
  <2>1. rcThen[t] \in {"done", "rc_gone", "rc_encfail"} /\ rcPc[t] = "rc_unwatch"
    BY <1>7 DEF RcUnwatch, At, TypeOK
  <2>2. HoldsCanvas(t) /\ rcCanvas[t] # canvas
    BY <2>1 DEF Candidates, HoldsCanvas
  <2>3. canvas' = canvas /\ watched' = watched \ {rcCanvas[t]} /\ rcPc'[t] = rcThen[t]
    BY <1>7, Going DEF RcUnwatch, Unwatch
  <2>4. QED
    BY <1>1, <2>1, <2>2, <2>3, Unwatches
<1>8. CASE RcConnect(t)
  <2>1. /\ UNCHANGED canvas /\ watched' = watched \cup ({rcCanvas[t]} \ {None})
        /\ rcPc'[t] = "rc_removed" /\ rcPc[t] = "rc_connect" /\ UNCHANGED rcCanvas
    BY <1>8, Going DEF RcConnect, Watch, At
  <2>2. Heeds(rcCanvas[t])' /\ \A c : Heeds(c) => c = None \/ c \in watched'
    BY <2>1 DEF Heeds
  <2>3. (MemberRuns /\ rcPc[reconnectThread] \in {"rc_removed", "rc_guard2"})' =>
           MemberRuns /\ (reconnectThread # t =>
              rcPc[reconnectThread] = rcPc'[reconnectThread])
    BY <1>1, <2>1 DEF MemberRuns, Runs, TypeOK
  <2>4. Watching'
    BY <1>1, <1>2, <2>1, <2>2, <2>3 DEF Watching, Heeds
  <2>5. Alive'
    BY <1>1, <1>2, <2>1, <2>3 DEF Alive
  <2>6. QED
    BY <2>4, <2>5
<1>9. CASE RcRemoved(t)
  <2>1. CASE Withdraw(t, "rc_gone")
    BY <1>3, <1>9, <2>1 DEF RcRemoved, Withdraw
  <2>2. CASE rcCanvas[t] \notin removed /\ Goto(t, "rc_guard2")
    <3>1. /\ UNCHANGED <<canvas, watched, rcCanvas>>
          /\ rcPc'[t] = "rc_guard2" /\ rcPc[t] = "rc_removed"
      BY <1>9, <2>2, Going DEF RcRemoved, At
    <3>2. (MemberRuns /\ rcPc[reconnectThread] \in {"rc_removed", "rc_guard2"})' =>
             MemberRuns /\ (reconnectThread # t =>
                rcPc[reconnectThread] = rcPc'[reconnectThread])
      BY <1>1, <3>1 DEF MemberRuns, Runs, TypeOK
    <3>3. Watching'
      BY <1>1, <1>2, <3>1, <3>2 DEF Watching, Heeds
    <3>4. Alive'
      BY <1>1, <1>2, <2>2, <3>1, <3>2 DEF Alive
    <3>5. QED
      BY <3>3, <3>4
  <2>3. QED
    BY <1>9, <2>1, <2>2 DEF RcRemoved
<1>10. CASE RcGuard2(t)
  <2>1. rcPc[t] = "rc_guard2" /\ Runs(t) /\ UNCHANGED watched
    BY <1>10 DEF RcGuard2, At, Runs
  <2>2. CASE Aborted(t)
    BY <1>3, <1>10, <2>1, <2>2 DEF RcGuard2, Withdraw
  <2>3. CASE ~Aborted(t)
    <3>1. t = reconnectThread /\ MemberRuns
      BY <2>1, <2>3, Mine DEF Aborted
    <3>2. canvas' = rcCanvas[t] /\ rcPc'[t] = "rc_attach"
      BY <1>10, <2>3, Going DEF RcGuard2
    <3>3. Watching'
      BY <1>1, <1>2, <2>1, <3>1, <3>2 DEF Watching, Heeds
    <3>4. Alive'
      BY <1>1, <1>2, <2>1, <3>1, <3>2 DEF Alive
    <3>5. QED
      BY <3>3, <3>4
  <2>4. QED
    BY <2>2, <2>3
<1>11. CASE RcAttach(t)
  <2>1. /\ canvas' = canvas /\ watched' = watched \ ({rcCanvas[t]} \ {encCanvas[rcEnc[t]]})
        /\ rcPc'[t] = "rc_start" /\ rcPc[t] = "rc_attach" /\ Runs(t)
    BY <1>11, Going DEF RcAttach, Unwatch, Replaced, At, Runs
  <2>2. CASE rcCanvas[t] = encCanvas[rcEnc[t]]
    BY <1>1, <2>1, <2>2, RcWatchingFrame
  <2>3. CASE rcCanvas[t] # encCanvas[rcEnc[t]]
    <3>1. watched' = watched \ {rcCanvas[t]}
      BY <2>1, <2>3
    <3>2. rcCanvas[t] # None => HoldsCanvas(t)
      BY DEF HoldsCanvas
    <3>3. rcCanvas[t] # None => rcCanvas[t] # canvas
      <4>1. SUFFICES ASSUME rcCanvas[t] # None PROVE rcCanvas[t] # canvas
        OBVIOUS
      <4>2. CASE t = reconnectThread
        <5>1. rcEnc[t] = enc /\ enc # None
          BY <2>1, <3>2, <4>1, <4>2, Holding, MemberFits DEF Fits
        <5>2. QED
          BY <2>3, <5>1 DEF Encoded
      <4>3. CASE t # reconnectThread
        BY <3>2, <4>1, <4>3, Holding
      <4>4. QED
        BY <4>2, <4>3
    <3>4. QED
      BY <1>1, <2>1, <3>1, <3>2, <3>3, Unwatches
  <2>4. QED
    BY <2>2, <2>3
<1>12. QED
  BY <1>4, <1>5, <1>6, <1>7, <1>8, <1>9, <1>10, <1>11 DEF RcStep

LEMMA ReaperWatches == ASSUME Canvassed, ReaperStep PROVE Watching' /\ Alive'
<1>1. UNCHANGED <<removed, uiPc, uiCanvas>>
  BY DEF ReaperStep, RpTake, RpShutdown, RpCanvas, RpDisconnect, RpDetach, RpJoin, RpForceStop,
     RpRelease
<1>2. CASE RpTake \/ RpShutdown \/ RpDisconnect \/ RpForceStop \/ RpRelease
  <2>1. UNCHANGED <<canvas, watched, reconnectThread, rcPc, rcCanvas>>
    BY <1>2 DEF RpTake, RpShutdown, RpDisconnect, RpForceStop, RpRelease
  <2>2. (Leaving => Leaving') /\ (Stopping => Stopping')
    BY <1>1, <1>2 DEF RpTake, RpShutdown, RpDisconnect, RpForceStop, RpRelease, Leaving, Stopping
  <2>3. MemberRuns' = MemberRuns
    BY <2>1 DEF MemberRuns, Runs
  <2>4. QED
    BY <1>1, <2>1, <2>2, <2>3, WatchingFrame
<1>3. CASE RpJoin
  <2>1. UNCHANGED <<canvas, watched, reconnectThread, rcCanvas>> /\ \A u \in Threads : EndedMove(u)
    BY <1>3, JoinsMove DEF RpJoin, TypeOK, Job
  <2>2. (Leaving => Leaving') /\ (Stopping => Stopping')
    BY <1>1, <1>3 DEF RpJoin, Leaving, Stopping
  <2>3. (MemberRuns /\ rcPc[reconnectThread] \in {"rc_removed", "rc_guard2"})' =>
           MemberRuns /\ rcPc'[reconnectThread] = rcPc[reconnectThread]
    BY <2>1 DEF MemberRuns, Runs, EndedMove, TypeOK
  <2>4. QED
    BY <1>1, <2>1, <2>2, <2>3, WatchingFrame
<1>4. CASE RpCanvas
  <2>1. uiPc \notin StartPcs /\ rpPc' = "sd_disconnect"
    BY <1>4 DEF RpCanvas, CallsFit, ShutdownPcs, StartPcs
  <2>2. Leaving' /\ Stopping'
    BY <2>1 DEF Leaving, Stopping
  <2>3. QED
    BY <1>1, <2>1, <2>2 DEF Watching, Alive, StartPcs
<1>5. CASE RpDetach
  <2>1. uiPc \notin StartPcs /\ canvas' = None /\ reconnectThread' = None
    BY <1>5 DEF RpDetach, DetachSession, CallsFit, ShutdownPcs, StartPcs
  <2>2. None \notin removed
    BY ConstantsAssumption DEF TypeOK
  <2>3. QED
    BY <1>1, <2>1, <2>2 DEF Watching, Alive, Heeds, MemberRuns, StartPcs
<1>6. QED
  BY <1>2, <1>3, <1>4, <1>5 DEF ReaperStep

LEMMA NextWatches == ASSUME Canvassed, [Next]_vars PROVE Watching' /\ Alive'
<1>1. ASSUME UNCHANGED <<canvas, watched, removed, uiPc, uiCanvas, rpPc>>,
             UNCHANGED <<reconnectThread, rcPc, rcCanvas>>
      PROVE  Watching' /\ Alive'
  <2>1. Leaving' = Leaving /\ Stopping' = Stopping /\ MemberRuns' = MemberRuns
    BY <1>1 DEF Leaving, Stopping, MemberRuns, Runs
  <2>2. QED
    BY <1>1, <2>1, WatchingFrame
<1>2. ASSUME NEW o \in Outputs,
             OutputConnected(o) \/ ConnectFailed(o) \/ ActiveClears(o) \/ ConnectionLost(o)
      PROVE  Watching' /\ Alive'
  BY <1>1, <1>2 DEF OutputConnected, ConnectFailed, ConnectionLost, OutputStops, ActiveClears
<1>3. CASE UNCHANGED vars
  BY <1>1, <1>3
<1>4. QED
  BY <1>2, <1>3, UIWatches, SigWatches, RcWatches, ReaperWatches DEF Next, OutputProgress

-----------------------------------------------------------------------------
(* The theorem. *)

LEMMA InitCanvas == Init => CanvasInv
<1> SUFFICES ASSUME Init PROVE CanvasInv
  OBVIOUS
<1>1. Torn = NoJob /\ DOMAIN jobs = {}
  BY DEF Init, Torn, TearsDown
<1>2. Encoded /\ Streamed /\ Accounted
  BY <1>1 DEF Init, Encoded, Streamed, Accounted, From, NoJob
<1>3. Candidates
  BY DEF Init, Candidates, HoldsCanvas, StartPcs
<1>4. Watching /\ Alive
  BY DEF Init, Watching, Alive, Heeds, MemberRuns
<1>5. QED
  BY <1>2, <1>3, <1>4

(* The canvas of a session is what its encoders encode, and it is watched and not removed
   until something stops the session: in every state of the controller, for the ordinary
   calls without the contested start. *)
THEOREM CanvasInvCorrect == ASSUME OrdinaryCalls, Uncontested PROVE Spec => []CanvasInv
<1>1. TypeOK /\ HandleInv /\ OwnInv /\ CanvasInv /\ TypeOK' /\ OwnInv' /\ [Next]_vars => CanvasInv'
  BY NextEncoded, NextStreamed, NextCandidates, NextWatches
<1>2. QED
  BY <1>1, InitCanvas, TypeCorrect, HandleInvCorrect, OwnInvCorrect, PTL DEF Spec

(* A session on a canvas encodes only from one that is held, alive and watched. *)
LEMMA AliveCanvas == TypeOK /\ OwnInv /\ CanvasInv => CanvasAlive
<1> SUFFICES ASSUME TypeOK, OwnInv, CanvasInv PROVE CanvasAlive
  OBVIOUS
<1>1. RunningEncoderPinned
  <2>1. SUFFICES ASSUME NEW o \in Outputs, phase[o] \in {"connecting", "active", "closing"},
                        attached[o] # None
                 PROVE  Pinned(encCanvas[attached[o]])
    BY DEF RunningEncoderPinned
  <2>2. o # None /\ phase[o] # "absent"
    BY <2>1, ConstantsAssumption
  <2>3. CASE o = output
    BY <2>1, <2>2, <2>3 DEF Streamed, From, Pinned
  <2>4. CASE o = Torn.output
    <3>1. encCanvas[attached[o]] = Torn.canvas /\ Torn = rpJob
      BY <2>1, <2>2, <2>4 DEF Streamed, From, Torn, NoJob
    <3>2. QED
      BY <3>1 DEF Pinned
  <2>5. ASSUME NEW i \in DOMAIN jobs, jobs[i].output = o PROVE Pinned(encCanvas[attached[o]])
    BY <2>1, <2>2, <2>5 DEF Streamed, From, Pinned
  <2>6. QED
    BY <2>2, <2>3, <2>4, <2>5 DEF Accounted
<1>2. NoDeadCanvas
  BY DEF NoDeadCanvas, Alive, Stopping
<1>3. SessionCanvasWatched
  BY DEF SessionCanvasWatched, Watching, Heeds, Leaving
<1>4. QED
  BY <1>1, <1>2, <1>3 DEF CanvasAlive

(* RunningEncoderPinned, NoDeadCanvas and SessionCanvasWatched hold whatever the endpoint's canvas
   does while sessions start, break, reconnect and stop. *)
THEOREM CanvasAliveCorrect == ASSUME OrdinaryCalls, Uncontested PROVE Spec => []CanvasAlive
BY AliveCanvas, TypeCorrect, OwnInvCorrect, CanvasInvCorrect, PTL
=============================================================================
