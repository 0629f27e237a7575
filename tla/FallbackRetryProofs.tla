------------------------ MODULE FallbackRetryProofs ------------------------
(***************************************************************************)
(* Proofs about FallbackRetry, for every value of its constants: types, no *)
(* updater outlives Stop, main never stays down without a retry on its     *)
(* way, and the wrapper implements RetryingUpdater.                        *)
(*                                                                         *)
(* The second part is about Deployment, the wrapper of the streamer whose  *)
(* fallback is a wrapper of the poller: each of the two is still what it   *)
(* is alone, and together they never leave an outage unattended; with one  *)
(* receive loop at a time there is a single retry chain of the stream, and *)
(* the poller covers for it.                                               *)
(***************************************************************************)
EXTENDS Deployment, TLAPS

\* Handling one failure never leaves more pending than it replaces.
LEMMA CountersInvariant == Spec => []CountersOK
<1> USE FallbackRetryAssumption DEF FallbackRetryAssumption
<1>1. Init => CountersOK
  BY DEF Init, CountersOK, RetryLoad, FallbackLoad
<1>2. CountersOK /\ [Next]_vars => CountersOK'
  <2> SUFFICES ASSUME CountersOK, [Next]_vars PROVE CountersOK'
    OBVIOUS
  <2> USE DEF CountersOK, RetryLoad, FallbackLoad, ownerVars, updaterVars,
              retryVars, fallbackVars
  <2>1. CASE CountStart /\ StartOnMain
    BY <2>1 DEF CountStart, StartOnMain, BeginStart, MainStarted
  <2>2. CASE CountStart /\ StartOnFallback
    BY <2>2 DEF CountStart, StartOnFallback, BeginStart
  <2>3. CASE CountStart /\ StartFails
    BY <2>3 DEF CountStart, StartFails, BeginStart
  <2>4. CASE Stop
    BY <2>4 DEF Stop
  <2>5. CASE MainWorkBegins \/ MainWorkEnds
    BY <2>5 DEF MainWorkBegins, MainWorkEnds
  <2>6. CASE MainWorkFails
    BY <2>6 DEF MainWorkFails
  <2>7. CASE ScheduleRetry
    BY <2>7 DEF ScheduleRetry
  <2>8. CASE RetryTimerExpires
    BY <2>8 DEF RetryTimerExpires
  <2>9. CASE RetrySucceeds
    BY <2>9 DEF RetrySucceeds, BeginRetry, MainStarted
  <2>10. CASE RetryFails
    BY <2>10 DEF RetryFails, BeginRetry
  <2>11. CASE RetryAbandoned
    BY <2>11 DEF RetryAbandoned
  <2>12. CASE FallbackStartSucceeds
    BY <2>12 DEF FallbackStartSucceeds, BeginFallbackStart
  <2>13. CASE FallbackStartFails
    BY <2>13 DEF FallbackStartFails, BeginFallbackStart
  <2>14. CASE FallbackStartAbandoned
    BY <2>14 DEF FallbackStartAbandoned
  <2>15. CASE FallbackTimerExpires
    BY <2>15 DEF FallbackTimerExpires
  <2>16. CASE UNCHANGED vars
    BY <2>16 DEF vars
  <2> QED
    BY <2>1, <2>2, <2>3, <2>4, <2>5, <2>6, <2>7, <2>8, <2>9, <2>10, <2>11,
       <2>12, <2>13, <2>14, <2>15, <2>16 DEF Next
<1> QED
  BY <1>1, <1>2, PTL DEF Spec

LEMMA FlagsInvariant == Spec => []FlagsOK
<1>1. Init => FlagsOK
  BY DEF Init, FlagsOK
<1>2. FlagsOK /\ [Next]_vars => FlagsOK'
  <2> SUFFICES ASSUME FlagsOK, [Next]_vars PROVE FlagsOK'
    OBVIOUS
  <2> USE DEF FlagsOK, ownerVars, updaterVars
  <2>1. CASE StartOnMain \/ StartOnFallback \/ StartFails \/ Stop
    BY <2>1 DEF StartOnMain, StartOnFallback, StartFails, Stop, MainStarted
  <2>2. CASE MainWorkBegins \/ MainWorkEnds \/ MainWorkFails
    BY <2>2 DEF MainWorkBegins, MainWorkEnds, MainWorkFails
  <2>3. CASE RetrySucceeds \/ RetryFails
    BY <2>3 DEF RetrySucceeds, RetryFails, MainStarted
  <2>4. CASE FallbackStartSucceeds \/ FallbackStartFails
    BY <2>4 DEF FallbackStartSucceeds, FallbackStartFails
  <2>5. CASE ScheduleRetry \/ RetryTimerExpires \/ RetryAbandoned
             \/ FallbackStartAbandoned \/ FallbackTimerExpires
    BY <2>5 DEF ScheduleRetry, RetryTimerExpires, RetryAbandoned,
                FallbackStartAbandoned, FallbackTimerExpires
  <2>6. CASE UNCHANGED vars
    BY <2>6 DEF vars
  <2> QED
    BY <2>1, <2>2, <2>3, <2>4, <2>5, <2>6 DEF Next
<1> QED
  BY <1>1, <1>2, PTL DEF Spec

\* The flags, the outcome of Start and every counter keep their types.
THEOREM Typing == Spec => []TypeOK
<1>1. FlagsOK /\ CountersOK => TypeOK
  BY DEF TypeOK
<1> QED
  BY <1>1, FlagsInvariant, CountersInvariant, PTL

----------------------------------------------------------------------------
\* Stop is final until the next Start: whatever was on its way when Stop took
\* the lock finds isRunning false and starts nothing.
THEOREM StopIsFinal == Spec => []StoppedMeansIdle
<1>1. Init => StoppedMeansIdle
  BY DEF Init, StoppedMeansIdle
<1>2. StoppedMeansIdle /\ [Next]_vars => StoppedMeansIdle'
  <2> SUFFICES ASSUME StoppedMeansIdle, [Next]_vars PROVE StoppedMeansIdle'
    OBVIOUS
  <2> USE DEF StoppedMeansIdle, ownerVars, updaterVars
  <2>1. CASE StartOnMain \/ StartOnFallback \/ StartFails \/ Stop
    BY <2>1 DEF StartOnMain, StartOnFallback, StartFails, Stop
  <2>2. CASE MainWorkBegins \/ MainWorkEnds \/ MainWorkFails
    BY <2>2 DEF MainWorkBegins, MainWorkEnds, MainWorkFails
  <2>3. CASE RetrySucceeds \/ RetryFails
    BY <2>3 DEF RetrySucceeds, RetryFails, BeginRetry
  <2>4. CASE FallbackStartSucceeds \/ FallbackStartFails
    BY <2>4 DEF FallbackStartSucceeds, FallbackStartFails, BeginFallbackStart
  <2>5. CASE ScheduleRetry \/ RetryTimerExpires \/ RetryAbandoned
             \/ FallbackStartAbandoned \/ FallbackTimerExpires
    BY <2>5 DEF ScheduleRetry, RetryTimerExpires, RetryAbandoned,
                FallbackStartAbandoned, FallbackTimerExpires
  <2>6. CASE UNCHANGED vars
    BY <2>6 DEF vars
  <2> QED
    BY <2>1, <2>2, <2>3, <2>4, <2>5, <2>6 DEF Next
<1> QED
  BY <1>1, <1>2, PTL DEF Spec

----------------------------------------------------------------------------
\* A main updater that is down while the wrapper runs is always about to be
\* retried, with any number of concurrent failures, restarts and timers.
THEOREM RetryIsNeverLost == Spec => []MainRetryPending
<1>1. Init => MainRetryPending
  BY DEF Init, MainRetryPending
<1>2. TypeOK /\ MainRetryPending /\ [Next]_vars => MainRetryPending'
  <2> SUFFICES ASSUME TypeOK, MainRetryPending, [Next]_vars
               PROVE MainRetryPending'
    OBVIOUS
  <2> USE DEF TypeOK, FlagsOK, CountersOK, MainRetryPending, RetryLoad, ownerVars,
              updaterVars, retryVars
  <2>1. CASE CountStart /\ StartOnMain
    BY <2>1 DEF StartOnMain, MainStarted
  <2>2. CASE CountStart /\ StartOnFallback
    BY <2>2 DEF CountStart, StartOnFallback, BeginStart
  <2>3. CASE StartFails \/ Stop
    BY <2>3 DEF StartFails, Stop
  <2>4. CASE MainWorkBegins \/ MainWorkEnds
    BY <2>4 DEF MainWorkBegins, MainWorkEnds
  <2>5. CASE MainWorkFails
    BY <2>5 DEF MainWorkFails
  <2>6. CASE ScheduleRetry
    BY <2>6 DEF ScheduleRetry
  <2>7. CASE RetryTimerExpires
    BY <2>7 DEF RetryTimerExpires
  <2>8. CASE RetrySucceeds
    BY <2>8 DEF RetrySucceeds, MainStarted
  <2>9. CASE RetryFails
    BY <2>9 DEF RetryFails, BeginRetry
  <2>10. CASE RetryAbandoned
    BY <2>10 DEF RetryAbandoned
  <2>11. CASE FallbackStartSucceeds \/ FallbackStartFails
    BY <2>11 DEF FallbackStartSucceeds, FallbackStartFails
  <2>12. CASE FallbackStartAbandoned \/ FallbackTimerExpires
    BY <2>12 DEF FallbackStartAbandoned, FallbackTimerExpires
  <2>13. CASE UNCHANGED vars
    BY <2>13 DEF vars
  <2> QED
    BY <2>1, <2>2, <2>3, <2>4, <2>5, <2>6, <2>7, <2>8, <2>9, <2>10, <2>11,
       <2>12, <2>13 DEF Next
<1> QED
  BY <1>1, <1>2, Typing, PTL DEF Spec

----------------------------------------------------------------------------
\* The wrapper implements the abstract self-recovering updater: each of its
\* steps is a step of it or leaves what its owner can see unchanged.
THEOREM Refinement == Spec => ImplementsUpdater
<1>1. Init => U!Init
  BY DEF Init, U!Init
<1>2. StoppedMeansIdle /\ [Next]_vars => [U!Next]_U!vars
  <2> SUFFICES ASSUME StoppedMeansIdle, [Next]_vars PROVE [U!Next]_U!vars
    OBVIOUS
  <2> USE DEF U!vars, U!Next, U!StartOk, U!StartErr, U!Stop, U!Interrupt,
              U!Recover, ownerVars, updaterVars
  <2>1. CASE CountStart /\ StartOnMain
    BY <2>1 DEF StartOnMain, MainStarted
  <2>2. CASE CountStart /\ StartOnFallback
    BY <2>2 DEF StartOnFallback
  <2>3. CASE CountStart /\ StartFails
    BY <2>3 DEF StartFails
  <2>4. CASE Stop
    BY <2>4 DEF Stop
  <2>5. CASE MainWorkBegins \/ MainWorkEnds
    BY <2>5 DEF MainWorkBegins, MainWorkEnds
  <2>6. CASE MainWorkFails
    BY <2>6 DEF MainWorkFails
  <2>7. CASE RetrySucceeds
    BY <2>7 DEF RetrySucceeds, BeginRetry, MainStarted
  <2>8. CASE RetryFails
    BY <2>8 DEF RetryFails
  <2>9. CASE ScheduleRetry \/ RetryTimerExpires \/ RetryAbandoned
    BY <2>9 DEF ScheduleRetry, RetryTimerExpires, RetryAbandoned
  <2>10. CASE FallbackStartSucceeds
    BY <2>10 DEF FallbackStartSucceeds, BeginFallbackStart
  <2>11. CASE FallbackStartFails
    BY <2>11 DEF FallbackStartFails
  <2>12. CASE FallbackStartAbandoned \/ FallbackTimerExpires
    BY <2>12 DEF FallbackStartAbandoned, FallbackTimerExpires
  <2>13. CASE UNCHANGED vars
    BY <2>13 DEF vars
  <2> QED
    BY <2>1, <2>2, <2>3, <2>4, <2>5, <2>6, <2>7, <2>8, <2>9, <2>10, <2>11,
       <2>12, <2>13 DEF Next
<1> QED
  BY <1>1, <1>2, StopIsFinal, PTL DEF Spec, ImplementsUpdater, U!Spec

----------------------------------------------------------------------------
(* The deployment: both wrappers.                                          *)

\* The outer wrapper only ever takes steps of FallbackRetry: what is proved
\* of that module holds of it, although its fallback is now a wrapper.
THEOREM OuterIsWrapper == DeploymentSpec => Spec
<1>1. DeploymentInit => Init
  BY DEF DeploymentInit
<1>2. [DeploymentNext]_deploymentVars => [Next]_vars
  <2> SUFFICES ASSUME DeploymentNext \/ UNCHANGED deploymentVars
               PROVE  Next \/ UNCHANGED vars
    OBVIOUS
  <2>1. CASE Start
    BY <2>1 DEF Start, Next
  <2>2. CASE RetryStopsPolling \/ StartPolling \/ PollingRefused
    BY <2>2 DEF RetryStopsPolling, StartPolling, PollingRefused, Next
  <2>3. CASE StreamStep
    BY <2>3 DEF StreamStep, Next
  <2>4. CASE UNCHANGED vars
    BY <2>4
  <2> QED
    BY <2>1, <2>2, <2>3, <2>4 DEF DeploymentNext, RetryPolling, deploymentVars
<1> QED
  BY <1>1, <1>2, PTL DEF DeploymentSpec, Spec

\* The steps of the inner wrapper, whoever causes them.
PollerStep ==
    \/ P!StartOnMain \/ P!StartFails \/ P!Stop
    \/ P!MainWorkBegins \/ P!MainWorkEnds \/ P!MainWorkFails
    \/ P!ScheduleRetry \/ P!RetryTimerExpires
    \/ P!RetrySucceeds \/ P!RetryFails \/ P!RetryAbandoned
    \/ P!FallbackStartAbandoned

LEMMA PollerSteps ==
    [DeploymentNext]_deploymentVars => PollerStep \/ UNCHANGED pVars
<1> SUFFICES ASSUME DeploymentNext \/ UNCHANGED deploymentVars
             PROVE  PollerStep \/ UNCHANGED pVars
  OBVIOUS
<1>1. CASE Start
  BY <1>1 DEF Start, PollerStep
<1>2. CASE RetryStopsPolling \/ StartPolling \/ PollingRefused
  BY <1>2 DEF RetryStopsPolling, StartPolling, PollingRefused, PollerStep
<1>3. CASE PollStep
  BY <1>3 DEF PollStep, PollerStep
<1>4. CASE RetryPolling
  BY <1>4 DEF RetryPolling, PollerStep
<1>5. CASE UNCHANGED pVars
  BY <1>5
<1> QED
  BY <1>1, <1>2, <1>3, <1>4, <1>5 DEF DeploymentNext, deploymentVars

\* What the inner wrapper keeps by itself: it is idle when stopped, and it
\* retries the poller whenever that is down.
PollerInv == P!StoppedMeansIdle /\ P!MainRetryPending

LEMMA PollerCounters == DeploymentSpec => []P!CountersOK
<1> USE DeploymentAssumption DEF DeploymentAssumption, P!CountersOK,
        P!RetryLoad, P!FallbackLoad
<1>1. DeploymentInit => P!CountersOK
  BY DEF DeploymentInit, P!Init
<1>2. P!CountersOK /\ (PollerStep \/ UNCHANGED pVars) => P!CountersOK'
  <2> SUFFICES ASSUME P!CountersOK, PollerStep \/ UNCHANGED pVars
               PROVE  P!CountersOK'
    OBVIOUS
  <2> USE DEF P!ownerVars, P!updaterVars, P!retryVars, P!fallbackVars
  <2>1. CASE P!StartOnMain
    BY <2>1 DEF P!StartOnMain, P!BeginStart, P!MainStarted
  <2>2. CASE P!StartFails
    BY <2>2 DEF P!StartFails, P!BeginStart
  <2>3. CASE P!Stop
    BY <2>3 DEF P!Stop
  <2>4. CASE P!MainWorkBegins
    BY <2>4 DEF P!MainWorkBegins
  <2>5. CASE P!MainWorkEnds
    BY <2>5 DEF P!MainWorkEnds
  <2>6. CASE P!MainWorkFails
    BY <2>6 DEF P!MainWorkFails
  <2>7. CASE P!ScheduleRetry
    BY <2>7 DEF P!ScheduleRetry
  <2>8. CASE P!RetryTimerExpires
    BY <2>8 DEF P!RetryTimerExpires
  <2>9. CASE P!RetrySucceeds
    BY <2>9 DEF P!RetrySucceeds, P!BeginRetry, P!MainStarted
  <2>10. CASE P!RetryFails
    BY <2>10 DEF P!RetryFails, P!BeginRetry
  <2>11. CASE P!RetryAbandoned
    BY <2>11 DEF P!RetryAbandoned
  <2>12. CASE P!FallbackStartAbandoned
    BY <2>12 DEF P!FallbackStartAbandoned
  <2>13. CASE UNCHANGED pVars
    BY <2>13 DEF pVars
  <2> QED
    BY <2>1, <2>2, <2>3, <2>4, <2>5, <2>6, <2>7, <2>8, <2>9, <2>10, <2>11,
       <2>12, <2>13 DEF PollerStep
<1> QED
  BY <1>1, <1>2, PollerSteps, PTL DEF DeploymentSpec

LEMMA PollerInvariant == DeploymentSpec => [](P!CountersOK /\ PollerInv)
<1>1. DeploymentInit => PollerInv
  BY DEF DeploymentInit, P!Init, PollerInv, P!StoppedMeansIdle,
         P!MainRetryPending
<1>2. P!CountersOK /\ PollerInv /\ (PollerStep \/ UNCHANGED pVars)
        => PollerInv'
  <2> SUFFICES ASSUME P!CountersOK, PollerInv,
                      PollerStep \/ UNCHANGED pVars
               PROVE  PollerInv'
    OBVIOUS
  <2> USE DEF PollerInv, P!CountersOK, P!RetryLoad, P!StoppedMeansIdle,
              P!MainRetryPending, P!ownerVars, P!updaterVars, P!retryVars
  <2>1. CASE P!StartOnMain
    BY <2>1 DEF P!StartOnMain, P!MainStarted
  <2>2. CASE P!StartFails \/ P!Stop
    BY <2>2 DEF P!StartFails, P!Stop
  <2>3. CASE P!MainWorkBegins \/ P!MainWorkEnds
    BY <2>3 DEF P!MainWorkBegins, P!MainWorkEnds
  <2>4. CASE P!MainWorkFails
    BY <2>4 DEF P!MainWorkFails
  <2>5. CASE P!ScheduleRetry
    BY <2>5 DEF P!ScheduleRetry
  <2>6. CASE P!RetryTimerExpires
    BY <2>6 DEF P!RetryTimerExpires
  <2>7. CASE P!RetrySucceeds
    BY <2>7 DEF P!RetrySucceeds, P!BeginRetry, P!MainStarted
  <2>8. CASE P!RetryFails
    BY <2>8 DEF P!RetryFails, P!BeginRetry
  <2>9. CASE P!RetryAbandoned
    BY <2>9 DEF P!RetryAbandoned
  <2>10. CASE P!FallbackStartAbandoned
    BY <2>10 DEF P!FallbackStartAbandoned
  <2>11. CASE UNCHANGED pVars
    BY <2>11 DEF pVars
  <2> QED
    BY <2>1, <2>2, <2>3, <2>4, <2>5, <2>6, <2>7, <2>8, <2>9, <2>10, <2>11
       DEF PollerStep
<1> QED
  BY <1>1, <1>2, PollerCounters, PollerSteps, PTL DEF DeploymentSpec

\* The inner wrapper, started, refused and stopped by the outer one at any
\* time, implements the abstract self-recovering updater.
THEOREM PollerRefinement == DeploymentSpec => P!ImplementsUpdater
<1>1. DeploymentInit => P!U!Init
  BY DEF DeploymentInit, P!Init, P!U!Init
<1>2. PollerInv /\ (PollerStep \/ UNCHANGED pVars) => [P!U!Next]_P!U!vars
  <2> SUFFICES ASSUME PollerInv, PollerStep \/ UNCHANGED pVars
               PROVE  [P!U!Next]_P!U!vars
    OBVIOUS
  <2> USE DEF PollerInv, P!StoppedMeansIdle, P!U!vars, P!U!Next, P!U!StartOk,
              P!U!StartErr, P!U!Stop, P!U!Interrupt, P!U!Recover,
              P!ownerVars, P!updaterVars
  <2>1. CASE P!StartOnMain
    BY <2>1 DEF P!StartOnMain, P!MainStarted
  <2>2. CASE P!StartFails
    BY <2>2 DEF P!StartFails
  <2>3. CASE P!Stop
    BY <2>3 DEF P!Stop
  <2>4. CASE P!MainWorkBegins \/ P!MainWorkEnds
    BY <2>4 DEF P!MainWorkBegins, P!MainWorkEnds
  <2>5. CASE P!MainWorkFails
    BY <2>5 DEF P!MainWorkFails
  <2>6. CASE P!RetrySucceeds
    BY <2>6 DEF P!RetrySucceeds, P!BeginRetry, P!MainStarted
  <2>7. CASE P!RetryFails
    BY <2>7 DEF P!RetryFails
  <2>8. CASE P!ScheduleRetry \/ P!RetryTimerExpires \/ P!RetryAbandoned
             \/ P!FallbackStartAbandoned
    BY <2>8 DEF P!ScheduleRetry, P!RetryTimerExpires, P!RetryAbandoned,
                P!FallbackStartAbandoned
  <2>9. CASE UNCHANGED pVars
    BY <2>9 DEF pVars
  <2> QED
    BY <2>1, <2>2, <2>3, <2>4, <2>5, <2>6, <2>7, <2>8, <2>9 DEF PollerStep
<1> QED
  BY <1>1, <1>2, PollerInvariant, PollerSteps, PTL
     DEF DeploymentSpec, P!ImplementsUpdater, P!U!Spec

----------------------------------------------------------------------------
(* With one connection at a time the two wrappers attend to every outage.  *)

\* The owner starts again only after a failure, which leaves nothing behind:
\* one chain of retries, for any number of Start calls.
DeploymentChain ==
    /\ SingleRetryChain
    /\ isRunning <=> lastStart = "ok"
    /\ ~isRunning => RetryLoad = 0 /\ mainWork = 0 /\ ~mainUp /\ ~fallbackUp
    /\ isRunning /\ mainWork > 0 => mainUp

\* The outer wrapper takes its fallback for up only while the inner wrapper
\* runs and its last Start succeeded.
FallbackIsPoller == fallbackUp => pRunning /\ pLastStart = "ok"

LEMMA DeploymentChainInvariant ==
    ASSUME MaxWork <= 1
    PROVE  DeploymentSpec => []DeploymentChain
<1> USE FallbackRetryAssumption DEF FallbackRetryAssumption
<1>1. DeploymentInit => DeploymentChain
  BY DEF DeploymentInit, Init, DeploymentChain, SingleRetryChain, RetryLoad
<1>2. TypeOK /\ DeploymentChain /\ [DeploymentNext]_deploymentVars
        => DeploymentChain'
  <2> SUFFICES ASSUME TypeOK, DeploymentChain,
                      DeploymentNext \/ UNCHANGED deploymentVars
               PROVE  DeploymentChain'
    OBVIOUS
  <2> USE DEF TypeOK, FlagsOK, CountersOK, DeploymentChain, SingleRetryChain,
              RetryLoad, ownerVars, updaterVars, retryVars
  <2>1. CASE lastStart # "ok" /\ StartOnMain
    BY <2>1 DEF StartOnMain, BeginStart, MainStarted
  <2>2. CASE lastStart # "ok" /\ StartOnFallback
    BY <2>2 DEF StartOnFallback, BeginStart
  <2>3. CASE lastStart # "ok" /\ StartFails
    BY <2>3 DEF StartFails, BeginStart
  <2>4. CASE RetryStopsPolling
    BY <2>4 DEF RetryStopsPolling, RetrySucceeds, BeginRetry, MainStarted
  <2>5. CASE StartPolling \/ PollingRefused
    BY <2>5 DEF StartPolling, PollingRefused, FallbackStartSucceeds,
                FallbackStartFails, BeginFallbackStart
  <2>6. CASE MainWorkBegins \/ MainWorkEnds
    BY <2>6 DEF MainWorkBegins, MainWorkEnds
  <2>7. CASE MainWorkFails
    BY <2>7 DEF MainWorkFails
  <2>8. CASE ScheduleRetry
    BY <2>8 DEF ScheduleRetry
  <2>9. CASE RetryTimerExpires
    BY <2>9 DEF RetryTimerExpires
  <2>10. CASE RetryFails
    BY <2>10 DEF RetryFails, BeginRetry
  <2>11. CASE FallbackTimerExpires
    BY <2>11 DEF FallbackTimerExpires
  <2>12. CASE UNCHANGED vars
    BY <2>12 DEF vars
  <2> QED
    BY <2>1, <2>2, <2>3, <2>4, <2>5, <2>6, <2>7, <2>8, <2>9, <2>10, <2>11,
       <2>12 DEF DeploymentNext, Start, StreamStep, RetryPolling,
                 deploymentVars
<1> QED
  BY <1>1, <1>2, OuterIsWrapper, Typing, PTL DEF DeploymentSpec

\* No stale retry ever restarts a healthy streamer, however often the owner
\* had to call Start.
THEOREM OneStreamRetryChain ==
    ASSUME MaxWork <= 1
    PROVE  DeploymentSpec => []SingleRetryChain
<1>1. DeploymentChain => SingleRetryChain
  BY DEF DeploymentChain
<1> QED
  BY <1>1, DeploymentChainInvariant, PTL

\* Whenever the stream is down the inner wrapper is up or about to be started.
THEOREM PollerCoversStream ==
    ASSUME MaxWork <= 1
    PROVE  DeploymentSpec => []FallbackCovers
<1>1. DeploymentInit => FallbackCovers
  BY DEF DeploymentInit, Init, FallbackCovers
<1>2. TypeOK /\ DeploymentChain /\ FallbackCovers
        /\ [DeploymentNext]_deploymentVars => FallbackCovers'
  <2> SUFFICES ASSUME TypeOK, DeploymentChain, FallbackCovers,
                      DeploymentNext \/ UNCHANGED deploymentVars
               PROVE  FallbackCovers'
    OBVIOUS
  <2> USE DEF TypeOK, FlagsOK, CountersOK, FallbackCovers, FallbackLoad,
              ownerVars, updaterVars, fallbackVars
  <2>1. CASE StartOnMain \/ StartOnFallback \/ StartFails
    BY <2>1 DEF StartOnMain, StartOnFallback, StartFails, MainStarted
  <2>2. CASE RetryStopsPolling
    BY <2>2 DEF RetryStopsPolling, RetrySucceeds, MainStarted
  <2>3. CASE StartPolling
    BY <2>3 DEF StartPolling, FallbackStartSucceeds, BeginFallbackStart
  <2>4. CASE PollingRefused
    BY <2>4 DEF PollingRefused, FallbackStartFails, BeginFallbackStart
  <2>5. CASE MainWorkBegins \/ MainWorkEnds
    BY <2>5 DEF MainWorkBegins, MainWorkEnds
  <2>6. CASE MainWorkFails
    BY <2>6 DEF MainWorkFails
  <2>7. CASE RetryFails
    <3>1. ~mainUp
      BY <2>7 DEF RetryFails, BeginRetry, DeploymentChain, SingleRetryChain,
                  RetryLoad
    <3> QED
      BY <2>7, <3>1 DEF RetryFails
  <2>8. CASE ScheduleRetry \/ RetryTimerExpires
    BY <2>8 DEF ScheduleRetry, RetryTimerExpires
  <2>9. CASE FallbackTimerExpires
    BY <2>9 DEF FallbackTimerExpires
  <2>10. CASE UNCHANGED vars
    BY <2>10 DEF vars
  <2> QED
    BY <2>1, <2>2, <2>3, <2>4, <2>5, <2>6, <2>7, <2>8, <2>9, <2>10
       DEF DeploymentNext, Start, StreamStep, RetryPolling, deploymentVars
<1> QED
  BY <1>1, <1>2, OuterIsWrapper, Typing, DeploymentChainInvariant, PTL
     DEF DeploymentSpec

LEMMA FallbackIsPollerInvariant == DeploymentSpec => []FallbackIsPoller
<1>1. DeploymentInit => FallbackIsPoller
  BY DEF DeploymentInit, Init, FallbackIsPoller
<1>2. FallbackIsPoller /\ [DeploymentNext]_deploymentVars
        => FallbackIsPoller'
  <2> SUFFICES ASSUME FallbackIsPoller,
                      DeploymentNext \/ UNCHANGED deploymentVars
               PROVE  FallbackIsPoller'
    OBVIOUS
  <2> USE DEF FallbackIsPoller, ownerVars, updaterVars
  <2>1. CASE Start
    BY <2>1 DEF Start, StartOnMain, MainStarted, StartOnFallback, StartFails,
                P!StartOnMain
  <2>2. CASE RetryStopsPolling
    BY <2>2 DEF RetryStopsPolling, RetrySucceeds, MainStarted
  <2>3. CASE StartPolling \/ PollingRefused
    BY <2>3 DEF StartPolling, PollingRefused, FallbackStartFails,
                P!StartOnMain
  <2>4. CASE StreamStep /\ UNCHANGED pVars
    BY <2>4 DEF StreamStep, MainWorkBegins, MainWorkEnds, MainWorkFails,
                ScheduleRetry, RetryTimerExpires, RetryFails,
                FallbackTimerExpires, pVars
  <2>5. CASE PollStep /\ UNCHANGED vars
    BY <2>5 DEF PollStep, vars, P!ownerVars, P!MainWorkBegins,
                P!MainWorkEnds, P!MainWorkFails, P!ScheduleRetry,
                P!RetryTimerExpires, P!FallbackStartAbandoned
  <2>6. CASE RetryPolling
    BY <2>6 DEF RetryPolling, vars, P!ownerVars, P!RetrySucceeds,
                P!RetryFails, P!RetryAbandoned
  <2>7. CASE UNCHANGED deploymentVars
    BY <2>7 DEF deploymentVars, vars, pVars
  <2> QED
    BY <2>1, <2>2, <2>3, <2>4, <2>5, <2>6, <2>7 DEF DeploymentNext
<1> QED
  BY <1>1, <1>2, PTL DEF DeploymentSpec

\* An outage of both updaters always has an end on its way: the fallback that
\* covers for the stream is a running inner wrapper, and that one retries the
\* poller.
THEOREM OutagesAreHandled ==
    ASSUME HasFallback, MaxWork <= 1
    PROVE  DeploymentSpec => []OutageIsHandled
<1>1. /\ DeploymentChain
      /\ FallbackCovers
      /\ FallbackIsPoller
      /\ PollerInv
      => OutageIsHandled
  BY DEF DeploymentChain, FallbackCovers, FallbackIsPoller, PollerInv,
         P!MainRetryPending, OutageIsHandled
<1> QED
  BY <1>1, DeploymentChainInvariant, PollerCoversStream,
     FallbackIsPollerInvariant, PollerInvariant, PTL

============================================================================
