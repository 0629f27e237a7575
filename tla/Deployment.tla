----------------------------- MODULE Deployment -----------------------------
(***************************************************************************)
(* deploymentRunner with streaming: a flagConfigFallbackRetryWrapper whose *)
(* main updater is the streamer and whose fallback updater is a second     *)
(* wrapper, around the poller and without a fallback of its own.           *)
(*                                                                         *)
(* The outer wrapper is FallbackRetry itself, with the variables of that   *)
(* module.  The inner one is the instance P, with the variables below.     *)
(* The outer wrapper calls Start and Stop of the inner one while it holds  *)
(* its own lock, never the other way round, so such a step is one joint    *)
(* step of both: where FallbackRetry lets its fallback start or fail to    *)
(* start as it likes, here the inner wrapper decides.                      *)
(*                                                                         *)
(* Nothing in the client ever stops the outer wrapper, and the owner calls *)
(* Start again only when it has failed.                                    *)
(***************************************************************************)
EXTENDS FallbackRetry

CONSTANTS
    MaxPolls,       \* bound: polls of the inner wrapper's poller in progress
    MaxPollPending  \* bound: goroutines and timers of the inner wrapper

ASSUME DeploymentAssumption == MaxPolls \in Nat /\ MaxPollPending \in Nat

VARIABLES
    pRunning,       \* the inner wrapper's isRunning
    pLastStart,     \* outcome of the last Start the outer wrapper called
    polling,        \* the poller was started and has not stopped since
    polls,          \* its polls in progress, older pollers' included
    pRetryTimer, pLostTimers, pRetryCalls, pRetryBodies,   \* its retries
    pFallbackCalls  \* its fallbackStart() calls, which find no fallback

pVars == <<pRunning, pLastStart, polling, polls, pRetryTimer, pLostTimers,
           pRetryCalls, pRetryBodies, pFallbackCalls>>
deploymentVars == <<vars, pVars>>

\* It has no fallback that could be up (0 = 1 is FALSE in a form that TLC can
\* leave unchanged), and the Start calls of its owner are not counted.
P == INSTANCE FallbackRetry WITH
        HasFallback <- FALSE, fallbackUp <- (0 = 1),
        fallbackTimer <- 0, lostFallbackTimers <- 0,
        MaxStarts <- 0, starts <- 0,
        MaxWork <- MaxPolls, MaxPending <- MaxPollPending,
        isRunning <- pRunning, lastStart <- pLastStart,
        mainUp <- polling, mainWork <- polls,
        retryTimer <- pRetryTimer, lostRetryTimers <- pLostTimers,
        retryCalls <- pRetryCalls, retryBodies <- pRetryBodies,
        fallbackCalls <- pFallbackCalls

DeploymentInit == Init /\ P!Init

----------------------------------------------------------------------------
(* Joint steps: the outer wrapper calls the inner one. *)

Start ==
    /\ lastStart # "ok"
    /\ CountStart
    /\ \/ StartOnMain /\ P!Stop
       \/ StartOnFallback /\ P!StartOnMain
       \/ StartFails /\ P!StartFails

RetryStopsPolling == RetrySucceeds /\ P!Stop

StartPolling == FallbackStartSucceeds /\ P!StartOnMain

PollingRefused == FallbackStartFails /\ P!StartFails

----------------------------------------------------------------------------
(* Steps of one wrapper alone. *)

StreamStep ==
    \/ MainWorkBegins \/ MainWorkEnds \/ MainWorkFails
    \/ ScheduleRetry \/ RetryTimerExpires \/ RetryFails
    \/ FallbackTimerExpires

PollStep ==
    \/ P!MainWorkBegins \/ P!MainWorkEnds \/ P!MainWorkFails
    \/ P!ScheduleRetry \/ P!RetryTimerExpires \/ P!FallbackStartAbandoned

RetryPolling ==
    /\ P!RetrySucceeds \/ P!RetryFails \/ P!RetryAbandoned
    /\ UNCHANGED vars

DeploymentNext ==
    \/ Start
    \/ RetryStopsPolling \/ StartPolling \/ PollingRefused
    \/ StreamStep /\ UNCHANGED pVars
    \/ PollStep /\ UNCHANGED vars
    \/ RetryPolling

DeploymentSpec == DeploymentInit /\ [][DeploymentNext]_deploymentVars

\* Goroutines run and timers expire.  The server of the poller answers now
\* and then; that of the stream may refuse for ever.
DeploymentFairSpec ==
    /\ DeploymentSpec
    /\ WF_deploymentVars(ScheduleRetry /\ UNCHANGED pVars)
    /\ WF_deploymentVars(RetryTimerExpires /\ UNCHANGED pVars)
    /\ WF_deploymentVars(FallbackTimerExpires /\ UNCHANGED pVars)
    /\ WF_deploymentVars(RetryStopsPolling \/ (RetryFails /\ UNCHANGED pVars))
    /\ WF_deploymentVars(StartPolling \/ PollingRefused)
    /\ WF_deploymentVars(P!ScheduleRetry /\ UNCHANGED vars)
    /\ WF_deploymentVars(P!RetryTimerExpires /\ UNCHANGED vars)
    /\ WF_deploymentVars(RetryPolling)
    /\ WF_deploymentVars(P!FallbackStartAbandoned /\ UNCHANGED vars)
    /\ SF_deploymentVars(StartPolling)
    /\ SF_deploymentVars(P!RetrySucceeds /\ UNCHANGED vars)

----------------------------------------------------------------------------
(* Properties. *)

\* While neither the stream nor the poller is up, one of the three things
\* that can end the outage is on its way: the inner wrapper, running, will
\* retry the poller, or the outer one will start the inner one.  Waiting for
\* the stream alone would not do, since its server may refuse for ever.
OutageIsHandled ==
    isRunning /\ ~mainUp /\ ~polling
        => FallbackLoad > 0 \/ (pRunning /\ P!RetryLoad > 0)

\* Once Start has succeeded flag configurations are served, again and again,
\* by the stream or by the poller, even if the stream never comes back.
FlagsServed == isRunning ~> mainUp \/ polling

\* The inner wrapper, started and stopped by the outer one at any time, keeps
\* the promise of a self-recovering updater.
PollerKeepsPromise == P!ImplementsFairUpdater

============================================================================
