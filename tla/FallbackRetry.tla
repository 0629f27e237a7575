--------------------------- MODULE FallbackRetry ---------------------------
(***************************************************************************)
(* flagConfigFallbackRetryWrapper: a main updater, an optional fallback    *)
(* updater, a timer that restarts the main one and a timer that restarts   *)
(* the fallback one.                                                       *)
(*                                                                         *)
(* Every method body and every timer body runs under w.lock, so each is    *)
(* one action.  What interleaves is what happens outside the lock: Start   *)
(* and Stop of the owner, goroutines spawned but not yet in the lock,      *)
(* timers that expire (after which time.Timer.Stop no longer prevents the  *)
(* body), and the main updater's own work, whose failure may be reported   *)
(* after the updater has been stopped or started again.                    *)
(*                                                                         *)
(* The wrapped updaters are seen through the flagConfigUpdater interface:  *)
(* Start returns an error or leaves the updater up, Stop leaves it down,   *)
(* and a failed Start leaves it down (both implementations stop first).    *)
(***************************************************************************)
EXTENDS Naturals

CONSTANTS
    HasFallback,    \* is w.fallbackUpdater non-nil?
    MaxWork,        \* bound: polls or receive loops of main in progress
    MaxPending,     \* bound: goroutines and timers of each kind
    MaxStarts       \* bound: Start calls by the owner

ASSUME FallbackRetryAssumption ==
    /\ HasFallback \in BOOLEAN
    /\ MaxWork \in Nat
    /\ MaxPending \in Nat
    /\ MaxStarts \in Nat

VARIABLES
    isRunning,          \* w.isRunning
    lastStart,          \* outcome of the owner's last Start: "none", "ok", "err"
    starts,             \* number of Start calls so far
    mainUp,             \* main was started and has not stopped since
    mainWork,           \* pieces of main's work that may still report a failure
    fallbackUp,         \* fallback was started and has not been stopped since
    retryTimer,         \* 1 if w.retryTimer refers to an unexpired timer, else 0
    lostRetryTimers,    \* unexpired retry timers w.retryTimer does not refer to
    retryCalls,         \* go scheduleRetry() goroutines not yet in the lock
    retryBodies,        \* expired retry timers whose body waits for the lock
    fallbackTimer,      \* the same of w.fallbackStartRetryTimer
    lostFallbackTimers, \* unexpired fallback timers no field refers to
    fallbackCalls       \* fallbackStart() calls not yet in the lock

ownerVars    == <<isRunning, lastStart, starts>>
updaterVars  == <<mainUp, mainWork, fallbackUp>>
retryVars    == <<retryTimer, lostRetryTimers, retryCalls, retryBodies>>
fallbackVars == <<fallbackTimer, lostFallbackTimers, fallbackCalls>>
vars == <<isRunning, lastStart, starts, mainUp, mainWork, fallbackUp,
          retryTimer, lostRetryTimers, retryCalls, retryBodies,
          fallbackTimer, lostFallbackTimers, fallbackCalls>>

\* What will still try to restart main, and to start the fallback.
RetryLoad    == retryTimer + lostRetryTimers + retryCalls + retryBodies
FallbackLoad == fallbackTimer + lostFallbackTimers + fallbackCalls

FlagsOK ==
    /\ isRunning \in BOOLEAN
    /\ lastStart \in {"none", "ok", "err"}
    /\ mainUp \in BOOLEAN
    /\ fallbackUp \in BOOLEAN

CountersOK ==
    /\ starts \in 0..MaxStarts
    /\ mainWork \in 0..MaxWork
    /\ retryTimer \in 0..1
    /\ lostRetryTimers \in Nat
    /\ retryCalls \in Nat
    /\ retryBodies \in Nat
    /\ fallbackTimer \in 0..1
    /\ lostFallbackTimers \in Nat
    /\ fallbackCalls \in Nat
    /\ RetryLoad <= MaxPending
    /\ FallbackLoad <= MaxPending

TypeOK == FlagsOK /\ CountersOK

Init ==
    /\ isRunning = FALSE
    /\ lastStart = "none"
    /\ starts = 0
    /\ mainUp = FALSE
    /\ mainWork = 0
    /\ fallbackUp = FALSE
    /\ retryTimer = 0
    /\ lostRetryTimers = 0
    /\ retryCalls = 0
    /\ retryBodies = 0
    /\ fallbackTimer = 0
    /\ lostFallbackTimers = 0
    /\ fallbackCalls = 0

----------------------------------------------------------------------------
(* Start and Stop, called by the owner. *)

\* The owner of this wrapper calls Start once more.
CountStart ==
    /\ starts < MaxStarts
    /\ starts' = starts + 1

\* retryTimer.Stop(); retryTimer = nil
BeginStart == retryTimer' = 0

\* "Main start success, stop fallback."
MainStarted ==
    /\ mainUp' = TRUE
    /\ fallbackTimer' = 0
    /\ fallbackUp' = FALSE

\* Mutant: isRunning is set only where the fallback started.
StartOnMainNotRunning ==
    /\ BeginStart
    /\ MainStarted
    /\ lastStart' = "ok"
    /\ UNCHANGED <<isRunning, mainWork, lostRetryTimers, retryCalls,
                   retryBodies, lostFallbackTimers, fallbackCalls>>

StartOnMain ==
    /\ BeginStart
    /\ MainStarted
    /\ isRunning' = TRUE
    /\ lastStart' = "ok"
    /\ UNCHANGED <<mainWork, lostRetryTimers, retryCalls, retryBodies,
                   lostFallbackTimers, fallbackCalls>>

\* Mutant: isRunning is set only where main started.
StartOnFallbackNotRunning ==
    /\ BeginStart
    /\ HasFallback
    /\ RetryLoad < MaxPending
    /\ mainUp' = FALSE
    /\ fallbackUp' = TRUE
    /\ lastStart' = "ok"
    /\ retryCalls' = retryCalls + 1
    /\ UNCHANGED <<isRunning, mainWork, lostRetryTimers, retryBodies,
                   fallbackVars>>

StartOnFallback ==
    /\ BeginStart
    /\ HasFallback
    /\ RetryLoad < MaxPending
    /\ mainUp' = FALSE
    /\ fallbackUp' = TRUE
    /\ isRunning' = TRUE
    /\ lastStart' = "ok"
    /\ retryCalls' = retryCalls + 1
    /\ UNCHANGED <<mainWork, lostRetryTimers, retryBodies, fallbackVars>>

\* Main cannot be started and the fallback cannot either, or there is none.
StartFails ==
    /\ BeginStart
    /\ mainUp' = FALSE
    /\ fallbackUp' = FALSE
    /\ lastStart' = "err"
    /\ UNCHANGED <<isRunning, mainWork, lostRetryTimers, retryCalls,
                   retryBodies, fallbackVars>>

Stop ==
    /\ isRunning' = FALSE
    /\ retryTimer' = 0
    /\ mainUp' = FALSE
    /\ fallbackTimer' = 0
    /\ fallbackUp' = FALSE
    /\ UNCHANGED <<lastStart, starts, mainWork, lostRetryTimers, retryCalls,
                   retryBodies, lostFallbackTimers, fallbackCalls>>

----------------------------------------------------------------------------
(* The main updater's work: a poll, or the receive loop of a connection. *)

MainWorkBegins ==
    /\ mainUp
    /\ mainWork < MaxWork
    /\ mainWork' = mainWork + 1
    /\ UNCHANGED <<ownerVars, mainUp, fallbackUp, retryVars, fallbackVars>>

MainWorkEnds ==
    /\ mainWork > 0
    /\ mainWork' = mainWork - 1
    /\ UNCHANGED <<ownerVars, mainUp, fallbackUp, retryVars, fallbackVars>>

\* The updater stops itself and calls onError, which spawns two goroutines.
MainWorkFails ==
    /\ mainWork > 0
    /\ RetryLoad < MaxPending
    /\ FallbackLoad < MaxPending
    /\ mainWork' = mainWork - 1
    /\ mainUp' = FALSE
    /\ retryCalls' = retryCalls + 1
    /\ fallbackCalls' = fallbackCalls + 1
    /\ UNCHANGED <<ownerVars, fallbackUp, retryTimer, lostRetryTimers,
                   retryBodies, fallbackTimer, lostFallbackTimers>>

----------------------------------------------------------------------------
(* The retry loop of the main updater. *)

\* Mutant: a timer found in the field is stopped but not replaced.
ScheduleRetryOnce ==
    /\ retryCalls > 0
    /\ retryCalls' = retryCalls - 1
    /\ retryTimer' = IF isRunning THEN 1 - retryTimer ELSE 0
    /\ UNCHANGED <<ownerVars, updaterVars, lostRetryTimers, retryBodies,
                   fallbackVars>>

\* A timer w.retryTimer still refers to is stopped and replaced.
ScheduleRetry ==
    /\ retryCalls > 0
    /\ retryCalls' = retryCalls - 1
    /\ retryTimer' = IF isRunning THEN 1 ELSE retryTimer
    /\ UNCHANGED <<ownerVars, updaterVars, lostRetryTimers, retryBodies,
                   fallbackVars>>

RetryTimerExpires ==
    /\ \/ /\ retryTimer = 1
          /\ retryTimer' = 0
          /\ UNCHANGED lostRetryTimers
       \/ /\ lostRetryTimers > 0
          /\ lostRetryTimers' = lostRetryTimers - 1
          /\ UNCHANGED retryTimer
    /\ retryBodies' = retryBodies + 1
    /\ UNCHANGED <<ownerVars, updaterVars, retryCalls, fallbackVars>>

\* Mutant: the body does not look at isRunning.
BeginRetryUnchecked ==
    /\ retryBodies > 0
    /\ retryBodies' = retryBodies - 1
    /\ retryTimer' = 0
    /\ lostRetryTimers' = lostRetryTimers + retryTimer

\* The body clears w.retryTimer, even when a newer timer is stored there.
BeginRetry ==
    /\ retryBodies > 0
    /\ retryBodies' = retryBodies - 1
    /\ isRunning
    /\ retryTimer' = 0
    /\ lostRetryTimers' = lostRetryTimers + retryTimer

RetrySucceeds ==
    /\ BeginRetry
    /\ MainStarted
    /\ UNCHANGED <<ownerVars, mainWork, retryCalls, lostFallbackTimers,
                   fallbackCalls>>

\* Mutant: a failed restart is also reported through onError.
RetryFailsTwice ==
    /\ BeginRetry
    /\ mainUp' = FALSE
    /\ retryCalls' = retryCalls + 2
    /\ UNCHANGED <<ownerVars, mainWork, fallbackUp, fallbackVars>>

RetryFails ==
    /\ BeginRetry
    /\ mainUp' = FALSE
    /\ retryCalls' = retryCalls + 1
    /\ UNCHANGED <<ownerVars, mainWork, fallbackUp, fallbackVars>>

RetryAbandoned ==
    /\ retryBodies > 0
    /\ ~isRunning
    /\ retryBodies' = retryBodies - 1
    /\ UNCHANGED <<ownerVars, updaterVars, retryTimer, lostRetryTimers,
                   retryCalls, fallbackVars>>

----------------------------------------------------------------------------
(* The start loop of the fallback updater. *)

BeginFallbackStart ==
    /\ fallbackCalls > 0
    /\ fallbackCalls' = fallbackCalls - 1
    /\ isRunning
    /\ HasFallback

FallbackStartSucceeds ==
    /\ BeginFallbackStart
    /\ fallbackUp' = TRUE
    /\ UNCHANGED <<ownerVars, mainUp, mainWork, retryVars, fallbackTimer,
                   lostFallbackTimers>>

\* Mutant: a fallback that does not start is given up.
FallbackStartGivesUp ==
    /\ BeginFallbackStart
    /\ fallbackUp' = FALSE
    /\ UNCHANGED <<ownerVars, mainUp, mainWork, retryVars, fallbackTimer,
                   lostFallbackTimers>>

\* The new timer overwrites the field without stopping the one it held.
FallbackStartFails ==
    /\ BeginFallbackStart
    /\ fallbackUp' = FALSE
    /\ fallbackTimer' = 1
    /\ lostFallbackTimers' = lostFallbackTimers + fallbackTimer
    /\ UNCHANGED <<ownerVars, mainUp, mainWork, retryVars>>

FallbackStartAbandoned ==
    /\ fallbackCalls > 0
    /\ ~isRunning \/ ~HasFallback
    /\ fallbackCalls' = fallbackCalls - 1
    /\ UNCHANGED <<ownerVars, updaterVars, retryVars, fallbackTimer,
                   lostFallbackTimers>>

FallbackTimerExpires ==
    /\ \/ /\ fallbackTimer = 1
          /\ fallbackTimer' = 0
          /\ UNCHANGED lostFallbackTimers
       \/ /\ lostFallbackTimers > 0
          /\ lostFallbackTimers' = lostFallbackTimers - 1
          /\ UNCHANGED fallbackTimer
    /\ fallbackCalls' = fallbackCalls + 1
    /\ UNCHANGED <<ownerVars, updaterVars, retryVars>>

----------------------------------------------------------------------------
Next ==
    \/ CountStart /\ (StartOnMain \/ StartOnFallback \/ StartFails)
    \/ Stop
    \/ MainWorkBegins \/ MainWorkEnds \/ MainWorkFails
    \/ ScheduleRetry \/ RetryTimerExpires
    \/ RetrySucceeds \/ RetryFails \/ RetryAbandoned
    \/ FallbackStartSucceeds \/ FallbackStartFails \/ FallbackStartAbandoned
    \/ FallbackTimerExpires

Spec == Init /\ [][Next]_vars

\* Go runs every goroutine that can run, and an armed timer expires.
SchedulerFairness ==
    /\ WF_vars(ScheduleRetry)
    /\ WF_vars(RetryTimerExpires)
    /\ WF_vars(RetrySucceeds \/ RetryFails \/ RetryAbandoned)
    /\ WF_vars(FallbackStartSucceeds \/ FallbackStartFails
                 \/ FallbackStartAbandoned)
    /\ WF_vars(FallbackTimerExpires)

\* The server behind the main updater does not refuse it for ever.
MainAvailable == SF_vars(RetrySucceeds)

FairSpec == Spec /\ SchedulerFairness /\ MainAvailable

----------------------------------------------------------------------------
(* Properties. *)

\* After Stop neither updater runs: no goroutine, expired timer or late
\* failure report that was on its way when Stop took the lock revives one.
StoppedMeansIdle == ~isRunning => ~mainUp /\ ~fallbackUp

\* While the wrapper runs after a successful Start and main is down, a retry
\* of main is always on its way, whichever of the concurrent scheduleRetry
\* calls and timer bodies stopped, replaced or cleared w.retryTimer.
MainRetryPending ==
    isRunning /\ lastStart = "ok" /\ ~mainUp => RetryLoad > 0

\* A running wrapper has main up or exactly one retry of it on its way, so no
\* stale retry restarts a healthy main updater.
SingleRetryChain ==
    isRunning => RetryLoad = (IF mainUp THEN 0 ELSE 1)

\* "if main failed, main enters retry loop and fallback will start": while
\* main is down the fallback is up or a start of it is on its way.
FallbackCovers ==
    isRunning /\ HasFallback /\ lastStart = "ok" /\ ~mainUp
        => fallbackUp \/ FallbackLoad > 0

\* "Main start success, stop fallback": once main is up and no failure is
\* being handled any more, the fallback is down.
MainStopsFallback ==
    mainUp /\ RetryLoad = 0 /\ FallbackLoad = 0 => ~fallbackUp

\* Main comes back up, unless the owner stops the wrapper or a later Start
\* fails.
MainRecovers ==
    isRunning /\ lastStart = "ok" ~> mainUp \/ ~isRunning \/ lastStart = "err"

\* The wrapper keeps the promise of a self-recovering updater, with either of
\* its two updaters serving.
U == INSTANCE RetryingUpdater WITH
        running  <- isRunning,
        promised <- (lastStart = "ok"),
        serving  <- (mainUp \/ fallbackUp)

ImplementsUpdater     == U!Spec
ImplementsFairUpdater == U!FairSpec

============================================================================
