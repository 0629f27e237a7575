SPECIFICATION DeploymentFairSpec
CONSTANTS
    HasFallback = TRUE
    MaxWork = 1
    MaxPending = 3
    MaxStarts = 2
    MaxPolls = 1
    MaxPollPending = 3
INVARIANTS
    SingleRetryChain
    FallbackCovers
    OutageIsHandled
PROPERTIES
    FlagsServed
    PollerKeepsPromise
CHECK_DEADLOCK FALSE
