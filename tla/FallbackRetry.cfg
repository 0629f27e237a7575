SPECIFICATION FairSpec
CONSTANTS
    HasFallback = TRUE
    MaxWork = 2
    MaxPending = 3
    MaxStarts = 3
INVARIANTS
    TypeOK
    StoppedMeansIdle
    MainRetryPending
PROPERTIES
    MainRecovers
    ImplementsFairUpdater
