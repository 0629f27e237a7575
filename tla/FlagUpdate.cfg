SPECIFICATION FairSpec
CONSTANTS
    f1 = f1
    f2 = f2
    c1 = c1
    c2 = c2
    user = user
    org = org
    Flags <- MCFlags
    Cohorts <- MCCohorts
    Types <- MCTypes
    NoType = NoType
    MaxVersion = 3
    Loads <- MCLoads
INVARIANTS
    FlagsHaveCohorts
    StorageIsLatest
    StoredIsFound
PROPERTIES
    UpdatesEnd
    CohortsHeal
\* Without the cohort poll the feed ends after MaxVersion deliveries.
CHECK_DEADLOCK FALSE
