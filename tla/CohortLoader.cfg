SPECIFICATION FairSpec
CONSTANTS
    c1 = c1
    c2 = c2
    Cohorts <- MCCohorts
    Tasks = {t1, t2}
    Waiters = {w1, w2}
    None = None
    MaxVersion <- MCMaxVersion
PROPERTIES
    ImplementsSingleFlight
    CohortNeverGoesBack
