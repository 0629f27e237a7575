SPECIFICATION Spec
CONSTANTS
    k1 = k1
    k2 = k2
    Keys = {k1, k2}
    None = None
    Configs <- MCConfigs
INVARIANTS
    OutcomeIsEarned
    FetchIsBounded
\* A call ends.
CHECK_DEADLOCK FALSE
