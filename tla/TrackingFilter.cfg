SPECIFICATION Spec
CONSTANTS
    Keys = {k1, k2, k3, k4}
    Capacity = 2
    TTL = 3
    MaxTime = 6
INVARIANTS
    TypeOK
    CacheIsCoherent
    RecentIsRemembered
    ExpiryIsFixed
SYMMETRY Symmetry
