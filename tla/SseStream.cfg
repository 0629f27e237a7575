SPECIFICATION FairSpec
CONSTANTS
    MaxConns = 3
INVARIANTS
    TypeOK
    LiveIsCurrent
    ReaderIsServed
PROPERTIES
    ClosedStreamEnds
    ErrorsArrive
\* A closed stream comes to rest.
CHECK_DEADLOCK FALSE
