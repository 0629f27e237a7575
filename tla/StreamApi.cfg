SPECIFICATION FairSpec
CONSTANTS
    MaxConns = 3
INVARIANTS
    TypeOK
    ConnectionReachable
    OpenStreamHasReader
    StopChIsOpen
    NeverSilentlyDead
PROPERTIES
    CallsReturn
\* A panic ends the process.
CHECK_DEADLOCK FALSE
