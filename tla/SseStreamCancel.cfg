SPECIFICATION Spec
CONSTANTS
    MaxConns = 2
INVARIANTS
    NoConnectionAfterCancel
