\* Two goroutines, a cursor file and a credentials file, failures and crashes
\* anywhere.
SPECIFICATION FairSpec
CONSTANTS
    Procs = {p1, p2}
    Paths = {cursor, credentials}
    LockedPaths = {cursor}
    Values = {v1, v2}
    Missing = Missing
    NoOp = NoOp
    Free = Free
    MaxFiles = 2
INVARIANTS NoLeftovers
PROPERTIES ImplementsRegister CallsEnd
