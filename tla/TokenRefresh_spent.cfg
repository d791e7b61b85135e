\* A session that slept while the grant on disk expired.
SPECIFICATION Spec
CONSTANTS
    Procs = {p1, p2}
    NoProc = NoProc
    Locations = {l1}
    Callers <- MCCallers
    ProcOf <- MCProcOf
    LocOf <- MCLocOf
    MaxCrashes = 0
    Slow = FALSE
    Timely = TRUE
    MaxGrants = 3
    MaxExpired = 2
    MaxFaults = 0
CHECK_DEADLOCK FALSE
SYMMETRY SymmetryOfNames
INVARIANT NoTokenSentTwice
