\* Two sessions with two locations each; one may be killed.
SPECIFICATION Spec
CONSTANTS
    Procs = {p1, p2}
    NoProc = NoProc
    Locations = {l1, l2}
    Callers <- MCCallers
    ProcOf <- MCProcOf
    LocOf <- MCLocOf
    MaxCrashes = 1
    Slow = FALSE
    Timely = FALSE
    MaxGrants = 2
    MaxExpired = 1
    MaxFaults = 0
CHECK_DEADLOCK FALSE
SYMMETRY SymmetryOfNames
INVARIANTS MutualExclusion NoTokenSentTwice FileUsable
