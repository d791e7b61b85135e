\* Crashes, losses, slow holders and failed writes.
SPECIFICATION FairSpec
CONSTANTS
    Procs = {p1, p2}
    NoProc = NoProc
    Locations = {l1, l2}
    Callers <- MCFewCallers
    ProcOf <- MCProcOf
    LocOf <- MCLocOf
    MaxCrashes = 1
    Slow = TRUE
    Timely = TRUE
    MaxGrants = 1
    MaxExpired = 0
    MaxFaults = 1
CHECK_DEADLOCK FALSE
PROPERTIES CallsEnd SlowHolderKept
