\* Crashes, dead brokers, slow starts, no tsx.
SPECIFICATION Spec
CONSTANTS
    Procs = {p1, p2}
    Brokers = {b1, b2, b3}
    NoBroker = NoBroker
    NoProc = NoProc
    StaleStart = TRUE
    MaxCrashes = 1
    MaxDeaths = 1
    NoTsx = TRUE
    Timely = FALSE
CHECK_DEADLOCK FALSE
PROPERTIES Returns
