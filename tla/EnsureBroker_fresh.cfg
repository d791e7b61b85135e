\* Several sessions start at once, no broker yet, nothing fails.
SPECIFICATION Spec
CONSTANTS
    Procs = {p1, p2, p3}
    Brokers = {b1, b2}
    NoBroker = NoBroker
    NoProc = NoProc
    StaleStart = FALSE
    MaxCrashes = 0
    MaxDeaths = 0
    NoTsx = FALSE
    Timely = TRUE
CHECK_DEADLOCK FALSE
INVARIANTS OneBroker
PROPERTIES EveryoneConnected LockReleased
