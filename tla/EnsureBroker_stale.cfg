\* A dead broker's rendezvous file, and otherwise no failure.
SPECIFICATION Spec
CONSTANTS
    Procs = {p1, p2}
    Brokers = {b1, b2, b3}
    NoBroker = NoBroker
    NoProc = NoProc
    StaleStart = TRUE
    MaxCrashes = 0
    MaxDeaths = 0
    NoTsx = FALSE
    Timely = TRUE
CHECK_DEADLOCK FALSE
INVARIANT OneBroker
