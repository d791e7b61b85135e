\* Broken and doubled connections, a second location, failed notifications.
SPECIFICATION Spec
CONSTANTS
    Conns = {c1, c2}
    Topics = {t1}
    NoTopic = NoTopic
    Texts = {"hi", "ok"}
    DedupWindow = 2
    MaxDedupEntries = 1
    MaxEvents = 2
    MaxTime = 2
    MaxFaults = 1
CHECK_DEADLOCK FALSE
INVARIANTS TypeOK NothingDropped PassesOnce
PROPERTIES Reconnects
