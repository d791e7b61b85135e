\* A channel or a topic, two feeds one after the other, late and lost replies.
SPECIFICATION Spec
CONSTANTS
    DEGRADATION_WINDOW = 0
    DEGRADATION_THRESHOLD = 2
    MaxTime = 1
    MaxFailures = 2
    Slots = {k1}
    SessionIds = {s1}
    NoSession = NoSession
    Peer = Peer
    DEDUP_CAPACITY = 2
    MaxRows = 2
    MaxFeeds = 2
CHECK_DEADLOCK FALSE
INVARIANTS TypeOK BreakerExact FeedsOwned NothingSkipped
PROPERTIES FeedSpec DeadBackendNoticed
