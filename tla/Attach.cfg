\* Two tool calls at a time and three attempts to attach.
SPECIFICATION Spec
CONSTANTS
    Slots = {c1, c2}
    MaxAttempts = 3
CHECK_DEADLOCK FALSE
INVARIANTS TypeOK RouterHealthy NoOrphan FeedsLive TriedOnce LossShown Known
