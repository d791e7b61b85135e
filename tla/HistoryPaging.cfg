\* Limits below, at and above the bounds; posts in the same millisecond.
SPECIFICATION Spec
CONSTANTS
    HISTORY_DEFAULT_LIMIT = 2
    HISTORY_MAX_LIMIT = 3
    RawLimits = {NoNumber, 0, 1, 7}
    NoNumber = NoNumber
    MaxMessages = 6
    MaxTime = 3
CHECK_DEADLOCK FALSE
INVARIANTS PagesExact
PROPERTIES PageIsFull ReadsAll
