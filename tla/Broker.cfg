\* Two sessions, two spellings of one channel, another and a blank name, one
\* topic with two messages, and two SSE connections.
SPECIFICATION Spec
CONSTANTS
    Sessions = {s1, s2}
    RawChannels = {"dev", "Dev", "ops", " "}
    NormalizeChannel <- MCNormalizeChannel
    NoChannel = NoChannel
    Titles = {"plan"}
    NormalizeTitle <- MCNormalizeTitle
    Texts = {"hi"}
    TopicIds = {t1}
    Clients = {c1, c2}
    RelayedEvents <- MCRelayedEvents
    MaxMessages = 2
    MaxStream = 2
SYMMETRY SymmetryOfNames
INVARIANTS MembershipInv StreamsAgree HistoryIsStream
PROPERTIES TopicsAppendOnly
