\* Two tool calls in flight at once, one request or reply lost; one call while
\* the remote transport is not ready.
SPECIFICATION Spec
CONSTANTS
    RawNames = {"dev", " "}
    Locations = {"local", "acme"}
    Local = "local"
    NormalizeName <- MCNormalizeName
    NoName = NoName
    None = None
    Refs <- MCRefs
    TopicIds = {t1}
    Slots = {k1, k2}
    MaxFaults = 1
SYMMETRY SymmetryOfIds
CONSTRAINT AloneUnlessReady
INVARIANTS ToolsTypeOK ContextInv ChannelFeedsMatch JoinedHaveFeeds BackendAgrees
