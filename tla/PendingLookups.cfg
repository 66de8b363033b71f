CONSTANTS
    c1 = c1
    c2 = c2
    p1 = p1
    k1 = k1
    k2 = k2
    Call = {c1, c2}
    Peer = {p1}
    LookupId = {k1, k2}
    Target <- MCTarget
    LookupOf <- MCLookupOf
    FirstByte <- MCFirstByte
    StrictClock = TRUE
    NoPeers = NoPeers
SPECIFICATION FairSpec
INVARIANTS
    HandlerNeverBlocks
    NoOrphanEntry
    ReplyIntegrity
PROPERTIES
    ReceiveLoopRecovers
    ImplementsRPC
CHECK_DEADLOCK FALSE
