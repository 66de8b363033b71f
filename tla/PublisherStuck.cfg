CONSTANTS
    me = me
    p1 = p1
    p2 = p2
    meta = meta
    manifest = manifest
    chunk1 = chunk1
    Task = {meta, manifest, chunk1}
    Node = {me, p1, p2}
    Self = me
    LookupResults <- MCLookupResults
    ReplicationK = 3
    ErrCap = 2
SPECIFICATION FairPublishSpec
PROPERTY PublishReturns
CHECK_DEADLOCK FALSE
