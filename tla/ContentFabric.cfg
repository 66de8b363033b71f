CONSTANTS
    u = u
    v = v
    note = note
    film = film
    Client = {u, v}
    Content = {note, film}
    Bytes <- MCBytes
    ChunkThreshold = 8
    ChunkSize = 2
    ChunkHash <- MCChunkHash
    ProviderTTL = 5
    CleanupInterval = 2
    MaxStores = 2
    None = None
    Idle = Idle
SPECIFICATION Spec
INVARIANTS
    TypeOK
    LocalContentComplete
    ProvidersInWindow
    ManifestFollowsMeta
    SavedDescribesLocal
PROPERTIES
    MetaMeansBytes
CHECK_DEADLOCK FALSE
