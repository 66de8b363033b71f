CONSTANTS
    a = a
    b = b
    content = content
    x = x
    y = y
    p = p
    q = q
    Client = {a, b}
    Collection = {content}
    RecordId = {x, y}
    Payload = {p, q}
    NoPayload = NoPayload
    MaxVersion = 2
    MaxEpoch = 1
SPECIFICATION Spec
SYMMETRY Interchangeable
INVARIANTS
    VersionsContiguous
PROPERTIES
    NoLostUpdate
    HistoryKept
    ImplementsRegister
CHECK_DEADLOCK FALSE
