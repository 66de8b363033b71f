CONSTANTS
    me = me
    far = far
    Self = me
    Remote = {far}
    Absent = Absent
    Idle = Idle
    MaxRequests = 2
    MaxFailures = 3
SPECIFICATION FairSpec
INVARIANTS
    UnhealthyIsEarned
    NoAmplification
PROPERTIES
    RemoteRecovers
CHECK_DEADLOCK FALSE
