CONSTANTS
    me = me
    n1 = n1
    n2 = n2
    n3 = n3
    n4 = n4
    n5 = n5
    n6 = n6
    content = content
    none = none
    Node = {me, n1, n2, n3, n4, n5, n6}
    Self = me
    Targets = {content, me}
    Zero = none
    Tables <- MCTables
    Newcomers = {n6}
    NetworkTable = {n1}
    Answer <- MCAnswer
    Elect <- MCElect
    Alpha = 3
    MaxRounds = 5
    MaxTime = 5
    CallTimeout = 2
SPECIFICATION FairLookupSpec
INVARIANTS
    ReturnsInTime
    
    UsesItsBounds
PROPERTIES
    Terminates
