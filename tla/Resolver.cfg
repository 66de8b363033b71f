CONSTANTS
    me = me
    far = far
    wide = wide
    g1 = g1
    g2 = g2
    host = host
    blank = blank
    Self = me
    Remote = {far, wide}
    HostName = host
    Blank = blank
    Absent = Absent
    Goroutine = {g1, g2}
    Idle = Idle
    Key <- keys
    Kind <- kinds
    Host <- hosts
    NotCached = NotCached
    CacheTTL = 2
SPECIFICATION Spec
INVARIANTS
    AnswerIsRegular
    SettledAnswersExact
SYMMETRY symmetry
