CONSTANTS
    s1 = s1
    s2 = s2
    s3 = s3
    r1 = r1
    m1 = m1
    a = a
    b = b
    c = c
    d = d
    Seeder = {s1, s2, s3}
    Elector = {m1}
    Reader = {r1}
    Seed <- MCSeed
    Initial <- MCInitial
    K = 3
    MaxSupernodes = 2
    Nil = Nil
    Free = Free
SPECIFICATION Spec
INVARIANTS
    TypeOK
    BucketWellFormed
    SupernodesCurrent
PROPERTY ImplementsLRU
CHECK_DEADLOCK FALSE
