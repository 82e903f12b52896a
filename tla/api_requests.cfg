SPECIFICATION FairSpec
CONSTANTS
    q1 = q1
    q2 = q2
    c1 = c1
    c2 = c2
    r1 = r1
    Request = {q1, q2}
    Caller = {c1, c2}
    Row = {r1}
    Owners <- FirstOwns
    PoolSize = 1
    Served <- Few
INVARIANTS
    OnlyOwnRows
    RefusalsChangeNothing
    CutOnlyAfterGrace
    CleanExit
PROPERTIES
    Answered
    Stops
