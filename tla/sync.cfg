SPECIFICATION FairSpec
CONSTANTS
    m1 = m1
    m2 = m2
    Msg = {m1, m2}
    Histories <- TwoChanges
    Connected = 1
    Slot = {s1, s2}
    Page = 1
    MaxPages = 1
    Limit = 1
    CircuitAfter = 1
    GoneStatus = {404, 410}
    MaxMishaps = 1
INVARIANT NothingSkipped
INVARIANT BackfillIsWhole
PROPERTY CatchesUp
