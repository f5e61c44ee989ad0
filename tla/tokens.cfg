SPECIFICATION FairSpec
CONSTANTS
    c1 = c1
    c2 = c2
    s1 = s1
    p = p
    Callers = {c1, c2}
    Timed = {c1}
    Sweeps = {s1}
    Processes = {p}
    Home <- MCHome
    NoOne = none
    Rotating = {1}
    MaxFailures = 1
    MaxGrants = 2
    MaxAges = 3
    MaxTries = 3
    MaxFaults = 3
CHECK_DEADLOCK FALSE
INVARIANT GivesUp
PROPERTY DisconnectStays
PROPERTY CallersEnd
