SPECIFICATION FairSpec
CONSTANTS
    r1 = r1
    r2 = r2
    Node = {1, 2, 3}
    Run = {r1, r2}
    Card = {1, 2, 3, 4}
    Request = {q1}
    NoNode = 0
    NoCard = 0
    NoRun = none
    Plans <- LifePlans
    MaxRounds = 1
    MaxFaults = 1
CHECK_DEADLOCK FALSE
INVARIANT ResumedOnce
INVARIANT ReusedNotRerun
INVARIANT StatusAgrees
PROPERTY RunsEnd
