SPECIFICATION FairSpec
CONSTANTS
    Id = {1, 2, 3}
    NoStep = none
    Drafts <- MCDrafts
    Fixes <- MCFixes
    MaxRounds = 2
    MaxCalls = 5
    MaxFaults = 1
CHECK_DEADLOCK FALSE
INVARIANT NothingMissing
INVARIANT DoneOnce
INVARIANT TraceTells
INVARIANT UnsureWriteIsAnswered
INVARIANT GraphSearchRight
PROPERTY TurnEnds
