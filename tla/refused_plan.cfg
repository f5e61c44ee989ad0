SPECIFICATION Spec
CONSTANTS
    Id = {1, 2}
    NoStep = none
    Drafts <- RefusedDrafts
    Fixes <- RefusedFixes
    MaxRounds = 0
    MaxCalls = 5
    MaxFaults = 0
CHECK_DEADLOCK FALSE
INVARIANT ResumesWhatWasAccepted
