SPECIFICATION FairSpec
CONSTANTS
    Run = run
    Other = {step}
    Events = 1
    Cap = 3
    Slack = 1
    MaxRetries = 1
    MaxRepairs = 2
    MaxFaults = 1
    MaxForget = 2
    MaxTabs = 1
CHECK_DEADLOCK FALSE
INVARIANT CompleteIsWhole
INVARIANT GapNeedsFault
PROPERTY StreamSettles
